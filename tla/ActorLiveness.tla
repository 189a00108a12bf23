--------------------------- MODULE ActorLiveness ---------------------------
(***************************************************************************)
(* Who is alive.  Actors register and send heartbeats from a thread of     *)
(* their own; the learner drops an actor it has not heard from for         *)
(* actor_timeout_s and updates only while it knows one (coordinator_rpc.py, *)
(* coordinator_metrics.py, coordinator_policy.py).  Because heartbeats go  *)
(* on while the collection thread is blocked in a native call, the         *)
(* heartbeat thread also watches the collection thread and ends the        *)
(* process when it makes no step (actor_watchdog.py).  Time is counted in  *)
(* ticks of the longest heartbeat interval.                                *)
(***************************************************************************)
EXTENDS Integers, FiniteSets

CONSTANTS
    Unset,      \* no value
    Actor,      \* the actor processes
    Timeout,    \* actor_timeout_s, in ticks
    StallLimit, \* actor_stall_timeout_s, in ticks
    Grace       \* STALL_EXIT_GRACE_S, in ticks

ASSUME LivenessAssumption ==
    /\ Timeout \in Nat \ {0} /\ StallLimit \in Nat \ {0} /\ Grace \in Nat
    /\ Unset \notin Int

VARIABLES
    silence,    \* ticks since the learner heard from an actor, Unset if it is not in the table
    overdue,    \* the actors a timeout check found silent in its copy of the table
    ending,     \* should_stop() of the learner
    process,    \* per actor: not registered, up, or ended
    work,       \* the collection thread
    idle,       \* ticks since the collection thread touched the watchdog, Unset before it is armed
    stopped,    \* runtime.stop of the actor
    beating,    \* the heartbeat thread runs
    grace       \* ticks until the hard exit, Unset if none is pending

livenessVars == <<silence, overdue, ending, process, work, idle, stopped, beating, grace>>

Works == {"setup", "stepping", "paused", "spoolFull", "blocked", "left"}

LivenessInit ==
    /\ silence = [a \in Actor |-> Unset]
    /\ overdue = {} /\ ending = FALSE
    /\ process = [a \in Actor |-> "registering"]
    /\ work = [a \in Actor |-> "setup"]
    /\ idle = [a \in Actor |-> Unset]
    /\ stopped = [a \in Actor |-> FALSE]
    /\ beating = [a \in Actor |-> FALSE]
    /\ grace = [a \in Actor |-> Unset]

-----------------------------------------------------------------------------
(* The learner's table.                                                     *)

Heard(a) == silence' = [silence EXCEPT ![a] = 0]

\* can_update() asks for one actor in the table.
HasActiveActor == \E a \in Actor : silence[a] # Unset

\* check_actor_timeouts copies the table under the lock and decides on the copy.
BeginTimeoutCheck ==
    /\ overdue = {}
    /\ overdue' = {a \in Actor : silence[a] # Unset /\ silence[a] > Timeout}
    /\ overdue' # {}
    /\ UNCHANGED <<silence, ending, process, work, idle, stopped, beating, grace>>

\* Faulty: the timeout is logged and the entry stays.
RecordTimeoutOnly(a) ==
    /\ a \in overdue
    /\ overdue' = overdue \ {a}
    /\ UNCHANGED <<silence, ending, process, work, idle, stopped, beating, grace>>

\* An overdue actor leaves the table, also if it was heard from since the copy.
RecordTimeout(a) ==
    /\ a \in overdue
    /\ overdue' = overdue \ {a}
    /\ silence' = [silence EXCEPT ![a] = Unset]
    /\ UNCHANGED <<ending, process, work, idle, stopped, beating, grace>>

LearnerEnds ==
    /\ ~ending
    /\ ending' = TRUE
    /\ UNCHANGED <<silence, overdue, process, work, idle, stopped, beating, grace>>

-----------------------------------------------------------------------------
(* The heartbeat thread of an actor.                                        *)

\* Registration is retried until the learner answers; then the threads start.
Register(a) ==
    /\ process[a] = "registering" /\ ~stopped[a]
    /\ Heard(a)
    /\ process' = [process EXCEPT ![a] = "up"]
    /\ beating' = [beating EXCEPT ![a] = TRUE]
    /\ UNCHANGED <<overdue, ending, work, idle, stopped, grace>>

Stalled(a) == idle[a] # Unset /\ idle[a] > StallLimit

\* Faulty: a stalled actor gets its hard exit but is not told to stop.
AfterBeatWithoutStop(a, stop) ==
    /\ stopped' = [stopped EXCEPT ![a] = stop]
    /\ beating' = [beating EXCEPT ![a] = ~(stop \/ Stalled(a))]
    /\ grace' = [grace EXCEPT ![a] = IF ~stop /\ Stalled(a) THEN Grace ELSE grace[a]]

\* What the thread does after the call, whether or not it was answered: it ends on a stop, and
\* it stops the actor and starts the hard exit if the collection thread has stalled.
AfterBeat(a, stop) ==
    /\ stopped' = [stopped EXCEPT ![a] = stop \/ Stalled(a)]
    /\ beating' = [beating EXCEPT ![a] = ~(stop \/ Stalled(a))]
    /\ grace' = [grace EXCEPT ![a] = IF ~stop /\ Stalled(a) THEN Grace ELSE grace[a]]

CanBeat(a) == process[a] = "up" /\ beating[a] /\ ~stopped[a]

\* Faulty: the heartbeat of an actor that timed out is not recorded.
HeartbeatOfKnown(a) ==
    /\ CanBeat(a)
    /\ silence' = [silence EXCEPT ![a] = IF silence[a] = Unset THEN Unset ELSE 0]
    /\ AfterBeat(a, ending)
    /\ UNCHANGED <<overdue, ending, process, work, idle>>

\* Faulty: the heartbeat touches the watchdog.
HeartbeatTouching(a) ==
    /\ CanBeat(a)
    /\ Heard(a)
    /\ idle' = [idle EXCEPT ![a] = IF idle[a] = Unset THEN Unset ELSE 0]
    /\ AfterBeat(a, ending)
    /\ UNCHANGED <<overdue, ending, process, work>>

Heartbeat(a) ==
    /\ CanBeat(a)
    /\ Heard(a)
    /\ AfterBeat(a, ending)
    /\ UNCHANGED <<overdue, ending, process, work, idle>>

\* The call fails or its answer is lost; the learner may have recorded it.
FailedHeartbeat(a) ==
    /\ CanBeat(a)
    /\ \/ Heard(a)
       \/ UNCHANGED silence
    /\ AfterBeat(a, FALSE)
    /\ UNCHANGED <<overdue, ending, process, work, idle>>

\* A stop from another thread: the heartbeat thread ends at its next wait.
StopActor(a) ==
    /\ process[a] = "up" /\ ~stopped[a]
    /\ stopped' = [stopped EXCEPT ![a] = TRUE]
    /\ beating' = [beating EXCEPT ![a] = FALSE]
    /\ UNCHANGED <<silence, overdue, ending, process, work, idle, grace>>

-----------------------------------------------------------------------------
(* The collection thread of an actor.                                       *)

Touch(a) == idle' = [idle EXCEPT ![a] = 0]

CollectorMoves(a, from, to) ==
    /\ process[a] = "up" /\ work[a] \in from
    /\ work' = [work EXCEPT ![a] = to]
    /\ UNCHANGED <<silence, overdue, ending, process, stopped, beating, grace>>

\* Collection arms the watchdog before the first reset.
BeginCollection(a) == ~stopped[a] /\ CollectorMoves(a, {"setup"}, "stepping") /\ Touch(a)

\* A step, a reset that answers, and an attempt while the game window is away all touch the
\* watchdog; waiting for spool space does not.
StepOrReset(a) ==
    ~stopped[a] /\ CollectorMoves(a, {"stepping", "paused", "spoolFull"}, "stepping") /\ Touch(a)
WaitForWindow(a) == ~stopped[a] /\ CollectorMoves(a, {"stepping", "paused"}, "paused") /\ Touch(a)
WaitForSpool(a) == ~stopped[a] /\ CollectorMoves(a, {"stepping"}, "spoolFull") /\ UNCHANGED idle

\* A reset or a native input call that never returns.
Block(a) == CollectorMoves(a, {"setup", "stepping"}, "blocked") /\ UNCHANGED idle

\* Collection ends at its next check of the stop flag; a blocked thread makes none.
LeaveLoop(a) ==
    /\ stopped[a]
    /\ CollectorMoves(a, {"setup", "stepping", "paused", "spoolFull"}, "left")
    /\ UNCHANGED idle

\* The process ends with its collection thread; the other threads are daemons.
ActorProcessEnds(a) ==
    /\ process[a] = "up" /\ work[a] = "left"
    /\ process' = [process EXCEPT ![a] = "ended"]
    /\ UNCHANGED <<silence, overdue, ending, work, idle, stopped, beating, grace>>

\* The hard exit, if the stop did not complete in time.
HardExit(a) ==
    /\ process[a] = "up" /\ grace[a] = 0
    /\ process' = [process EXCEPT ![a] = "ended"]
    /\ UNCHANGED <<silence, overdue, ending, work, idle, stopped, beating, grace>>

ActorCrash(a) ==
    /\ process[a] = "up"
    /\ process' = [process EXCEPT ![a] = "ended"]
    /\ UNCHANGED <<silence, overdue, ending, work, idle, stopped, beating, grace>>

-----------------------------------------------------------------------------
\* One tick.  Ages are counted up to one more than the limit they are compared with.
OlderWithoutEnd(age, limit) == IF age = Unset THEN age ELSE age + 1    \* faulty
Older(age, limit) == IF age = Unset \/ age > limit THEN age ELSE age + 1

Tick ==
    /\ \A a \in Actor : process[a] = "up" => grace[a] # 0
    /\ silence' = [a \in Actor |-> Older(silence[a], Timeout)]
    /\ idle' = [a \in Actor |-> IF process[a] = "up" THEN Older(idle[a], StallLimit) ELSE idle[a]]
    /\ grace' = [a \in Actor |-> IF grace[a] = Unset \/ grace[a] = 0 THEN grace[a] ELSE grace[a] - 1]
    /\ UNCHANGED <<overdue, ending, process, work, stopped, beating>>

Beat(a) == Register(a) \/ Heartbeat(a)

CollectorStep(a) ==
    BeginCollection(a) \/ StepOrReset(a) \/ WaitForWindow(a) \/ WaitForSpool(a)

LivenessNext ==
    \/ BeginTimeoutCheck \/ LearnerEnds \/ Tick
    \/ \E a \in Actor :
        \/ RecordTimeout(a) \/ Beat(a) \/ FailedHeartbeat(a) \/ StopActor(a)
        \/ CollectorStep(a) \/ Block(a) \/ LeaveLoop(a)
        \/ ActorProcessEnds(a) \/ HardExit(a) \/ ActorCrash(a)

LivenessSpec == LivenessInit /\ [][LivenessNext]_livenessVars

\* The learner loop keeps checking, time passes, and the threads that are not blocked run.
LivenessFairness ==
    /\ WF_livenessVars(BeginTimeoutCheck) /\ WF_livenessVars(Tick)
    /\ \A a \in Actor :
        /\ WF_livenessVars(RecordTimeout(a))
        /\ WF_livenessVars(Beat(a))
        /\ WF_livenessVars(LeaveLoop(a)) /\ WF_livenessVars(ActorProcessEnds(a))
        /\ WF_livenessVars(HardExit(a))

LivenessFairSpec == LivenessSpec /\ LivenessFairness

-----------------------------------------------------------------------------
\* Types.
LivenessTypeOK ==
    /\ silence \in [Actor -> (0 .. Timeout + 1) \cup {Unset}]
    /\ overdue \subseteq Actor /\ ending \in BOOLEAN
    /\ process \in [Actor -> {"registering", "up", "ended"}]
    /\ work \in [Actor -> Works]
    /\ idle \in [Actor -> (0 .. StallLimit + 1) \cup {Unset}]
    /\ stopped \in [Actor -> BOOLEAN] /\ beating \in [Actor -> BOOLEAN]
    /\ grace \in [Actor -> (0 .. Grace) \cup {Unset}]

\* The hard exit is armed only for an actor that was told to stop, and a process whose
\* collection thread left by itself is never kept up by it.
HardExitFollowsStop == \A a \in Actor : grace[a] # Unset => stopped[a] /\ ~beating[a]

\* An armed collection thread that blocks for ever does not keep its actor up, although its
\* heartbeats are answered all the time: the process ends, unless a stop for another reason
\* ended the heartbeat thread before it saw the stall.
BlockedActorsEnd ==
    \A a \in Actor : (work[a] = "blocked" /\ idle[a] # Unset)
        ~> (process[a] = "ended" \/ (stopped[a] /\ grace[a] = Unset))

\* The learner does not update for ever on behalf of actors that are gone.
UpdatesEndWithTheActors == (\A a \in Actor : process[a] = "ended") ~> ~HasActiveActor

\* A live actor whose entry was removed on a stale copy of the table comes back with its next
\* heartbeat, so the learner never waits for ever for an actor that is there.
LiveActorsCount ==
    \A a \in Actor :
        (process[a] = "up" /\ ~stopped[a])
            ~> (silence[a] # Unset \/ stopped[a] \/ process[a] = "ended")

\* The table follows the actors: none is kept for ever, none that lives is left out for ever.
TableFollowsTheActors == UpdatesEndWithTheActors /\ LiveActorsCount

=============================================================================
