---------------------------- MODULE ActorControl ----------------------------
(***************************************************************************)
(* The control signals between the learner and one distributed actor: the  *)
(* policy versions it plays and reports, the refresh that follows a        *)
(* rejection, and the evaluations the learner schedules.  The actor runs    *)
(* the collection thread, one thread per sender and the policy thread      *)
(* (actor.py, actor_background.py, actor_collection.py); they share flags  *)
(* and one evaluation request slot.  The learner answers a Submit in three *)
(* steps, between which its loop goes on; a sender that waits too long     *)
(* submits the same rollout again, and the first handler runs on for       *)
(* nobody.                                                                 *)
(***************************************************************************)
EXTENDS Integers, FiniteSets

CONSTANTS
    None,           \* no value
    Sender,         \* the sender threads, max_inflight_chunks of them
    SoftLag,        \* soft_policy_lag_updates
    HardLag,        \* hard_policy_lag_updates
    EvaluateEvery,  \* evaluate_every_episodes
    MaxUpdates,     \* bound: learner updates
    MaxRollouts,    \* bound: training rollouts are spooled while fewer have been numbered
    MaxSpooled,     \* bound: rollouts waiting in the spool
    MaxLost         \* bound: calls that fail

ASSUME ControlAssumption ==
    /\ SoftLag \in Nat /\ HardLag \in Nat /\ EvaluateEvery \in Nat \ {0}
    /\ MaxUpdates \in Nat /\ MaxRollouts \in Nat /\ MaxSpooled \in Nat /\ MaxLost \in Nat
    /\ None \notin Int /\ IsFiniteSet(Sender) /\ \A s \in Sender : s \notin Int

VARIABLES
    updates,    \* counters.updates of the learner
    published,  \* counters.policy_version: the update the published policy was taken at
    publishing, \* the learner made an update and has not yet seen to its publication
    due,        \* the actor is in _evaluation_due
    episodes,   \* counters.episodes: summaries ingested
    inbox,      \* accepted episode summaries the learner loop has not ingested
    received,   \* sequence numbers in the journal
    stopping,   \* should_stop() of the learner
    held,       \* version of the actor's PolicyReference
    stop,       \* runtime.stop
    refresh,    \* runtime.force_refresh
    timer,      \* the refresh interval of the policy thread has passed
    poll,       \* the policy thread: its step, and the version it was answered
    evaluate,   \* runtime.evaluate
    request,    \* runtime._evaluation_request: a version, or None
    collector,  \* the collection thread: its step, and the version it plays
    spooled,    \* rollouts on disk not taken by a sender
    sequence,   \* the next sequence number
    calls,      \* the Submit calls: step, rollout, and the answer as far as it is made
    lost,       \* calls that failed so far
    scheduled,  \* history: evaluations put into _evaluation_due
    evaluated,  \* history: evaluations played
    worstLag    \* history: the largest age of journalled transitions at their lag check

learnerVars == <<updates, published, publishing, due, episodes, inbox, received, stopping>>
threadVars  == <<held, refresh, timer, poll>>
requestVars == <<evaluate, request, collector>>
spoolVars   == <<spooled, sequence, calls, lost>>
history     == <<scheduled, evaluated, worstLag>>
controlVars == <<learnerVars, threadVars, requestVars, spoolVars, stop, history>>

Version == 0 .. MaxUpdates

\* A spooled rollout; "played" is the policy its transitions were played with, which the program
\* does not send.
Rollout == [seq: Nat, version: Version, played: Version,
            transitions: BOOLEAN, episode: BOOLEAN]

\* The answer of a Submit call.  "checked" is the number of updates the handler measured the lag
\* against; the answer carries the difference.
Answer == [accepted: BOOLEAN, checked: Version, evaluation: Version \cup {None},
           refresh: BOOLEAN, stop: BOOLEAN]

\* Each sender has at most one call; a number stands for a handler whose sender gave up waiting.
Call == Sender \cup (1 .. MaxLost)

IdleCall == [step |-> "idle", rollout |-> None, answer |-> None]

ControlInit ==
    /\ updates = 0 /\ published = 0 /\ publishing = FALSE
    /\ due = FALSE /\ episodes = 0 /\ inbox = 0 /\ received = {} /\ stopping = FALSE
    /\ held = 0 /\ stop = FALSE /\ refresh = FALSE /\ timer = TRUE
    /\ poll = [step |-> "wait", version |-> 0]
    /\ evaluate = FALSE /\ request = None
    /\ collector = [step |-> "loop", version |-> 0]
    /\ spooled = {} /\ sequence = 0 /\ lost = 0
    /\ calls = [c \in Call |-> IdleCall]
    /\ scheduled = 0 /\ evaluated = 0 /\ worstLag = 0

-----------------------------------------------------------------------------
(* The learner.                                                             *)

NewVersionTwice == updates + 2   \* faulty: the update is counted twice
NewVersion == updates + 1

\* One learner update; a submission that is checked from here on is measured against it.
Update ==
    /\ updates < MaxUpdates /\ ~publishing
    /\ updates' = NewVersion
    /\ publishing' = TRUE
    /\ UNCHANGED <<published, due, episodes, inbox, received, stopping,
                   threadVars, requestVars, spoolVars, stop, history>>

\* After each update, and only then, the learner publishes if the refresh interval has passed.
Publish ==
    /\ publishing
    /\ published' \in {published, updates}
    /\ publishing' = FALSE
    /\ UNCHANGED <<updates, due, episodes, inbox, received, stopping,
                   threadVars, requestVars, spoolVars, stop, history>>

\* The learner loop ingests one episode summary and schedules an evaluation every
\* EvaluateEvery episodes; an actor that is already due stays due once.
IngestEpisode ==
    /\ inbox > 0 /\ ~publishing
    /\ inbox' = inbox - 1
    /\ episodes' = episodes + 1
    /\ IF episodes' % EvaluateEvery = 0
       THEN due' = TRUE /\ scheduled' = scheduled + 1
       ELSE UNCHANGED <<due, scheduled>>
    /\ UNCHANGED <<updates, published, publishing, received, stopping, evaluated, worstLag,
                   threadVars, requestVars, spoolVars, stop>>

\* should_stop() turns true: enough transitions, the evaluation target, or Ctrl+C.
LearnerStops ==
    /\ ~stopping
    /\ stopping' = TRUE
    /\ UNCHANGED <<updates, published, publishing, due, episodes, inbox, received,
                   threadVars, requestVars, spoolVars, stop, history>>

Lag(rollout) == IF updates > rollout.version THEN updates - rollout.version ELSE 0

Rejects(rollout) == rollout.transitions /\ Lag(rollout) > HardLag

\* The actor is taken out of the due set before the answer leaves the learner, and only once a
\* policy was published after training started.
Assigned == due /\ published > 0

StaysDueUntilPlayed == due      \* faulty: the actor stays due until its evaluation arrives
StaysDue == due /\ ~Assigned

\* A call goes on to a step.
Moves(c, step, rollout, answer) ==
    calls' = [calls EXCEPT ![c] = [step |-> step, rollout |-> rollout, answer |-> answer]]

\* The handler's answer is there; a call nobody waits for ends with it.
Answers(c, answer) ==
    IF c \in Sender THEN Moves(c, "answered", calls[c].rollout, answer)
                    ELSE Moves(c, "idle", None, None)

\* What a handler reads under the lock when it checks the lag.
Submission(c, accepted) ==
    [accepted |-> accepted, checked |-> updates, evaluation |-> None,
     refresh |-> ~accepted \/ Lag(calls[c].rollout) > SoftLag, stop |-> stopping]

\* The lag check of a Submit: the handler reads the updates and whether the learner stops, and
\* lets go of the lock.
Admit(c) ==
    /\ calls[c].step = "call"
    /\ ~Rejects(calls[c].rollout)
    /\ Moves(c, "checked", calls[c].rollout, Submission(c, TRUE))
    /\ UNCHANGED <<learnerVars, threadVars, requestVars, spooled, sequence, lost, stop, history>>

\* The lag check of a rollout whose policy is too old.
Reject(c) ==
    /\ calls[c].step = "call"
    /\ Rejects(calls[c].rollout)
    /\ Answers(c, Submission(c, FALSE))
    /\ UNCHANGED <<learnerVars, threadVars, requestVars, spooled, sequence, lost, stop, history>>

\* The age of a call's transitions when its lag was checked.
Age(c) == calls[c].answer.checked - calls[c].rollout.played

\* The rollout is appended to the journal, once, and the learner loop is woken for it.
Journal(c) ==
    LET rollout == calls[c].rollout IN
    /\ calls[c].step = "checked"
    /\ Moves(c, "journalled", rollout, calls[c].answer)
    /\ received' = received \cup {rollout.seq}
    /\ inbox' = IF rollout.episode /\ rollout.seq \notin received THEN inbox + 1 ELSE inbox
    /\ worstLag' = IF rollout.transitions /\ Age(c) > worstLag THEN Age(c) ELSE worstLag
    /\ UNCHANGED <<updates, published, publishing, due, episodes, stopping, spooled, sequence,
                   lost, scheduled, evaluated, threadVars, requestVars, stop>>

\* An evaluation is handed out if one is due, and the call is answered.
AssignEvaluation(c) ==
    /\ calls[c].step = "journalled"
    /\ Answers(c, [calls[c].answer EXCEPT !.evaluation = IF Assigned THEN published ELSE None])
    /\ due' = StaysDue
    /\ UNCHANGED <<updates, published, publishing, episodes, inbox, received, stopping,
                   threadVars, requestVars, spooled, sequence, lost, stop, history>>

\* The call's deadline passes: the request is not yet taken up, its handler is under way, or the
\* answer is lost.  A handler that was reached runs on, for nobody.
LoseCall(s) ==
    /\ calls[s].step \in {"call", "checked", "journalled", "answered"}
    /\ lost < MaxLost
    /\ lost' = lost + 1
    /\ calls' = [calls EXCEPT
           ![s] = [step |-> "retry", rollout |-> calls[s].rollout, answer |-> None],
           ![lost + 1] = IF calls[s].step = "answered" THEN IdleCall ELSE calls[s]]
    /\ UNCHANGED <<learnerVars, threadVars, requestVars, spooled, sequence, stop, history>>

-----------------------------------------------------------------------------
(* The sender threads of the actor.                                         *)

\* A sender takes the oldest spooled rollout, also after a stop: the queue is drained.
TakeRollout(s) ==
    \E rollout \in spooled :
        /\ calls[s].step = "idle"
        /\ \A other \in spooled : rollout.seq <= other.seq
        /\ spooled' = spooled \ {rollout}
        /\ Moves(s, "call", rollout, None)
        /\ UNCHANGED <<learnerVars, threadVars, requestVars, sequence, lost, stop, history>>

\* After a failed call the sender waits and submits again; once the actor stops it gives up and
\* the rollout stays on disk.
SubmitAgain(s) ==
    /\ calls[s].step = "retry"
    /\ IF stop THEN Moves(s, "idle", None, None) ELSE Moves(s, "call", calls[s].rollout, None)
    /\ UNCHANGED <<learnerVars, threadVars, requestVars, spooled, sequence, lost, stop, history>>

\* The first signals of an answer: the refresh flag, then the request slot, which is
\* overwritten; the evaluation flag is raised in a later step.
HandleSignals(s) ==
    LET answer == calls[s].answer IN
    /\ calls[s].step = "answered"
    /\ refresh' = (refresh \/ answer.refresh)
    /\ request' = IF answer.evaluation = None THEN request ELSE answer.evaluation
    /\ Moves(s, "signalled", calls[s].rollout, answer)
    /\ UNCHANGED <<learnerVars, held, timer, poll, evaluate, collector,
                   spooled, sequence, lost, stop, history>>

\* The rest of the answer: the evaluation flag, the stop flag and the refresh flag of a
\* rejection; the rollout leaves the disk either way.
SettleRollout(s) ==
    LET answer == calls[s].answer IN
    /\ calls[s].step = "signalled"
    /\ evaluate' = (evaluate \/ answer.evaluation # None)
    /\ stop' = (stop \/ answer.stop)
    /\ refresh' = (refresh \/ ~answer.accepted)
    /\ Moves(s, "idle", None, None)
    /\ UNCHANGED <<learnerVars, held, timer, poll, request, collector,
                   spooled, sequence, lost, history>>

-----------------------------------------------------------------------------
(* The policy thread of the actor.                                          *)

TimerExpires ==
    /\ ~timer /\ poll.step = "wait"
    /\ timer' = TRUE
    /\ UNCHANGED <<learnerVars, held, refresh, poll, requestVars, spoolVars, stop, history>>

RefreshDueOnRequest == refresh  \* faulty: the policy is refreshed only when asked for
RefreshDue == refresh \/ timer

\* The Policy call: the learner answers with what is published now.
AskPolicy ==
    /\ poll.step = "wait" /\ ~stop
    /\ RefreshDue
    /\ poll' = [step |-> "answered", version |-> published]
    /\ UNCHANGED <<learnerVars, held, refresh, timer, requestVars, spoolVars, history>>
    /\ stop' = stopping

ReplacePolicy ==
    /\ poll.step = "answered"
    /\ held' = poll.version
    /\ poll' = [poll EXCEPT !.step = "replaced"]
    /\ UNCHANGED <<learnerVars, refresh, timer, requestVars, spoolVars, stop, history>>

\* The refresh flag is cleared after the refresh, so a rejection that arrived during it is
\* forgotten; the next refresh then waits for the interval.
ClearRefresh ==
    /\ poll.step = "replaced"
    /\ refresh' = FALSE
    /\ timer' = FALSE
    /\ poll' = [step |-> "wait", version |-> 0]
    /\ UNCHANGED <<learnerVars, held, requestVars, spoolVars, stop, history>>

-----------------------------------------------------------------------------
(* The collection thread of the actor.                                      *)

Step(name) == collector' = [step |-> name, version |-> 0]

\* A pending evaluation: the flag is cleared before the request is read.
ClearEvaluate ==
    /\ collector.step = "loop" /\ ~stop
    /\ evaluate
    /\ evaluate' = FALSE
    /\ Step("cleared")
    /\ UNCHANGED <<learnerVars, threadVars, request, spoolVars, stop, history>>

\* The requested snapshot is evaluated, or the current policy if another request overwrote it
\* and was already read.
TakeRequest ==
    /\ collector.step = "cleared"
    /\ collector' = [step |-> "evaluating", version |-> IF request = None THEN held ELSE request]
    /\ request' = None
    /\ evaluated' = evaluated + 1
    /\ UNCHANGED <<learnerVars, threadVars, evaluate, spoolVars, stop,
                   scheduled, worstLag>>

NoEvaluation ==
    /\ collector.step = "loop" /\ ~stop
    /\ ~evaluate
    /\ Step("start")
    /\ UNCHANGED <<learnerVars, threadVars, evaluate, request, spoolVars, stop, history>>

\* An episode plays one policy from its start to its end, whatever is refreshed meanwhile.
StartEpisode ==
    /\ collector.step = "start" /\ ~stop
    /\ collector' = [step |-> "episode", version |-> held]
    /\ UNCHANGED <<learnerVars, threadVars, evaluate, request, spoolVars, stop, history>>

\* Every reset of the game failed: the actor stops with an error.
ResetExhausted ==
    /\ collector.step = "start" /\ ~stop
    /\ stop' = TRUE
    /\ Step("ended")
    /\ UNCHANGED <<learnerVars, threadVars, evaluate, request, spoolVars, history>>

ReportedHeld(transitions) == held    \* faulty: the newest version the actor holds

\* The version a rollout reports: the oldest among its transitions, which is the episode's.
ReportedVersion(transitions) == IF transitions THEN collector.version ELSE held

SpoolRollout(transitions, episode) ==
    /\ sequence < MaxRollouts /\ Cardinality(spooled) < MaxSpooled
    /\ spooled' = spooled \cup
           {[seq |-> sequence, version |-> ReportedVersion(transitions),
             played |-> collector.version, transitions |-> transitions, episode |-> episode]}
    /\ sequence' = sequence + 1

\* A rollout in the middle of an episode.
FlushRollout ==
    /\ collector.step = "episode" /\ ~stop
    /\ SpoolRollout(TRUE, FALSE)
    /\ UNCHANGED <<learnerVars, threadVars, requestVars, calls, lost, stop, history>>

\* The end of an episode: its last transitions, if any, and its summary.
FinishEpisode ==
    /\ collector.step = "episode" /\ ~stop
    /\ \E transitions \in BOOLEAN : SpoolRollout(transitions, TRUE)
    /\ Step("loop")
    /\ UNCHANGED <<learnerVars, threadVars, evaluate, request, calls, lost, stop, history>>

\* A telemetry or capture interruption closes the rollout, if it has transitions, without a
\* summary.
InterruptEpisode ==
    /\ collector.step = "episode" /\ ~stop
    /\ \/ SpoolRollout(TRUE, FALSE)
       \/ UNCHANGED <<spooled, sequence>>
    /\ Step("loop")
    /\ UNCHANGED <<learnerVars, threadVars, evaluate, request, calls, lost, stop, history>>

\* Faulty: the evaluation flag is cleared when the evaluation has ended, too.
FinishEvaluationClearing ==
    /\ collector.step = "evaluating" /\ ~stop
    /\ Cardinality(spooled) < MaxSpooled
    /\ spooled' = spooled \cup {[seq |-> sequence, version |-> collector.version,
           played |-> collector.version, transitions |-> FALSE, episode |-> FALSE]}
    /\ sequence' = sequence + 1
    /\ evaluate' = FALSE
    /\ Step("start")
    /\ UNCHANGED <<learnerVars, threadVars, request, calls, lost, stop, history>>

\* The evaluation batch is spooled and the loop goes on to an episode.
FinishEvaluation ==
    /\ collector.step = "evaluating" /\ ~stop
    /\ Cardinality(spooled) < MaxSpooled
    /\ spooled' = spooled \cup {[seq |-> sequence, version |-> collector.version,
           played |-> collector.version, transitions |-> FALSE, episode |-> FALSE]}
    /\ sequence' = sequence + 1
    /\ Step("start")
    /\ UNCHANGED <<learnerVars, threadVars, evaluate, request, calls, lost, stop, history>>

\* A stop ends collection at the next check; what was not spooled is dropped.
LeaveCollection ==
    /\ stop /\ collector.step # "ended"
    /\ Step("ended")
    /\ UNCHANGED <<learnerVars, threadVars, evaluate, request, spoolVars, stop, history>>

\* The launcher's stop event reaches the actor.
ExternalStop ==
    /\ ~stop
    /\ stop' = TRUE
    /\ UNCHANGED <<learnerVars, threadVars, requestVars, spoolVars, history>>

-----------------------------------------------------------------------------
Collect ==
    \/ ClearEvaluate \/ TakeRequest \/ NoEvaluation \/ StartEpisode \/ ResetExhausted
    \/ FlushRollout \/ FinishEpisode \/ InterruptEpisode \/ FinishEvaluation \/ LeaveCollection

Poll == TimerExpires \/ AskPolicy \/ ReplacePolicy \/ ClearRefresh

Handle(c) == Admit(c) \/ Reject(c) \/ Journal(c) \/ AssignEvaluation(c)

Deliver(s) ==
    TakeRollout(s) \/ Handle(s) \/ HandleSignals(s) \/ SettleRollout(s) \/ SubmitAgain(s)

ControlNext ==
    \/ Update \/ Publish \/ IngestEpisode \/ LearnerStops \/ ExternalStop
    \/ Collect \/ Poll
    \/ \E s \in Sender : Deliver(s) \/ LoseCall(s)
    \/ \E c \in 1 .. MaxLost : Handle(c)

ControlSpec == ControlInit /\ [][ControlNext]_controlVars

\* The threads of the actor and of the learner keep running, episodes end (max_episode_steps)
\* and the environment answers.  A handler that nobody waits for is owed nothing.
ControlFairness ==
    /\ WF_controlVars(ClearEvaluate \/ TakeRequest \/ NoEvaluation \/ StartEpisode
                      \/ FinishEpisode \/ InterruptEpisode \/ FinishEvaluation \/ LeaveCollection)
    /\ WF_controlVars(Poll)
    /\ \A s \in Sender : WF_controlVars(Deliver(s))
    /\ WF_controlVars(IngestEpisode)

ControlFairSpec == ControlSpec /\ ControlFairness

-----------------------------------------------------------------------------
\* Types.
ControlTypeOK ==
    /\ updates \in Version /\ published \in Version /\ held \in Version
    /\ publishing \in BOOLEAN /\ due \in BOOLEAN /\ stopping \in BOOLEAN /\ stop \in BOOLEAN
    /\ refresh \in BOOLEAN /\ timer \in BOOLEAN /\ evaluate \in BOOLEAN
    /\ episodes \in Nat /\ inbox \in Nat /\ received \subseteq Nat
    /\ poll \in [step: {"wait", "answered", "replaced"}, version: Version]
    /\ request \in Version \cup {None}
    /\ collector \in [step: {"loop", "cleared", "evaluating", "start", "episode", "ended"},
                      version: Version]
    /\ spooled \subseteq Rollout /\ sequence \in Nat /\ lost \in Nat
    /\ calls \in [Call -> [step: {"idle", "call", "checked", "journalled", "answered",
                                  "signalled", "retry"},
                           rollout: Rollout \cup {None}, answer: Answer \cup {None}]]
    /\ scheduled \in Nat /\ evaluated \in Nat /\ worstLag \in Int

\* The learner journals no transitions that were played with a policy more than HardLag updates
\* old when their handler checked the lag, although it sees only the version the actor reports
\* and the actor refreshes its policy while an episode runs.  The lock is free between the check
\* and the append, so the updates the learner makes meanwhile come on top.
AcceptedTransitionsAreRecent == worstLag <= HardLag

\* Lost answers and resubmitted rollouts never make the actor play an evaluation twice: it
\* plays at most one per evaluation the learner scheduled.
EvaluationsWithinSchedules == evaluated <= scheduled

\* A requested evaluation is played although a second request arrives before the first is taken,
\* while the collection thread clears the flag, or while it plays the earlier evaluation.
RequestedEvaluationsRun == (request # None) ~> (request = None \/ stop)

\* Every published policy, or a newer one, reaches the actor, although the refresh flag of a
\* rejection that arrives during a refresh is cleared with it.
PublishedPoliciesReachTheActor ==
    \A v \in 1 .. MaxUpdates : (published = v) ~> (held >= v \/ stop)

=============================================================================
