--------------------------- MODULE RecoveryRecorder ---------------------------
(***************************************************************************)
(* Recording how a human recovers (human_recovery_recording.py and         *)
(* commands/human_recovery.py): the model drives to a point of the lap,    *)
(* the recorder injects a false input and lets go, the human takes over    *)
(* and finishes.  The expert labels of the lap begin with the human's      *)
(* first input, which the recorder can only see in telemetry, some ticks   *)
(* after it was given and mixed with what the model and the recorder       *)
(* themselves put in.                                                      *)
(*                                                                         *)
(* A frame is what telemetry shows: the race time and an input.  Who gave  *)
(* the input is known to the model only.  The human keeps his hands off    *)
(* until he is told, as the command asks him to.                           *)
(***************************************************************************)
EXTENDS Integers, Sequences, FiniteSetsExt

CONSTANTS NoControl,            \* no perturbation
          InputLag,                  \* external: ticks until an input shows in telemetry
          Jumps,                \* external: ticks between two frames the recorder keeps
          Duration,             \* perturbation_duration_ms, in ticks
          Context,              \* minimum_context_s, in ticks
          Laps,                 \* laps to record
          MaxAttempts,          \* max_attempts
          MaxTime               \* bound: race time

ASSUME RecoveryAssumption ==
    /\ {InputLag, Context, MaxTime} \subseteq Nat
    /\ {Duration, Laps, MaxAttempts} \subseteq Nat \ {0}
    /\ Jumps \subseteq Nat \ {0}
    /\ InputLag < Duration

\* Controls apart from each other: none, one that is neither neutral nor a strong one to a
\* side, and full gas with full steering to either side.
Control == {"neutral", "weak", "left", "right"}
Input == [who : {"model", "recorder", "human"}, control : Control]
HandsOff == [who |-> "recorder", control |-> "neutral"]

VARIABLES
    capture,                    \* where the recording of an attempt is
    captured,                     \* state.frames: [time, input]; the last one is state.current
    virtual,                    \* the input of the virtual controller
    human,                      \* the human's input
    travelling,                 \* inputs given and not shown yet, the oldest first
    intended,                   \* control of the perturbation
    startedAt,                  \* race time it was started at
    perturbation,               \* [start, steps] once telemetry has confirmed it
    takeover,                   \* takeover_step
    attempts,
    archives                    \* laps saved

captureVars == <<captured, virtual, human, travelling, intended, startedAt, perturbation, takeover>>
recoveryVars == <<capture, captureVars, attempts, archives>>

Current == captured[Len(captured)]
Neutral(frame) == frame.input.control = "neutral"

\* Faulty: the wait for the release is skipped.
ReleaseAssumed(frame) == TRUE

\* Telemetry shows that the perturbation was let go of.
Released(frame) == Neutral(frame)

Given == IF human.control # "neutral" THEN human ELSE virtual

HumanAtRest == [who |-> "human", control |-> "neutral"]

RecoveryInit ==
    /\ capture = "idle"
    /\ captured = <<>>
    /\ virtual = HandsOff
    /\ human = HumanAtRest
    /\ travelling = <<>>
    /\ intended = NoControl
    /\ startedAt = 0
    /\ perturbation = NoControl
    /\ takeover = 0
    /\ attempts = 0
    /\ archives = <<>>

\* What an attempt knows is gone when it is over.
ForgetAttempt ==
    /\ capture' = "idle"
    /\ captured' = <<>>
    /\ human' = HumanAtRest
    /\ travelling' = <<>>
    /\ intended' = NoControl
    /\ startedAt' = 0
    /\ perturbation' = NoControl
    /\ takeover' = 0

-----------------------------------------------------------------------------

\* The next frame the recorder keeps, n ticks later under the given input.
Inputs(n, input) == travelling \o [i \in 1 .. n |-> input]
After(n, input) == Append(captured, [time |-> Current.time + n, input |-> Inputs(n, input)[n]])
Shown(n, input) ==
    /\ captured' = After(n, input)
    /\ travelling' = SubSeq(Inputs(n, input), n + 1, n + InputLag)

NextFrame ==
    \E n \in Jumps : Current.time + n <= MaxTime /\ Shown(n, Given)

\* The lap before the attempt is reset away and the controls are released.
BeginAttempt ==
    /\ capture = "idle" /\ Len(archives) < Laps /\ attempts < MaxAttempts
    /\ attempts' = attempts + 1
    /\ capture' = "drive"
    /\ captured' = <<[time |-> 0, input |-> HandsOff]>>
    /\ virtual' = HandsOff
    /\ travelling' = [i \in 1 .. InputLag |-> HandsOff]
    /\ UNCHANGED <<human, intended, startedAt, perturbation, takeover, archives>>

\* A step of the model; past the target the attempt needs enough context before it.
DriveToTarget ==
    /\ capture = "drive"
    /\ \E control \in Control, n \in Jumps :
        /\ Current.time + n <= MaxTime
        /\ virtual' = [who |-> "model", control |-> control]
        /\ Shown(n, virtual')
        /\ \/ capture' = "drive"
           \/ Current.time + n >= Context /\ capture' = "perturb"
    /\ UNCHANGED <<human, intended, startedAt, perturbation, takeover, attempts, archives>>

\* The planned direction, or the other one when the car is steering.
Opposed(control) ==
    CASE control = "left" -> {"right"}
      [] control = "right" -> {"left"}
      [] OTHER -> {"left", "right"}

BeginPerturbation ==
    /\ capture = "perturb"
    /\ \E control \in Opposed(Current.input.control) :
        /\ intended' = control
        /\ virtual' = [who |-> "recorder", control |-> control]
    /\ startedAt' = Current.time
    /\ capture' = "inject"
    /\ UNCHANGED <<captured, human, travelling, perturbation, takeover, attempts, archives>>

Inject ==
    /\ capture = "inject" /\ Current.time - startedAt < Duration
    /\ NextFrame
    /\ UNCHANGED <<capture, virtual, human, intended, startedAt, perturbation, takeover,
                   attempts, archives>>

EndPerturbation ==
    /\ capture = "inject" /\ Current.time - startedAt >= Duration
    /\ virtual' = HandsOff
    /\ capture' = "release"
    /\ UNCHANGED <<captured, human, travelling, intended, startedAt, perturbation, takeover,
                   attempts, archives>>

AwaitRelease ==
    /\ capture = "release" /\ ~Released(Current)
    /\ NextFrame
    /\ UNCHANGED <<capture, virtual, human, intended, startedAt, perturbation, takeover,
                   attempts, archives>>

\* Runs of frames since the start that show the perturbation, as half-open intervals of steps
\* (the frame of step s is captured[s + 1]).
Runs ==
    LET Matches(s) == s < Len(captured) - 1 /\ captured[s + 1].input.control = intended
        First == Min({s \in 0 .. Len(captured) - 1 : captured[s + 1].time >= startedAt})
    IN  {r \in [start : First .. Len(captured) - 2, stop : First + 1 .. Len(captured) - 1] :
            /\ r.start < r.stop
            /\ \A s \in r.start .. r.stop - 1 : Matches(s)
            /\ r.start = First \/ ~Matches(r.start - 1)
            /\ ~Matches(r.stop)}
Length(r) == captured[r.stop + 1].time - captured[r.start + 1].time

\* The first of the longest runs, and half of what was asked for at least.
Longest(r) ==
    \A q \in Runs : Length(q) < Length(r) \/ (Length(q) = Length(r) /\ q.start >= r.start)
LongEnough(r) == 2 * Length(r) >= Duration

\* The human is told to take over.
HandOver ==
    /\ capture = "release" /\ Released(Current)
    /\ \E r \in Runs :
        /\ Longest(r) /\ LongEnough(r)
        /\ perturbation' = [start |-> r.start, steps |-> r.stop - r.start]
    /\ capture' = "handover"
    /\ UNCHANGED <<captured, virtual, human, travelling, intended, startedAt, takeover,
                   attempts, archives>>

\* External: the human does something else.
HumanActs ==
    /\ capture \in {"handover", "finish"}
    /\ \E control \in Control \ {human.control} : human' = [human EXCEPT !.control = control]
    /\ UNCHANGED <<capture, captured, virtual, travelling, intended, startedAt, perturbation,
                   takeover, attempts, archives>>

AwaitHuman ==
    /\ capture = "handover"
    /\ IF Neutral(Current)
       THEN NextFrame /\ UNCHANGED <<capture, takeover>>
       ELSE takeover' = Len(captured) - 1 /\ capture' = "finish"
            /\ UNCHANGED <<captured, travelling>>
    /\ UNCHANGED <<virtual, human, intended, startedAt, perturbation, attempts, archives>>

RecordFrame ==
    /\ capture = "finish"
    /\ NextFrame
    /\ UNCHANGED <<capture, virtual, human, intended, startedAt, perturbation, takeover,
                   attempts, archives>>

\* The first frame that shows the finish is the last one, and the lap is saved.
FinishRecovery ==
    /\ capture = "finish"
    /\ \E n \in Jumps :
        /\ Current.time + n <= MaxTime
        /\ archives' = Append(archives, [frames |-> After(n, Given), takeover |-> takeover,
                                         perturbation |-> perturbation])
    /\ ForgetAttempt
    /\ UNCHANGED <<virtual, attempts>>

\* Anything that ends an attempt: the lap over or restarted or continued elsewhere, a
\* perturbation nobody sees, no input in time, the deadline, the connection.  The perturbation
\* is let go of; other controls stay as they are until the next reset.
DiscardAttempt ==
    /\ capture # "idle"
    /\ ForgetAttempt
    /\ virtual' = IF capture = "inject" THEN HandsOff ELSE virtual
    /\ UNCHANGED <<attempts, archives>>

RecoveryNext ==
    \/ BeginAttempt
    \/ DriveToTarget
    \/ BeginPerturbation
    \/ Inject
    \/ EndPerturbation
    \/ AwaitRelease
    \/ HandOver
    \/ HumanActs
    \/ AwaitHuman
    \/ RecordFrame
    \/ FinishRecovery
    \/ DiscardAttempt

RecoverySpec == RecoveryInit /\ [][RecoveryNext]_recoveryVars

-----------------------------------------------------------------------------

Captured == [time : 0 .. MaxTime, input : Input]

\* The variables have their types.
RecoveryTypeOK ==
    /\ capture \in {"idle", "drive", "perturb", "inject", "release", "handover", "finish"}
    /\ \A i \in 1 .. Len(captured) : captured[i] \in Captured
    /\ virtual \in Input /\ human \in Input
    /\ Len(travelling) <= InputLag
    /\ intended \in Control \cup {NoControl}
    /\ startedAt \in 0 .. MaxTime
    /\ perturbation # NoControl => perturbation.start \in Nat /\ perturbation.steps \in Nat \ {0}
    /\ takeover \in Nat
    /\ attempts \in 0 .. MaxAttempts
    /\ Len(archives) <= Laps

\* The checks of a saved lap (_validate_recovery_demonstration): one that fails ends the whole
\* session instead of the attempt.
ValidArchive(a) ==
    LET start == a.perturbation.start
        stop == start + a.perturbation.steps
        at(s) == a.frames[s + 1]
    IN  /\ stop <= a.takeover /\ a.takeover < Len(a.frames) - 1
        /\ at(start).time - at(0).time >= Context
        /\ 2 * (at(stop).time - at(start).time) >= Duration
        /\ \A s \in start .. stop - 1 :
               at(s).input.control = at(start).input.control
               /\ at(s).input.control \in {"left", "right"}

\* In a saved lap the labels begin with an input of the human, the first he gave; what was
\* injected is behind them, and between the two nobody did anything.
RecoveriesAreWhole ==
    \A i \in 1 .. Len(archives) :
        LET a == archives[i]
            stop == a.perturbation.start + a.perturbation.steps
            at(s) == a.frames[s + 1]
        IN  /\ ValidArchive(a)
            /\ at(a.takeover).input.who = "human" /\ ~Neutral(at(a.takeover))
            /\ \A s \in 0 .. a.takeover - 1 : at(s).input.who # "human"
            /\ at(stop - 1).input.who = "recorder"
            /\ \A s \in stop .. a.takeover - 1 : Neutral(at(s))

\* The perturbation is held only while it is injected, and once the human is told to take over
\* nothing works against him.
PerturbationIsLetGo ==
    /\ virtual.who = "recorder" /\ virtual.control # "neutral" => capture = "inject"
    /\ capture \in {"handover", "finish"} => virtual = HandsOff

=============================================================================
