------------------------- MODULE DemonstrationRecorder -------------------------
(* record_demonstration_session: laps a human drives, cut out of a stream of
   telemetry frames.  The recorder sees a clock and a finish flag; it waits for
   the clock to start again, samples frames at the decision interval, discards
   what it has when the driver restarts, and ends a lap at the finish flag.
   read_next returns frames in order; a reconnect may lose some, fewer than the
   countdown of a race.                                                        *)
EXTENDS Integers, Sequences

CONSTANTS Countdown,    \* frames before the clock of a new race starts
          MaxGap,       \* frames a reconnect can lose
          Interval,     \* decision interval in frames, 0: none
          Repeat,       \* action_repeat_frames
          Count,        \* laps of the session
          MaxClock,     \* bound: the clock stops there
          MaxRaces      \* bound: races

ASSUME RecorderAssumption ==
    /\ {Countdown, Repeat, Count, MaxClock, MaxRaces} \subseteq Nat \ {0}
    /\ {MaxGap, Interval} \subseteq Nat
    /\ MaxGap < Countdown

VARIABLES
    game,       \* external: the last frame sent, [race, clock, finish]
    recording,      \* "sync", "wait", "sample", "restart", "stopped"
    previous,   \* state.previous_time of the wait
    observed,   \* state.restart_observed
    current,    \* state.current
    remaining,  \* progress.remaining_reads, kept at 0
    frames,     \* state.frames
    actions,    \* len(state.actions)
    laps        \* the laps recorded, accepted or discarded: [frames, actions]

recorderVars == <<game, recording, previous, observed, current, remaining, frames, actions,
                  laps>>

-----------------------------------------------------------------------------
(* External: what the next frame can be.                                      *)
Following(g) ==
    { [race |-> g.race, clock |-> IF g.clock < MaxClock THEN g.clock + 1 ELSE g.clock,
       finish |-> done] : done \in IF g.finish THEN {TRUE} ELSE {FALSE, g.clock > 0} }
    \cup { h \in {[race |-> g.race + 1, clock |-> -Countdown, finish |-> FALSE]} : h.race <= MaxRaces }
NextFrames ==
    LET After[lost \in 0 .. MaxGap] ==
            IF lost = 0 THEN Following(game)
            ELSE After[lost - 1] \cup UNION {Following(g) : g \in After[lost - 1]}
    IN After[MaxGap]

Time(frame) == IF frame.clock > 0 THEN frame.clock ELSE 0    \* what the plugin shows

-----------------------------------------------------------------------------
RecorderInit ==
    /\ game \in [race : {1}, clock : {-Countdown, 1}, finish : {FALSE}]
    /\ recording = "sync" /\ previous = 0 /\ observed = FALSE /\ current = game
    /\ remaining = 0 /\ frames = <<>> /\ actions = 0 /\ laps = <<>>

(* The frame that starts a recording.                                         *)
StartSampling(frame) ==
    /\ recording' = "sample" /\ current' = frame /\ frames' = <<frame>> /\ actions' = 0
    /\ remaining' = Repeat

(* The first frame of a session only sets the time to compare with.           *)
SynchronizeStream ==
    /\ recording = "sync" /\ recording' = "wait"
    /\ \E frame \in NextFrames :
         game' = frame /\ previous' = Time(frame) /\ observed' = (Time(frame) <= 0)
    /\ UNCHANGED <<current, remaining, frames, actions, laps>>

(* _is_new_run: a clock that has run backwards, or stood in a countdown.      *)
WaitForNewRun ==
    /\ recording = "wait"
    /\ \E frame \in NextFrames :
         /\ game' = frame /\ previous' = Time(frame)
         /\ observed' = (observed \/ Time(frame) < previous)
         /\ IF observed' /\ Time(frame) > 0 THEN StartSampling(frame)
            ELSE UNCHANGED <<recording, current, frames, actions, remaining>>
    /\ UNCHANGED laps

(* A read of _advance_demonstration_frame and what _record does with a frame it
   returns: a clock that has run backwards discards the lap; otherwise the frame
   is kept once the repeats and the interval have passed, and the finish flag
   ends the lap.  A discarded or finished lap of the session counts either way. *)
TargetReached(frame) ==
    /\ remaining <= 1 /\ Time(frame) > Time(current)
    /\ Interval > 0 => Time(frame) >= Time(current) + Interval

Backwards(frame) == Time(frame) < Time(current)
DiscardLap(frame) ==
    /\ Backwards(frame)
    /\ IF Time(frame) <= 0
         THEN recording' = "restart" /\ UNCHANGED <<current, frames, actions, remaining>>
         ELSE StartSampling(frame)
    /\ UNCHANGED <<previous, observed, laps>>
PassOver(frame) ==
    /\ ~Backwards(frame) /\ ~TargetReached(frame) /\ remaining' = IF remaining > 0 THEN remaining - 1 ELSE 0
    /\ UNCHANGED <<recording, previous, observed, current, frames, actions, laps>>
KeepFrame(frame) ==
    /\ ~Backwards(frame) /\ TargetReached(frame) /\ ~frame.finish
    /\ frames' = Append(frames, frame) /\ actions' = actions + 1
    /\ current' = frame /\ remaining' = Repeat
    /\ UNCHANGED <<recording, previous, observed, laps>>
FinishLap(frame) ==
    /\ ~Backwards(frame) /\ TargetReached(frame) /\ frame.finish
    /\ laps' = Append(laps, [frames |-> Append(frames, frame), actions |-> actions + 1])
    /\ previous' = Time(frame) /\ observed' = (Time(frame) <= 0)
    /\ recording' = IF Len(laps') = Count THEN "stopped" ELSE "wait"
    /\ frames' = <<>> /\ actions' = 0
    /\ UNCHANGED <<current, remaining>>
Sample ==
    /\ recording = "sample"
    /\ \E frame \in NextFrames :
         /\ game' = frame
         /\ DiscardLap(frame) \/ PassOver(frame) \/ KeepFrame(frame) \/ FinishLap(frame)

(* _restart_recording reads on through the countdown.                         *)
AwaitStart ==
    /\ recording = "restart"
    /\ \E frame \in NextFrames :
         /\ game' = frame
         /\ IF Time(frame) <= 0 THEN UNCHANGED <<recording, current, frames, actions,
                                                 remaining>>
            ELSE StartSampling(frame)
    /\ UNCHANGED <<previous, observed, laps>>

(* A deadline, or 64 reads without a frame to keep, ends the session.         *)
TimeOut ==
    /\ recording # "stopped" /\ recording' = "stopped" /\ frames' = <<>>
    /\ UNCHANGED <<game, previous, observed, current, remaining, actions, laps>>

RecorderNext == SynchronizeStream \/ WaitForNewRun \/ Sample \/ AwaitStart \/ TimeOut

RecorderSpec == RecorderInit /\ [][RecorderNext]_recorderVars

-----------------------------------------------------------------------------
Frame == [race : 1 .. MaxRaces, clock : -Countdown .. MaxClock, finish : BOOLEAN]
RecorderTypeOK ==
    /\ game \in Frame /\ current \in Frame /\ previous \in Nat /\ observed \in BOOLEAN
    /\ recording \in {"sync", "wait", "sample", "restart", "stopped"}
    /\ remaining \in 0 .. Repeat /\ frames \in Seq(Frame) /\ actions \in Nat /\ Len(laps) <= Count

(* A lap is whole: frames of one race, from its start (but for what a reconnect
   lost there) to the first that shows the finish, in the order of the clock,
   one action between each two; and no two laps are of the same race.         *)
WholeLap(lap) ==
    LET n == Len(lap.frames) IN
    /\ n > 1 /\ lap.actions = n - 1
    /\ \A i \in 2 .. n : /\ lap.frames[i].race = lap.frames[1].race
                         /\ lap.frames[i].clock > lap.frames[i - 1].clock
    /\ lap.frames[1].clock \in 1 .. 1 + MaxGap
    /\ \A i \in 2 .. n : lap.frames[i].finish <=> i = n
RecordedLapsAreWhole ==
    /\ \A i \in 1 .. Len(laps) : WholeLap(laps[i])
    /\ \A i \in 2 .. Len(laps) : laps[i].frames[1].race > laps[i - 1].frames[1].race

=============================================================================
