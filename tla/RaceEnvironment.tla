---------------------------- MODULE RaceEnvironment ----------------------------
(* OpenPlanetEnvironment: episodes over a game that is only seen through its
   race clock and only steered through key presses.  reset presses restart and
   waits until the clock has fallen behind the last one it knows; a finish menu
   swallows the press until it is confirmed.  step reads until the decision
   interval has passed.  Presses are held for 100 ms, so the game has handled
   (or ignored) one before the environment reads again.  Whoever restarts a
   race from outside lets it run for longer than a step takes first.         *)
EXTENDS Integers

CONSTANTS Never,
          Countdown,      \* frames before the clock of a new race starts
          MaxSkip,        \* frames that may pass between two reads
          Intervals,      \* decision_interval_ms in frames; 0: none, frames are repeated
          MaxReads,       \* reads a step tries to reach its interval (64 in the code)
          StartTime,      \* start_race_time_ms in frames
          StartTimeout,   \* start_timeout_s in frames
          MaxClock,       \* bound: the clock stops there
          MaxRaces,       \* bound: races
          MaxFaults       \* bound: presses ignored, reads without an answer, refusals

(* The game is read often enough for its countdown to be seen.               *)
ASSUME RaceAssumption ==
    /\ {Countdown, MaxSkip, MaxReads} \subseteq Nat \ {0} /\ Intervals \subseteq Nat
    /\ {StartTime, StartTimeout, MaxClock, MaxFaults} \subseteq Nat /\ MaxRaces \in Nat \ {0}
    /\ MaxReads * MaxSkip < Countdown
    /\ StartTimeout > Countdown + StartTime
    /\ MaxClock > StartTime       \* the bound does not keep a race from starting
    /\ Never \notin Int

VARIABLES
    \* external: the game
    race,      \* races started
    clock,     \* the race clock, negative during the countdown
    menu,      \* the finish menu: "none" until the finish, then "open" until "closed"
    unread,    \* frames since the last read
    faults,    \* what went wrong outside so far
    \* the environment
    interval,  \* decision_interval_ms
    call,      \* where the call under way is
    attempt,   \* of _restart_race
    previous,  \* previous_race_time_ms of the reset
    observed,  \* restart_observed
    waited,    \* frames since the deadline was set
    reads,     \* reads of the step
    frame,     \* the last frame read
    last,      \* _last_race_time_ms
    finishPending,   \* _finish_confirmation_pending
    \* history
    playing,   \* race the running episode was started in; 0: none
    scored,    \* race of the last frame an episode was scored on
    past,      \* the same for the episodes before
    before,    \* faults before the last reset
    blamed     \* faults during it, Never unless it failed

gameVars == <<race, clock, menu, unread, faults>>
environmentVars == <<interval, call, attempt, previous, observed, waited, reads, frame, last,
                     finishPending>>
episodeVars == <<playing, scored, past, before, blamed>>
raceVars == <<gameVars, environmentVars, episodeVars>>

RaceInit ==
    /\ race = 1 /\ clock = -Countdown /\ menu = "none" /\ unread = 0 /\ faults = 0
    /\ interval \in Intervals
    /\ call = "none" /\ attempt = 0 /\ previous = Never /\ observed = FALSE /\ waited = 0
    /\ reads = 0 /\ frame = [race |-> 0, clock |-> 0, finish |-> FALSE]
    /\ last = Never /\ finishPending = TRUE
    /\ playing = 0 /\ scored = 0 /\ past = 0 /\ before = 0 /\ blamed = Never

-----------------------------------------------------------------------------
(* External: the game.  Frames pass, the car may reach the finish, and whoever
   sits in front of the game may restart a running race.                   *)
GameFrame ==
    /\ unread < MaxSkip \/ (playing = 0 /\ attempt = 0 /\ call \notin {"wait", "ready"})
    /\ unread' = IF unread < MaxSkip THEN unread + 1 ELSE unread
    /\ IF clock = MaxClock THEN UNCHANGED <<clock, menu>>
       ELSE /\ clock' = clock + 1
            /\ menu' \in IF menu = "none" /\ clock' > 0 THEN {"none", "open"} ELSE {menu}
    /\ waited' = IF call = "wait" THEN waited + 1 ELSE waited
    /\ UNCHANGED <<race, faults, interval, call, attempt, previous, observed, reads, frame,
                   last, finishPending, episodeVars>>

NewRace == race' = race + 1 /\ clock' = -Countdown /\ menu' = "none"
Untouched == UNCHANGED <<race, clock, menu>>
OperatorRestarts ==
    /\ clock > MaxReads * MaxSkip /\ race < MaxRaces
    /\ faults < MaxFaults /\ faults' = faults + 1 /\ NewRace
    /\ UNCHANGED <<unread, environmentVars, episodeVars>>

(* The plugin shows no negative times.                                        *)
RaceTime == IF clock > 0 THEN clock ELSE 0

(* A press reaches the game unless another window has the focus.             *)
Ignored == faults < MaxFaults /\ faults' = faults + 1 /\ Untouched
PressRestart ==
    \/ Ignored
    \/ /\ UNCHANGED faults
       /\ IF menu = "open" THEN Untouched ELSE race < MaxRaces /\ NewRace
PressConfirm ==
    \/ Ignored
    \/ /\ UNCHANGED faults
       /\ IF menu = "open" THEN menu' = "closed" /\ UNCHANGED <<race, clock>> ELSE Untouched

Read == /\ frame' = [race |-> race, clock |-> RaceTime, finish |-> menu = "open"]
        /\ unread' = 0 /\ UNCHANGED <<race, clock, menu>>
ReadTimesOut == faults < MaxFaults /\ faults' = faults + 1 /\ unread' = 0 /\ Untouched

-----------------------------------------------------------------------------
(* reset, when the loaded map is the expected one.                           *)
BeginReset ==
    /\ call = "none" /\ call' = "confirm" /\ attempt' = 0 /\ previous' = last
    /\ past' = scored /\ playing' = 0 /\ before' = faults /\ blamed' = Never
    /\ UNCHANGED <<gameVars, interval, observed, waited, reads, frame, last, finishPending,
                   scored>>

ConfirmFinishIfNeeded ==
    /\ call \in {"confirm", "recover"}
    /\ IF finishPending THEN PressConfirm ELSE Untouched /\ UNCHANGED faults
    /\ call' = CASE call = "recover" -> "recoverRestart"
                 [] call = "confirm" /\ previous = Never -> "look"
                 [] OTHER -> "restart"
    /\ UNCHANGED <<unread, interval, attempt, previous, observed, waited, reads, frame, last,
                   finishPending, episodeVars>>

LookForReference ==
    /\ call = "look" /\ Read /\ previous' = frame'.clock /\ call' = "restart"
    /\ UNCHANGED <<faults, interval, attempt, observed, waited, reads, last, finishPending,
                   episodeVars>>

Restart ==
    /\ call = "restart" /\ PressRestart /\ call' = "wait"
    /\ observed' = (previous <= 0) /\ waited' = 0 /\ unread' = 0
    /\ UNCHANGED <<interval, attempt, previous, reads, frame, last, finishPending, episodeVars>>

(* One round of _wait_for_active_run.                                        *)
Started(seen) == seen /\ frame'.clock > 0 /\ frame'.clock >= StartTime
RestartAssumed == TRUE    \* faulty: any running clock is taken for the new race
RestartSeen == observed \/ RaceTime < previous
WaitForActiveRun ==
    /\ call = "wait" /\ unread > 0 /\ Read
    /\ observed' = RestartSeen
    /\ \/ Started(observed') /\ call' = "ready" /\ UNCHANGED finishPending
       \/ ~Started(observed') /\ waited < StartTimeout /\ UNCHANGED <<call, finishPending>>
       \/ ~Started(observed') /\ waited >= StartTimeout /\ call' = "recover" /\ finishPending' = TRUE
    /\ UNCHANGED <<faults, interval, attempt, previous, waited, reads, last, episodeVars>>

(* No frame in time counts as a race that does not start.                    *)
WaitWithoutFrame ==
    /\ call = "wait" /\ ReadTimesOut /\ call' = "recover" /\ finishPending' = TRUE
    /\ UNCHANGED <<interval, attempt, previous, observed, waited, reads, frame, last,
                   episodeVars>>

Fails == call' = "none" /\ blamed' = faults' - before /\ UNCHANGED before
RecoverResetTimeout ==
    /\ call = "recoverRestart" /\ PressRestart
    /\ IF attempt = 0 THEN call' = "confirm" /\ attempt' = 1 /\ UNCHANGED <<before, blamed>>
       ELSE Fails /\ UNCHANGED attempt
    /\ UNCHANGED <<unread, interval, previous, observed, waited, reads, frame, last, finishPending,
                   playing, scored, past>>

(* confirm_ready and the frame after reset_settle_s start the episode.       *)
BeginEpisode ==
    /\ call = "ready" /\ call' = "none" /\ finishPending' = FALSE
    /\ \/ Read
       \/ UNCHANGED <<gameVars, frame>>
    /\ last' = frame'.clock /\ playing' = frame'.race
    /\ UNCHANGED <<faults, interval, attempt, previous, observed, waited, reads, scored,
                   past, before, blamed>>

(* A read outside the wait raises, or confirm_ready does, or telemetry is gone
   within the wait: reset handles a read that times out there and nothing else. *)
ResetRaises ==
    /\ call \in {"look", "wait", "ready"} /\ ReadTimesOut /\ Fails
    /\ UNCHANGED <<interval, attempt, previous, observed, waited, reads, frame, last, finishPending,
                   playing, scored, past>>

-----------------------------------------------------------------------------
(* step: read until the interval has passed or the finish shows; without an
   interval MaxReads frames are repeated.                                    *)
BeginStep ==
    /\ call = "none" /\ playing # 0 /\ call' = "step" /\ reads' = 0
    /\ UNCHANGED <<gameVars, interval, attempt, previous, observed, waited, frame, last, finishPending,
                   episodeVars>>

Reached == interval > 0 => frame.clock >= last + interval \/ frame.finish
ReadFrame ==
    /\ call = "step" /\ unread > 0
    /\ reads < MaxReads /\ (reads > 0 => interval = 0 \/ ~Reached)
    /\ Read /\ reads' = reads + 1
    /\ UNCHANGED <<faults, interval, call, attempt, previous, observed, waited, last, finishPending,
                   episodeVars>>

Scorable == call = "step" /\ reads > 0 /\ Reached /\ (interval = 0 => reads = MaxReads)
ScoreStep ==
    /\ Scorable /\ frame.clock >= last
    /\ last' = frame.clock /\ scored' = frame.race /\ call' = "none"
    /\ \/ UNCHANGED <<playing, finishPending>>                       \* running
       \/ playing' = 0 /\ UNCHANGED finishPending                    \* ended short of the finish
       \/ frame.finish /\ playing' = 0 /\ finishPending' = TRUE      \* finished
    /\ UNCHANGED <<gameVars, interval, attempt, previous, observed, waited, reads, frame, past,
                   before, blamed>>

(* TrajectoryReward refuses a clock that ran backwards, after it was kept.   *)
RefuseStep ==
    /\ Scorable /\ frame.clock < last
    /\ last' = frame.clock /\ call' = "none" /\ playing' = 0
    /\ UNCHANGED <<gameVars, interval, attempt, previous, observed, waited, reads, frame, finishPending,
                   scored, past, before, blamed>>

StepTimesOut ==
    /\ call = "step"
    /\ \/ reads = MaxReads /\ ~Reached /\ UNCHANGED gameVars
       \/ ReadTimesOut
    /\ call' = "none" /\ playing' = 0
    /\ UNCHANGED <<interval, attempt, previous, observed, waited, reads, frame, last, finishPending,
                   scored, past, before, blamed>>

RaceNext ==
    \/ GameFrame \/ OperatorRestarts
    \/ BeginReset \/ ConfirmFinishIfNeeded \/ LookForReference \/ Restart \/ WaitForActiveRun
    \/ WaitWithoutFrame \/ RecoverResetTimeout \/ BeginEpisode \/ ResetRaises
    \/ BeginStep \/ ReadFrame \/ ScoreStep \/ RefuseStep \/ StepTimesOut

RaceSpec == RaceInit /\ [][RaceNext]_raceVars

-----------------------------------------------------------------------------
RaceTypeOK ==
    /\ race \in 1 .. MaxRaces /\ clock \in -Countdown .. MaxClock /\ menu \in {"none", "open", "closed"}
    /\ unread \in 0 .. MaxSkip /\ faults \in 0 .. MaxFaults /\ interval \in Intervals
    /\ call \in {"none", "confirm", "look", "restart", "wait", "recover", "recoverRestart",
                 "ready", "step"}
    /\ attempt \in {0, 1} /\ previous \in Nat \cup {Never} /\ observed \in BOOLEAN
    /\ waited \in Nat /\ reads \in 0 .. MaxReads
    /\ frame \in [race : Nat, clock : Nat, finish : BOOLEAN]
    /\ last \in Nat \cup {Never} /\ finishPending \in BOOLEAN
    /\ playing \in Nat /\ scored \in Nat /\ past \in Nat /\ before \in Nat /\ blamed \in Nat \cup {Never}

(* An episode is one race, and a later one than that of the episode before,
   though the environment sees nothing but a clock that starts again: an
   ignored restart does not pass for a new race, and a race restarted from
   outside is not scored as the rest of the old one.  A reset that begins in a
   countdown takes the race of that countdown for the new one.               *)
EpisodesAreRaces ==
    playing # 0 =>
        /\ IF previous > 0 THEN playing > past ELSE playing >= past
        /\ scored \in {past, playing}

(* A reset fails for what happens outside, never for an open finish menu the
   environment has not noticed.                                              *)
OpenMenusAreRecovered == blamed # Never => blamed > 0

(* The environment and the game agree on where an episode begins and ends.   *)
EpisodesAreSound == EpisodesAreRaces /\ OpenMenusAreRecovered

=============================================================================
