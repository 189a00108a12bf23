--------------------------- MODULE KeyboardControl ---------------------------
(***************************************************************************)
(* The keyboard controller (trackmania/keyboard_control.py:132-297): keys  *)
(* held down in the game, the set of them the controller knows, and the    *)
(* timers that lift the brake of a tap.                                    *)
(*                                                                         *)
(* Every operation runs under one lock, so each is a step; what comes      *)
(* between two of them is a timer that has gone off and waits for the      *)
(* lock, which nothing can cancel any more.  A stroke may fail: the ones   *)
(* before it have reached the game, and the controller forgets them.       *)
(***************************************************************************)
EXTENDS Integers

CONSTANTS NoTimer,              \* no timer
          Targets,              \* sets of keys an action asks for
          MaxTaps,              \* bound: taps
          MaxFailures           \* bound: strokes that fail, also by Ctrl+C between two

\* The keys, in the order of their codes; Restart and Enter are struck and not held.
Enter == 0
Restart == 1
Left == 2
Right == 3
Brake == 4
Gas == 5
Tap == 1 .. MaxTaps

ASSUME KeyboardAssumption ==
    /\ \A target \in Targets : target \subseteq {Left, Right, Brake, Gas}
    /\ {MaxTaps, MaxFailures} \subseteq Nat
    /\ NoTimer \notin Tap

VARIABLES
    down,                       \* keys the game sees held
    pressed,                    \* _pressed
    tapTimer,                   \* _tap_timer
    timers,                     \* each timer: "unused", "running", "fired" and waiting for the lock, "over"
    closed,                     \* the environment was closed
    failures,                   \* strokes that failed
    asked,                      \* keys of the last action
    tapped,                     \* the timer of that action, when it was a tap
    loose,                      \* timers no later action could cancel
    lifted                      \* the timer that lifted the brake since

keyboardVars == <<down, pressed, tapTimer, timers, closed, failures, asked, tapped,
                  loose, lifted>>

KeyboardInit ==
    /\ down = {}
    /\ pressed = {}
    /\ tapTimer = NoTimer
    /\ timers = [t \in Tap |-> "unused"]
    /\ closed = FALSE
    /\ failures = 0
    /\ asked = {}
    /\ tapped = NoTimer
    /\ loose = {}
    /\ lifted = NoTimer

-----------------------------------------------------------------------------

\* Keys that are not asked for any more are lifted, then those that are not held are pressed.
Lifts(target) == pressed \ target
Presses(target) == target \ pressed

\* _set_pressed, every stroke sent.
SetPressed(target) ==
    /\ down' = (down \ Lifts(target)) \cup Presses(target)
    /\ pressed' = target
    /\ UNCHANGED failures

\* The strokes of some keys go out in the order of their codes, up to one that fails.
SentFirst(sent, keys) == \A sentKey \in sent, other \in keys \ sent : sentKey < other

\* _set_pressed, a stroke not sent; the set of held keys is not brought up to date.
FailPressed(target) ==
    /\ failures < MaxFailures
    /\ \E lifts \in SUBSET Lifts(target), presses \in SUBSET Presses(target) :
        /\ SentFirst(lifts, Lifts(target)) /\ SentFirst(presses, Presses(target))
        /\ lifts = Lifts(target) \/ presses = {}
        /\ <<lifts, presses>> # <<Lifts(target), Presses(target)>>
        /\ down' = (down \ lifts) \cup presses
    /\ failures' = failures + 1
    /\ UNCHANGED pressed

\* Faulty: the reference is dropped and the timer left running.
CancelledByDropping == timers

\* The timers after _cancel_tap_unlocked: a timer that has gone off stays that way.
Cancelled ==
    [t \in Tap |-> IF t = tapTimer /\ timers[t] = "running" THEN "over" ELSE timers[t]]

\* The action that has the lock is the last one, whatever becomes of it.
Begin(target, tap) ==
    /\ ~closed
    /\ asked' = target
    /\ tapped' = tap
    /\ loose' = loose \cup {t \in Tap : timers[t] = "fired"}
    /\ lifted' = NoTimer

Apply(target) ==
    /\ Begin(target, NoTimer)
    /\ timers' = Cancelled
    /\ tapTimer' = NoTimer
    /\ SetPressed(target) \/ FailPressed(target)
    /\ UNCHANGED closed

\* apply_discrete with a brake tap; the timer is only there once the keys are down.
ApplyTap(target, t) ==
    /\ timers[t] = "unused" /\ \A s \in 1 .. t - 1 : timers[s] # "unused"
    /\ Begin(target \cup {Brake}, t)
    /\ \/ /\ SetPressed(target \cup {Brake})
          /\ timers' = [Cancelled EXCEPT ![t] = "running"]
          /\ tapTimer' = t
       \/ /\ FailPressed(target \cup {Brake})
          /\ timers' = Cancelled
          /\ tapTimer' = NoTimer
    /\ UNCHANGED closed

Fire(t) ==
    /\ timers[t] = "running"
    /\ timers' = [timers EXCEPT ![t] = "fired"]
    /\ UNCHANGED <<down, pressed, tapTimer, closed, failures, asked, tapped, loose, lifted>>

\* _release_brake drops whatever timer the controller knows, its own or a later one.
ReleaseBrake(t) ==
    /\ timers[t] = "fired"
    /\ timers' = [timers EXCEPT ![t] = "over"]
    /\ tapTimer' = NoTimer
    /\ lifted' = IF Brake \in pressed THEN t ELSE lifted
    /\ SetPressed(pressed \ {Brake}) \/ FailPressed(pressed \ {Brake})
    /\ loose' = loose \cup ({tapTimer} \ {NoTimer, t})
    /\ UNCHANGED <<closed, asked, tapped>>

\* A key struck and lifted again; between the two the process may be interrupted.
Strike(key, held) ==
    \/ down' = held /\ UNCHANGED failures
    \/ /\ failures < MaxFailures
       /\ down' \in {held, held \cup {key}}
       /\ failures' = failures + 1

\* reset lifts every key, looks for the window and strikes the restart key.
Reset ==
    /\ Begin({}, NoTimer)
    /\ timers' = Cancelled
    /\ tapTimer' = NoTimer
    /\ \/ FailPressed({})
       \/ pressed' = {} /\ Strike(Restart, down \ pressed)
    /\ UNCHANGED closed

\* confirm_trackmania_finish takes no lock and touches no key of an action.
ConfirmFinish ==
    /\ ~closed
    /\ Strike(Enter, down \ {Enter})
    /\ UNCHANGED <<pressed, tapTimer, timers, closed, asked, tapped, loose, lifted>>

CloseKeyboard ==
    /\ Begin({}, NoTimer)
    /\ timers' = Cancelled
    /\ tapTimer' = NoTimer
    /\ SetPressed({}) \/ FailPressed({})
    /\ closed' = TRUE

KeyboardNext ==
    \/ \E target \in Targets : Apply(target)
    \/ \E target \in Targets, t \in Tap : ApplyTap(target, t)
    \/ \E t \in Tap : Fire(t)
    \/ \E t \in Tap : ReleaseBrake(t)
    \/ Reset
    \/ ConfirmFinish
    \/ CloseKeyboard

KeyboardSpec == KeyboardInit /\ [][KeyboardNext]_keyboardVars

-----------------------------------------------------------------------------

\* The variables have their types.
KeyboardTypeOK ==
    /\ down \subseteq {Enter, Restart, Left, Right, Brake, Gas}
    /\ pressed \subseteq {Left, Right, Brake, Gas}
    /\ tapTimer \in Tap \cup {NoTimer}
    /\ timers \in [Tap -> {"unused", "running", "fired", "over"}]
    /\ closed \in BOOLEAN
    /\ failures \in 0 .. MaxFailures
    /\ asked \subseteq {Left, Right, Brake, Gas}
    /\ {tapped, lifted} \subseteq Tap \cup {NoTimer}
    /\ loose \subseteq Tap

\* As long as no stroke has failed, the game sees the keys of the last action, and none once
\* the controller is closed.  Only the brake may be up instead, lifted by the timer of that
\* very action or by a loose one: a timer that had gone off before an action had the lock, or
\* whose reference such a timer dropped when it ran (keyboard_control.py:201-239).
KeysFollowActions ==
    failures = 0 =>
        /\ down = pressed
        /\ pressed = asked \/ (pressed = asked \ {Brake} /\ lifted \in loose \cup {tapped})
        /\ closed => down = {}

=============================================================================
