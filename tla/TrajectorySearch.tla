---------------------------- MODULE TrajectorySearch ----------------------------
(* SafeTrajectoryOptimizer under trajectory-optimize: slow windows of a recorded
   lap are shortened one boundary at a time, a candidate is kept when every
   confirmation lap finishes and their median is better by a margin, and the
   kept schedule is saved, so that a later run of the command goes on from it.
   The search may be killed anywhere.  A schedule is its boundary offsets.     *)
EXTENDS Integers, Sequences, FiniteSetsExt

CONSTANTS Boundaries,          \* source boundaries: a sequence that starts with 0
          SlowSegments,        \* segments with the gas released or the brake applied
          Shortenings,         \* shortening_ticks: a sequence
          MinimumWindow,       \* minimum_window_ticks
          BaselineTrials, ConfirmationTrials, MaxTrials,
          MinimumImprovement, TargetTime,
          LapTimes,            \* finish times a lap can have
          MaxRuns              \* bound: runs of the command

Segment == 1 .. Len(Boundaries) - 1        \* segment i lies between boundary i and i + 1
Inner == 2 .. Len(Boundaries) - 1          \* boundaries that can move

ASSUME SearchAssumption ==
    /\ Boundaries \in Seq(Nat) /\ Len(Boundaries) > 1 /\ Boundaries[1] = 0
    /\ \A i \in Segment : Boundaries[i] < Boundaries[i + 1]
    /\ SlowSegments \subseteq Segment /\ Shortenings \in Seq(Nat \ {0})
    /\ {MinimumWindow, BaselineTrials, ConfirmationTrials, MaxTrials} \subseteq Nat \ {0}
    /\ MaxTrials >= BaselineTrials
    /\ MinimumImprovement \in Nat /\ TargetTime \in Nat /\ LapTimes \subseteq Nat \ {0}
    /\ MaxRuns \in Nat

VARIABLES
    saved,      \* the schedule in the output file, <<>> before the first save
    journal,    \* the journal: [trial, accepted] of every record
    runs,       \* runs of the command so far
    searching,      \* where the run is
    initial,    \* the schedule the run began with
    incumbent, median, \* state.incumbent and twice state.median_time_s
    trial,      \* state.trial
    records,    \* len(state.records)
    requests,   \* what _search_requests still yields
    candidate,  \* the schedule under test
    outcomes,   \* its laps so far: finish times, 0 for a lap that did not finish
    driven,     \* history: laps of this run
    proved      \* history: schedules whose laps of one evaluation all finished

searchVars == <<saved, journal, runs, searching, initial, incumbent, median, trial, records, requests,
                candidate, outcomes, driven, proved>>
files == <<saved, journal>>
state == <<initial, incumbent, median, trial, records, requests>>

-----------------------------------------------------------------------------
(* Schedules.                                                                 *)
Unshortened == [b \in Inner |-> 0]
Effective(schedule, b) == Boundaries[b] + (IF b \in Inner THEN schedule[b] ELSE 0)
Ticks(schedule, first, stop) == Effective(schedule, stop) - Effective(schedule, first)
Valid(schedule) == \A i \in Segment : Ticks(schedule, i, i + 1) > 0

(* slow_windows: maximal runs of slow segments, as their first and stop boundary. *)
SlowWindows(schedule) ==
    {w \in Segment \X (2 .. Len(Boundaries)) :
        /\ w[1] < w[2] /\ w[1] .. w[2] - 1 \subseteq SlowSegments
        /\ w[1] - 1 \notin SlowSegments /\ w[2] \notin SlowSegments
        /\ Ticks(schedule, w[1], w[2]) >= MinimumWindow}

(* _search_requests: every size, every window in order, its start and its end. *)
WindowOrders(schedule) ==
    {order \in [1 .. Cardinality(SlowWindows(schedule)) -> SlowWindows(schedule)] :
        \A i, j \in DOMAIN order : i < j => order[i][1] < order[j][1]}
SearchRequest(order, k) ==
    LET w == order[((k \div 2) % Len(order)) + 1]
        ticks == Shortenings[k \div (2 * Len(order)) + 1]
    IN IF k % 2 = 0 THEN [boundary |-> w[1], move |-> ticks]
                    ELSE [boundary |-> w[2], move |-> -ticks]
SearchRequests(order) ==
    [k \in 1 .. 2 * Len(order) * Len(Shortenings) |-> SearchRequest(order, k - 1)]

(* shorten, and the requests it refuses: the ends of the lap, a collapsed segment. *)
Shorten(schedule, request) == [schedule EXCEPT ![request.boundary] = @ + request.move]
Shortens(schedule, request) ==
    request.boundary \in Inner /\ Valid(Shorten(schedule, request))

(* Twice the median of the laps that finished.                                *)
Finished(laps) == SelectSeq(laps, LAMBDA lap : lap > 0)
Ranked(times, k) ==
    Min({times[i] : i \in {j \in DOMAIN times :
                              Cardinality({m \in DOMAIN times : times[m] <= times[j]}) >= k}})
MedianOf(laps) ==
    LET times == Finished(laps)
    IN Ranked(times, (Len(times) + 1) \div 2) + Ranked(times, Len(times) \div 2 + 1)
Clean(laps) == Finished(laps) = laps
Better(twice) == twice < median - 2 * MinimumImprovement

-----------------------------------------------------------------------------
SearchInit ==
    /\ saved = <<>> /\ journal = <<>> /\ runs = 0 /\ searching = "stopped"
    /\ initial = Unshortened /\ incumbent = Unshortened /\ median = 0 /\ trial = 0 /\ records = 0
    /\ requests = <<>> /\ candidate = Unshortened /\ outcomes = <<>>
    /\ driven = 0 /\ proved = {}

(* The command starts: from the output file if there is one.                  *)
BeginSearch ==
    /\ searching = "stopped" /\ runs < MaxRuns /\ runs' = runs + 1 /\ searching' = "baseline"
    /\ initial' = IF saved = <<>> THEN Unshortened ELSE saved
    /\ incumbent' = initial' /\ candidate' = initial'
    /\ median' = 0 /\ trial' = 0 /\ records' = 0 /\ requests' = <<>>
    /\ outcomes' = <<>> /\ driven' = 0
    /\ UNCHANGED <<files, proved>>

(* evaluate: one lap; a timeout or a lost connection is a lap that did not finish. *)
DriveLap(lap) == outcomes' = Append(outcomes, lap) /\ driven' = driven + 1

BaselineLap(lap) ==
    /\ searching = "baseline" /\ Len(outcomes) < BaselineTrials /\ DriveLap(lap)
    /\ UNCHANGED <<files, runs, searching, state, candidate, proved>>

Proved(laps) == proved' = IF Clean(laps) THEN proved \cup {candidate} ELSE proved

(* _initial_state, and optimize up to the search.                             *)
BaselineEnds ==
    /\ searching = "baseline" /\ Len(outcomes) = BaselineTrials /\ Proved(outcomes)
    /\ IF ~Clean(outcomes) THEN searching' = "stopped" /\ UNCHANGED <<saved, median, trial,
                                                                      requests>>
       ELSE /\ saved' = candidate /\ median' = MedianOf(outcomes) /\ trial' = BaselineTrials
            /\ \E order \in WindowOrders(initial) : requests' = SearchRequests(order)
            /\ searching' = IF median' <= 2 * TargetTime THEN "done" ELSE "search"
    /\ UNCHANGED <<journal, runs, initial, incumbent, records, candidate, outcomes, driven>>

(* The next request; one that cannot be applied is passed over.               *)
NextCandidate ==
    /\ searching = "search" /\ requests # <<>> /\ requests' = Tail(requests)
    /\ IF ~Shortens(incumbent, Head(requests)) THEN UNCHANGED <<searching, candidate, outcomes>>
       ELSE IF trial >= MaxTrials THEN searching' = "done" /\ UNCHANGED <<candidate, outcomes>>
       ELSE searching' = "screen" /\ candidate' = Shorten(incumbent, Head(requests)) /\ outcomes' = <<>>
    /\ UNCHANGED <<files, runs, initial, incumbent, median, trial, records, driven, proved>>
SearchExhausted ==
    /\ searching = "search" /\ requests = <<>> /\ searching' = "done"
    /\ UNCHANGED <<files, runs, state, candidate, outcomes, driven, proved>>

(* _evaluate_candidate: a screening lap, and confirmations while the budget lasts. *)
Screen(lap) ==
    /\ searching = "screen" /\ DriveLap(lap) /\ trial' = trial + 1
    /\ searching' = IF lap > 0 /\ Better(2 * lap) THEN "confirm" ELSE "record"
    /\ UNCHANGED <<files, runs, initial, incumbent, median, records, requests, candidate,
                   proved>>
Confirmations == Min({ConfirmationTrials, 1 + MaxTrials - (trial - (Len(outcomes) - 1))})
Confirm(lap) ==
    /\ searching = "confirm" /\ Len(outcomes) < Confirmations
    /\ DriveLap(lap) /\ trial' = trial + 1
    /\ UNCHANGED <<files, runs, searching, initial, incumbent, median, records, requests,
                   candidate, proved>>
ConfirmationsEnd ==
    /\ searching = "confirm" /\ Len(outcomes) = Confirmations /\ searching' = "record"
    /\ UNCHANGED <<files, runs, state, candidate, outcomes, driven, proved>>

ConfirmedEarly == Clean(outcomes) /\ Better(MedianOf(outcomes)) \* faulty: fewer laps will do
Confirmed ==
    Len(outcomes) = ConfirmationTrials /\ Clean(outcomes) /\ Better(MedianOf(outcomes))

(* _record_evaluation: the verdict goes into the journal with every lap, then an
   accepted candidate replaces the incumbent and is saved.                      *)
JournalEntries ==
    [k \in 1 .. Len(outcomes) |->
        [trial |-> records + BaselineTrials + k, accepted |-> Confirmed]]
RecordEvaluation ==
    /\ searching = "record" /\ journal' = journal \o JournalEntries
    /\ records' = records + Len(outcomes)
    /\ IF Len(outcomes) = ConfirmationTrials THEN Proved(outcomes) ELSE UNCHANGED proved
    /\ searching' = IF Confirmed THEN "accept" ELSE "search"
    /\ UNCHANGED <<saved, runs, initial, incumbent, median, trial, requests, candidate,
                   outcomes, driven>>
AcceptCandidate ==
    /\ searching = "accept" /\ incumbent' = candidate /\ median' = MedianOf(outcomes)
    /\ saved' = candidate
    /\ searching' = IF median' <= 2 * TargetTime THEN "done" ELSE "search"
    /\ UNCHANGED <<journal, runs, initial, trial, records, requests, candidate, outcomes,
                   driven, proved>>

(* The command saves the result again; what is not caught kills the search.    *)
FinishSearch ==
    /\ searching = "done" /\ searching' = "stopped" /\ saved' = incumbent
    /\ UNCHANGED <<journal, runs, state, candidate, outcomes, driven, proved>>
KillSearch ==
    /\ searching # "stopped" /\ searching' = "stopped"
    /\ UNCHANGED <<files, runs, state, candidate, outcomes, driven, proved>>

SearchNext ==
    \/ BeginSearch \/ BaselineEnds \/ NextCandidate \/ SearchExhausted \/ ConfirmationsEnd
    \/ RecordEvaluation \/ AcceptCandidate \/ FinishSearch \/ KillSearch
    \/ \E lap \in LapTimes \cup {0} : BaselineLap(lap) \/ Screen(lap) \/ Confirm(lap)

SearchSpec == SearchInit /\ [][SearchNext]_searchVars

-----------------------------------------------------------------------------
SearchTypeOK ==
    /\ saved \in [Inner -> Int] \cup {<<>>}
    /\ searching \in {"stopped", "baseline", "search", "screen", "confirm", "record", "accept", "done"}
    /\ {initial, incumbent, candidate} \subseteq [Inner -> Int] /\ median \in Nat
    /\ trial \in Nat /\ records \in Nat /\ runs \in 0 .. MaxRuns

(* The search is safe: a run drives no more laps than its budget; what is in the
   output file, whenever the command is killed, is a schedule whose laps all
   finished in one evaluation, and the journal has said so before; laps are
   numbered in the journal as they were driven; and no schedule is ever tried
   that collapses a segment or slows the lap where the recording does not.     *)
SearchIsSafe ==
    /\ driven <= MaxTrials
    /\ saved # <<>> => saved \in proved
    /\ saved \notin {<<>>, Unshortened} => \E i \in 1 .. Len(journal) : journal[i].accepted
    /\ searching \in {"search", "done"} => driven = trial /\ trial = records + BaselineTrials
    /\ Valid(candidate)
    /\ \A i \in Segment : i \notin SlowSegments =>
         Ticks(candidate, i, i + 1) >= Boundaries[i + 1] - Boundaries[i]

=============================================================================
