-------------------------------- MODULE MCData --------------------------------
(***************************************************************************)
(* The data of a run: the episodes an environment delivers and their       *)
(* reward, the spool directory of an actor, the replay with the index or   *)
(* the windows that draw from it, the tree of priorities, the summaries an *)
(* actor sends, the artifact of an evaluated suite and the schedule a      *)
(* trajectory search saves.  They share no state, so a behavior is one of  *)
(* any of them, chosen at the start; the others stay where they began.     *)
(***************************************************************************)
EXTENDS ActorSpool, RaceEnvironment, TrajectoryReward, ValueTargets, FenwickTree,
        EpisodeSummaries, SuiteEvaluation, TrajectorySearch, TLC

CONSTANTS Small, Large, Huge,   \* chunks of size 1, 2, and more than the spool
          MaxIds,               \* bound: ids given out by the replay
          MaxEvents             \* bound: labels, priority updates and restarts of the replay

MCChunk == Small \cup Large \cup Huge
MCSizeOf == [c \in MCChunk |-> IF c \in Small THEN 1
                               ELSE IF c \in Large THEN 2 ELSE SpoolMaxBytes + 1]

\* Chunks of the same size are interchangeable, and so are senders.
Symmetry == Permutations(Small) \cup Permutations(Large) \cup Permutations(Sender)

\* A demonstration and two laps, one of them three steps long and cut after its second step.
MCLastStep == [e \in Episode |-> IF e = "lap" THEN 2 ELSE 1]
MCDemo == {<<"demo", 0>>, <<"demo", 1>>}
MCCut == {<<"lap", 1>>}

\* The steps of an episode arrive in order, those of the longer lap at most one late.
InOrder(t) == \A s \in 0 .. t[2] - (IF t[1] = "lap" THEN 2 ELSE 1) : <<t[1], s>> \in offered

\* The learner imports demonstrations before it ingests anything: of a fresh run before the
\* first lap, of a resumed one after what it restored; nothing else arrives during an import.
Imported == Demo \subseteq offered
ImportedAtOnce(t) == t \in Demo \/ Imported \/ Demo \cap offered = {}

\* Labels, priority updates and restarts so far; an effective label and a restart each take a
\* revision of their own.
Events ==
    Cardinality({e \in Episode : episodePace[e] # "unknown"}) + Cardinality(lowered)
      + (storeRevision - nextIndex)

MCReplayNext ==
    \/ /\ \/ \E t \in Recorded : InOrder(t) /\ ImportedAtOnce(t) /\ AppendTransition(t)
          \/ Reappend
          \/ /\ Events < MaxEvents
             /\ \E e \in Episode \ {"lap2"}, pace \in Label :
                    (e = "demo" => pace = "slow") /\ LabelEpisode(e, pace)
       /\ nextIndex < MaxIds
       /\ UNCHANGED indexVars
    \/ Synchronize
    \/ Events < MaxEvents /\ \E id \in 0 .. MaxIds : UpdatePriority(id)
    \/ Events < MaxEvents /\ Restore

\* Every step has its own reward.
MCReward ==
    [t \in Recorded |->
        1 + t[2] + (CASE t[1] = "demo" -> 10 [] t[1] = "lap" -> 20 [] OTHER -> 30)]

\* The same store, of a fresh run, under a sampler of sequences; labels do not concern it.
MCSequenceNext ==
    \/ /\ \/ \E t \in Recorded :
               InOrder(t) /\ (t \in Demo \/ Imported) /\ AppendTransition(t)
          \/ Reappend
       /\ nextIndex < MaxIds
       /\ UNCHANGED <<indexVars, windowCache>>
    \/ DrawSequences
    \/ Events < MaxEvents /\ RestoreSampler

\* A reset leaves nothing of the episode before, so one of a young episode is as good as any.
MCRewardNext == (step <= 1 /\ NewEpisode) \/ RewardedStep

\* A hairpin: the way back passes where the way out did, and the car may also be off it.
MCPlace == [i \in Point |-> IF i <= 2 THEN i ELSE 4 - i]
MCTravelled == [i \in Point |-> i]
MCReferenceTime == [i \in Point |-> IF i < 2 THEN i ELSE i - 1]
MCPosition == {-2, 0, 1, 2}

VARIABLE part                   \* the part whose behavior this is

reportVars == <<summaryVars, suiteVars, searchVars>>
drivingVars == <<raceVars, rewardVars>>
dataVars == <<vars, batchVars, fenwickVars, drivingVars, reportVars, part>>

\* A lap of five segments, the second and the fourth driven slowly.
MCBoundaries == <<0, 1, 4, 5, 7, 8>>
MCShortenings == <<2, 1>>

MCInit ==
    /\ part \in {"race", "reward", "spool", "replay", "sequence", "tree", "summaries", "suite",
                 "search"}
    /\ RaceInit /\ (part # "race" => interval = Max(Intervals))
    /\ RewardInit /\ (part # "reward" => limited) /\ Init /\ BatchInit /\ FenwickInit
    /\ SummariesInit /\ SuiteInit /\ SearchInit

MCNext ==
    /\ UNCHANGED part
    /\ \/ /\ part = "race" /\ RaceNext
          /\ UNCHANGED <<rewardVars, vars, batchVars, fenwickVars, reportVars>>
       \/ /\ part = "reward" /\ MCRewardNext
          /\ UNCHANGED <<raceVars, vars, batchVars, fenwickVars, reportVars>>
       \/ /\ part = "spool" /\ Next
          /\ UNCHANGED <<drivingVars, batchVars, fenwickVars, reportVars>>
       \/ /\ part = "replay" /\ MCReplayNext
          /\ UNCHANGED <<drivingVars, vars, windowCache, fenwickVars, reportVars>>
       \/ /\ part = "sequence" /\ MCSequenceNext
          /\ UNCHANGED <<drivingVars, vars, fenwickVars, reportVars>>
       \/ /\ part = "tree" /\ FenwickNext
          /\ UNCHANGED <<drivingVars, vars, batchVars, reportVars>>
       \/ /\ part = "summaries" /\ SummariesNext
          /\ UNCHANGED <<drivingVars, vars, batchVars, fenwickVars, suiteVars, searchVars>>
       \/ /\ part = "suite" /\ SuiteNext
          /\ UNCHANGED <<drivingVars, vars, batchVars, fenwickVars, summaryVars, searchVars>>
       \/ /\ part = "search" /\ SearchNext
          /\ UNCHANGED <<drivingVars, vars, batchVars, fenwickVars, summaryVars, suiteVars>>

MCSpec == MCInit /\ [][MCNext]_dataVars

\* Every part keeps its types.
DataTypeOK ==
    /\ RaceTypeOK /\ RewardTypeOK /\ TypeOK /\ StoreTypeOK
    /\ SummariesTypeOK /\ SuiteTypeOK /\ SearchTypeOK

\* The ring keeps what was driven: neighbours stay linked through evictions and late steps,
\* and demonstrations outlive the laps around them (replay/store.py:92-170).
EpisodesAreKept == part = "replay" => EpisodesStayLinked /\ DemonstrationsAreKept

\* What a learner is given follows the store: which transitions may be drawn, and what is
\* made of them (core/replay/prioritized_index.py, sequence_sampler.py,
\* algorithms/value_based).
DrawsFollowTheStore ==
    IF part = "sequence" THEN BatchesAreTrue /\ TargetsAreTrue ELSE IndexFollowsTheStore

\* What is reported of a policy is what it drove: the summaries an actor sends and the
\* artifact of an evaluated suite (distributed/actor_evaluation.py, trackmania/evaluation.py).
ReportsAreTrue == SummariesAreTrue /\ ArtifactsAreTrue

=============================================================================
