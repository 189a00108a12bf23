-------------------------- MODULE EvaluationLeaders --------------------------
(***************************************************************************)
(* What the learner makes of deterministic evaluations: it remembers the   *)
(* policies it hands out, promotes evaluated policies to leader            *)
(* checkpoints and stops after enough passing batches.                     *)
(*                                                                         *)
(* Three kinds of thread meet here: RPC handlers that hand evaluations     *)
(* out, the learner's main thread that ingests the results, and the        *)
(* checkpoint writer's thread, whose failures take a promotion back.       *)
(*                                                                         *)
(* Durable: journal, files, pruned.  Everything else dies with the learner.*)
(***************************************************************************)
EXTENDS Integers, Sequences

CONSTANTS
    Results,            \* outcomes of an evaluation batch
    Remembered,         \* policies kept for leader checkpoints (16)
    RequiredBatches,    \* evaluation_stop_consecutive_batches, 0 when it is not set
    Interruptible,      \* TRUE: Ctrl+C reaches the learner
    MaxUpdates,         \* bound: updates
    MaxBatches,         \* bound: evaluation batches
    MaxStarts           \* bound: learner processes

ASSUME LeadersAssumption ==
    /\ Results \subseteq [reliable : Nat, fastest : Nat, passed : BOOLEAN]
    /\ Remembered \in Nat \ {0}
    /\ RequiredBatches \in Nat
    /\ Interruptible \in BOOLEAN
    /\ MaxUpdates \in Nat /\ MaxBatches \in Nat /\ MaxStarts \in Nat

VARIABLES
    journal,            \* evaluation batches in the order of their rows
    files,              \* checkpoints on disk
    pruned,             \* evaluation rows that left the journal
    learner,            \* where the main thread is
    updates,            \* counters.updates
    frontier,           \* evaluation rows applied
    weights,            \* what is being trained
    policy,             \* the published snapshot with its version
    remembered,         \* _evaluation_policy_states, in insertion order
    ranks,              \* _best_evaluation and _fastest_evaluation, 0 for None
    todo,               \* families the batch at hand is still to be saved in
    exact,              \* the evaluated policy, as it was looked up
    passes,             \* _consecutive_evaluation_passes
    stopped,            \* _evaluation_stop_reason is set
    writer,             \* the checkpoint being written
    published,          \* every snapshot an actor may have got
    base,               \* evaluation rows applied when this process began to learn
    starts,             \* learner processes so far
    split,              \* history: Ctrl+C fell between the reservation of a rank and its try
    behind              \* history: a process was resumed from a file behind a leader on disk

store == <<journal, files, pruned>>
training == <<updates, weights, policy, published>>
stopping == <<passes, stopped>>
process == <<base, starts, split, behind>>
vars == <<journal, files, pruned, learner, updates, frontier, weights, policy, remembered, ranks,
          todo, exact, passes, stopped, writer, published, base, starts, split, behind>>

-----------------------------------------------------------------------------
(* State.                                                                  *)

\* Leader families, EvaluationCheckpointKind.
Kind == {"best-eval", "fastest-eval"}

\* Weights are told apart by the process and the update that made them.
Weights == [start : Nat, update : Nat]

Snapshot == [version : Nat, weights : Weights]

\* What an actor sends back: the snapshot it evaluated and how that went.
Batch == [snapshot : Snapshot, result : Results]

\* The rank of a result in a family; 0 when it does not qualify.
RankOf(result, kind) == IF kind = "best-eval" THEN result.reliable ELSE result.fastest

NoWeights == [start |-> 0, update |-> 0]
NoSnapshot == [version |-> 0, weights |-> NoWeights]
NoBatch == [snapshot |-> NoSnapshot, result |-> [reliable |-> 0, fastest |-> 0, passed |-> FALSE]]
NoRanks == [kind \in Kind |-> 0]

\* batch is the one that earned a leader checkpoint; it is history.
Checkpoint ==
    [family : Kind \cup {"distributed"}, batch : Batch \cup {NoBatch}, weights : Weights,
     updates : Nat, frontier : Nat, ranks : [Kind -> Nat]]

NoCheckpoint ==
    [family |-> "distributed", batch |-> NoBatch, weights |-> NoWeights,
     updates |-> 0, frontier |-> 0, ranks |-> NoRanks]
IdleWriter == [stage |-> "idle", file |-> NoCheckpoint, previous |-> 0]

TypeOK ==
    /\ journal \in Seq(Batch)
    /\ files \subseteq Checkpoint
    /\ pruned \in Nat
    /\ learner \in {"down", "loop", "record", "leaders", "passes", "final", "wait",
                   "interrupted", "close"}
    /\ updates \in Nat /\ frontier \in 0..Len(journal)
    /\ weights \in Weights /\ policy \in Snapshot
    /\ remembered \in Seq(Snapshot)
    /\ ranks \in [Kind -> Nat] /\ todo \subseteq Kind /\ exact \in Weights
    /\ passes \in 0..(frontier - base) /\ stopped \in BOOLEAN
    /\ writer \in [stage : {"idle", "pending", "written", "failed"}, file : Checkpoint,
                   previous : Nat]
    /\ published \subseteq Snapshot
    /\ base \in 0..Len(journal) /\ starts \in Nat
    /\ split \in BOOLEAN /\ behind \in BOOLEAN

Serving == learner # "down"

Init ==
    /\ journal = <<>> /\ files = {} /\ pruned = 0
    /\ learner = "down"
    /\ updates = 0 /\ frontier = 0 /\ weights = NoWeights /\ policy = NoSnapshot
    /\ remembered = <<>> /\ ranks = NoRanks /\ todo = {} /\ exact = NoWeights
    /\ passes = 0 /\ stopped = FALSE /\ writer = IdleWriter /\ base = 0
    /\ published = {} /\ starts = 0 /\ split = FALSE /\ behind = FALSE

-----------------------------------------------------------------------------
(* The remembered policies.                                                *)

\* Setting a key of a dict keeps the place of the key, if it is there.
Remember(memory, snapshot) ==
    IF \E i \in DOMAIN memory : memory[i].version = snapshot.version
    THEN [i \in DOMAIN memory |->
            IF memory[i].version = snapshot.version THEN snapshot ELSE memory[i]]
    ELSE Append(memory, snapshot)

\* The oldest go until at most Remembered are left.
Evict(memory) ==
    IF Len(memory) <= Remembered THEN memory
    ELSE SubSeq(memory, Len(memory) - Remembered + 1, Len(memory))

\* A handler hands the published policy out, once one has been trained.
AssignEvaluation ==
    /\ Serving
    /\ policy.version > 0
    /\ remembered' = Evict(Remember(remembered, policy))
    /\ UNCHANGED <<store, learner, training, frontier, ranks, todo, exact, stopping, writer, process>>

\* An actor has evaluated a snapshot it once got, and a handler has journalled the batch.
ReceiveBatch ==
    /\ Serving
    /\ Len(journal) < MaxBatches
    /\ \E snapshot \in published, result \in Results :
         journal' = Append(journal, [snapshot |-> snapshot, result |-> result])
    /\ UNCHANGED <<files, pruned, learner, training, frontier, remembered, ranks, todo, exact,
                   stopping, writer, process>>

-----------------------------------------------------------------------------
(* Training and publication.                                               *)

Update ==
    /\ learner = "loop" /\ ~stopped
    /\ updates < MaxUpdates
    /\ updates' = updates + 1
    /\ weights' = [start |-> starts, update |-> updates + 1]
    /\ UNCHANGED <<store, learner, policy, published, frontier, remembered, ranks, todo, exact,
                   stopping, writer, process>>

\* The policy and its version change together.
Publish ==
    /\ learner = "loop" /\ ~stopped
    /\ policy' = [version |-> updates, weights |-> weights]
    /\ published' = published \cup {policy'}
    /\ UNCHANGED <<store, learner, updates, weights, frontier, remembered, ranks, todo, exact,
                   stopping, writer, process>>

-----------------------------------------------------------------------------
(* Recording a batch.                                                      *)

Current == journal[frontier]

\* Ingesting a batch recalls its snapshot, without a limit.
Ingest ==
    /\ learner = "loop"
    /\ frontier < Len(journal)
    /\ frontier' = frontier + 1
    /\ remembered' = Remember(remembered, journal[frontier + 1].snapshot)
    /\ learner' = "record"
    /\ UNCHANGED <<store, training, ranks, todo, exact, stopping, writer, process>>

\* Faulty variant of Promotions: a batch is promoted in one family at most.
PromotionOfOneKind ==
    LET improved == {kind \in Kind : RankOf(Current.result, kind) > ranks[kind]}
    IN  IF "best-eval" \in improved THEN {"best-eval"} ELSE improved

\* Families in which the batch improves on the leader.
Promotions == {kind \in Kind : RankOf(Current.result, kind) > ranks[kind]}

IsRemembered(version) == \E i \in DOMAIN remembered : remembered[i].version = version

\* Faulty variant of StateOf: the weights being trained are saved.
TrainedState(version) == weights

\* The weights remembered for a version.
StateOf(version) ==
    remembered[CHOOSE i \in DOMAIN remembered : remembered[i].version = version].weights

\* The writer is waited for first, so no promotion is about to be taken back.
Promote ==
    /\ learner = "record"
    /\ writer.stage = "idle"
    /\ IF Promotions = {}
       THEN learner' = "passes" /\ UNCHANGED <<todo, exact>>
       ELSE /\ IsRemembered(Current.snapshot.version)
            /\ exact' = StateOf(Current.snapshot.version)
            /\ todo' = Promotions
            /\ learner' = "leaders"
    /\ UNCHANGED <<store, training, frontier, remembered, ranks, stopping, writer, process>>

\* The rank the file carries is reserved before it is written.
Reserved(kind) == [ranks EXCEPT ![kind] = RankOf(Current.result, kind)]

NextKind(kind) == kind \in todo /\ (kind = "fastest-eval" => "best-eval" \notin todo)

LeaderCheckpoint(kind) ==
    [family |-> kind, batch |-> Current, weights |-> exact,
     updates |-> updates, frontier |-> frontier, ranks |-> Reserved(kind)]

QueueLeader(kind) ==
    writer' = [stage |-> "pending", file |-> LeaderCheckpoint(kind), previous |-> ranks[kind]]

\* One checkpoint per family; each waits for the one before.
SaveLeader(kind) ==
    /\ learner = "leaders"
    /\ writer.stage = "idle"
    /\ NextKind(kind)
    /\ ranks' = Reserved(kind)
    /\ QueueLeader(kind)
    /\ todo' = todo \ {kind}
    /\ UNCHANGED <<store, learner, training, frontier, remembered, exact, stopping, process>>

LeadersSaved ==
    /\ learner = "leaders"
    /\ todo = {}
    /\ learner' = "passes"
    /\ exact' = NoWeights
    /\ UNCHANGED <<store, training, frontier, remembered, ranks, todo, stopping, writer, process>>

\* Faulty variant of PassesAfter: a failed batch does not start the count again.
PassesInTotal(passed) == passes + IF passed THEN 1 ELSE 0

PassesAfter(passed) == IF passed THEN passes + 1 ELSE 0

RecordPasses ==
    /\ learner = "passes"
    /\ learner' = "loop"
    /\ IF RequiredBatches = 0 THEN UNCHANGED stopping
       ELSE /\ passes' = PassesAfter(Current.result.passed)
            /\ stopped' = (stopped \/ passes' >= RequiredBatches)
    /\ UNCHANGED <<store, training, frontier, remembered, ranks, todo, exact, writer, process>>

-----------------------------------------------------------------------------
(* Regular checkpoints and the writer's thread.                            *)

RegularCheckpoint ==
    [family |-> "distributed", batch |-> NoBatch, weights |-> weights,
     updates |-> updates, frontier |-> frontier, ranks |-> ranks]

QueueCheckpoint ==
    /\ writer.stage = "idle"
    /\ writer' = [stage |-> "pending", previous |-> 0, file |-> RegularCheckpoint]

SaveRegular ==
    /\ learner = "loop" /\ ~stopped
    /\ updates > 0
    /\ QueueCheckpoint
    /\ UNCHANGED <<store, learner, training, frontier, remembered, ranks, todo, exact, stopping,
                   process>>

SamePath(f, g) ==
    /\ f.family = g.family
    /\ f.updates = g.updates
    /\ f.batch.snapshot.version = g.batch.snapshot.version

WriteFile ==
    /\ writer.stage = "pending"
    /\ files' = {f \in files : ~SamePath(f, writer.file)} \cup {writer.file}
    /\ writer' = [writer EXCEPT !.stage = "written"]
    /\ UNCHANGED <<journal, pruned, learner, training, frontier, remembered, ranks, todo, exact,
                   stopping, process>>

FinishWrite ==
    /\ writer.stage = "written"
    /\ pruned' = IF writer.file.frontier > pruned THEN writer.file.frontier ELSE pruned
    /\ writer' = IdleWriter
    /\ UNCHANGED <<journal, files, learner, training, frontier, remembered, ranks, todo, exact,
                   stopping, process>>

\* Faulty variant of RolledBack: the reservation stays.
NotRolledBack == ranks

\* A leader that was not saved gives its rank back, unless a better one took it since.
RolledBack ==
    LET kind == writer.file.family
    IN  IF kind \in Kind /\ ranks[kind] = writer.file.ranks[kind]
        THEN [ranks EXCEPT ![kind] = writer.previous] ELSE ranks

\* Saving the file, or pruning, retention or logging after it, fails.
WriteFails ==
    /\ writer.stage \in {"pending", "written"}
    /\ writer' = [writer EXCEPT !.stage = "failed"]
    /\ ranks' = RolledBack
    /\ UNCHANGED <<store, learner, training, frontier, remembered, todo, exact, stopping, process>>

-----------------------------------------------------------------------------
(* How a process ends and starts.                                          *)

\* An early stop, or another reason to stop; the final checkpoint may be switched off.
StopLearning ==
    /\ learner = "loop"
    /\ learner' \in {"final", "wait"}
    /\ UNCHANGED <<store, training, frontier, remembered, ranks, todo, exact, stopping, writer,
                   process>>

SaveFinal ==
    /\ learner \in {"final", "interrupted"}
    /\ QueueCheckpoint
    /\ learner' = IF learner = "final" THEN "wait" ELSE "close"
    /\ UNCHANGED <<store, training, frontier, remembered, ranks, todo, exact, stopping, process>>

\* Ctrl+C saves a final checkpoint, unless that is switched off; a second one ends the process.
Interrupted ==
    /\ Interruptible
    /\ learner \in {"loop", "record", "leaders", "passes", "final", "wait"}
    /\ learner' \in {"interrupted", "close"}
    /\ todo' = {} /\ exact' = NoWeights
    /\ UNCHANGED <<store, training, frontier, remembered, stopping, base, starts, behind>>

\* When it cuts a wait short and the write has failed by then, the failure is forgotten.
Interrupt ==
    /\ Interrupted
    /\ \/ UNCHANGED writer
       \/ writer.stage = "failed" /\ learner # "passes" /\ writer' = IdleWriter
    /\ UNCHANGED <<ranks, split>>

\* Inside the try the reservation is taken back, though the file may be queued already;
\* before the try it stays.
InterruptSaveLeader(kind) ==
    /\ Interrupted
    /\ learner = "leaders"
    /\ writer.stage = "idle"
    /\ NextKind(kind)
    /\ \/ QueueLeader(kind) /\ UNCHANGED <<ranks, split>>
       \/ ranks' = Reserved(kind) /\ split' = TRUE /\ UNCHANGED writer

\* Faulty variant of MemoryIsLost: the next process goes on counting.
MemoryIsLostButPasses ==
    /\ learner' = "down"
    /\ updates' = 0 /\ frontier' = 0 /\ weights' = NoWeights /\ policy' = NoSnapshot
    /\ remembered' = <<>> /\ ranks' = NoRanks /\ todo' = {} /\ exact' = NoWeights
    /\ passes' = passes /\ stopped' = FALSE /\ writer' = IdleWriter /\ base' = 0
    /\ UNCHANGED <<journal, files, pruned, published, starts, split, behind>>

MemoryIsLost ==
    /\ learner' = "down"
    /\ updates' = 0 /\ frontier' = 0 /\ weights' = NoWeights /\ policy' = NoSnapshot
    /\ remembered' = <<>> /\ ranks' = NoRanks /\ todo' = {} /\ exact' = NoWeights
    /\ passes' = 0 /\ stopped' = FALSE /\ writer' = IdleWriter /\ base' = 0
    /\ UNCHANGED <<journal, files, pruned, published, starts, split, behind>>

Exit ==
    /\ learner \in {"wait", "close"}
    /\ writer.stage = "idle"
    /\ MemoryIsLost

\* The learner meets the writer's failure where it next waits for the writer.
RaiseWriteFailure ==
    /\ learner \in {"loop", "record", "leaders", "final", "wait", "interrupted", "close"}
    /\ writer.stage = "failed"
    /\ MemoryIsLost

\* "cannot checkpoint evaluated policy version ...: exact snapshot missing"
RaiseSnapshotMissing ==
    /\ learner = "record"
    /\ writer.stage = "idle"
    /\ Promotions # {}
    /\ ~IsRemembered(Current.snapshot.version)
    /\ MemoryIsLost

Crash ==
    /\ learner # "down"
    /\ MemoryIsLost

\* Every way of starting ends with a forced publication.
BeginServing ==
    /\ learner' = "loop"
    /\ policy' = [version |-> updates', weights |-> weights']
    /\ published' = published \cup {policy'}
    /\ starts' = starts + 1

\* Refused once the journal has rows; --reset-replay takes the weights of a file.
StartFresh ==
    /\ learner = "down"
    /\ starts < MaxStarts
    /\ journal = <<>>
    /\ weights' \in {[start |-> starts + 1, update |-> 0]} \cup {f.weights : f \in files}
    /\ UNCHANGED <<store, updates, frontier, remembered, ranks, todo, exact, stopping, writer, base,
                   split, behind>>
    /\ BeginServing

\* Recovery recalls the snapshot of every batch after the file's frontier.
Recalled(f) ==
    LET memory[i \in f.frontier .. Len(journal)] ==
          IF i = f.frontier THEN <<>> ELSE Remember(memory[i - 1], journal[i].snapshot)
    IN  memory[Len(journal)]

\* A leader on disk is better than anything the file knows of.
IsBehind(f) ==
    \E g \in files : g.family \in Kind /\ RankOf(g.batch.result, g.family) > f.ranks[g.family]

\* Recovered batches are not promoted and do not count as passes.
Resume ==
    /\ learner = "down"
    /\ starts < MaxStarts
    /\ \E f \in files :
         /\ f.frontier >= pruned
         /\ updates' = f.updates
         /\ weights' = f.weights
         /\ ranks' = f.ranks
         /\ remembered' = Recalled(f)
         /\ behind' = (behind \/ IsBehind(f))
    /\ frontier' = Len(journal) /\ base' = Len(journal)
    /\ BeginServing
    /\ UNCHANGED <<store, todo, exact, stopping, writer, split>>

-----------------------------------------------------------------------------

Next ==
    \/ AssignEvaluation \/ ReceiveBatch
    \/ Update \/ Publish
    \/ Ingest \/ Promote \/ (\E kind \in Kind : SaveLeader(kind)) \/ LeadersSaved \/ RecordPasses
    \/ SaveRegular \/ WriteFile \/ FinishWrite \/ WriteFails
    \/ StopLearning \/ SaveFinal \/ Exit
    \/ Interrupt \/ (\E kind \in Kind : InterruptSaveLeader(kind))
    \/ RaiseWriteFailure \/ RaiseSnapshotMissing \/ Crash
    \/ StartFresh \/ Resume

Spec == Init /\ [][Next]_vars

-----------------------------------------------------------------------------
(* Properties.                                                             *)

Leaders(kind) == {f \in files : f.family = kind}

\* A leader checkpoint holds the very policy that was evaluated, not another one of the
\* same version (record_evaluation_leaders).  Stated for one learner process: the next one
\* gives the version numbers of this one to other weights.
LeadersAreExact ==
    starts = 1 => \A kind \in Kind : \A f \in Leaders(kind) : f.weights = f.batch.snapshot.weights

\* What may leave a rank without its leader: Ctrl+C between the reservation of the rank and
\* the try that takes it back, and a process resumed from a file behind the leaders, which may
\* save a worse one under the name of a better one that later files count on.
Regular == ~split /\ ~behind

\* Otherwise a checkpoint never carries a rank that no leader on disk has earned: a process
\* that resumes from it would refuse better policies for ever (_rollback_reserved_rank).
RanksAreBacked ==
    Regular => \A f \in files, kind \in Kind : f.ranks[kind] > 0 =>
      \E g \in Leaders(kind) : RankOf(g.batch.result, kind) >= f.ranks[kind]

\* Once a batch is recorded and nothing is being written, each family has a leader on
\* disk that is at least as good as the batch (record_evaluation_leaders), with the same
\* exceptions: a rank left behind keeps later batches from being promoted.
RecordedBatchesHaveLeaders ==
    Regular /\ learner = "loop" /\ writer.stage = "idle" =>
      \A i \in (base + 1)..frontier, kind \in Kind :
        RankOf(journal[i].result, kind) > 0 =>
          \E f \in Leaders(kind) :
            RankOf(f.batch.result, kind) >= RankOf(journal[i].result, kind)

\* Leaders and ranks agree, in memory and on disk.
LeadersAreBacked == RanksAreBacked /\ RecordedBatchesHaveLeaders

\* Training stops exactly when RequiredBatches batches in a row have passed, counted
\* over the batches this process recorded (record_evaluation_stop).
StopsAfterConsecutivePasses ==
    learner = "loop" /\ RequiredBatches > 0 =>
      (stopped <=>
        \E i \in (base + RequiredBatches)..frontier :
          \A j \in (i - RequiredBatches + 1)..i : journal[j].result.passed)

\* A batch that improves a leader finds the policy it evaluated, although handlers went on
\* remembering others while the learner waited for the writer (_evaluated_policy_state).
EvaluatedPolicyIsRemembered ==
    learner = "record" /\ Promotions # {} =>
      /\ IsRemembered(Current.snapshot.version)
      /\ StateOf(Current.snapshot.version) = Current.snapshot.weights

=============================================================================
