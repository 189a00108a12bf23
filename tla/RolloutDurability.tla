-------------------------- MODULE RolloutDurability --------------------------
(***************************************************************************)
(* One distributed run: actors hand spooled rollouts to the learner over   *)
(* an unreliable RPC, the learner journals them, ingests the journal into  *)
(* its replay in row order, checkpoints through an asynchronous writer     *)
(* that prunes the journal, and may be killed, stopped and resumed.        *)
(*                                                                         *)
(* Durable: the journal, the checkpoint files, the actors' spools.         *)
(* Volatile: the learner's memory, the RPC threads, the writer.            *)
(***************************************************************************)
EXTENDS RolloutJournal

CONSTANTS
    Evaluation,             \* chunks with an evaluation batch and no transitions;
                            \* every other chunk stands for one transition
    Worker,                 \* threads of the RPC server
    None,                   \* no chunk
    LeaderKinds,            \* evaluation-leader checkpoint families in use
    MaxInflight,            \* max_inflight_chunks, summed over the actors
    HardLag,                \* hard_policy_lag_updates
    Warmup,                 \* warmup_transitions
    UpdatesPerTransition,   \* updates_per_transition
    MaxCredit,              \* max_update_credit
    TotalTransitions,       \* total_transitions
    OfflineUpdates,         \* offline_pretrain_updates
    CheckpointInterval,     \* checkpoint_interval_updates, 0 for null
    KeepLast,               \* checkpoint_keep_last, 0 for null
    SaveFinal,              \* save_final_checkpoint
    Interruptible,          \* TRUE: Ctrl+C reaches the learner (`learner` command)
    ResumeNewest,           \* TRUE: once there are files, operators resume fully and
                            \* from the newest one that is still restorable
    MaxStarts               \* bound: starts of the learner

ASSUME DurabilityAssumption ==
    /\ IsFiniteSet(Chunk)
    /\ Evaluation \subseteq Chunk
    /\ None \notin Chunk
    /\ LeaderKinds \subseteq {"best-eval", "fastest-eval"}
    /\ {MaxInflight, HardLag, Warmup, UpdatesPerTransition, MaxCredit, TotalTransitions,
        OfflineUpdates, CheckpointInterval, KeepLast, MaxStarts} \subseteq Nat
    /\ {SaveFinal, Interruptible, ResumeNewest} \subseteq BOOLEAN

VARIABLES
    version,                \* chunk -> its policy_version, -1 while not collected
    spool,                  \* rollouts in the actors' spool directories
    inflight,               \* rollouts some sender thread is submitting
    published,              \* policy versions an actor may hold
    worker,                 \* RPC thread -> the Submit it is handling
    learner,                \* where the learner's main thread is
    current,                \* the chunk it is ingesting
    promotions,             \* leader checkpoints the current evaluation earned
    mem,                    \* counters and replay contents
    writer,                 \* _AsyncCheckpointWriter
    files,                  \* checkpoint files
    starts                  \* learner starts so far

actorVars   == <<version, spool, inflight>>
learnerVars == <<learner, current, promotions, mem, published>>
vars == <<journalVars, actorVars, published, worker, learner, current, promotions, mem,
          writer, files, starts>>

-----------------------------------------------------------------------------
(* State.                                                                  *)

Family == {"distributed", "best-eval", "fastest-eval"}

\* _Counters together with the replay store: how often a rollout's transitions
\* were appended to it.
Memory == [frontier : Nat, updates : Nat, credit : Nat, transitions : Nat,
           ingested : [Chunk -> Nat]]

\* A checkpoint: the file name (family, update, policy) and the captured state.
Checkpoint == [family : Family, policy : Int, state : Memory]

FreshMemory == [frontier |-> 0, updates |-> 0, credit |-> 0, transitions |-> 0,
                ingested |-> [c \in Chunk |-> 0]]

IdleWorker == [pc |-> "idle", chunk |-> None, attached |-> FALSE]

IdleWriter == [stage |-> "idle",
               ckpt |-> [family |-> "distributed", policy |-> 0, state |-> FreshMemory]]

TypeOK ==
    /\ JournalTypeOK
    /\ version \in [Chunk -> Int]
    /\ spool \subseteq Chunk
    /\ inflight \subseteq Chunk
    /\ published \subseteq Nat
    /\ worker \in [Worker -> {IdleWorker} \cup [pc : {"checked", "accepted", "rejected"},
                                                chunk : Chunk, attached : BOOLEAN]]
    /\ learner \in {"down", "loop", "ingest", "leader", "save", "final", "wait", "saving",
                    "settling", "closing"}
    /\ current \in (IF learner \in {"ingest", "leader"} THEN Chunk ELSE {None})
    /\ promotions \subseteq LeaderKinds
    /\ mem \in Memory
    /\ writer \in [stage : {"idle", "writing", "saved", "pruned", "failed"},
                   ckpt : Checkpoint]
    /\ files \subseteq Checkpoint
    /\ starts \in Nat

Init ==
    /\ JournalInit
    /\ version = [c \in Chunk |-> -1]
    /\ spool = {} /\ inflight = {} /\ published = {}
    /\ worker = [w \in Worker |-> IdleWorker]
    /\ learner = "down" /\ current = None /\ promotions = {}
    /\ mem = FreshMemory
    /\ writer = IdleWriter
    /\ files = {}
    /\ starts = 0

-----------------------------------------------------------------------------
(* The actors: spool, sender threads, lost calls.                          *)

Serving == learner \notin {"down", "closing"}

Owner(c) == {w \in Worker : worker[w].chunk = c /\ worker[w].attached}

\* The collector spools a rollout of a policy some learner published.
Collect(c) ==
    /\ version[c] = -1
    /\ \E v \in published : version' = [version EXCEPT ![c] = v]
    /\ spool' = spool \cup {c}
    /\ UNCHANGED <<journalVars, inflight, published, worker, learner, current, promotions,
                   mem, writer, files, starts>>

\* A sender submits a spooled file.  A call to a learner that is not serving
\* fails at once and changes nothing.
Send(c) ==
    /\ Serving
    /\ c \in spool \ inflight
    /\ Cardinality(inflight) < MaxInflight
    /\ inflight' = inflight \cup {c}
    /\ UNCHANGED <<journalVars, version, spool, published, worker, learner, current,
                   promotions, mem, writer, files, starts>>

Detached(c) == [w \in Worker |-> IF w \in Owner(c) THEN [worker[w] EXCEPT !.attached = FALSE]
                                                   ELSE worker[w]]

\* The call ends without an answer: DEADLINE_EXCEEDED, UNAVAILABLE or the death
\* of the actor.  The file stays in the spool; a handler that already runs goes
\* on and its answer reaches nobody.
LoseCall(c) ==
    /\ c \in inflight
    /\ inflight' = inflight \ {c}
    /\ worker' = Detached(c)
    /\ UNCHANGED <<journalVars, version, spool, published, learner, current, promotions,
                   mem, writer, files, starts>>

-----------------------------------------------------------------------------
(* The Submit handler.                                                     *)

HasTransitions(c) == c \notin Evaluation

\* lag > maximum implies lag > 0, so max(0, .) does not matter here.
HardLagged(c) == HasTransitions(c) /\ mem.updates - version[c] > HardLag

\* A thread takes the request, validates it and reads the lag under the lock.
Receive(w, c) ==
    /\ Serving
    /\ worker[w] = IdleWorker
    /\ c \in inflight
    /\ Owner(c) = {}
    /\ worker' = [worker EXCEPT ![w] = [pc |-> IF HardLagged(c) THEN "rejected" ELSE "checked",
                                        chunk |-> c, attached |-> TRUE]]
    /\ UNCHANGED <<journalVars, actorVars, published, learner, current, promotions, mem,
                   writer, files, starts>>

\* The journal commits the chunk, or finds its receipt.
Persist(w) ==
    /\ worker[w].pc = "checked"
    /\ JournalAppend(worker[w].chunk)
    /\ worker' = [worker EXCEPT ![w].pc = "accepted"]
    /\ UNCHANGED <<actorVars, published, learner, current, promotions, mem, writer, files,
                   starts>>

\* The append raises; SQLite rolls it back and the call fails.
PersistFails(w) ==
    /\ worker[w].pc = "checked"
    /\ worker' = [worker EXCEPT ![w] = IdleWorker]
    /\ inflight' = IF worker[w].attached THEN inflight \ {worker[w].chunk} ELSE inflight
    /\ UNCHANGED <<journalVars, version, spool, published, learner, current, promotions,
                   mem, writer, files, starts>>

\* Faulty variant of Respond: a rejected rollout stays in the spool.
RespondKeepsRejected(w) ==
    /\ worker[w].pc \in {"accepted", "rejected"}
    /\ worker' = [worker EXCEPT ![w] = IdleWorker]
    /\ IF worker[w].attached
         THEN /\ spool' = IF worker[w].pc = "accepted" THEN spool \ {worker[w].chunk} ELSE spool
              /\ inflight' = inflight \ {worker[w].chunk}
         ELSE UNCHANGED <<spool, inflight>>
    /\ UNCHANGED <<journalVars, version, published, learner, current, promotions, mem,
                   writer, files, starts>>

\* The answer arrives.  Accepted or rejected, the sender discards the file.
Respond(w) ==
    /\ worker[w].pc \in {"accepted", "rejected"}
    /\ worker' = [worker EXCEPT ![w] = IdleWorker]
    /\ IF worker[w].attached
         THEN /\ spool' = spool \ {worker[w].chunk}
              /\ inflight' = inflight \ {worker[w].chunk}
         ELSE UNCHANGED <<spool, inflight>>
    /\ UNCHANGED <<journalVars, version, published, learner, current, promotions, mem,
                   writer, files, starts>>

-----------------------------------------------------------------------------
(* The learner's main thread.                                              *)

Smaller(a, b) == IF a < b THEN a ELSE b

\* _credit_updates: transitions beyond the warm-up earn update credit.
Credit(credit, before, after) ==
    LET beyond(n) == IF n > Warmup THEN n - Warmup ELSE 0
    IN  Smaller(MaxCredit, credit + (beyond(after) - beyond(before)) * UpdatesPerTransition)

\* Appends the transitions of the set S of rows to the replay.
Appended(m, S) ==
    LET after == m.transitions + Cardinality(S \ Evaluation)
    IN  [m EXCEPT !.transitions = after,
                  !.credit      = Credit(m.credit, m.transitions, after),
                  !.ingested    = [c \in Chunk |-> m.ingested[c] + IF c \in S THEN 1 ELSE 0]]

\* The learner may publish the policy of its last update when the refresh
\* period has passed.
Publish(u) == published' \in {published, published \cup {u}}

\* _ingest up to the frontier: replay, counters and credit.
BeginIngest(c) ==
    /\ learner = "loop"
    /\ IsNextRow(mem.frontier, c)
    /\ mem' = Appended(mem, {c})
    /\ learner' = "ingest"
    /\ current' = c
    /\ UNCHANGED <<journalVars, actorVars, published, worker, promotions, writer, files,
                   starts>>

\* _ingest from the frontier on: an evaluation batch may earn leader checkpoints.
FinishIngest ==
    /\ learner = "ingest"
    /\ mem' = [mem EXCEPT !.frontier = receipt[current]]
    /\ promotions' \in (IF current \in Evaluation THEN SUBSET LeaderKinds ELSE {{}})
    /\ IF promotions' = {} THEN learner' = "loop" /\ current' = None
                           ELSE learner' = "leader" /\ current' = current
    /\ UNCHANGED <<journalVars, actorVars, published, worker, writer, files, starts>>

\* checkpoint(): wait for the writer, snapshot the state, queue the write.
QueueCheckpoint(family, policy) ==
    /\ writer.stage = "idle"
    /\ writer' = [stage |-> "writing",
                  ckpt |-> [family |-> family, policy |-> policy, state |-> mem]]

\* One leader checkpoint per promoted kind, the reliable one first.
SaveLeader(kind) ==
    /\ learner = "leader"
    /\ kind \in promotions
    /\ "best-eval" \in promotions => kind = "best-eval"
    /\ QueueCheckpoint(kind, version[current])
    /\ promotions' = promotions \ {kind}
    /\ IF promotions' = {} THEN learner' = "loop" /\ current' = None
                           ELSE UNCHANGED <<learner, current>>
    /\ UNCHANGED <<journalVars, actorVars, published, worker, mem, files, starts>>

CheckpointDue(u) == CheckpointInterval # 0 /\ u % CheckpointInterval = 0

\* Faulty variant of EarnedUpdate: trains on credit it does not have.
EarnedUpdateTooEarly == mem.credit >= 0

\* _ready_to_update.  The code also waits for an active actor and for a full batch;
\* here the learner may hesitate for any reason.
EarnedUpdate == mem.credit >= 1

\* One learner update, then the due checkpoint or the publication.
Update ==
    /\ learner = "loop"
    /\ EarnedUpdate
    /\ mem' = [mem EXCEPT !.updates = @ + 1, !.credit = @ - 1]
    /\ IF CheckpointDue(mem.updates + 1)
         THEN learner' = "save" /\ UNCHANGED published
         ELSE UNCHANGED learner /\ Publish(mem.updates + 1)
    /\ UNCHANGED <<journalVars, actorVars, worker, current, promotions, writer, files,
                   starts>>

SaveDue ==
    /\ learner = "save"
    /\ QueueCheckpoint("distributed", 0)
    /\ learner' = "loop"
    /\ Publish(mem.updates)
    /\ UNCHANGED <<journalVars, actorVars, worker, current, promotions, mem, files, starts>>

LearningNeeded ==
    \/ mem.transitions < TotalTransitions
    \/ mem.credit >= 1
    \/ RowsAfter(mem.frontier) # {}

\* The main thread leaves what it does for the next part of the run's end.
GoTo(part) ==
    /\ learner' = part /\ current' = None /\ promotions' = {}
    /\ UNCHANGED <<journalVars, actorVars, published, worker, mem, writer, files, starts>>

\* The loop ends: target reached with nothing left to ingest or to train on.
CompleteLearning == learner = "loop" /\ ~LearningNeeded /\ GoTo("final")

\* The launcher's stop signal, or an evaluation that meets the stop target.
StopRequested == learner = "loop" /\ GoTo("final")

\* Ctrl+C raises KeyboardInterrupt wherever the main thread is, in the final save and its wait
\* too; the handler saves the final checkpoint and waits for the writer itself.
Interrupt ==
    /\ Interruptible
    /\ learner \in {"loop", "ingest", "leader", "save", "final", "wait"}
    /\ GoTo("saving")

\* Ctrl+C in the handler ends it.  While the runtime closes, a further one at most cuts a wait
\* short, as Crash does.
InterruptAgain ==
    /\ Interruptible
    /\ learner \in {"saving", "settling"}
    /\ GoTo("closing")

SaveFinalCheckpoint ==
    /\ learner \in {"final", "saving"}
    /\ IF SaveFinal THEN QueueCheckpoint("distributed", 0)
                    ELSE UNCHANGED writer
    /\ learner' = IF learner = "final" THEN "wait" ELSE "settling"
    /\ UNCHANGED <<journalVars, actorVars, published, worker, current, promotions, mem,
                   files, starts>>

WaitForWriter ==
    /\ learner \in {"wait", "settling"}
    /\ writer.stage = "idle"
    /\ learner' = "closing"
    /\ UNCHANGED <<journalVars, actorVars, published, worker, current, promotions, mem,
                   writer, files, starts>>

\* Faulty variant of RaiseWriteFailure: only the next save notices the failure.
RaiseWriteFailureOnSave ==
    /\ learner \in {"leader", "save", "final", "saving"}
    /\ writer.stage = "failed"
    /\ writer' = IdleWriter
    /\ learner' = "closing" /\ current' = None /\ promotions' = {}
    /\ UNCHANGED <<journalVars, actorVars, published, worker, mem, files, starts>>

\* wait() re-raises the failure of the last write; the run ends.
RaiseWriteFailure ==
    /\ learner \in {"leader", "save", "final", "wait", "saving", "settling"}
    /\ writer.stage = "failed"
    /\ writer' = IdleWriter
    /\ learner' = "closing" /\ current' = None /\ promotions' = {}
    /\ UNCHANGED <<journalVars, actorVars, published, worker, mem, files, starts>>

\* The end of the process: volatile state is gone and open calls are reset.
Exit ==
    /\ learner' = "down" /\ current' = None /\ promotions' = {}
    /\ mem' = FreshMemory
    /\ worker' = [w \in Worker |-> IdleWorker]
    /\ writer' = IdleWriter
    /\ inflight' = {}
    /\ UNCHANGED <<journalVars, version, spool, published, files, starts>>

\* close_runtime: running handlers and a pending write finish first.
Close ==
    /\ learner = "closing"
    /\ writer.stage \in {"idle", "failed"}
    /\ worker = [w \in Worker |-> IdleWorker]
    /\ Exit

Crash == learner # "down" /\ Exit

-----------------------------------------------------------------------------
(* Starting the learner.                                                   *)

Start(m) ==
    /\ learner = "down"
    /\ starts < MaxStarts
    /\ starts' = starts + 1
    /\ learner' = "loop"
    /\ mem' = m
    /\ published' = published \cup {m.updates}
    /\ UNCHANGED <<journalVars, actorVars, worker, current, promotions, writer, files>>

Pretrained(m, u) == [m EXCEPT !.updates = @ + u]

\* Without --checkpoint: refused when the journal has history.
StartFresh ==
    /\ ~HasHistory
    /\ ResumeNewest => files = {}
    /\ Start(Pretrained(FreshMemory, OfflineUpdates))

Restorable(f) == ValidFrontier(f.state.frontier)

\* Faulty variant of LastOf: the frontier stops at the first recovered row.
FirstOf(rows) == CHOOSE n \in {receipt[c] : c \in rows} : \A c \in rows : receipt[c] >= n

\* The highest row id of a non-empty set of rows.
LastOf(rows) == CHOOSE n \in {receipt[c] : c \in rows} : \A c \in rows : receipt[c] <= n

\* Faulty variant of Recovered: the journal is not read back.
RecoveredFromFileOnly(f) == [f.state EXCEPT !.credit = Smaller(@, MaxCredit)]

\* _restore_distributed: the captured state, then every journal row after its
\* frontier; the frontier ends at the last row recovered.
Recovered(f) ==
    LET rows    == RowsAfter(f.state.frontier)
        clamped == [f.state EXCEPT !.credit = Smaller(@, MaxCredit)]
    IN  [Appended(clamped, rows) EXCEPT !.frontier = IF rows = {} THEN @ ELSE LastOf(rows)]

IsNewest(f) == \A g \in files : Restorable(g) => g.state.updates <= f.state.updates

\* With --checkpoint (and perhaps --demo, which pretrains again).
Resume(f) ==
    /\ Restorable(f)
    /\ ResumeNewest => IsNewest(f)
    /\ \E u \in {0, OfflineUpdates} : Start(Pretrained(Recovered(f), u))

\* With --checkpoint --reset-replay: learner weights only, counters start over.
ResumeLearnerOnly ==
    /\ ~ResumeNewest
    /\ files # {}
    /\ ~HasHistory
    /\ \E u \in {0, OfflineUpdates} : Start(Pretrained(FreshMemory, u))

-----------------------------------------------------------------------------
(* The checkpoint writer's thread.                                         *)

SamePath(f, g) ==
    /\ f.family = g.family
    /\ f.policy = g.policy
    /\ f.state.updates = g.state.updates

writerOnly == <<actorVars, published, worker, learner, current, promotions, mem, starts>>

\* Faulty variant of WriteFile: the file holds the live state, not the snapshot.
WriteLiveState ==
    /\ writer.stage = "writing"
    /\ LET live == [writer.ckpt EXCEPT !.state = mem]
       IN  /\ files' = {f \in files : ~SamePath(f, live)} \cup {live}
           /\ writer' = [stage |-> "saved", ckpt |-> live]
    /\ UNCHANGED <<journalVars, writerOnly>>

\* The codec writes a temporary file, renames it over the path and syncs it.
WriteFile ==
    /\ writer.stage = "writing"
    /\ files' = {f \in files : ~SamePath(f, writer.ckpt)} \cup {writer.ckpt}
    /\ writer' = [writer EXCEPT !.stage = "saved"]
    /\ UNCHANGED <<journalVars, writerOnly>>

\* Faulty variant of PruneJournal: prunes to the learner's live frontier.
PruneToLiveFrontier ==
    /\ writer.stage = "saved"
    /\ JournalPrune(mem.frontier)
    /\ writer' = [writer EXCEPT !.stage = "pruned"]
    /\ UNCHANGED <<writerOnly, files>>

\* on_saved, first part: prune the journal up to the captured frontier.
PruneJournal ==
    /\ writer.stage = "saved"
    /\ JournalPrune(writer.ckpt.state.frontier)
    /\ writer' = [writer EXCEPT !.stage = "pruned"]
    /\ UNCHANGED <<writerOnly, files>>

FamilyFiles(family) == {f \in files : f.family = family}

\* Faulty variant of Surplus: keeps one file too few.
SurplusOffByOne(family) == KeepLast # 0 /\ Cardinality(FamilyFiles(family)) >= KeepLast

\* checkpoint_keep_last files of a family stay.
Surplus(family) == KeepLast # 0 /\ Cardinality(FamilyFiles(family)) > KeepLast

\* Faulty variant of SortsBefore: newest first.
SortsAfter(f, g) ==
    \/ f.state.updates > g.state.updates
    \/ f.state.updates = g.state.updates /\ f.policy >= g.policy

\* sorted(candidates): by update, then by policy version.
SortsBefore(f, g) ==
    \/ f.state.updates < g.state.updates
    \/ f.state.updates = g.state.updates /\ f.policy <= g.policy

\* on_saved, second part: retention unlinks the files that sort lowest.
UnlinkOldest ==
    /\ writer.stage = "pruned"
    /\ Surplus(writer.ckpt.family)
    /\ \E f \in FamilyFiles(writer.ckpt.family) :
         /\ \A g \in FamilyFiles(writer.ckpt.family) : SortsBefore(f, g)
         /\ files' = files \ {f}
    /\ UNCHANGED <<journalVars, writerOnly, writer>>

FinishWrite ==
    /\ writer.stage = "pruned"
    /\ ~Surplus(writer.ckpt.family)
    /\ writer' = IdleWriter
    /\ UNCHANGED <<journalVars, writerOnly, files>>

\* Any part of the write may raise.
WriteFails ==
    /\ writer.stage \in {"writing", "saved", "pruned"}
    /\ writer' = [IdleWriter EXCEPT !.stage = "failed"]
    /\ UNCHANGED <<journalVars, writerOnly, files>>

-----------------------------------------------------------------------------

ActorStep == \E c \in Chunk : Collect(c) \/ Send(c) \/ LoseCall(c)

HandlerStep ==
    \E w \in Worker :
        \/ \E c \in Chunk : Receive(w, c)
        \/ Persist(w)
        \/ PersistFails(w)
        \/ Respond(w)

LearnerStep ==
    \/ \E c \in Chunk : BeginIngest(c)
    \/ FinishIngest
    \/ \E kind \in LeaderKinds : SaveLeader(kind)
    \/ Update
    \/ SaveDue
    \/ CompleteLearning
    \/ StopRequested
    \/ Interrupt
    \/ InterruptAgain
    \/ SaveFinalCheckpoint
    \/ WaitForWriter
    \/ RaiseWriteFailure
    \/ Close
    \/ Crash

StartStep ==
    \/ StartFresh
    \/ \E f \in files : Resume(f)
    \/ ResumeLearnerOnly

WriterStep ==
    \/ WriteFile
    \/ PruneJournal
    \/ UnlinkOldest
    \/ FinishWrite
    \/ WriteFails

Next == ActorStep \/ HandlerStep \/ LearnerStep \/ StartStep \/ WriterStep

Spec == Init /\ [][Next]_vars

-----------------------------------------------------------------------------
(* Properties.                                                             *)

\* The rows a frontier covers, each once: what a replay that ends there holds.
Prefix(frontier) ==
    [c \in Chunk |-> IF HasReceipt(c) /\ receipt[c] <= frontier THEN 1 ELSE 0]

\* Between two ingests the learner's replay holds every journal row up to its
\* applied frontier exactly once and nothing else, however often rollouts were
\* resubmitted and however often the learner was killed and resumed
\* (coordinator_ingest.ingest, coordinator_checkpoint._restore_distributed).
ReplayIsAppliedPrefix ==
    learner # "ingest" => mem.ingested = Prefix(mem.frontier)

\* A checkpoint captures only the contiguous applied frontier: the replay saved in
\* a file is exactly the rows up to the frontier saved with it
\* (coordinator_checkpoint._checkpoint_state).
CheckpointsCaptureTheirFrontier ==
    \A f \in files : f.state.ingested = Prefix(f.state.frontier)

\* A payload leaves the journal only when some checkpoint still on disk can be
\* resumed and covers it: every row that was pruned stays recoverable
\* (_CheckpointCallbacks.saved, RolloutJournal.prune, prune_checkpoint_family).
PrunedRowsStayRecoverable ==
    prunedThrough > 0 => \E f \in files : Restorable(f)

\* An actor deletes a spooled rollout only when the journal holds its receipt or a
\* handler has refused it as too stale: an acknowledgement never runs ahead of the
\* commit, whatever calls were lost or repeated (coordinator_submission.submit,
\* actor_background._handle_submit_response).
DiscardsAreSettled ==
    [][\A c \in spool \ spool' :
          HasReceipt(c) \/ \E w \in Worker : worker[w].pc = "rejected" /\ worker[w].chunk = c]_vars

\* Leaders come in order when none is saved after one of a later policy at the same
\* update.  Two actors that evaluate may break it: retention sorts names, so the file of
\* the later policy counts as the newer one, although it covers fewer rows.
LeadersInOrder ==
    writer.stage = "pruned" =>
        ~\E g \in FamilyFiles(writer.ckpt.family) :
            g.state.updates = writer.ckpt.state.updates /\ g.policy > writer.ckpt.policy

\* Retention keeps the newest files: as long as leaders come in order, it never removes
\* the checkpoint whose save it follows (coordinator_checkpoint._apply_checkpoint_retention).
RetentionKeepsTheSavedFile ==
    [][LeadersInOrder /\ writer.stage = "pruned" /\ writer.ckpt \in files
          => writer.ckpt \in files']_vars

\* The run implements the abstract log: exactly-once acceptance, application in row
\* order without gaps, and complete recovery after every stop.
Log == INSTANCE RolloutLog WITH position <- receipt, length <- lastRow,
                                applied <- mem.ingested

ImplementsLog == Log!LogSpec

-----------------------------------------------------------------------------
(* Why ReplayIsAppliedPrefix holds: the invariant of a run without Ctrl+C.  *)

\* Row ids are handed out upwards and once; the payloads kept are exactly those of
\* the rows not yet pruned.
JournalInv ==
    /\ \A c \in Chunk : receipt[c] <= lastRow
    /\ \A c, d \in Chunk : HasReceipt(c) /\ receipt[c] = receipt[d] => c = d
    /\ lastRow > 0 => \E c \in Chunk : receipt[c] = lastRow
    /\ prunedThrough <= lastRow
    /\ stored = {c \in Chunk : receipt[c] > prunedThrough}

\* A replay whose last row is still being ingested.
Ingesting ==
    /\ receipt[current] > mem.frontier
    /\ \A c \in Chunk : receipt[c] > mem.frontier => receipt[c] >= receipt[current]
    /\ mem.ingested = [c \in Chunk |-> Prefix(mem.frontier)[c] + IF c = current THEN 1 ELSE 0]

\* A running learner is never behind what was pruned.
MemInv ==
    /\ mem.frontier <= lastRow
    /\ IF learner = "down" THEN mem = FreshMemory ELSE mem.frontier >= prunedThrough
    /\ IF learner = "ingest" THEN Ingesting ELSE mem.ingested = Prefix(mem.frontier)

\* A captured state is an applied prefix of the journal.
Captured(state) == state.frontier <= lastRow /\ state.ingested = Prefix(state.frontier)

FilesInv == \A f \in files : Captured(f.state)

\* A pending write belongs to a running learner that is at least as far; until the
\* journal is pruned to it, its file can be resumed.
WriterInv ==
    /\ learner = "down" => writer.stage = "idle"
    /\ writer.stage \in {"writing", "saved", "pruned"} =>
         Captured(writer.ckpt.state) /\ writer.ckpt.state.frontier <= mem.frontier
    /\ writer.stage \in {"writing", "saved"} => writer.ckpt.state.frontier >= prunedThrough
    /\ writer.stage = "saved" => writer.ckpt \in files

IndInv == TypeOK /\ JournalInv /\ MemInv /\ FilesInv /\ WriterInv

\* An answer "accepted" is backed by a receipt.
AnswersAreBacked ==
    \A w \in Worker : worker[w].pc = "accepted" => HasReceipt(worker[w].chunk)

\* Why retention keeps the right files when operators resume from the newest one: a file
\* with more updates never covers fewer rows, the learner is as far as every file, and
\* the write that is pending or just done is too.
AheadOf(state, f) ==
    f.state.updates <= state.updates /\ f.state.frontier <= state.frontier

FilesAdvance ==
    \A f, g \in files :
        f.state.updates < g.state.updates => f.state.frontier <= g.state.frontier

RetentionInv ==
    /\ FilesAdvance
    /\ \A f, g \in files : SamePath(f, g) => f = g
    /\ \A f \in files : f.state.frontier <= lastRow
    /\ learner # "down" => mem.frontier <= lastRow /\ \A f \in files : AheadOf(mem, f)
    /\ learner = "ingest" => receipt[current] > mem.frontier
    /\ writer.stage \in {"writing", "saved", "pruned"} =>
         /\ learner # "down"
         /\ AheadOf(mem, writer.ckpt)
         /\ \A f \in files : AheadOf(writer.ckpt.state, f)

\* Why pruned rows stay recoverable while leaders come in order: some file covers what was
\* pruned and is behind no other, and the file just saved is such a file once the journal
\* is pruned to it.
NewestIsRestorable ==
    \E f \in files : Restorable(f) /\ \A g \in files : AheadOf(f.state, g)

RecoverableInv ==
    /\ IF files = {} THEN prunedThrough = 0 ELSE NewestIsRestorable
    /\ learner # "down" => mem.frontier >= prunedThrough
    /\ writer.stage \in {"writing", "saved", "pruned"} => Restorable(writer.ckpt)
    /\ writer.stage \in {"saved", "pruned"} => writer.ckpt \in files

-----------------------------------------------------------------------------
(* Fairness and progress.                                                  *)

\* Thread w handles a call whose sender still waits.
Attached(w, c) == worker[w].chunk = c /\ worker[w].attached

\* The learner's main thread, whatever it does next.  Update is not in it: without an
\* active actor the learner may hold its credit for ever.
MainThread ==
    \/ \E c \in Chunk : BeginIngest(c)
    \/ FinishIngest
    \/ \E kind \in LeaderKinds : SaveLeader(kind)
    \/ SaveDue
    \/ CompleteLearning
    \/ SaveFinalCheckpoint
    \/ WaitForWriter
    \/ RaiseWriteFailure
    \/ Close

\* Threads that can run do run.  Nothing obliges anybody to collect, stop, crash or
\* start.
ThreadFairness ==
    /\ WF_vars(MainThread)
    /\ WF_vars(WriterStep)
    /\ \A w \in Worker : WF_vars(Persist(w) \/ PersistFails(w) \/ Respond(w))

\* Sender threads retry without limit, so the network and the disk are assumed not to
\* fail every attempt: strong fairness for a call that is made, received, persisted and
\* answered while its sender waits.
CallFairness ==
    \A c \in Chunk :
      /\ SF_vars(Send(c))
      /\ SF_vars(\E w \in Worker : Receive(w, c))
      /\ SF_vars(\E w \in Worker : Attached(w, c) /\ Persist(w))
      /\ SF_vars(\E w \in Worker : Attached(w, c) /\ Respond(w))

ThreadSpec == Spec /\ ThreadFairness

\* While a learner keeps running and not every call is lost, every spooled rollout is
\* at last settled and leaves the spool, although calls are lost and handlers fail
\* (actor_background._send_spooled_path retries without limit).
SpoolDrains == CallFairness =>
    \A c \in Chunk : c \in spool ~> (c \notin spool \/ ~Serving)

\* An accepted rollout reaches the replay of the learner that runs, unless that learner stops,
\* also when it was accepted after the final snapshot of the learner before; a full wake-up
\* queue or a busy checkpoint writer cannot starve it (coordinator_learning._learning_step).
\* Ctrl+C inside an ingest may have it there twice.
AcceptedRolloutsAreApplied == CallFairness =>
    \A c \in Chunk : HasReceipt(c) ~> (mem.ingested[c] >= 1 \/ learner = "down")

\* Rollouts get through, from the spool to the replay.
RolloutsGetThrough == SpoolDrains /\ AcceptedRolloutsAreApplied

\* A learner that stops closes its runtime and exits: no thread waits for another
\* for ever (coordinator_runtime._run_learning, close_runtime).
StoppingLearnerExits ==
    learner \in {"final", "wait", "saving", "settling", "closing"} ~> learner = "down"

=============================================================================
