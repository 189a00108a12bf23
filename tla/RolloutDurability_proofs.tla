----------------------- MODULE RolloutDurability_proofs -----------------------
(***************************************************************************)
(* Proofs about RolloutDurability, for any finite set of rollouts, any     *)
(* RPC pool and any setting of the run's parameters.                       *)
(***************************************************************************)
EXTENDS RolloutDurability, FiniteSetTheorems, TLAPS

-----------------------------------------------------------------------------
(* Operators on the learner's memory.                                      *)

\* Update credit stays a natural number: the replay only grows, so the credit a
\* batch of rows earns is never negative (coordinator_ingest._credit_updates).
LEMMA CreditType ==
    ASSUME NEW credit \in Nat, NEW before \in Nat, NEW n \in Nat
    PROVE  Credit(credit, before, before + n) \in Nat
<1> DEFINE beyond(k) == IF k > Warmup THEN k - Warmup ELSE 0
           gain == beyond(before + n) - beyond(before)
<1>1. Warmup \in Nat /\ MaxCredit \in Nat /\ UpdatesPerTransition \in Nat
  BY DurabilityAssumption
<1>2. gain \in Nat
  BY <1>1
<1>3. gain * UpdatesPerTransition \in Nat
  <2> HIDE DEF gain
  <2> QED  BY <1>1, <1>2
<1>4. Credit(credit, before, before + n) = Smaller(MaxCredit, credit + gain * UpdatesPerTransition)
  BY DEF Credit
<1> HIDE DEF gain
<1> QED  BY <1>1, <1>3, <1>4 DEF Smaller

\* Appending rows to the replay keeps the memory well typed and moves neither the
\* frontier nor the update count (coordinator_ingest._append_transitions).
LEMMA AppendedType ==
    ASSUME NEW m \in Memory, NEW S \in SUBSET Chunk
    PROVE  /\ Appended(m, S) \in Memory
           /\ Appended(m, S).frontier = m.frontier
           /\ Appended(m, S).updates = m.updates
           /\ Appended(m, S).ingested
                = [c \in Chunk |-> m.ingested[c] + IF c \in S THEN 1 ELSE 0]
<1> DEFINE n == Cardinality(S \ Evaluation)
           ing == [c \in Chunk |-> m.ingested[c] + IF c \in S THEN 1 ELSE 0]
<1>1. n \in Nat
  BY FS_CardinalityType, FS_Subset, DurabilityAssumption
<1>2. Credit(m.credit, m.transitions, m.transitions + n) \in Nat
  <2> HIDE DEF n
  <2> QED  BY <1>1, CreditType DEF Memory
<1>3. ing \in [Chunk -> Nat]
  BY DEF Memory
<1>4. Appended(m, S) = [m EXCEPT !.transitions = m.transitions + n,
                                 !.credit = Credit(m.credit, m.transitions, m.transitions + n),
                                 !.ingested = ing]
  BY DEF Appended
<1>5. m.transitions + n \in Nat
  <2> HIDE DEF n
  <2> QED  BY <1>1 DEF Memory
<1> HIDE DEF n, ing
<1>6. /\ Appended(m, S) \in Memory
      /\ Appended(m, S).frontier = m.frontier
      /\ Appended(m, S).updates = m.updates
      /\ Appended(m, S).ingested = ing
  BY <1>1, <1>2, <1>3, <1>4, <1>5 DEF Memory
<1> QED  BY <1>6 DEF ing

LEMMA FreshMemoryType == FreshMemory \in Memory
BY DEF FreshMemory, Memory

LEMMA IdleWriterType ==
    IdleWriter \in [stage : {"idle", "writing", "saved", "pruned", "failed"}, ckpt : Checkpoint]
BY FreshMemoryType DEF IdleWriter, Checkpoint, Family

\* Pretraining only moves the update count.
LEMMA PretrainedType ==
    ASSUME NEW m \in Memory, NEW u \in Nat
    PROVE  /\ Pretrained(m, u) \in Memory
           /\ Pretrained(m, u).frontier = m.frontier
           /\ Pretrained(m, u).ingested = m.ingested
BY DEF Pretrained, Memory

-----------------------------------------------------------------------------
(* The journal.                                                            *)

\* The rows a resume reads back end at the last row ever accepted
\* (journal.rows_after).
LEMMA LastRecoveredRow ==
    ASSUME JournalTypeOK, JournalInv, NEW n \in Nat, n >= prunedThrough, RowsAfter(n) # {}
    PROVE  LastOf(RowsAfter(n)) = lastRow
<1>1. PICK top \in RowsAfter(n) : receipt[top] = lastRow
  <2>1. PICK c \in Chunk : receipt[c] > n /\ receipt[c] <= lastRow
    BY DEF JournalTypeOK, JournalInv, RowsAfter
  <2>2. PICK top \in Chunk : receipt[top] = lastRow
    BY <2>1 DEF JournalTypeOK, JournalInv
  <2> QED  BY <2>1, <2>2 DEF JournalTypeOK, JournalInv, RowsAfter
<1>2. \A c \in RowsAfter(n) : receipt[c] <= lastRow /\ receipt[c] \in Nat
  BY DEF JournalTypeOK, JournalInv, RowsAfter
<1>3. \A k \in {receipt[c] : c \in RowsAfter(n)} :
        (\A c \in RowsAfter(n) : receipt[c] <= k) <=> k = lastRow
  BY <1>1, <1>2 DEF JournalTypeOK
<1> QED  BY <1>1, <1>3 DEF LastOf

\* Everything beyond a frontier that was never pruned past is still stored, so a
\* frontier, the rows it covers and the rows after it make up the whole journal.
LEMMA RowsAfterAreStored ==
    ASSUME JournalTypeOK, JournalInv, NEW n \in Nat, n >= prunedThrough
    PROVE  RowsAfter(n) = {c \in Chunk : receipt[c] > n}
BY DEF JournalTypeOK, JournalInv, RowsAfter

\* The state a resume builds: its frontier ends at the last row, and the rows after
\* the captured frontier are appended once each
\* (coordinator_checkpoint._restore_distributed, coordinator_ingest.recover_journal).
LEMMA RecoveredState ==
    ASSUME JournalTypeOK, JournalInv, NEW f \in Checkpoint, Restorable(f)
    PROVE  /\ Recovered(f) \in Memory
           /\ Recovered(f).updates = f.state.updates
           /\ Recovered(f).frontier = IF RowsAfter(f.state.frontier) = {}
                                        THEN f.state.frontier ELSE lastRow
           /\ Recovered(f).ingested
                = [c \in Chunk |-> f.state.ingested[c]
                                     + IF c \in RowsAfter(f.state.frontier) THEN 1 ELSE 0]
<1> DEFINE n       == f.state.frontier
           rows    == RowsAfter(n)
           clamped == [f.state EXCEPT !.credit = Smaller(f.state.credit, MaxCredit)]
           last    == IF rows = {} THEN n ELSE LastOf(rows)
           ing     == [c \in Chunk |-> f.state.ingested[c] + IF c \in rows THEN 1 ELSE 0]
<1>1. n \in Nat /\ n >= prunedThrough
  BY DEF Checkpoint, Memory, Restorable, ValidFrontier
<1>2. /\ clamped \in Memory /\ clamped.frontier = n /\ clamped.ingested = f.state.ingested
      /\ clamped.updates = f.state.updates
  BY DurabilityAssumption DEF Checkpoint, Memory, Smaller
<1>3. last \in Nat /\ last = IF rows = {} THEN n ELSE lastRow
  BY <1>1, LastRecoveredRow DEF JournalTypeOK
<1>4. rows \in SUBSET Chunk
  BY DEF RowsAfter, JournalTypeOK
<1>5. /\ Appended(clamped, rows) \in Memory
      /\ Appended(clamped, rows).updates = f.state.updates
      /\ Appended(clamped, rows).frontier = n
      /\ Appended(clamped, rows).ingested = ing
  <2> HIDE DEF clamped, rows
  <2> QED  BY <1>2, <1>4, AppendedType
<1>6. Recovered(f) = [Appended(clamped, rows) EXCEPT !.frontier = last]
  BY <1>5 DEF Recovered
<1>7. /\ Recovered(f) \in Memory
      /\ Recovered(f).updates = f.state.updates
      /\ Recovered(f).frontier = last
      /\ Recovered(f).ingested = ing
  <2> HIDE DEF clamped, last, rows, ing
  <2> QED  BY <1>3, <1>5, <1>6 DEF Memory
<1> HIDE DEF last, clamped
<1> QED  BY <1>3, <1>7

\* The captured prefix and the rows after it are the prefix of the recovered
\* frontier, and that is everything ever accepted.
LEMMA RecoveredPrefix ==
    ASSUME JournalTypeOK, JournalInv, NEW f \in Checkpoint, Restorable(f), Captured(f.state)
    PROVE  /\ Recovered(f).frontier <= lastRow
           /\ Recovered(f).frontier >= prunedThrough
           /\ Recovered(f).ingested = Prefix(Recovered(f).frontier)
           /\ Recovered(f).ingested = Prefix(lastRow)
<1> DEFINE n    == f.state.frontier
           rows == RowsAfter(n)
           last == Recovered(f).frontier
<1>1. n \in Nat /\ n >= prunedThrough /\ n <= lastRow
  BY DEF Checkpoint, Memory, Restorable, ValidFrontier
<1>2. rows = {c \in Chunk : receipt[c] > n}
  BY <1>1, RowsAfterAreStored
<1>3. last = (IF rows = {} THEN n ELSE lastRow) /\ last \in Nat
  BY RecoveredState DEF Memory
<1>4. Recovered(f).ingested = [c \in Chunk |-> Prefix(n)[c] + IF c \in rows THEN 1 ELSE 0]
  BY RecoveredState DEF Captured
<1>5. last <= lastRow /\ last >= prunedThrough
  <2> HIDE DEF last, rows
  <2> QED  BY <1>1, <1>3 DEF JournalTypeOK, JournalInv
<1>6. \A c \in Chunk, m \in {last, lastRow} :
        Prefix(n)[c] + (IF c \in rows THEN 1 ELSE 0) = Prefix(m)[c]
  <2> HIDE DEF last
  <2> QED  BY <1>1, <1>2, <1>3 DEF Prefix, HasReceipt, JournalTypeOK, JournalInv
<1> HIDE DEF last, rows
<1>7. \A m \in {last, lastRow} :
        [c \in Chunk |-> Prefix(n)[c] + IF c \in rows THEN 1 ELSE 0] = Prefix(m)
  BY <1>6 DEF Prefix
<1> QED  BY <1>4, <1>5, <1>7 DEF last

\* append leaves the rows of every older frontier alone: a new row lies beyond
\* every frontier reached so far.
LEMMA AppendKeepsPrefixes ==
    ASSUME JournalTypeOK, JournalInv, NEW c \in Chunk, JournalAppend(c)
    PROVE  /\ JournalTypeOK'
           /\ JournalInv'
           /\ lastRow <= lastRow'
           /\ UNCHANGED prunedThrough
           /\ \A n \in Nat : n <= lastRow => Prefix(n)' = Prefix(n)
<1>1. CASE HasReceipt(c) /\ UNCHANGED journalVars
  BY <1>1 DEF JournalTypeOK, JournalInv, journalVars, Prefix, HasReceipt
<1>2. CASE /\ ~HasReceipt(c)
           /\ lastRow' = lastRow + 1
           /\ receipt' = [receipt EXCEPT ![c] = lastRow + 1]
           /\ stored' = stored \cup {c}
           /\ UNCHANGED prunedThrough
  <2>1. JournalTypeOK'
    BY <1>2 DEF JournalTypeOK
  <2>2. JournalInv'
    BY <1>2 DEF JournalTypeOK, JournalInv, HasReceipt
  <2>3. ASSUME NEW n \in Nat, n <= lastRow
        PROVE  Prefix(n)' = Prefix(n)
    BY <1>2, <2>3 DEF JournalTypeOK, JournalInv, HasReceipt, Prefix
  <2> QED  BY <1>2, <2>1, <2>2, <2>3 DEF JournalTypeOK
<1> QED  BY <1>1, <1>2 DEF JournalAppend

\* prune touches no receipt and never goes back.
LEMMA PruneKeepsReceipts ==
    ASSUME JournalTypeOK, JournalInv, NEW n \in Nat, JournalPrune(n)
    PROVE  /\ JournalTypeOK'
           /\ JournalInv'
           /\ UNCHANGED <<receipt, lastRow>>
           /\ n >= prunedThrough => prunedThrough' = n
           /\ n < prunedThrough => prunedThrough' = prunedThrough
           /\ \A k \in Nat : Prefix(k)' = Prefix(k)
BY DEF JournalTypeOK, JournalInv, JournalPrune, HasReceipt, Prefix, RowsAfter

-----------------------------------------------------------------------------
(* Starting the learner.                                                   *)

\* A fresh start, or a start with reset replay: nothing was accepted yet.
LEMMA NoHistoryPrefix ==
    ASSUME JournalTypeOK, JournalInv, ~HasHistory
    PROVE  /\ prunedThrough = 0
           /\ \A n \in Nat : FreshMemory.ingested = Prefix(n)
BY DEF JournalTypeOK, JournalInv, HasHistory, HasReceipt, Prefix, FreshMemory

\* Every start builds a memory, fresh over an empty journal or recovered from a file
\* that can be resumed, and then may pretrain.
LEMMA StartCases ==
    ASSUME StartStep
    PROVE  \E m : /\ \/ m = FreshMemory /\ ~HasHistory
                     \/ \E f \in files : Restorable(f) /\ m = Recovered(f)
                  /\ \E u \in Nat : Start(Pretrained(m, u))
<1>1. OfflineUpdates \in Nat /\ 0 \in Nat
  BY DurabilityAssumption
<1>2. CASE StartFresh
  BY <1>1, <1>2 DEF StartFresh
<1>3. CASE \E f \in files : Resume(f)
  BY <1>1, <1>3 DEF Resume
<1>4. CASE ResumeLearnerOnly
  BY <1>1, <1>4 DEF ResumeLearnerOnly
<1> QED  BY <1>2, <1>3, <1>4 DEF StartStep

LEMMA StartedFrame ==
    ASSUME NEW m, Start(m)
    PROVE  /\ learner = "down" /\ learner' = "loop"
           /\ mem' = m
           /\ starts' = starts + 1
           /\ published' = published \cup {m.updates}
           /\ UNCHANGED <<receipt, stored, lastRow, prunedThrough>>
           /\ UNCHANGED <<version, spool, inflight>>
           /\ UNCHANGED <<worker, current, promotions, writer, files>>
BY DEF Start, journalVars, actorVars

\* A started learner's memory is well typed.
LEMMA StartedType ==
    ASSUME TypeOK, JournalInv, StartStep
    PROVE  TypeOK'
<1>1. PICK m : /\ \/ m = FreshMemory
                  \/ \E f \in files : Restorable(f) /\ m = Recovered(f)
               /\ \E u \in Nat : Start(Pretrained(m, u))
  BY StartCases
<1>2. PICK u \in Nat : Start(Pretrained(m, u))
  BY <1>1
<1>3. m \in Memory
  <2>1. \A f \in files : Restorable(f) => Recovered(f) \in Memory
    BY RecoveredState DEF TypeOK
  <2> QED  BY <1>1, <2>1, FreshMemoryType
<1>4. Pretrained(m, u) \in Memory
  BY <1>3, PretrainedType
<1> DEFINE s == Pretrained(m, u)
<1> HIDE DEF s
<1>5. s \in Memory /\ s.updates \in Nat /\ Start(s)
  BY <1>2, <1>4 DEF s, Memory
<1>6. published' \subseteq Nat
  BY <1>5, StartedFrame DEF TypeOK
<1>7. starts' \in Nat
  BY <1>5, StartedFrame DEF TypeOK
<1>8. mem' \in Memory
  BY <1>5, StartedFrame
<1> QED  BY <1>5, <1>6, <1>7, <1>8, StartedFrame DEF TypeOK, JournalTypeOK

\* A started learner is not behind what was pruned and holds the whole journal.
LEMMA StartedPrefix ==
    ASSUME TypeOK, JournalInv, FilesInv, StartStep
    PROVE  /\ mem'.frontier \in Nat
           /\ mem'.frontier <= lastRow
           /\ mem'.frontier >= prunedThrough
           /\ mem'.ingested = Prefix(mem'.frontier)
           /\ mem'.ingested = Prefix(lastRow)
<1> DEFINE Result(m) == /\ m.frontier \in Nat
                        /\ m.frontier <= lastRow
                        /\ m.frontier >= prunedThrough
                        /\ m.ingested = Prefix(m.frontier)
                        /\ m.ingested = Prefix(lastRow)
<1>1. PICK m : /\ \/ m = FreshMemory /\ ~HasHistory
                  \/ \E f \in files : Restorable(f) /\ m = Recovered(f)
               /\ \E u \in Nat : Start(Pretrained(m, u))
  BY StartCases
<1>2. PICK u \in Nat : Start(Pretrained(m, u))
  BY <1>1
<1>3. m \in Memory /\ Result(m)
  <2>1. CASE m = FreshMemory /\ ~HasHistory
    BY <2>1, NoHistoryPrefix, FreshMemoryType DEF FreshMemory, TypeOK, JournalTypeOK
  <2>2. CASE \E f \in files : Restorable(f) /\ m = Recovered(f)
    <3>1. PICK f \in files : Restorable(f) /\ m = Recovered(f)
      BY <2>2
    <3>2. f \in Checkpoint /\ Captured(f.state) /\ JournalTypeOK
      BY DEF TypeOK, FilesInv
    <3>3. m \in Memory /\ m.frontier \in Nat
      BY <3>1, <3>2, RecoveredState DEF Memory
    <3> QED  BY <3>1, <3>2, <3>3, RecoveredPrefix
  <2> QED  BY <1>1, <2>1, <2>2
<1>4. Result(Pretrained(m, u))
  BY <1>3, PretrainedType
<1>5. mem' = Pretrained(m, u)
  BY <1>2, StartedFrame
<1> QED  BY <1>4, <1>5

-----------------------------------------------------------------------------
(* Type correctness.                                                       *)

Job == [pc : {"checked", "accepted", "rejected"}, chunk : Chunk, attached : BOOLEAN]

LEMMA BusyWorker ==
    ASSUME TypeOK, NEW w \in Worker, worker[w].pc # "idle"
    PROVE  worker[w] \in Job
BY DEF TypeOK, IdleWorker, Job

LEMMA InitType == Init => TypeOK
BY FreshMemoryType, IdleWriterType DEF Init, JournalInit, TypeOK, JournalTypeOK, HasReceipt

\* The actors and the Submit handlers keep the types.
LEMMA HandlerType ==
    ASSUME TypeOK, JournalInv, ActorStep \/ HandlerStep
    PROVE  TypeOK'
<1>1. ASSUME NEW c \in Chunk, Collect(c)
      PROVE  TypeOK'
  BY <1>1 DEF Collect, TypeOK, JournalTypeOK, journalVars
<1>2. ASSUME NEW c \in Chunk, Send(c)
      PROVE  TypeOK'
  BY <1>2 DEF Send, TypeOK, JournalTypeOK, journalVars
<1>3. ASSUME NEW c \in Chunk, LoseCall(c)
      PROVE  TypeOK'
  <2>1. worker' \in [Worker -> {IdleWorker} \cup Job]
    <3>1. worker' = [w \in Worker |-> IF w \in Owner(c) THEN [worker[w] EXCEPT !.attached = FALSE]
                                                       ELSE worker[w]]
      BY <1>3 DEF LoseCall, Detached
    <3>2. \A w \in Owner(c) : w \in Worker /\ worker[w] \in Job
      BY BusyWorker DEF Owner, IdleWorker, TypeOK, Job
    <3> QED  BY <3>1, <3>2 DEF TypeOK, Job
  <2> QED  BY <1>3, <2>1 DEF LoseCall, TypeOK, JournalTypeOK, journalVars, Job
<1>4. ASSUME NEW w \in Worker, NEW c \in Chunk, Receive(w, c)
      PROVE  TypeOK'
  BY <1>4 DEF Receive, TypeOK, JournalTypeOK, journalVars, actorVars
<1>5. ASSUME NEW w \in Worker, Persist(w)
      PROVE  TypeOK'
  <2>1. worker[w] \in Job
    BY <1>5, BusyWorker DEF Persist
  <2>2. JournalTypeOK'
    BY <1>5, <2>1, AppendKeepsPrefixes DEF Persist, TypeOK, Job
  <2>3. worker' \in [Worker -> {IdleWorker} \cup Job]
    BY <1>5, <2>1 DEF Persist, TypeOK, Job
  <2> QED  BY <1>5, <2>2, <2>3 DEF Persist, TypeOK, actorVars, Job
<1>6. ASSUME NEW w \in Worker, PersistFails(w)
      PROVE  TypeOK'
  BY <1>6 DEF PersistFails, TypeOK, JournalTypeOK, journalVars
<1>7. ASSUME NEW w \in Worker, Respond(w)
      PROVE  TypeOK'
  BY <1>7 DEF Respond, TypeOK, JournalTypeOK, journalVars
<1> QED  BY <1>1, <1>2, <1>3, <1>4, <1>5, <1>6, <1>7 DEF ActorStep, HandlerStep

\* So does the learner's main thread.
LEMMA LearnerType ==
    ASSUME TypeOK, JournalInv, LearnerStep
    PROVE  TypeOK'
<1> USE DEF JournalTypeOK, journalVars, actorVars
<1>1. ASSUME NEW c \in Chunk, BeginIngest(c)
      PROVE  TypeOK'
  <2>1. mem' \in Memory
    BY <1>1, AppendedType DEF BeginIngest, TypeOK
  <2> QED  BY <1>1, <2>1 DEF BeginIngest, TypeOK
<1>2. ASSUME FinishIngest
      PROVE  TypeOK'
  <2>1. mem' \in Memory
    BY <1>2 DEF FinishIngest, TypeOK, Memory
  <2> QED  BY <1>2, <2>1 DEF FinishIngest, TypeOK
<1>3. ASSUME NEW family \in Family, NEW policy \in Int, QueueCheckpoint(family, policy)
      PROVE  writer' \in [stage : {"idle", "writing", "saved", "pruned", "failed"},
                          ckpt : Checkpoint]
  BY <1>3 DEF QueueCheckpoint, TypeOK, Checkpoint
<1>4. ASSUME NEW kind \in LeaderKinds, SaveLeader(kind)
      PROVE  TypeOK'
  <2>1. kind \in Family /\ version[current] \in Int
    BY <1>4, DurabilityAssumption DEF SaveLeader, Family, TypeOK
  <2> QED  BY <1>3, <1>4, <2>1 DEF SaveLeader, TypeOK
<1>5. ASSUME Update
      PROVE  TypeOK'
  <2>1. /\ mem' = [mem EXCEPT !.updates = mem.updates + 1, !.credit = mem.credit - 1]
        /\ mem.credit >= 1
    BY <1>5 DEF Update, EarnedUpdate
  <2>2. mem \in Memory
    BY DEF TypeOK
  <2>3. mem.updates + 1 \in Nat /\ mem.credit - 1 \in Nat
    BY <2>1, <2>2 DEF Memory
  <2>4. mem' \in Memory
    BY <2>1, <2>2, <2>3 DEF Memory
  <2> QED  BY <1>5, <2>3, <2>4 DEF Update, Publish, TypeOK
<1>6. "distributed" \in Family /\ 0 \in Int
  BY DEF Family
<1>7. ASSUME SaveDue
      PROVE  TypeOK'
  <2>1. mem.updates \in Nat
    BY DEF TypeOK, Memory
  <2> QED  BY <1>3, <1>6, <1>7, <2>1 DEF SaveDue, Publish, TypeOK
<1>8. ASSUME NEW part \in {"final", "saving", "closing"}, GoTo(part)
      PROVE  TypeOK'
  BY <1>8 DEF GoTo, TypeOK
<1>9. ASSUME SaveFinalCheckpoint
      PROVE  TypeOK'
  BY <1>3, <1>6, <1>9 DEF SaveFinalCheckpoint, TypeOK
<1>10. ASSUME WaitForWriter
       PROVE  TypeOK'
  BY <1>10 DEF WaitForWriter, TypeOK
<1>11. ASSUME RaiseWriteFailure
       PROVE  TypeOK'
  BY <1>11, IdleWriterType DEF RaiseWriteFailure, TypeOK
<1>12. ASSUME Exit
       PROVE  TypeOK'
  BY <1>12, IdleWriterType, FreshMemoryType DEF Exit, TypeOK
<1> QED  BY <1>1, <1>2, <1>4, <1>5, <1>7, <1>8, <1>9, <1>10, <1>11, <1>12
         DEF LearnerStep, CompleteLearning, StopRequested, Interrupt, InterruptAgain, Close, Crash

\* And the checkpoint writer.
LEMMA WriterType ==
    ASSUME TypeOK, JournalInv, WriterStep
    PROVE  TypeOK'
<1> USE DEF writerOnly, actorVars
<1>1. CASE WriteFile
  BY <1>1 DEF WriteFile, TypeOK, JournalTypeOK, journalVars
<1>2. CASE PruneJournal
  <2>1. writer.ckpt.state.frontier \in Nat
    BY DEF TypeOK, Checkpoint, Memory
  <2>2. JournalTypeOK'
    BY <1>2, <2>1, PruneKeepsReceipts DEF PruneJournal, TypeOK
  <2> QED  BY <1>2, <2>2 DEF PruneJournal, TypeOK
<1>3. CASE UnlinkOldest
  BY <1>3 DEF UnlinkOldest, TypeOK, JournalTypeOK, journalVars
<1>4. CASE FinishWrite
  BY <1>4, IdleWriterType DEF FinishWrite, TypeOK, JournalTypeOK, journalVars
<1>5. CASE WriteFails
  BY <1>5, IdleWriterType DEF WriteFails, TypeOK, JournalTypeOK, journalVars
<1> QED  BY <1>1, <1>2, <1>3, <1>4, <1>5 DEF WriterStep

LEMMA TypeStep ==
    ASSUME TypeOK, JournalInv, [Next]_vars
    PROVE  TypeOK'
<1>1. CASE UNCHANGED vars
  BY <1>1 DEF vars, journalVars, actorVars, TypeOK, JournalTypeOK
<1> QED  BY <1>1, HandlerType, LearnerType, StartedType, WriterType DEF Next

-----------------------------------------------------------------------------
(* The journal's invariant, in every run.                                  *)

LEMMA InitInd == Init => IndInv
<1> SUFFICES ASSUME Init PROVE IndInv
  OBVIOUS
<1>1. TypeOK
  BY InitType
<1>2. JournalInv
  BY DEF Init, JournalInit, JournalInv, HasReceipt
<1>3. MemInv
  BY DEF Init, JournalInit, MemInv, FreshMemory, Prefix, HasReceipt
<1>4. FilesInv /\ WriterInv
  BY DEF Init, FilesInv, WriterInv, IdleWriter
<1> QED  BY <1>1, <1>2, <1>3, <1>4 DEF IndInv

\* Only two steps touch the journal.
LEMMA JournalFrame ==
    ASSUME [Next]_vars
    PROVE  \/ UNCHANGED journalVars
           \/ \E w \in Worker : Persist(w)
           \/ PruneJournal
BY DEF Next, vars, ActorStep, Collect, Send, LoseCall, HandlerStep, Receive, PersistFails,
       Respond, LearnerStep, BeginIngest, FinishIngest, SaveLeader, Update, SaveDue,
       CompleteLearning, StopRequested, Interrupt, InterruptAgain, GoTo, SaveFinalCheckpoint,
       WaitForWriter, RaiseWriteFailure, Close, Crash, Exit, StartStep, StartFresh, Resume,
       ResumeLearnerOnly, Start, WriterStep, WriteFile, UnlinkOldest, FinishWrite, WriteFails

LEMMA JournalStep ==
    ASSUME TypeOK, JournalInv, [Next]_vars
    PROVE  /\ JournalInv'
           /\ lastRow <= lastRow'
           /\ \A n \in Nat : n <= lastRow => Prefix(n)' = Prefix(n)
<1>1. CASE UNCHANGED journalVars
  BY <1>1 DEF journalVars, JournalInv, Prefix, HasReceipt, TypeOK, JournalTypeOK
<1>2. ASSUME NEW w \in Worker, Persist(w)
      PROVE  /\ JournalInv'
             /\ lastRow <= lastRow'
             /\ \A n \in Nat : n <= lastRow => Prefix(n)' = Prefix(n)
  <2>1. worker[w].chunk \in Chunk /\ JournalAppend(worker[w].chunk) /\ JournalTypeOK
    BY <1>2, BusyWorker DEF Persist, Job, TypeOK
  <2> QED  BY <2>1, AppendKeepsPrefixes
<1>3. CASE PruneJournal
  <2>1. /\ writer.ckpt.state.frontier \in Nat
        /\ JournalPrune(writer.ckpt.state.frontier)
        /\ JournalTypeOK
    BY <1>3 DEF PruneJournal, TypeOK, Checkpoint, Memory
  <2> QED  BY <2>1, PruneKeepsReceipts DEF JournalTypeOK
<1> QED  BY <1>1, <1>2, <1>3, JournalFrame

\* Captured states stay captured: whatever happens later, the rows up to an old
\* frontier are the same rows.
LEMMA CapturedStep ==
    ASSUME TypeOK, JournalInv, [Next]_vars, NEW s \in Memory, Captured(s)
    PROVE  Captured(s)'
<1>1. s.frontier \in Nat /\ s.frontier <= lastRow /\ s.ingested = Prefix(s.frontier)
  BY DEF Captured, Memory
<1>2. lastRow <= lastRow' /\ Prefix(s.frontier)' = Prefix(s.frontier)
  BY <1>1, JournalStep
<1>3. lastRow \in Nat /\ lastRow' \in Nat
  BY TypeStep DEF TypeOK, JournalTypeOK
<1> QED  BY <1>1, <1>2, <1>3 DEF Captured

\* Type correctness holds whatever the parameters of the run, Ctrl+C included.
THEOREM TypeCorrect == Spec => []TypeOK
<1>1. Init => TypeOK /\ JournalInv
  BY InitInd DEF IndInv
<1>2. TypeOK /\ JournalInv /\ [Next]_vars => (TypeOK /\ JournalInv)'
  BY TypeStep, JournalStep
<1> QED  BY <1>1, <1>2, PTL DEF Spec

-----------------------------------------------------------------------------
(* Exactly-once application: runs that Ctrl+C does not interrupt.          *)

\* A file set changes by losing files or by gaining the one being written.
LEMMA FilesStep ==
    ASSUME IndInv, [Next]_vars
    PROVE  FilesInv'
<1>1. \/ files' \subseteq files
      \/ WriteFile
  BY DEF Next, vars, ActorStep, Collect, Send, LoseCall, HandlerStep, Receive, Persist,
         PersistFails, Respond, LearnerStep, BeginIngest, FinishIngest, SaveLeader, Update,
         SaveDue, CompleteLearning, StopRequested, Interrupt, InterruptAgain, GoTo,
         SaveFinalCheckpoint, WaitForWriter, RaiseWriteFailure, Close, Crash, Exit, StartStep,
         StartFresh, Resume, ResumeLearnerOnly, Start, WriterStep, PruneJournal, UnlinkOldest,
         FinishWrite, WriteFails
<1>2. \A f \in files' : f \in files \/ (WriteFile /\ f = writer.ckpt)
  BY <1>1 DEF WriteFile
<1>3. \A f \in files' : f \in Checkpoint /\ Captured(f.state)
  BY <1>2 DEF IndInv, FilesInv, WriterInv, WriteFile, TypeOK
<1>4. ASSUME NEW f \in files'
      PROVE  Captured(f.state)'
  <2>1. f.state \in Memory /\ Captured(f.state)
    BY <1>3 DEF Checkpoint
  <2> QED  BY <2>1, CapturedStep DEF IndInv
<1> QED  BY <1>4 DEF FilesInv

\* The replay of a learner that takes no step of its own: the journal may grow, and
\* a prune stops at a frontier the learner has reached.
LEMMA MemFrame ==
    ASSUME IndInv, [Next]_vars, UNCHANGED <<mem, learner, current>>
    PROVE  MemInv'
<1> DEFINE n == mem.frontier
<1>1. /\ n \in Nat /\ n <= lastRow
      /\ TypeOK /\ JournalInv /\ MemInv
      /\ lastRow \in Nat /\ prunedThrough \in Nat
  BY DEF IndInv, TypeOK, Memory, MemInv, JournalTypeOK
<1>2. lastRow <= lastRow' /\ Prefix(n)' = Prefix(n)
  BY <1>1, JournalStep
<1>3. TypeOK' /\ lastRow' \in Nat
  BY <1>1, TypeStep DEF TypeOK, JournalTypeOK
<1>4. n <= lastRow'
  BY <1>1, <1>2, <1>3
<1>5. prunedThrough' = prunedThrough \/ (learner # "down" /\ prunedThrough' <= n)
  <2>1. CASE UNCHANGED journalVars
    BY <2>1 DEF journalVars
  <2>2. ASSUME NEW w \in Worker, Persist(w)
        PROVE  prunedThrough' = prunedThrough
    BY <2>2 DEF Persist, JournalAppend, journalVars
  <2>3. CASE PruneJournal
    BY <1>1, <2>3 DEF PruneJournal, JournalPrune, IndInv, WriterInv
  <2> QED  BY <2>1, <2>2, <2>3, JournalFrame
<1>6. learner = "ingest" => Ingesting'
  <2> SUFFICES ASSUME learner = "ingest" PROVE Ingesting'
    OBVIOUS
  <2>1. current \in Chunk /\ Ingesting
    BY <1>1 DEF TypeOK, MemInv
  <2>2. CASE UNCHANGED receipt
    BY <1>2, <2>1, <2>2 DEF Ingesting
  <2>3. ASSUME NEW w \in Worker, Persist(w)
        PROVE  Ingesting'
    <3>1. worker[w].chunk \in Chunk /\ JournalAppend(worker[w].chunk)
      BY <1>1, <2>3, BusyWorker DEF Persist, Job
    <3>2. \A c \in Chunk : receipt'[c] = receipt[c] \/ receipt'[c] = lastRow + 1
      BY <1>1, <3>1 DEF JournalAppend, journalVars, TypeOK, JournalTypeOK
    <3>3. receipt'[current] = receipt[current]
      BY <1>1, <2>1, <3>1 DEF JournalAppend, journalVars, TypeOK, JournalTypeOK, Ingesting,
                              HasReceipt
    <3> QED  BY <1>1, <1>2, <2>1, <3>2, <3>3 DEF Ingesting, JournalInv, TypeOK, JournalTypeOK
  <2>4. PruneJournal => UNCHANGED receipt
    BY DEF PruneJournal, JournalPrune
  <2> QED  BY <2>2, <2>3, <2>4, JournalFrame DEF journalVars
<1> QED  BY <1>1, <1>2, <1>4, <1>5, <1>6 DEF MemInv

\* The steps of the main thread between two ingests, the ingest itself, and exits.
LEMMA MemLearner ==
    ASSUME IndInv, ~Interruptible, LearnerStep
    PROVE  MemInv'
<1>1. /\ mem.frontier \in Nat /\ mem.frontier <= lastRow
      /\ TypeOK /\ JournalInv /\ MemInv
  BY DEF IndInv, TypeOK, Memory, MemInv
<1>2. UNCHANGED journalVars
  BY DEF LearnerStep, BeginIngest, FinishIngest, SaveLeader, Update, SaveDue, CompleteLearning,
         StopRequested, Interrupt, InterruptAgain, GoTo, SaveFinalCheckpoint, WaitForWriter,
         RaiseWriteFailure, Close, Crash, Exit
<1>3. \A n \in Nat : Prefix(n)' = Prefix(n)
  BY <1>2 DEF journalVars, Prefix, HasReceipt
<1>4. ASSUME NEW c \in Chunk, BeginIngest(c)
      PROVE  MemInv'
  <2>1. /\ learner = "loop" /\ learner' = "ingest" /\ current' = c
        /\ mem' = Appended(mem, {c})
        /\ IsNextRow(mem.frontier, c)
    BY <1>4 DEF BeginIngest
  <2>2. /\ mem'.frontier = mem.frontier
        /\ mem'.ingested = [d \in Chunk |-> mem.ingested[d] + IF d \in {c} THEN 1 ELSE 0]
    BY <1>1, <2>1, AppendedType DEF TypeOK
  <2>3. mem.ingested = Prefix(mem.frontier) /\ mem.frontier >= prunedThrough
    BY <1>1, <2>1 DEF MemInv
  <2>4. RowsAfter(mem.frontier) = {d \in Chunk : receipt[d] > mem.frontier}
    BY <1>1, <2>3, RowsAfterAreStored DEF TypeOK
  <2>5. Ingesting'
    BY <1>1, <1>2, <1>3, <2>1, <2>2, <2>3, <2>4 DEF Ingesting, IsNextRow, journalVars
  <2> QED  BY <1>1, <1>2, <2>1, <2>2, <2>3, <2>5 DEF MemInv, journalVars
<1>5. ASSUME FinishIngest
      PROVE  MemInv'
  <2>1. /\ learner = "ingest" /\ learner' \in {"loop", "leader"}
        /\ mem' = [mem EXCEPT !.frontier = receipt[current]]
    BY <1>5 DEF FinishIngest
  <2>2. current \in Chunk /\ Ingesting /\ receipt[current] \in Nat
    BY <1>1, <2>1 DEF TypeOK, JournalTypeOK, MemInv
  <2>3. mem'.frontier = receipt[current] /\ mem'.ingested = mem.ingested
    BY <1>1, <2>1 DEF TypeOK, Memory
  <2>4. \A c \in Chunk : mem.ingested[c] = Prefix(receipt[current])[c]
    BY <1>1, <2>2 DEF Ingesting, Prefix, HasReceipt, JournalInv, TypeOK, JournalTypeOK
  <2>5. mem.ingested = Prefix(receipt[current])
    BY <2>2, <2>4 DEF Ingesting, Prefix
  <2>6. receipt[current] <= lastRow /\ receipt[current] >= prunedThrough
    BY <1>1, <2>1, <2>2 DEF MemInv, Ingesting, JournalInv, TypeOK, JournalTypeOK
  <2> QED  BY <1>2, <2>1, <2>3, <2>5, <2>6 DEF MemInv, Prefix, HasReceipt, journalVars
<1>6. ASSUME /\ learner \notin {"down", "ingest"} /\ learner' \notin {"down", "ingest"}
             /\ mem'.frontier = mem.frontier /\ mem'.ingested = mem.ingested
      PROVE  MemInv'
  BY <1>1, <1>2, <1>3, <1>6 DEF MemInv, journalVars
<1>7. ASSUME Update
      PROVE  MemInv'
  BY <1>1, <1>6, <1>7 DEF Update, TypeOK, Memory
<1>8. ASSUME NEW kind \in LeaderKinds, SaveLeader(kind)
      PROVE  MemInv'
  BY <1>6, <1>8 DEF SaveLeader
<1>9. ASSUME SaveDue \/ CompleteLearning \/ StopRequested \/ SaveFinalCheckpoint
               \/ WaitForWriter \/ RaiseWriteFailure
      PROVE  MemInv'
  BY <1>6, <1>9 DEF SaveDue, CompleteLearning, StopRequested, GoTo,
                    SaveFinalCheckpoint, WaitForWriter, RaiseWriteFailure
<1>10. ASSUME Exit
       PROVE  MemInv'
  <2>1. mem' = FreshMemory /\ learner' = "down"
    BY <1>10 DEF Exit
  <2>2. FreshMemory.ingested = Prefix(0) /\ FreshMemory.frontier = 0 /\ 0 <= lastRow
    BY <1>1 DEF Prefix, FreshMemory, HasReceipt, TypeOK, JournalTypeOK
  <2> QED  BY <1>2, <1>3, <2>1, <2>2 DEF MemInv, journalVars
<1>11. ~Interrupt /\ ~InterruptAgain
  BY DEF Interrupt, InterruptAgain
<1> QED  BY <1>4, <1>5, <1>7, <1>8, <1>9, <1>10, <1>11 DEF LearnerStep, Close, Crash

LEMMA MemStart ==
    ASSUME IndInv, StartStep
    PROVE  MemInv'
<1>1. /\ learner' = "loop"
      /\ UNCHANGED <<receipt, lastRow, prunedThrough>>
  BY StartCases, StartedFrame
<1>2. /\ mem'.frontier \in Nat
      /\ mem'.frontier <= lastRow
      /\ mem'.frontier >= prunedThrough
      /\ mem'.ingested = Prefix(mem'.frontier)
  BY StartedPrefix DEF IndInv
<1> QED  BY <1>1, <1>2 DEF MemInv, Prefix, HasReceipt

LEMMA MemStep ==
    ASSUME IndInv, ~Interruptible, [Next]_vars
    PROVE  MemInv'
<1>1. CASE UNCHANGED vars
  BY <1>1, MemFrame DEF vars
<1>2. CASE ActorStep \/ HandlerStep \/ WriterStep
  <2>1. UNCHANGED <<mem, learner, current>>
    BY <1>2 DEF ActorStep, Collect, Send, LoseCall, HandlerStep, Receive, Persist, PersistFails,
                Respond, WriterStep, WriteFile, PruneJournal, UnlinkOldest, FinishWrite,
                WriteFails, writerOnly
  <2> QED  BY <2>1, MemFrame
<1> QED  BY <1>1, <1>2, MemLearner, MemStart DEF Next

\* A pending write that no step of the writer or of a saving learner touches.
LEMMA WriterFrame ==
    ASSUME IndInv, [Next]_vars, UNCHANGED <<writer, files>>,
           ~PruneJournal,
           learner' = "down" => learner = "down",
           learner # "down" => mem.frontier <= mem'.frontier
    PROVE  WriterInv'
<1>1. TypeOK /\ JournalInv /\ MemInv /\ WriterInv /\ TypeOK'
  BY TypeStep DEF IndInv
<1>2. UNCHANGED prunedThrough
  <2>1. ASSUME NEW w \in Worker, Persist(w)
        PROVE  UNCHANGED prunedThrough
    BY <2>1 DEF Persist, JournalAppend, journalVars
  <2> QED  BY <2>1, JournalFrame DEF journalVars
<1> DEFINE s == writer.ckpt.state
<1>3. s \in Memory /\ s.frontier \in Nat /\ mem.frontier \in Nat /\ mem'.frontier \in Nat
  BY <1>1 DEF TypeOK, Checkpoint, Memory
<1>4. Captured(s) => Captured(writer.ckpt.state)'
  <2> SUFFICES ASSUME NEW t \in Memory, t = s, Captured(t) PROVE Captured(t)'
    BY <1>3
  <2> QED  BY <1>1, CapturedStep
<1>5. writer.stage \in {"writing", "saved", "pruned"} => learner # "down"
  BY <1>1 DEF WriterInv
<1> QED  BY <1>1, <1>2, <1>3, <1>4, <1>5 DEF WriterInv

\* Queueing a write captures a replay that is between two ingests.
LEMMA WriterQueue ==
    ASSUME IndInv, NEW family, NEW policy, QueueCheckpoint(family, policy),
           learner \notin {"down", "ingest"}, learner' # "down",
           UNCHANGED <<mem, files>>, UNCHANGED journalVars
    PROVE  WriterInv'
<1>1. /\ writer'.stage = "writing"
      /\ writer'.ckpt.state = mem
  BY DEF QueueCheckpoint
<1>2. Captured(mem) /\ mem.frontier >= prunedThrough /\ mem.frontier \in Nat
  BY DEF IndInv, MemInv, Captured, TypeOK, Memory
<1> QED  BY <1>1, <1>2 DEF WriterInv, Captured, Prefix, HasReceipt, journalVars

\* The steps of the writer itself.
LEMMA WriterOwn ==
    ASSUME IndInv, WriterStep
    PROVE  WriterInv'
<1>1. /\ TypeOK /\ JournalInv /\ MemInv /\ WriterInv
      /\ writer.ckpt.state.frontier \in Nat
      /\ prunedThrough \in Nat
  BY DEF IndInv, TypeOK, JournalTypeOK, Checkpoint, Memory
<1>2. UNCHANGED <<mem, learner>> /\ learner # "down"
  BY <1>1 DEF WriterStep, WriteFile, PruneJournal, UnlinkOldest, FinishWrite, WriteFails,
              writerOnly, WriterInv
<1>3. CASE WriteFile
  <2>1. /\ writer.stage = "writing" /\ writer'.stage = "saved"
        /\ writer'.ckpt = writer.ckpt /\ writer.ckpt \in files'
    BY <1>1, <1>3 DEF WriteFile, TypeOK
  <2> QED  BY <1>1, <1>2, <1>3, <2>1 DEF WriteFile, WriterInv, Captured, Prefix, HasReceipt,
                                         journalVars
<1>4. CASE PruneJournal
  <2>1. /\ writer.stage = "saved" /\ writer'.stage = "pruned"
        /\ writer'.ckpt = writer.ckpt
        /\ UNCHANGED <<receipt, lastRow>>
    BY <1>1, <1>4 DEF PruneJournal, JournalPrune, TypeOK
  <2> QED  BY <1>1, <1>2, <2>1 DEF WriterInv, Captured, Prefix, HasReceipt
<1>5. CASE UnlinkOldest
  BY <1>1, <1>2, <1>5 DEF UnlinkOldest, WriterInv, Captured, Prefix, HasReceipt, journalVars
<1>6. CASE FinishWrite \/ WriteFails
  <2>1. writer'.stage \in {"idle", "failed"}
    BY <1>6 DEF FinishWrite, WriteFails, IdleWriter
  <2> QED  BY <1>2, <2>1 DEF WriterInv
<1> QED  BY <1>3, <1>4, <1>5, <1>6 DEF WriterStep

LEMMA WriterLearner ==
    ASSUME IndInv, ~Interruptible, LearnerStep
    PROVE  WriterInv'
<1>1. TypeOK /\ MemInv /\ WriterInv /\ mem.frontier \in Nat /\ [Next]_vars
  BY DEF IndInv, TypeOK, Memory, Next
<1>2. ASSUME UNCHANGED <<writer, files, journalVars>>, learner # "down", learner' # "down",
             mem'.frontier \in Nat, mem.frontier <= mem'.frontier
      PROVE  WriterInv'
  <2>1. ~PruneJournal
    BY <1>1, <1>2 DEF PruneJournal, TypeOK
  <2> QED  BY <1>1, <1>2, <2>1, WriterFrame
<1>3. ASSUME NEW c \in Chunk, BeginIngest(c)
      PROVE  WriterInv'
  <2>1. mem \in Memory /\ {c} \in SUBSET Chunk /\ mem' = Appended(mem, {c})
    BY <1>1, <1>3 DEF BeginIngest, TypeOK
  <2>2. mem'.frontier = mem.frontier
    BY <2>1, AppendedType
  <2> QED  BY <1>1, <1>2, <1>3, <2>2 DEF BeginIngest
<1>4. ASSUME FinishIngest
      PROVE  WriterInv'
  <2>1. /\ receipt[current] \in Nat /\ receipt[current] > mem.frontier
        /\ mem'.frontier = receipt[current]
    BY <1>1, <1>4 DEF FinishIngest, MemInv, Ingesting, TypeOK, JournalTypeOK, Memory
  <2>2. learner # "down" /\ learner' # "down" /\ UNCHANGED <<writer, files, journalVars>>
    BY <1>4 DEF FinishIngest
  <2> QED  BY <1>1, <1>2, <2>1, <2>2
<1>5. ASSUME NEW kind \in LeaderKinds, SaveLeader(kind)
      PROVE  WriterInv'
  BY <1>5, WriterQueue DEF SaveLeader
<1>6. ASSUME Update
      PROVE  WriterInv'
  <2> DEFINE u == mem.updates + 1
             k == mem.credit - 1
  <2>1. mem \in Memory /\ mem' = [mem EXCEPT !.updates = u, !.credit = k]
    BY <1>1, <1>6 DEF Update, TypeOK
  <2>2. mem'.frontier = mem.frontier
    <3> HIDE DEF u, k
    <3> QED  BY <2>1 DEF Memory
  <2> QED  BY <1>1, <1>2, <1>6, <2>2 DEF Update
<1>7. ASSUME SaveDue
      PROVE  WriterInv'
  BY <1>7, WriterQueue DEF SaveDue
<1>8. ASSUME CompleteLearning \/ StopRequested \/ WaitForWriter
      PROVE  WriterInv'
  BY <1>1, <1>2, <1>8 DEF CompleteLearning, StopRequested, GoTo, WaitForWriter
<1>9. ASSUME SaveFinalCheckpoint
       PROVE  WriterInv'
  <2>1. CASE SaveFinal
    BY <1>9, <2>1, WriterQueue DEF SaveFinalCheckpoint
  <2>2. CASE ~SaveFinal
    BY <1>1, <1>2, <1>9, <2>2 DEF SaveFinalCheckpoint
  <2> QED  BY <2>1, <2>2
<1>10. ASSUME RaiseWriteFailure \/ Exit
       PROVE  WriterInv'
  <2>1. writer'.stage = "idle"
    BY <1>10 DEF RaiseWriteFailure, Exit, IdleWriter
  <2> QED  BY <2>1 DEF WriterInv
<1>11. ~Interrupt /\ ~InterruptAgain
  BY DEF Interrupt, InterruptAgain
<1> QED  BY <1>3, <1>4, <1>5, <1>6, <1>7, <1>8, <1>9, <1>10, <1>11
         DEF LearnerStep, Close, Crash

LEMMA WriterInvStep ==
    ASSUME IndInv, ~Interruptible, [Next]_vars
    PROVE  WriterInv'
<1>1. CASE UNCHANGED vars \/ ActorStep \/ HandlerStep
  <2>1. UNCHANGED <<mem, learner, writer, files>>
    BY <1>1 DEF vars, ActorStep, Collect, Send, LoseCall, HandlerStep, Receive, Persist,
                PersistFails, Respond
  <2>2. ~PruneJournal
    BY <2>1 DEF PruneJournal, IndInv, TypeOK
  <2>3. mem.frontier <= mem'.frontier
    BY <2>1 DEF IndInv, TypeOK, Memory
  <2> QED  BY <2>1, <2>2, <2>3, WriterFrame
<1>2. CASE StartStep
  <2>1. writer' = writer /\ writer.stage = "idle"
    BY <1>2, StartCases, StartedFrame DEF IndInv, WriterInv
  <2> QED  BY <2>1 DEF WriterInv
<1> QED  BY <1>1, <1>2, WriterOwn, WriterLearner DEF Next

\* IndInv is inductive as long as Ctrl+C cannot cut an ingest in two.
THEOREM Inductive ==
    ASSUME ~Interruptible
    PROVE  Spec => []IndInv
<1>1. Init => IndInv
  BY InitInd
<1>2. IndInv /\ [Next]_vars => IndInv'
  BY TypeStep, JournalStep, MemStep, FilesStep, WriterInvStep DEF IndInv
<1> QED  BY <1>1, <1>2, PTL DEF Spec

\* Between two ingests the replay is the applied prefix of the journal, for any
\* number of rollouts, RPC threads, restarts and lost calls.
THEOREM ReplayCorrect ==
    ASSUME ~Interruptible
    PROVE  Spec => []ReplayIsAppliedPrefix
<1>1. IndInv => ReplayIsAppliedPrefix
  BY DEF IndInv, MemInv, ReplayIsAppliedPrefix
<1> QED  BY <1>1, Inductive, PTL

\* Every checkpoint file holds exactly the rows up to its frontier.
THEOREM CheckpointsCorrect ==
    ASSUME ~Interruptible
    PROVE  Spec => []CheckpointsCaptureTheirFrontier
<1>1. IndInv => CheckpointsCaptureTheirFrontier
  BY DEF IndInv, FilesInv, Captured, CheckpointsCaptureTheirFrontier
<1> QED  BY <1>1, Inductive, PTL

-----------------------------------------------------------------------------
(* Consequences.                                                           *)

\* With retention off a prune never outruns the files: some checkpoint that covers
\* every pruned row can always be resumed.
LEMMA RecoverableStep ==
    ASSUME IndInv, PrunedRowsStayRecoverable, KeepLast = 0, [Next]_vars
    PROVE  PrunedRowsStayRecoverable'
<1>1. /\ TypeOK /\ JournalInv /\ WriterInv
      /\ lastRow \in Nat /\ lastRow' \in Nat /\ prunedThrough \in Nat
      /\ lastRow <= lastRow'
      /\ \A f \in files : f.state.frontier \in Nat
      /\ writer.ckpt.state.frontier \in Nat
  BY TypeStep, JournalStep DEF IndInv, TypeOK, JournalTypeOK, Checkpoint, Memory
<1>2. CASE UNCHANGED prunedThrough /\ files \subseteq files'
  BY <1>1, <1>2 DEF PrunedRowsStayRecoverable, Restorable, ValidFrontier
<1>3. CASE WriteFile
  <2>1. /\ writer.ckpt \in files'
        /\ UNCHANGED <<prunedThrough, lastRow>>
        /\ writer.ckpt.state.frontier >= prunedThrough
        /\ writer.ckpt.state.frontier <= lastRow
    BY <1>1, <1>3 DEF WriteFile, journalVars, WriterInv, Captured
  <2> QED  BY <2>1 DEF PrunedRowsStayRecoverable, Restorable, ValidFrontier
<1>4. CASE PruneJournal
  <2>1. /\ writer.ckpt \in files'
        /\ UNCHANGED lastRow
        /\ prunedThrough' = writer.ckpt.state.frontier
        /\ writer.ckpt.state.frontier <= lastRow
    BY <1>1, <1>4 DEF PruneJournal, JournalPrune, WriterInv, Captured
  <2> QED  BY <1>1, <2>1 DEF PrunedRowsStayRecoverable, Restorable, ValidFrontier
<1>5. ~UnlinkOldest
  BY DEF UnlinkOldest, Surplus
<1>6. CASE ~WriteFile /\ ~PruneJournal
  <2>1. UNCHANGED files
    BY <1>5, <1>6 DEF Next, vars, ActorStep, Collect, Send, LoseCall, HandlerStep, Receive,
           Persist, PersistFails, Respond, LearnerStep, BeginIngest, FinishIngest, SaveLeader,
           Update, SaveDue, CompleteLearning, StopRequested, Interrupt, InterruptAgain, GoTo,
           SaveFinalCheckpoint, WaitForWriter, RaiseWriteFailure, Close, Crash, Exit, StartStep,
           StartFresh, Resume, ResumeLearnerOnly, Start, WriterStep, FinishWrite, WriteFails
  <2>2. ASSUME NEW w \in Worker, Persist(w)
        PROVE  UNCHANGED prunedThrough
    BY <2>2 DEF Persist, JournalAppend, journalVars
  <2>3. UNCHANGED prunedThrough
    BY <1>6, <2>2, JournalFrame DEF journalVars
  <2> QED  BY <1>2, <2>1, <2>3
<1> QED  BY <1>3, <1>4, <1>6

THEOREM PrunedRecoverable ==
    ASSUME ~Interruptible, KeepLast = 0
    PROVE  Spec => []PrunedRowsStayRecoverable
<1>1. Init => PrunedRowsStayRecoverable
  BY DEF Init, JournalInit, PrunedRowsStayRecoverable
<1>2. IndInv /\ PrunedRowsStayRecoverable /\ [Next]_vars => PrunedRowsStayRecoverable'
  BY RecoverableStep
<1> QED  BY <1>1, <1>2, Inductive, PTL DEF Spec

-----------------------------------------------------------------------------
(* Retention: runs whose operators resume from the newest file.            *)

\* The numbers retention and resumption compare.
LEMMA StateNumbers ==
    ASSUME TypeOK
    PROVE  /\ mem.updates \in Nat /\ mem.frontier \in Nat
           /\ writer.ckpt.state.updates \in Nat /\ writer.ckpt.state.frontier \in Nat
           /\ writer.ckpt.policy \in Int
           /\ \A f \in files : /\ f \in Checkpoint /\ f.policy \in Int
                               /\ f.state.updates \in Nat /\ f.state.frontier \in Nat
           /\ lastRow \in Nat /\ prunedThrough \in Nat
           /\ \A c \in Chunk : receipt[c] \in Nat
BY DEF TypeOK, JournalTypeOK, Memory, Checkpoint

\* The journal hands out a row once: what has a receipt keeps it.
LEMMA ReceiptsStay ==
    ASSUME TypeOK, JournalInv, [Next]_vars, NEW c \in Chunk, HasReceipt(c)
    PROVE  receipt'[c] = receipt[c]
<1>1. ASSUME NEW w \in Worker, Persist(w)
      PROVE  receipt'[c] = receipt[c]
  BY <1>1 DEF Persist, JournalAppend, journalVars, HasReceipt, TypeOK, JournalTypeOK
<1>2. PruneJournal => UNCHANGED receipt
  BY DEF PruneJournal, JournalPrune
<1> QED  BY <1>1, <1>2, JournalFrame DEF journalVars

\* What a step may do to what retention depends on, one named case per kind of step.
\* Somebody else moves.
OthersMove == UNCHANGED <<mem, learner, current, writer, files>>

\* The main thread moves on and may queue a write of what it has, or drop the writer's
\* failure.
MainMoves ==
    /\ learner # "down" /\ learner' # "down"
    /\ UNCHANGED <<receipt, lastRow, prunedThrough, files>>
    /\ mem.updates <= mem'.updates /\ mem.frontier <= mem'.frontier
    /\ mem'.frontier <= lastRow
    /\ learner' = "ingest" => receipt[current'] > mem'.frontier
    /\ \/ writer' = writer
       \/ writer'.stage = "writing" /\ writer'.ckpt.state = mem' /\ UNCHANGED mem
       \/ writer'.stage = "idle"

\* The process ends.
ProcessEnds ==
    /\ learner' = "down" /\ writer'.stage = "idle"
    /\ UNCHANGED <<receipt, lastRow, prunedThrough, files>>

\* The write that is under way makes a step or ends.
WriterMoves ==
    /\ UNCHANGED <<mem, learner, current, receipt, lastRow>>
    /\ writer.stage \in {"writing", "saved", "pruned"}
    /\ \/ writer'.stage \in {"writing", "saved", "pruned"} /\ writer'.ckpt = writer.ckpt
       \/ writer'.stage \in {"idle", "failed"}
    /\ \/ files' \subseteq files
       \/ files' = {f \in files : ~SamePath(f, writer.ckpt)} \cup {writer.ckpt}

\* The steps of the main thread, Ctrl+C included.
LEMMA MainThreadMoves ==
    ASSUME TypeOK, JournalInv, RetentionInv, LearnerStep
    PROVE  MainMoves \/ ProcessEnds
<1> USE StateNumbers
<1>1. ASSUME NEW c \in Chunk, BeginIngest(c)
      PROVE  MainMoves
  <2>1. mem \in Memory /\ {c} \in SUBSET Chunk /\ mem' = Appended(mem, {c})
    BY <1>1 DEF BeginIngest, TypeOK
  <2>2. mem'.frontier = mem.frontier /\ mem'.updates = mem.updates
    BY <2>1, AppendedType
  <2>3. receipt[c] > mem.frontier
    BY <1>1 DEF BeginIngest, IsNextRow, RowsAfter
  <2> QED  BY <1>1, <2>2, <2>3 DEF BeginIngest, MainMoves, RetentionInv, journalVars
<1>2. ASSUME FinishIngest
      PROVE  MainMoves
  <2>1. learner = "ingest" /\ current \in Chunk /\ receipt[current] > mem.frontier
    BY <1>2 DEF FinishIngest, RetentionInv, TypeOK
  <2>2. mem' = [mem EXCEPT !.frontier = receipt[current]] /\ mem \in Memory
    BY <1>2 DEF FinishIngest, TypeOK
  <2>3. mem'.frontier = receipt[current] /\ mem'.updates = mem.updates
    BY <2>2 DEF Memory
  <2>4. receipt[current] <= lastRow
    BY <2>1 DEF JournalInv
  <2> QED  BY <1>2, <2>1, <2>3, <2>4 DEF FinishIngest, MainMoves, journalVars
<1>3. ASSUME Update
      PROVE  MainMoves
  <2> DEFINE u == mem.updates + 1
             k == mem.credit - 1
  <2>1. mem \in Memory /\ mem' = [mem EXCEPT !.updates = u, !.credit = k]
    BY <1>3 DEF Update, TypeOK
  <2>2. mem'.frontier = mem.frontier /\ mem'.updates = u
    <3> HIDE DEF u, k
    <3> QED  BY <2>1 DEF Memory
  <2> QED  BY <1>3, <2>2 DEF Update, MainMoves, RetentionInv, journalVars
<1>4. ASSUME NEW family, NEW policy, QueueCheckpoint(family, policy),
             learner \notin {"down", "ingest"}, learner' \notin {"down", "ingest"},
             UNCHANGED <<mem, files>>, UNCHANGED journalVars
      PROVE  MainMoves
  BY <1>4 DEF QueueCheckpoint, MainMoves, RetentionInv, journalVars
<1>5. ASSUME NEW kind \in LeaderKinds, SaveLeader(kind)
      PROVE  MainMoves
  BY <1>4, <1>5 DEF SaveLeader
<1>6. ASSUME SaveDue
      PROVE  MainMoves
  BY <1>4, <1>6 DEF SaveDue
<1>7. ASSUME CompleteLearning \/ StopRequested \/ Interrupt \/ InterruptAgain \/ WaitForWriter
      PROVE  MainMoves
  BY <1>7 DEF CompleteLearning, StopRequested, Interrupt, InterruptAgain, GoTo, WaitForWriter,
              MainMoves, RetentionInv, journalVars
<1>8. ASSUME SaveFinalCheckpoint
      PROVE  MainMoves
  <2>1. CASE SaveFinal
    BY <1>4, <1>8, <2>1 DEF SaveFinalCheckpoint
  <2>2. CASE ~SaveFinal
    BY <1>8, <2>2 DEF SaveFinalCheckpoint, MainMoves, RetentionInv, journalVars
  <2> QED  BY <2>1, <2>2
<1>9. ASSUME RaiseWriteFailure
      PROVE  MainMoves
  BY <1>9 DEF RaiseWriteFailure, IdleWriter, MainMoves, RetentionInv, journalVars
<1>10. Exit => ProcessEnds
  BY DEF Exit, IdleWriter, ProcessEnds, journalVars
<1> QED  BY <1>1, <1>2, <1>3, <1>5, <1>6, <1>7, <1>8, <1>9, <1>10
         DEF LearnerStep, Close, Crash

\* The steps of the writer's thread.
LEMMA WriterThreadMoves ==
    ASSUME TypeOK, WriterStep
    PROVE  WriterMoves
<1>1. CASE WriteFile
  BY <1>1 DEF WriteFile, TypeOK, WriterMoves, journalVars, writerOnly
<1>2. CASE PruneJournal
  BY <1>2 DEF PruneJournal, JournalPrune, TypeOK, WriterMoves, writerOnly
<1>3. CASE UnlinkOldest
  BY <1>3 DEF UnlinkOldest, WriterMoves, journalVars, writerOnly
<1>4. CASE FinishWrite
  BY <1>4 DEF FinishWrite, IdleWriter, WriterMoves, journalVars, writerOnly
<1>5. CASE WriteFails
  BY <1>5 DEF WriteFails, IdleWriter, WriterMoves, journalVars, writerOnly
<1> QED  BY <1>1, <1>2, <1>3, <1>4, <1>5 DEF WriterStep

\* The steps of actors and Submit handlers.
LEMMA OthersFrame ==
    ASSUME UNCHANGED vars \/ ActorStep \/ HandlerStep
    PROVE  OthersMove
BY DEF vars, ActorStep, Collect, Send, LoseCall, HandlerStep, Receive, Persist,
       PersistFails, Respond, OthersMove

\* Every step is of one of these kinds.
LEMMA RetentionMoves ==
    ASSUME TypeOK, JournalInv, RetentionInv, [Next]_vars
    PROVE  OthersMove \/ MainMoves \/ ProcessEnds \/ StartStep \/ WriterMoves
BY OthersFrame, MainThreadMoves, WriterThreadMoves DEF Next

\* A start from the newest file that can be resumed ends level with the journal and not
\* behind any file (coordinator_checkpoint._restore_distributed).
LEMMA NewestStart ==
    ASSUME TypeOK, JournalInv, RetentionInv, ResumeNewest, StartStep
    PROVE  /\ learner = "down" /\ learner' = "loop"
           /\ UNCHANGED <<receipt, lastRow, prunedThrough, writer, files>>
           /\ mem'.frontier <= lastRow /\ mem'.frontier >= prunedThrough
           /\ \A f \in files : AheadOf(mem', f)
<1> USE StateNumbers
<1>1. CASE StartFresh
  <2>1. files = {} /\ ~HasHistory /\ Start(Pretrained(FreshMemory, OfflineUpdates))
    BY <1>1 DEF StartFresh
  <2>2. Pretrained(FreshMemory, OfflineUpdates).frontier = 0
    BY FreshMemoryType, PretrainedType, DurabilityAssumption DEF FreshMemory
  <2> QED  BY <2>1, <2>2, StartedFrame, NoHistoryPrefix DEF TypeOK
<1>2. ASSUME NEW f \in files, Resume(f)
      PROVE  /\ learner = "down" /\ learner' = "loop"
             /\ UNCHANGED <<receipt, lastRow, prunedThrough, writer, files>>
             /\ mem'.frontier <= lastRow /\ mem'.frontier >= prunedThrough
             /\ \A g \in files : AheadOf(mem', g)
  <2> DEFINE m == Recovered(f)
  <2>1. f \in Checkpoint /\ Restorable(f) /\ JournalTypeOK
    BY <1>2 DEF Resume, TypeOK
  <2>2. m \in Memory /\ m.updates = f.state.updates
    BY <2>1, RecoveredState
  <2>3. m.frontier = lastRow
    <3>1. f.state.frontier >= prunedThrough /\ f.state.frontier <= lastRow
      BY <2>1 DEF Restorable, ValidFrontier
    <3>2. CASE RowsAfter(f.state.frontier) = {}
      <4>1. \A c \in Chunk : receipt[c] <= f.state.frontier
        BY <2>1, <3>1, <3>2, RowsAfterAreStored
      <4>2. f.state.frontier = lastRow
        BY <3>1, <4>1 DEF JournalInv
      <4> QED  BY <2>1, <3>2, <4>2, RecoveredState
    <3>3. CASE RowsAfter(f.state.frontier) # {}
      BY <2>1, <3>3, RecoveredState
    <3> QED  BY <3>2, <3>3
  <2>4. PICK u \in Nat : Start(Pretrained(m, u))
    BY <1>2, DurabilityAssumption DEF Resume
  <2>5. mem' = Pretrained(m, u)
    BY <2>4, StartedFrame
  <2> HIDE DEF m
  <2>6. mem'.frontier = lastRow /\ mem'.updates = f.state.updates + u
    BY <2>2, <2>3, <2>5 DEF Pretrained, Memory
  <2>7. ASSUME NEW g \in files
        PROVE  AheadOf(mem', g)
    <3>1. g.state.frontier <= lastRow
      BY DEF RetentionInv
    <3>2. g.state.updates <= f.state.updates
      <4>1. CASE Restorable(g)
        BY <1>2, <4>1 DEF Resume, IsNewest
      <4>2. CASE ~Restorable(g)
        <5>1. g.state.frontier < f.state.frontier
          BY <2>1, <3>1, <4>2 DEF Restorable, ValidFrontier
        <5>2. ~(f.state.updates < g.state.updates)
          BY <5>1 DEF RetentionInv, FilesAdvance
        <5> QED  BY <5>2
      <4> QED  BY <4>1, <4>2
    <3> QED  BY <2>6, <3>1, <3>2 DEF AheadOf
  <2>8. mem'.frontier <= lastRow /\ mem'.frontier >= prunedThrough
    BY <2>6 DEF JournalInv
  <2>9. /\ learner = "down" /\ learner' = "loop"
        /\ UNCHANGED <<receipt, lastRow, prunedThrough, writer, files>>
    BY <2>4, StartedFrame
  <2> QED  BY <2>7, <2>8, <2>9
<1>3. ~ResumeLearnerOnly
  BY DEF ResumeLearnerOnly
<1> QED  BY <1>1, <1>2, <1>3 DEF StartStep

\* The learner, the pending write and the files advance together.
LEMMA RetentionInvStep ==
    ASSUME TypeOK, JournalInv, RetentionInv, ResumeNewest, [Next]_vars
    PROVE  RetentionInv'
<1> DEFINE active == {"writing", "saved", "pruned"}
<1>1. TypeOK' /\ lastRow <= lastRow'
  BY TypeStep, JournalStep
<1> USE StateNumbers
<1>2. lastRow' \in Nat /\ mem'.frontier \in Nat /\ mem'.updates \in Nat
  BY <1>1 DEF TypeOK, JournalTypeOK, Memory
<1>3. CASE OthersMove
  <2>1. learner = "ingest" => receipt'[current] = receipt[current]
    <3> SUFFICES ASSUME learner = "ingest" PROVE receipt'[current] = receipt[current]
      OBVIOUS
    <3>1. current \in Chunk /\ receipt[current] > mem.frontier
      BY DEF TypeOK, RetentionInv
    <3> QED  BY <3>1, ReceiptsStay DEF HasReceipt
  <2> QED  BY <1>1, <1>2, <1>3, <2>1 DEF OthersMove, RetentionInv, FilesAdvance, AheadOf, SamePath
<1>4. CASE MainMoves
  <2>1. \A f \in files : AheadOf(mem', f)
    BY <1>2, <1>4 DEF MainMoves, RetentionInv, AheadOf
  <2>2. writer.stage \in active => AheadOf(mem', writer.ckpt)
    BY <1>2, <1>4 DEF MainMoves, RetentionInv, AheadOf
  <2>3. writer'.stage \in active =>
           AheadOf(mem', writer'.ckpt) /\ \A f \in files : AheadOf(writer'.ckpt.state, f)
    BY <1>2, <1>4, <2>1, <2>2 DEF MainMoves, RetentionInv, AheadOf
  <2> QED  BY <1>2, <1>4, <2>1, <2>3 DEF MainMoves, RetentionInv, FilesAdvance, AheadOf, SamePath
<1>5. CASE ProcessEnds
  BY <1>5 DEF ProcessEnds, RetentionInv, FilesAdvance, SamePath
<1>6. CASE StartStep
  <2>1. writer.stage \notin active
    BY <1>6, NewestStart DEF RetentionInv
  <2> QED  BY <1>6, <2>1, NewestStart DEF RetentionInv, FilesAdvance, AheadOf, SamePath
<1>7. CASE WriterMoves
  <2>1. \A f \in files' : f \in files \/ f = writer.ckpt
    BY <1>7 DEF WriterMoves
  <2>2. /\ learner # "down" /\ AheadOf(mem, writer.ckpt)
        /\ \A f \in files : AheadOf(writer.ckpt.state, f) /\ AheadOf(mem, f)
    BY <1>7 DEF WriterMoves, RetentionInv
  <2>3. \A f \in files' : AheadOf(writer.ckpt.state, f) /\ AheadOf(mem, f)
    BY <2>1, <2>2 DEF AheadOf
  <2>4. \A f, g \in files' : f.state.updates < g.state.updates =>
                                 f.state.frontier <= g.state.frontier
    BY <2>1, <2>2 DEF AheadOf, RetentionInv, FilesAdvance
  <2>5. \A f, g \in files' : SamePath(f, g) => f = g
    BY <1>7 DEF WriterMoves, RetentionInv, SamePath
  <2>6. mem.frontier <= lastRow
    BY <2>2 DEF RetentionInv
  <2>7. \A f \in files' : f.state.frontier <= lastRow
    BY <2>1, <2>2, <2>6 DEF AheadOf, RetentionInv
  <2>8. writer'.stage \in active => writer'.ckpt = writer.ckpt
    BY <1>7 DEF WriterMoves
  <2> QED  BY <1>7, <2>2, <2>3, <2>4, <2>5, <2>6, <2>7, <2>8
           DEF WriterMoves, RetentionInv, FilesAdvance, AheadOf, SamePath
<1> QED  BY <1>3, <1>4, <1>5, <1>6, <1>7, RetentionMoves

\* RetentionInv is inductive, Ctrl+C or not, whatever is kept of each family.
THEOREM RetentionInductive ==
    ASSUME ResumeNewest
    PROVE  Spec => [](TypeOK /\ JournalInv /\ RetentionInv)
<1>1. Init => TypeOK /\ JournalInv
  BY InitInd DEF IndInv
<1>2. Init => RetentionInv
  BY DEF Init, RetentionInv, FilesAdvance, SamePath, IdleWriter
<1>3. TypeOK /\ JournalInv /\ RetentionInv /\ [Next]_vars
        => (TypeOK /\ JournalInv /\ RetentionInv)'
  BY TypeStep, JournalStep, RetentionInvStep
<1> QED  BY <1>1, <1>2, <1>3, PTL DEF Spec

\* The file that retention unlinks is not the one just saved: that one sorts last of its
\* family, and a family is cut down to at least one file (core.checkpoints.
\* prune_checkpoint_family).
LEMMA SavedFileSortsLast ==
    ASSUME TypeOK, RetentionInv, LeadersInOrder, writer.ckpt \in files,
           NEW f \in FamilyFiles(writer.ckpt.family), Surplus(writer.ckpt.family),
           \A g \in FamilyFiles(writer.ckpt.family) : SortsBefore(f, g),
           writer.stage = "pruned"
    PROVE  f # writer.ckpt
<1> SUFFICES ASSUME f = writer.ckpt PROVE FALSE
  OBVIOUS
<1> USE StateNumbers
<1>1. \E g \in FamilyFiles(writer.ckpt.family) : g # f
  <2> SUFFICES ASSUME FamilyFiles(writer.ckpt.family) = {f} PROVE FALSE
    OBVIOUS
  <2>1. Cardinality({f}) = 1
    BY FS_Singleton
  <2> QED  BY <2>1, DurabilityAssumption DEF Surplus
<1>2. PICK g \in FamilyFiles(writer.ckpt.family) : g # f
  BY <1>1
<1>3. g \in files /\ g.family = writer.ckpt.family /\ g.policy \in Int /\ g.state.updates \in Nat
  BY DEF FamilyFiles
<1>4. g.state.updates = writer.ckpt.state.updates /\ writer.ckpt.policy <= g.policy
  BY <1>3 DEF SortsBefore, RetentionInv, AheadOf
<1>5. ~(g.policy > writer.ckpt.policy)
  BY <1>4 DEF LeadersInOrder
<1>6. SamePath(g, f)
  BY <1>3, <1>4, <1>5 DEF SamePath
<1> QED  BY <1>2, <1>3, <1>6 DEF RetentionInv

\* Retention never removes the checkpoint whose save it follows, as long as leaders come
\* in order: for any number of files kept, with Ctrl+C, crashes and evaluation leaders.
THEOREM RetentionKeeps ==
    ASSUME ResumeNewest
    PROVE  Spec => RetentionKeepsTheSavedFile
<1>1. ASSUME TypeOK, JournalInv, RetentionInv, [Next]_vars, LeadersInOrder,
             writer.stage = "pruned", writer.ckpt \in files
      PROVE  writer.ckpt \in files'
  <2>1. CASE UnlinkOldest
    BY <1>1, <2>1, SavedFileSortsLast DEF UnlinkOldest
  <2>2. CASE ~UnlinkOldest
    <3>1. ~WriteFile
      BY <1>1 DEF WriteFile
    <3> QED  BY <1>1, <2>2, <3>1
         DEF Next, vars, ActorStep, Collect, Send, LoseCall, HandlerStep, Receive,
             Persist, PersistFails, Respond, LearnerStep, BeginIngest, FinishIngest, SaveLeader,
             Update, SaveDue, CompleteLearning, StopRequested, Interrupt, InterruptAgain, GoTo,
             SaveFinalCheckpoint, WaitForWriter, RaiseWriteFailure, Close, Crash, Exit,
             StartStep, StartFresh, Resume, ResumeLearnerOnly, Start, WriterStep, PruneJournal,
             FinishWrite, WriteFails
  <2> QED  BY <2>1, <2>2
<1>2. (TypeOK /\ JournalInv /\ RetentionInv) /\ [Next]_vars =>
          [LeadersInOrder /\ writer.stage = "pruned" /\ writer.ckpt \in files
              => writer.ckpt \in files']_vars
  BY <1>1
<1> QED  BY <1>2, RetentionInductive, PTL DEF Spec, RetentionKeepsTheSavedFile

\* A file that covers what was pruned and is behind no other, after a step of the writer.
LEMMA SavedFileIsNewest ==
    ASSUME TypeOK, RetentionInv, writer.ckpt \in files', files' \subseteq files \cup {writer.ckpt},
           writer.stage \in {"writing", "saved", "pruned"}, writer'.ckpt = writer.ckpt,
           Restorable(writer.ckpt)'
    PROVE  NewestIsRestorable'
<1>1. AheadOf(writer.ckpt.state, writer.ckpt)
  BY StateNumbers DEF AheadOf
<1>2. \A f \in files' : AheadOf(writer.ckpt.state, f)
  BY <1>1 DEF RetentionInv
<1> QED  BY <1>2 DEF NewestIsRestorable

\* While leaders come in order, no step loses the last file that covers what was pruned.
LEMMA RecoverableInvStep ==
    ASSUME TypeOK, JournalInv, RetentionInv, RecoverableInv, ResumeNewest, LeadersInOrder,
           [Next]_vars
    PROVE  RecoverableInv'
<1> DEFINE active == {"writing", "saved", "pruned"}
<1>1. TypeOK' /\ lastRow <= lastRow'
  BY TypeStep, JournalStep
<1> USE StateNumbers
<1>2. /\ lastRow' \in Nat /\ prunedThrough' \in Nat
      /\ mem'.frontier \in Nat /\ writer'.ckpt.state.frontier \in Nat
  BY <1>1 DEF TypeOK, JournalTypeOK, Memory, Checkpoint
<1>3. CASE OthersMove
  <2>1. ~PruneJournal
    BY <1>3 DEF OthersMove, PruneJournal, TypeOK
  <2>2. ASSUME NEW w \in Worker, Persist(w)
        PROVE  UNCHANGED prunedThrough
    BY <2>2 DEF Persist, JournalAppend, journalVars
  <2>3. UNCHANGED prunedThrough
    BY <2>1, <2>2, JournalFrame DEF journalVars
  <2>4. \A f \in files : Restorable(f) =>
            f.state.frontier >= prunedThrough' /\ f.state.frontier <= lastRow'
    BY <1>1, <1>2, <2>3 DEF Restorable, ValidFrontier
  <2>5. writer.stage \in active => Restorable(writer.ckpt)'
    BY <1>1, <1>2, <1>3, <2>3 DEF OthersMove, RecoverableInv, Restorable, ValidFrontier
  <2>6. NewestIsRestorable => NewestIsRestorable'
    BY <1>3, <2>4 DEF OthersMove, NewestIsRestorable, Restorable, ValidFrontier
  <2> QED  BY <1>3, <2>3, <2>5, <2>6 DEF OthersMove, RecoverableInv
<1>4. ASSUME UNCHANGED <<files, lastRow, prunedThrough>>
      PROVE  NewestIsRestorable <=> NewestIsRestorable'
  BY <1>4 DEF NewestIsRestorable, Restorable, ValidFrontier
<1>5. CASE MainMoves
  <2>1. UNCHANGED <<files, lastRow, prunedThrough>> /\ learner # "down"
    BY <1>5 DEF MainMoves
  <2>2. mem'.frontier >= prunedThrough /\ mem'.frontier <= lastRow
    BY <1>2, <1>5, <2>1 DEF MainMoves, RecoverableInv
  <2>3. writer'.stage \in active => Restorable(writer.ckpt)'
    BY <1>5, <2>1, <2>2 DEF MainMoves, RecoverableInv, Restorable, ValidFrontier
  <2>4. writer'.stage \in {"saved", "pruned"} => writer'.ckpt \in files'
    BY <1>5, <2>1 DEF MainMoves, RecoverableInv
  <2> QED  BY <1>4, <2>1, <2>2, <2>3, <2>4 DEF RecoverableInv
<1>6. CASE ProcessEnds
  BY <1>4, <1>6 DEF ProcessEnds, RecoverableInv
<1>7. CASE StartStep
  <2>1. writer.stage \notin active
    BY <1>7, NewestStart DEF RetentionInv
  <2> QED  BY <1>4, <1>7, <2>1, NewestStart DEF RecoverableInv
<1>8. CASE WriteFile
  <2>1. /\ writer.stage = "writing" /\ writer'.stage = "saved" /\ writer'.ckpt = writer.ckpt
        /\ writer.ckpt \in files' /\ files' \subseteq files \cup {writer.ckpt}
        /\ UNCHANGED <<mem, learner, lastRow, prunedThrough>>
    BY <1>8 DEF WriteFile, TypeOK, journalVars, writerOnly
  <2>2. Restorable(writer.ckpt) /\ Restorable(writer.ckpt)'
    BY <2>1 DEF RecoverableInv, Restorable, ValidFrontier
  <2>3. NewestIsRestorable'
    BY <2>1, <2>2, SavedFileIsNewest
  <2> QED  BY <2>1, <2>2, <2>3 DEF RecoverableInv
<1>9. CASE PruneJournal
  <2>1. /\ writer.stage = "saved" /\ writer'.stage = "pruned" /\ writer'.ckpt = writer.ckpt
        /\ UNCHANGED <<mem, learner, files, lastRow>>
        /\ JournalPrune(writer.ckpt.state.frontier)
    BY <1>9 DEF PruneJournal, JournalPrune, TypeOK, writerOnly
  <2>2. writer.ckpt \in files /\ Restorable(writer.ckpt)
    BY <2>1 DEF RecoverableInv
  <2>3. prunedThrough' = writer.ckpt.state.frontier /\ writer.ckpt.state.frontier <= lastRow
    BY <2>1, <2>2 DEF JournalPrune, Restorable, ValidFrontier
  <2>4. Restorable(writer.ckpt)'
    BY <2>1, <2>3 DEF Restorable, ValidFrontier
  <2>5. NewestIsRestorable'
    BY <2>1, <2>2, <2>4, SavedFileIsNewest
  <2>6. mem'.frontier >= prunedThrough'
    BY <2>1, <2>3 DEF RetentionInv, AheadOf
  <2> QED  BY <2>1, <2>2, <2>4, <2>5, <2>6 DEF RecoverableInv
<1>10. CASE UnlinkOldest
  <2>1. /\ writer.stage = "pruned" /\ UNCHANGED <<writer, mem, learner, lastRow, prunedThrough>>
        /\ files' \subseteq files
    BY <1>10 DEF UnlinkOldest, journalVars, writerOnly
  <2>2. writer.ckpt \in files /\ Restorable(writer.ckpt)
    BY <2>1 DEF RecoverableInv
  <2>3. writer.ckpt \in files'
    BY <1>10, <2>1, <2>2, SavedFileSortsLast DEF UnlinkOldest
  <2>4. Restorable(writer.ckpt)'
    BY <2>1, <2>2 DEF Restorable, ValidFrontier
  <2>5. NewestIsRestorable'
    BY <2>1, <2>3, <2>4, SavedFileIsNewest
  <2> QED  BY <2>1, <2>3, <2>4, <2>5 DEF RecoverableInv
<1>11. CASE FinishWrite \/ WriteFails
  <2>1. /\ writer'.stage \in {"idle", "failed"}
        /\ UNCHANGED <<mem, learner, files, lastRow, prunedThrough>>
    BY <1>11 DEF FinishWrite, WriteFails, IdleWriter, journalVars, writerOnly
  <2> QED  BY <1>4, <2>1 DEF RecoverableInv
<1> QED  BY <1>3, <1>5, <1>6, <1>7, <1>8, <1>9, <1>10, <1>11, OthersFrame,
            MainThreadMoves DEF Next, WriterStep

\* With retention on, a row leaves the journal only while some file that is left covers
\* it, as long as leaders come in order.  They need not: the run retention_leaders shows
\* a journal that no file covers any more.
THEOREM RetainedRecoverable ==
    ASSUME ResumeNewest
    PROVE  Spec /\ []LeadersInOrder => []PrunedRowsStayRecoverable
<1>1. Init => RecoverableInv
  BY DEF Init, JournalInit, RecoverableInv, IdleWriter
<1>2. /\ TypeOK /\ JournalInv /\ RetentionInv /\ RecoverableInv /\ LeadersInOrder
      /\ [Next]_vars
      => RecoverableInv'
  BY RecoverableInvStep
<1>3. TypeOK /\ RecoverableInv => PrunedRowsStayRecoverable
  BY DEF RecoverableInv, NewestIsRestorable, PrunedRowsStayRecoverable, TypeOK, JournalTypeOK
<1> QED  BY <1>1, <1>2, <1>3, RetentionInductive, PTL DEF Spec

-----------------------------------------------------------------------------
(* What actors are told.                                                   *)

\* An answer "accepted" follows the commit of its receipt, and receipts are for ever.
LEMMA AnswersStep ==
    ASSUME TypeOK, AnswersAreBacked, [Next]_vars
    PROVE  AnswersAreBacked'
<1>1. \A c \in Chunk : HasReceipt(c) => HasReceipt(c)'
  <2>1. ASSUME NEW w \in Worker, Persist(w), NEW c \in Chunk, HasReceipt(c)
        PROVE  HasReceipt(c)'
    <3>1. worker[w].chunk \in Chunk /\ JournalAppend(worker[w].chunk)
      BY <2>1, BusyWorker DEF Persist, Job
    <3> QED  BY <2>1, <3>1 DEF JournalAppend, HasReceipt, journalVars, TypeOK, JournalTypeOK
  <2>2. PruneJournal => UNCHANGED receipt
    BY DEF PruneJournal, JournalPrune
  <2> QED  BY <2>1, <2>2, JournalFrame DEF journalVars, HasReceipt
<1>2. ASSUME NEW w \in Worker, worker'[w].pc = "accepted"
      PROVE  HasReceipt(worker[w].chunk)'
  <2>1. worker[w] \in {IdleWorker} \cup Job
    BY DEF TypeOK, Job
  <2>2. CASE worker[w].pc = "accepted" /\ worker'[w].chunk = worker[w].chunk
    <3>1. worker[w].chunk \in Chunk /\ HasReceipt(worker[w].chunk)
      BY <2>2, BusyWorker DEF AnswersAreBacked, Job
    <3> QED  BY <1>1, <2>2, <3>1 DEF HasReceipt
  <2>3. CASE UNCHANGED worker
    BY <1>2, <2>2, <2>3
  <2>4. ASSUME NEW v \in Worker, Persist(v)
        PROVE  HasReceipt(worker[w].chunk)'
    <3>1. CASE w = v
      <4>1. worker[v] \in Job /\ JournalAppend(worker[v].chunk)
        BY <2>4, BusyWorker DEF Persist
      <4>2. worker'[v].chunk = worker[v].chunk /\ worker[v].chunk \in Chunk
        BY <2>4, <4>1 DEF Persist, TypeOK, Job
      <4> QED  BY <3>1, <4>1, <4>2 DEF JournalAppend, HasReceipt, journalVars, TypeOK, JournalTypeOK
    <3>2. CASE w # v
      BY <1>2, <2>2, <2>4, <3>2 DEF Persist, TypeOK
    <3> QED  BY <3>1, <3>2
  <2>5. ASSUME NEW c \in Chunk, LoseCall(c)
        PROVE  HasReceipt(worker[w].chunk)'
    <3>1. worker'[w] = IF w \in Owner(c) THEN [worker[w] EXCEPT !.attached = FALSE] ELSE worker[w]
      BY <2>5 DEF LoseCall, Detached
    <3>2. worker[w].pc = "accepted" /\ worker'[w].chunk = worker[w].chunk
      BY <1>2, <2>1, <3>1 DEF Job, IdleWorker
    <3> QED  BY <2>2, <3>2
  <2>6. ASSUME NEW v \in Worker, NEW c \in Chunk, Receive(v, c)
        PROVE  HasReceipt(worker[w].chunk)'
    BY <1>2, <2>2, <2>6 DEF Receive, TypeOK
  <2>7. ASSUME NEW v \in Worker, PersistFails(v) \/ Respond(v)
        PROVE  HasReceipt(worker[w].chunk)'
    BY <1>2, <2>2, <2>7 DEF PersistFails, Respond, TypeOK, IdleWorker
  <2>8. ASSUME Exit
        PROVE  HasReceipt(worker[w].chunk)'
    BY <1>2, <2>8 DEF Exit, IdleWorker
  <2>9. CASE UNCHANGED vars
    BY <2>3, <2>9 DEF vars
  <2>10. CASE ActorStep
    BY <2>3, <2>5, <2>10 DEF ActorStep, Collect, Send
  <2>11. CASE HandlerStep
    BY <2>4, <2>6, <2>7, <2>11 DEF HandlerStep
  <2>12. CASE LearnerStep
    BY <2>3, <2>8, <2>12 DEF LearnerStep, BeginIngest, FinishIngest, SaveLeader, Update, SaveDue,
           CompleteLearning, StopRequested, Interrupt, InterruptAgain, GoTo, SaveFinalCheckpoint,
           WaitForWriter, RaiseWriteFailure, Close, Crash
  <2>13. CASE StartStep
    BY <2>3, <2>13, StartCases, StartedFrame
  <2>14. CASE WriterStep
    BY <2>3, <2>14 DEF WriterStep, WriteFile, PruneJournal, UnlinkOldest, FinishWrite, WriteFails,
                       writerOnly
  <2> QED  BY <2>9, <2>10, <2>11, <2>12, <2>13, <2>14 DEF Next
<1> QED  BY <1>2 DEF AnswersAreBacked

\* In every run, an actor discards a rollout only when it is settled.
THEOREM DiscardsSettled == Spec => DiscardsAreSettled
<1> DEFINE Settled ==
      \A c \in spool \ spool' :
         HasReceipt(c) \/ \E w \in Worker : worker[w].pc = "rejected" /\ worker[w].chunk = c
<1>1. Init => AnswersAreBacked
  BY DEF Init, AnswersAreBacked, IdleWorker
<1>2. TypeOK /\ AnswersAreBacked /\ [Next]_vars => AnswersAreBacked'
  BY AnswersStep
<1>3. AnswersAreBacked /\ [Next]_vars => [Settled]_vars
  <2> SUFFICES ASSUME AnswersAreBacked, Next PROVE Settled
    OBVIOUS
  <2>1. ASSUME NEW w \in Worker, Respond(w)
        PROVE  Settled
    BY <2>1 DEF Respond, AnswersAreBacked
  <2>2. \/ spool \subseteq spool'
        \/ \E w \in Worker : Respond(w)
    BY DEF Next, ActorStep, Collect, Send, LoseCall, HandlerStep, Receive, Persist, PersistFails,
           LearnerStep, BeginIngest, FinishIngest, SaveLeader, Update, SaveDue, CompleteLearning,
           StopRequested, Interrupt, InterruptAgain, GoTo, SaveFinalCheckpoint, WaitForWriter,
           RaiseWriteFailure, Close, Crash, Exit, StartStep, StartFresh, Resume,
           ResumeLearnerOnly, Start, WriterStep, WriteFile, PruneJournal, UnlinkOldest,
           FinishWrite, WriteFails, actorVars, writerOnly
  <2> QED  BY <2>1, <2>2
<1> QED  BY <1>1, <1>2, <1>3, TypeCorrect, PTL DEF Spec, DiscardsAreSettled

-----------------------------------------------------------------------------
(* The run implements the abstract log.                                    *)

LEMMA LogInitHolds == Init => Log!LogInit
BY DEF Init, JournalInit, FreshMemory, Log!LogInit, Log!EmptyReplay

\* A commit is Accept, or a stutter when the rollout was accepted before.
LEMMA PersistIsAccept ==
    ASSUME IndInv, NEW w \in Worker, Persist(w)
    PROVE  [Log!LogNext]_(Log!logVars)
<1>1. worker[w].chunk \in Chunk /\ JournalAppend(worker[w].chunk) /\ UNCHANGED mem
  BY BusyWorker DEF Persist, Job, IndInv
<1>2. Log!Accept(worker[w].chunk) \/ UNCHANGED journalVars
  BY <1>1 DEF JournalAppend, HasReceipt, Log!Accept
<1> QED  BY <1>1, <1>2 DEF Log!LogNext, Log!logVars, journalVars

\* The first half of an ingest is Apply: it takes the first row not yet held.
LEMMA IngestIsApply ==
    ASSUME IndInv, NEW c \in Chunk, BeginIngest(c)
    PROVE  Log!Apply(c)
<1>1. /\ learner = "loop"
      /\ mem \in Memory /\ mem' = Appended(mem, {c}) /\ {c} \in SUBSET Chunk
      /\ IsNextRow(mem.frontier, c)
      /\ UNCHANGED <<receipt, lastRow>>
  BY DEF BeginIngest, IndInv, TypeOK, journalVars
<1>2. /\ mem.frontier \in Nat /\ mem.frontier >= prunedThrough
      /\ mem.ingested = Prefix(mem.frontier)
      /\ JournalTypeOK /\ JournalInv
  BY <1>1 DEF IndInv, MemInv, Memory, TypeOK
<1>3. RowsAfter(mem.frontier) = {d \in Chunk : receipt[d] > mem.frontier}
  BY <1>2, RowsAfterAreStored
<1>4. mem'.ingested = [d \in Chunk |-> mem.ingested[d] + IF d \in {c} THEN 1 ELSE 0]
  BY <1>1, AppendedType
<1>5. receipt[c] # 0 /\ mem.ingested[c] = 0
  BY <1>1, <1>2, <1>3 DEF IsNextRow, Prefix, JournalTypeOK
<1>6. \A d \in Chunk : receipt[d] # 0 /\ receipt[d] < receipt[c] => mem.ingested[d] = 1
  BY <1>1, <1>2, <1>3 DEF IsNextRow, Prefix, HasReceipt, JournalTypeOK
<1>7. mem'.ingested = [mem.ingested EXCEPT ![c] = 1]
  <2>1. \A d \in Chunk : mem.ingested[d] \in Nat
    BY <1>1 DEF Memory
  <2> QED  BY <1>1, <1>4, <1>5, <2>1 DEF Memory
<1> QED  BY <1>1, <1>5, <1>6, <1>7 DEF Log!Apply

\* Every other step of the main thread leaves the replay alone or ends the process.
LEMMA LearnerStepsMap ==
    ASSUME IndInv, LearnerStep
    PROVE  [Log!LogNext]_(Log!logVars)
<1>1. UNCHANGED <<receipt, lastRow>>
  BY DEF LearnerStep, BeginIngest, FinishIngest, SaveLeader, Update, SaveDue, CompleteLearning,
         StopRequested, Interrupt, InterruptAgain, GoTo, SaveFinalCheckpoint, WaitForWriter,
         RaiseWriteFailure, Close, Crash, Exit, journalVars
<1>2. mem \in Memory
  BY DEF IndInv, TypeOK
<1>3. ASSUME mem'.ingested = mem.ingested
      PROVE  [Log!LogNext]_(Log!logVars)
  BY <1>1, <1>3 DEF Log!logVars
<1>4. ASSUME NEW c \in Chunk, BeginIngest(c)
      PROVE  [Log!LogNext]_(Log!logVars)
  BY <1>4, IngestIsApply DEF Log!LogNext
<1>5. ASSUME FinishIngest
      PROVE  [Log!LogNext]_(Log!logVars)
  BY <1>2, <1>3, <1>5 DEF FinishIngest, Memory
<1>6. ASSUME Update
      PROVE  [Log!LogNext]_(Log!logVars)
  <2> DEFINE u == mem.updates + 1
             k == mem.credit - 1
  <2>1. mem' = [mem EXCEPT !.updates = u, !.credit = k]
    BY <1>6 DEF Update
  <2>2. mem'.ingested = mem.ingested
    <3> HIDE DEF u, k
    <3> QED  BY <1>2, <2>1 DEF Memory
  <2> QED  BY <1>3, <2>2
<1>7. ASSUME Exit
      PROVE  [Log!LogNext]_(Log!logVars)
  <2>1. mem'.ingested = Log!EmptyReplay
    BY <1>7 DEF Exit, FreshMemory, Log!EmptyReplay
  <2> QED  BY <1>1, <2>1 DEF Log!Stop, Log!LogNext
<1> QED  BY <1>3, <1>4, <1>5, <1>6, <1>7
         DEF LearnerStep, SaveLeader, SaveDue, CompleteLearning, StopRequested, Interrupt,
             InterruptAgain, GoTo, SaveFinalCheckpoint, WaitForWriter, RaiseWriteFailure, Close,
             Crash

\* A start is Recover: the whole log is back in the replay.
LEMMA StartIsRecover ==
    ASSUME IndInv, StartStep
    PROVE  Log!Recover
<1>1. learner = "down" /\ UNCHANGED <<receipt, lastRow>>
  BY StartCases, StartedFrame
<1>2. mem.ingested = Log!EmptyReplay
  BY <1>1 DEF IndInv, MemInv, FreshMemory, Log!EmptyReplay
<1>3. mem'.ingested = Prefix(lastRow)
  BY StartedPrefix DEF IndInv
<1>4. Prefix(lastRow) = Log!WholeLog
  BY DEF Prefix, HasReceipt, Log!WholeLog, IndInv, JournalInv
<1> QED  BY <1>1, <1>2, <1>3, <1>4 DEF Log!Recover

\* The run implements the log: every step accepts, applies the next rollout, stops,
\* recovers everything, or changes nothing a client of the log can see.
THEOREM Implements ==
    ASSUME ~Interruptible
    PROVE  Spec => ImplementsLog
<1>1. IndInv /\ [Next]_vars => [Log!LogNext]_(Log!logVars)
  <2> SUFFICES ASSUME IndInv, [Next]_vars PROVE [Log!LogNext]_(Log!logVars)
    OBVIOUS
  <2>1. CASE UNCHANGED <<mem, receipt, lastRow>>
    BY <2>1 DEF Log!logVars
  <2>2. CASE ActorStep
    BY <2>1, <2>2 DEF ActorStep, Collect, Send, LoseCall, journalVars
  <2>3. CASE HandlerStep
    BY <2>1, <2>3, PersistIsAccept DEF HandlerStep, Receive, PersistFails, Respond, journalVars
  <2>4. CASE WriterStep
    BY <2>1, <2>4 DEF WriterStep, WriteFile, PruneJournal, JournalPrune, UnlinkOldest,
                      FinishWrite, WriteFails, writerOnly, journalVars
  <2>5. CASE UNCHANGED vars
    BY <2>1, <2>5 DEF vars, journalVars
  <2>6. CASE StartStep
    BY <2>6, StartIsRecover DEF Log!LogNext
  <2> QED  BY <2>2, <2>3, <2>4, <2>5, <2>6, LearnerStepsMap DEF Next
<1> QED  BY <1>1, LogInitHolds, Inductive, PTL DEF Spec, ImplementsLog, Log!LogSpec

=============================================================================
