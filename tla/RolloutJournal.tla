--------------------------- MODULE RolloutJournal ---------------------------
(***************************************************************************)
(* The learner's durable journal of accepted rollouts: the SQLite file of  *)
(* trackmaniarl/distributed/journal.py.                                    *)
(*                                                                         *)
(* A chunk stands for one spooled rollout together with its key, the pair  *)
(* (session_id, sequence).  Every call holds the journal's lock from its   *)
(* first statement to its commit, so every operation is one step.          *)
(***************************************************************************)
EXTENDS Integers, FiniteSets

CONSTANT Chunk              \* the rollouts the actors may ever spool

VARIABLES
    receipt,                \* table receipts: chunk -> row id, 0 when it has none
    stored,                 \* table chunks: the rollouts whose payload is still kept
    lastRow,                \* AUTOINCREMENT high-water mark, MAX(receipts.row_id)
    prunedThrough           \* metadata key pruned_through

journalVars == <<receipt, stored, lastRow, prunedThrough>>

JournalTypeOK ==
    /\ receipt \in [Chunk -> Nat]
    /\ stored \subseteq Chunk
    /\ lastRow \in Nat
    /\ prunedThrough \in Nat

\* A new database: no receipt, pruned_through = "0".
JournalInit ==
    /\ receipt = [c \in Chunk |-> 0]
    /\ stored = {}
    /\ lastRow = 0
    /\ prunedThrough = 0

HasReceipt(c) == receipt[c] # 0

HasHistory == (\E c \in Chunk : HasReceipt(c)) \/ prunedThrough > 0

\* Faulty variants of RowsAfter: the bound is off by one, either way.
RowsFrom(watermark) == {c \in stored : receipt[c] >= watermark}
RowsBeyond(watermark) == {c \in stored : receipt[c] > watermark + 1}

\* SELECT ... FROM chunks WHERE id > watermark
RowsAfter(watermark) == {c \in stored : receipt[c] > watermark}

\* ORDER BY id: the first row of RowsAfter(watermark).
IsNextRow(watermark, c) ==
    /\ c \in RowsAfter(watermark)
    /\ \A d \in RowsAfter(watermark) : receipt[c] <= receipt[d]

\* The frontiers a checkpoint may resume from.
ValidFrontier(frontier) == frontier >= prunedThrough /\ frontier <= lastRow

\* Faulty variants of JournalAppend: the commit is forgotten; receipts are not looked up.
JournalAppendUncommitted(c) == UNCHANGED journalVars
JournalAppendBlindly(c) ==
    /\ lastRow' = lastRow + 1
    /\ receipt' = [receipt EXCEPT ![c] = lastRow + 1]
    /\ stored' = stored \cup {c}
    /\ UNCHANGED prunedThrough

\* append: a key that has a receipt returns the old row id and inserts nothing;
\* a new key gets the next row id in both tables, in one transaction.
JournalAppend(c) ==
    \/ /\ HasReceipt(c)
       /\ UNCHANGED journalVars
    \/ /\ ~HasReceipt(c)
       /\ lastRow' = lastRow + 1
       /\ receipt' = [receipt EXCEPT ![c] = lastRow + 1]
       /\ stored' = stored \cup {c}
       /\ UNCHANGED prunedThrough

\* prune: a watermark behind pruned_through is ignored, one ahead of the receipts
\* is an error (no step).  Receipts outlive the payloads they stand for.
JournalPrune(watermark) ==
    /\ watermark <= lastRow
    /\ IF watermark < prunedThrough
         THEN UNCHANGED <<stored, prunedThrough>>
         ELSE stored' = RowsAfter(watermark) /\ prunedThrough' = watermark
    /\ UNCHANGED <<receipt, lastRow>>

=============================================================================
