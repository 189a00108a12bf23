----------------------------- MODULE ActorSpool -----------------------------
(***************************************************************************)
(* The spool directory of one actor over the life of several actor         *)
(* processes: the collector persists rollouts through a temporary file,    *)
(* sender threads submit and delete them, and a new process recovers what  *)
(* an earlier one left behind.                                             *)
(*                                                                         *)
(* Durable: the directory.  Everything else dies with the process.         *)
(***************************************************************************)
EXTENDS Integers, FiniteSets, FiniteSetsExt

CONSTANTS
    Chunk,              \* what the collector flushes, one element per flush
    Sender,             \* sender threads (max_inflight_chunks)
    SizeOf,             \* encoded size of a chunk
    SpoolMaxBytes,      \* spool_max_bytes
    DiskTimeouts,       \* TRUE: a write can raise TimeoutError or ConnectionError
    None,               \* no payload
    MaxStarts           \* bound: actor processes

ASSUME SpoolAssumption ==
    /\ SizeOf \in [Chunk -> Nat]
    /\ SpoolMaxBytes \in Nat
    /\ IsFiniteSet(Sender)
    /\ DiskTimeouts \in BOOLEAN
    /\ MaxStarts \in Nat

VARIABLES
    rollouts,           \* *.rollout files: number in the name -> payload
    temps,              \* *.tmp files: number in the name -> payload and completeness
    collector,          \* where the process's main thread is
    recovery,           \* temporaries still to look at, next_sequence
    sequence,           \* runtime.sequence
    pending,            \* the payload being spooled
    bytes,              \* _spool_bytes_total
    queue,              \* numbers of the queued files
    sender,             \* sender thread -> what it does, the file and its payload
    stop,               \* runtime.stop
    collected,          \* chunks flushed so far
    persisted,          \* payloads that were put in the queue
    delivered,          \* payloads that reached the learner's journal
    settled,            \* payloads answered "accepted" or "hard_policy_lag"
    starts              \* actor processes so far

disk    == <<rollouts, temps>>
history == <<collected, persisted, delivered, settled, starts>>
threads == <<queue, sender>>
vars == <<rollouts, temps, collector, recovery, sequence, pending, bytes, queue, sender, stop,
          collected, persisted, delivered, settled, starts>>

-----------------------------------------------------------------------------
(* State.                                                                  *)

\* What a rollout file holds: its key, its transitions, and whether they were closed
\* as an interrupted rollout (actor_collection._truncate_interrupted_rollout).
Payload == [session : Nat, sequence : Nat, chunk : Chunk, closed : BOOLEAN]

Size(p) == SizeOf[p.chunk]

Put(f, n, v) == [i \in DOMAIN f \cup {n} |-> IF i = n THEN v ELSE f[i]]
Without(f, n) == [i \in DOMAIN f \ {n} |-> f[i]]

IdleSender == [doing |-> "idle", number |-> 0, payload |-> None]
NoRecovery == [todo |-> {}, next |-> 0]

SenderState ==
    {IdleSender}
      \cup [doing : {"sending", "dead"}, number : Nat, payload : {None}]
      \cup [doing : {"answered", "unlinked"}, number : Nat, payload : Payload]

Persisting == {"write", "flushed", "replaced"}
Running == {"collect", "wait", "joining"} \cup Persisting

DirectoryTypeOK ==
    /\ DOMAIN rollouts \subseteq Nat
    /\ \A n \in DOMAIN rollouts : rollouts[n] \in Payload
    /\ DOMAIN temps \subseteq Nat
    /\ \A n \in DOMAIN temps : temps[n] \in [payload : Payload, complete : BOOLEAN]

ProcessTypeOK ==
    /\ collector \in {"down", "recover", "register"} \cup Running
    /\ recovery \in [todo : SUBSET Nat, next : Nat]
    /\ sequence \in Nat
    /\ pending \in (IF collector \in {"wait"} \cup Persisting THEN Payload ELSE {None})
    /\ queue \subseteq Nat
    /\ sender \in [Sender -> SenderState]
    /\ stop \in BOOLEAN
    /\ collected \subseteq Chunk
    /\ persisted \subseteq Payload /\ delivered \subseteq Payload /\ settled \subseteq Payload
    /\ starts \in Nat

StateTypeOK == DirectoryTypeOK /\ ProcessTypeOK

TypeOK == StateTypeOK /\ bytes \in Nat

Init ==
    /\ rollouts = <<>> /\ temps = <<>>
    /\ collector = "down" /\ recovery = NoRecovery
    /\ sequence = 0 /\ pending = None /\ bytes = 0
    /\ queue = {} /\ sender = [s \in Sender |-> IdleSender]
    /\ stop = FALSE
    /\ collected = {} /\ persisted = {} /\ delivered = {} /\ settled = {}
    /\ starts = 0

-----------------------------------------------------------------------------
(* A new process: recover temporaries, count bytes, number files.          *)

\* Faulty variant of NextNumber: the highest existing number.
NextNumberTaken(S) == IF S = {} THEN -1 ELSE Max(S)

\* Faulty variant of NextNumber: as many as there are files.
NextNumberByCount(S) == Cardinality(S)

\* The number after every existing one.
NextNumber(S) == IF S = {} THEN 0 ELSE Max(S) + 1

RolloutBytes == SumFunction([n \in DOMAIN rollouts |-> Size(rollouts[n])])

\* A temporary counts with the size of its payload: cut short, it is at most as large.
TempSize == [n \in DOMAIN temps |-> Size(temps[n].payload)]

\* What the directory really takes.
DirectoryBytes == RolloutBytes + SumFunction(TempSize)

\* Faulty variant of ScanBytes: only *.rollout files.
ScanRolloutBytes == RolloutBytes

\* Both kinds of file are counted.
ScanBytes == DirectoryBytes

Start ==
    /\ collector = "down"
    /\ starts < MaxStarts
    /\ starts' = starts + 1
    /\ collector' = "recover"
    /\ recovery' = [todo |-> DOMAIN temps,
                    next |-> NextNumber(DOMAIN rollouts \cup DOMAIN temps)]
    /\ UNCHANGED <<disk, sequence, pending, bytes, threads, stop, collected, persisted,
                   delivered, settled>>

\* A temporary keeps its number unless a rollout has it.
AvailableNumber(n) == IF n \in DOMAIN rollouts THEN recovery.next ELSE n

\* Temporaries are visited in ascending order; an unreadable one stays where it is.
RecoverTemporary ==
    /\ collector = "recover"
    /\ \E n \in recovery.todo :
         /\ \A m \in recovery.todo : n <= m
         /\ \/ /\ temps[n].complete
               /\ rollouts' = Put(rollouts, AvailableNumber(n), temps[n].payload)
               /\ temps' = Without(temps, n)
               /\ recovery' = [todo |-> recovery.todo \ {n},
                               next |-> recovery.next + IF n \in DOMAIN rollouts THEN 1 ELSE 0]
            \/ /\ ~temps[n].complete
               /\ recovery' = [recovery EXCEPT !.todo = @ \ {n}]
               /\ UNCHANGED disk
    /\ UNCHANGED <<collector, sequence, pending, bytes, threads, stop, history>>

FinishRecovery ==
    /\ collector = "recover"
    /\ recovery.todo = {}
    /\ collector' = "register"
    /\ recovery' = NoRecovery
    /\ bytes' = ScanBytes
    /\ sequence' = NextNumber(DOMAIN rollouts \cup DOMAIN temps)
    /\ UNCHANGED <<disk, pending, threads, stop, history>>

\* Registered: every rollout in the directory is queued, then the threads start.
\* The queue is filled in the order of the names and later files have higher
\* numbers, so its head is always its smallest number.
Begin ==
    /\ collector = "register"
    /\ collector' = "collect"
    /\ queue' = DOMAIN rollouts
    /\ UNCHANGED <<disk, recovery, sequence, pending, bytes, sender, stop, history>>

-----------------------------------------------------------------------------
(* The collector: spool().                                                 *)

\* Faulty variant of SessionId: one for all processes of an actor.
FixedSessionId == 0

\* A process draws a fresh uuid.
SessionId == starts

Flush(c) ==
    /\ collector = "collect"
    /\ c \notin collected
    /\ collected' = collected \cup {c}

\* The payload is built with the current sequence number, then waits for space.
Spool(c) ==
    /\ Flush(c)
    /\ SizeOf[c] <= SpoolMaxBytes
    /\ pending' = [session |-> SessionId, sequence |-> sequence, chunk |-> c, closed |-> FALSE]
    /\ collector' = "wait"
    /\ UNCHANGED <<disk, recovery, sequence, bytes, threads, stop, persisted, delivered, settled,
                   starts>>

\* A chunk larger than the spool ends the collection with an error.
SpoolOversized(c) ==
    /\ Flush(c)
    /\ SizeOf[c] > SpoolMaxBytes
    /\ collector' = "joining" /\ stop' = TRUE
    /\ UNCHANGED <<disk, recovery, sequence, pending, bytes, threads, persisted, delivered, settled,
                   starts>>

\* Faulty variant of DropOnStop: only space ends the wait.
NeverDrop == FALSE /\ UNCHANGED vars

\* Once the actor stops, the chunk that waits is dropped.
DropOnStop ==
    /\ collector = "wait" /\ stop
    /\ collector' = "collect" /\ pending' = None
    /\ UNCHANGED <<disk, recovery, sequence, bytes, threads, stop, history>>

\* There is space: open the temporary, truncating what has its name.
OpenTemporary ==
    /\ collector = "wait" /\ ~stop
    /\ bytes + Size(pending) <= SpoolMaxBytes
    /\ collector' = "write"
    /\ temps' = Put(temps, sequence, [payload |-> pending, complete |-> FALSE])
    /\ UNCHANGED <<rollouts, recovery, sequence, pending, bytes, threads, stop, history>>

\* Write, flush, fsync.
WriteTemporary ==
    /\ collector = "write"
    /\ collector' = "flushed"
    /\ temps' = [temps EXCEPT ![sequence].complete = TRUE]
    /\ UNCHANGED <<rollouts, recovery, sequence, pending, bytes, threads, stop, history>>

ReplaceTemporary ==
    /\ collector = "flushed"
    /\ collector' = "replaced"
    /\ rollouts' = Put(rollouts, sequence, pending)
    /\ temps' = Without(temps, sequence)
    /\ UNCHANGED <<recovery, sequence, pending, bytes, threads, stop, history>>

\* Sync the directory, count the bytes, take the next number, queue the file.
Enqueue ==
    /\ collector = "replaced"
    /\ collector' = "collect"
    /\ bytes' = bytes + Size(pending)
    /\ sequence' = sequence + 1
    /\ queue' = queue \cup {sequence}
    /\ persisted' = persisted \cup {pending}
    /\ pending' = None
    /\ UNCHANGED <<disk, recovery, sender, stop, collected, delivered, settled, starts>>

\* Writing, replacing or syncing fails: the collection ends with the error.
PersistFails ==
    /\ collector \in Persisting
    /\ collector' = "joining" /\ stop' = TRUE /\ pending' = None
    /\ UNCHANGED <<disk, recovery, sequence, bytes, threads, history>>

\* ... unless it is a TimeoutError or ConnectionError in the middle of an episode,
\* which the episode loop takes for lost telemetry: it closes the same transitions
\* as a truncation and flushes them again, under the same number.
PersistTimesOut ==
    /\ DiskTimeouts
    /\ collector \in Persisting
    /\ ~pending.closed
    /\ collector' = "wait"
    /\ pending' = [pending EXCEPT !.closed = TRUE]
    /\ UNCHANGED <<disk, recovery, sequence, bytes, threads, stop, history>>

\* The collection ends, because of stop or of an error of its own.
LeaveCollection ==
    /\ collector = "collect"
    /\ collector' = "joining" /\ stop' = TRUE
    /\ UNCHANGED <<disk, recovery, sequence, pending, bytes, threads, history>>

-----------------------------------------------------------------------------
(* The sender threads.                                                     *)

Take(s) ==
    /\ collector \in Running
    /\ sender[s].doing = "idle"
    /\ \E n \in queue :
         /\ \A m \in queue : n <= m
         /\ queue' = queue \ {n}
         /\ sender' = [sender EXCEPT ![s] = [doing |-> "sending", number |-> n, payload |-> None]]
    /\ UNCHANGED <<disk, collector, recovery, sequence, pending, bytes, stop, history>>

File(s) == rollouts[sender[s].number]

Answered(s) == [doing |-> "answered", number |-> sender[s].number, payload |-> File(s)]

\* The learner answers "accepted", after it journalled the rollout.
Accepted(s) ==
    /\ sender[s].doing = "sending"
    /\ delivered' = delivered \cup {File(s)}
    /\ settled' = settled \cup {File(s)}
    /\ sender' = [sender EXCEPT ![s] = Answered(s)]
    /\ UNCHANGED <<disk, collector, recovery, sequence, pending, bytes, queue, stop, collected,
                   persisted, starts>>

\* The learner answers "hard_policy_lag".
Rejected(s) ==
    /\ sender[s].doing = "sending"
    /\ settled' = settled \cup {File(s)}
    /\ sender' = [sender EXCEPT ![s] = Answered(s)]
    /\ UNCHANGED <<disk, collector, recovery, sequence, pending, bytes, queue, stop, collected,
                   persisted, delivered, starts>>

\* Faulty variant of Lost: the sender gives the file up.
LostForGood(s) ==
    /\ sender[s].doing = "sending"
    /\ delivered' \in {delivered, delivered \cup {File(s)}}
    /\ sender' = [sender EXCEPT ![s] = IdleSender]
    /\ UNCHANGED <<disk, collector, recovery, sequence, pending, bytes, queue, stop, collected,
                   persisted, settled, starts>>

\* No answer.  The sender tries again, or leaves the file for the next process.
Lost(s) ==
    /\ sender[s].doing = "sending"
    /\ delivered' \in {delivered, delivered \cup {File(s)}}
    /\ sender' = [sender EXCEPT ![s] = IF stop THEN IdleSender ELSE @]
    /\ UNCHANGED <<disk, collector, recovery, sequence, pending, bytes, queue, stop, collected,
                   persisted, settled, starts>>

\* An error that is not retried: the thread stops the actor and ends.
SendFails(s) ==
    /\ sender[s].doing = "sending"
    /\ sender' = [sender EXCEPT ![s].doing = "dead"]
    /\ stop' = TRUE
    /\ UNCHANGED <<disk, collector, recovery, sequence, pending, bytes, queue, history>>

Unlink(s) ==
    /\ sender[s].doing = "answered"
    /\ rollouts' = Without(rollouts, sender[s].number)
    /\ sender' = [sender EXCEPT ![s].doing = "unlinked"]
    /\ UNCHANGED <<temps, collector, recovery, sequence, pending, bytes, queue, stop, history>>

\* Faulty variant of Uncount: the counter is forgotten.
UncountNothing(s) ==
    /\ sender[s].doing = "unlinked"
    /\ sender' = [sender EXCEPT ![s] = IdleSender]
    /\ UNCHANGED <<disk, collector, recovery, sequence, pending, bytes, queue, stop, history>>

Uncount(s) ==
    /\ sender[s].doing = "unlinked"
    /\ bytes' = Max({0, bytes - Size(sender[s].payload)})
    /\ sender' = [sender EXCEPT ![s] = IdleSender]
    /\ UNCHANGED <<disk, collector, recovery, sequence, pending, queue, stop, history>>

-----------------------------------------------------------------------------
(* The end of a process.                                                   *)

\* The learner, the launcher, a heartbeat or the watchdog stops the actor.
StopRequested ==
    /\ collector \in {"register"} \cup Running
    /\ ~stop
    /\ stop' = TRUE
    /\ UNCHANGED <<disk, collector, recovery, sequence, pending, bytes, threads, history>>

ProcessEnds ==
    /\ collector' = "down"
    /\ recovery' = NoRecovery
    /\ sequence' = 0 /\ pending' = None /\ bytes' = 0
    /\ queue' = {} /\ sender' = [s \in Sender |-> IdleSender]
    /\ stop' = FALSE
    /\ UNCHANGED history

\* The senders have drained the queue, or ten seconds have passed.
Exit ==
    /\ collector = "joining"
    /\ ProcessEnds
    /\ UNCHANGED disk

\* The process dies, or the machine does.  A temporary that is not synced may hold
\* everything or not; a rename that is not synced may be undone.
Crash ==
    /\ collector # "down"
    /\ ProcessEnds
    /\ \/ UNCHANGED disk
       \/ /\ collector = "write"
          /\ temps' = [temps EXCEPT ![sequence].complete = TRUE]
          /\ UNCHANGED rollouts
       \/ /\ collector = "replaced"
          /\ rollouts' = Without(rollouts, sequence)
          /\ temps' = Put(temps, sequence, [payload |-> pending, complete |-> TRUE])

-----------------------------------------------------------------------------

SpoolNext == \E c \in Chunk : Spool(c) \/ SpoolOversized(c)

PersistNext ==
    \/ OpenTemporary \/ WriteTemporary \/ ReplaceTemporary \/ Enqueue
    \/ DropOnStop

SenderNext(s) ==
    \/ Take(s) \/ Accepted(s) \/ Rejected(s) \/ Lost(s) \/ SendFails(s)
    \/ Unlink(s) \/ Uncount(s)

Next ==
    \/ Start \/ RecoverTemporary \/ FinishRecovery \/ Begin
    \/ SpoolNext \/ PersistNext \/ PersistFails \/ PersistTimesOut
    \/ \E s \in Sender : SenderNext(s)
    \/ StopRequested \/ LeaveCollection \/ Exit \/ Crash

Spec == Init /\ [][Next]_vars

-----------------------------------------------------------------------------
(* Safety.                                                                 *)

\* Payloads the learner has or may still get.
Known ==
    {rollouts[n] : n \in DOMAIN rollouts}
      \cup {temps[n].payload : n \in {m \in DOMAIN temps : temps[m].complete}}
      \cup delivered

\* A key (session, sequence) never stands for two payloads, over all processes of
\* the actor, although numbers of deleted files are used again.  The journal treats a
\* second payload as a conflict (journal._receipt_row_id) and the actor stops.
KeysIdentifyPayloads ==
    \A p, q \in Known : p.session = q.session /\ p.sequence = q.sequence => p = q

\* A rollout that was once queued stays in the directory until the learner answers,
\* whatever dies and whatever is renamed (actor_spool._persist_rollout).
PersistedRolloutsSurvive ==
    persisted \subseteq settled \cup {rollouts[n] : n \in DOMAIN rollouts}

\* The files of an actor never take more than spool_max_bytes, over all its
\* processes (actor_spool.wait_for_spool_capacity).
SpoolWithinLimit == DirectoryBytes <= SpoolMaxBytes

\* Files that are deleted but not yet subtracted.
UnlinkedBytes ==
    SumFunction([s \in Sender |-> IF sender[s].doing = "unlinked"
                                  THEN Size(sender[s].payload) ELSE 0])

\* The counter knows the directory: it lags behind it by the file being written and
\* runs ahead by the files being deleted, and by nothing else.
ByteCountIsExact ==
    collector \in {"register", "collect", "wait"} \cup Persisting =>
      bytes + (IF collector \in Persisting THEN Size(pending) ELSE 0)
        = DirectoryBytes + UnlinkedBytes

\* The bytes of the spool are accounted for: the limit holds and the counter is right.
BytesAreAccounted == SpoolWithinLimit /\ ByteCountIsExact

-----------------------------------------------------------------------------
(* The inductive invariants.                                               *)

Numbers == DOMAIN rollouts \cup DOMAIN temps

\* The process has a sequence number and may still spool.
Active == {"register", "collect", "wait"} \cup Persisting

\* The directory is finite: its numbers have a bound.
Bounded == \E k \in Nat : \A n \in Numbers : n <= k

\* Recovery looks at temporaries that exist, and next_sequence is free.
RecoveryInv ==
    collector = "recover" =>
      recovery.todo \subseteq DOMAIN temps /\ \A n \in Numbers : n < recovery.next

\* What is being persisted is where the collector thinks it is.
WriteInv ==
    /\ collector = "register" => \A n \in DOMAIN rollouts : n < sequence
    /\ collector \in {"write", "flushed"} =>
         sequence \in DOMAIN temps /\ temps[sequence].payload = pending
    /\ collector = "replaced" => sequence \in DOMAIN rollouts /\ rollouts[sequence] = pending

QueueInv ==
    /\ queue \subseteq DOMAIN rollouts
    /\ collector \in Active => \A n \in queue : n < sequence

Busy(s) == sender[s].doing \in {"sending", "answered"}

\* A busy sender has its file to itself.
SenderInv ==
    /\ collector \notin Running => queue = {} /\ \A s \in Sender : sender[s] = IdleSender
    /\ \A s \in Sender : Busy(s) =>
         /\ sender[s].number \in DOMAIN rollouts \ queue
         /\ collector \in Active => sender[s].number < sequence
         /\ \A t \in Sender \ {s} : Busy(t) => sender[t].number # sender[s].number
         /\ sender[s].doing = "answered" =>
              File(s) = sender[s].payload /\ File(s) \in settled

\* Rollouts that still count have numbers the collector will not use again.
SurviveInv ==
    \A p \in persisted \ settled :
      \E n \in DOMAIN rollouts : rollouts[n] = p /\ (collector \in Active => n < sequence)

IndInv ==
    StateTypeOK /\ Bounded /\ RecoveryInv /\ WriteInv /\ QueueInv /\ SenderInv /\ SurviveInv

\* While no write is taken for lost telemetry, the number of the next file is above every
\* other one: opening, renaming and restoring a file overwrite nothing.
FreshInv ==
    /\ collector \in {"register", "collect", "wait"} => \A n \in Numbers : n < sequence
    /\ collector \in Persisting => \A n \in Numbers : n <= sequence
    /\ collector \in {"write", "flushed"} => sequence \notin DOMAIN rollouts
    /\ collector = "replaced" => sequence \notin DOMAIN temps

BytesInv == bytes \in Nat /\ FreshInv /\ BytesAreAccounted

\* Keys of this process are below its next one, except the one being written; an
\* earlier process used another session.
KeyInv ==
    /\ KeysIdentifyPayloads
    /\ \A p \in Known :
         /\ p.session <= starts
         /\ collector \in {"recover", "register"} => p.session < starts
         /\ collector \in {"collect", "wait"} /\ p.session = starts => p.sequence < sequence
         /\ collector \in Persisting /\ p.session = starts =>
              p.sequence < sequence \/ p = pending
    /\ collector \in {"wait"} \cup Persisting =>
         pending.session = starts /\ pending.sequence = sequence

-----------------------------------------------------------------------------
(* Fairness and progress.                                                  *)

\* The collector's thread runs when it can.  The environment's steps and the learner's
\* answers are not its own.
CollectorFairness ==
    WF_vars(PersistNext \/ (stop /\ LeaveCollection) \/ Exit)

\* The sender threads run when they can, and not every call is lost.
SenderFairness ==
    \A s \in Sender : /\ WF_vars(Take(s) \/ Unlink(s) \/ Uncount(s))
                      /\ SF_vars(Accepted(s))

FairSpec == Spec /\ CollectorFairness /\ SenderFairness

\* Temporaries no process could read; nobody deletes them.
Unreadable == {n \in DOMAIN temps : ~temps[n].complete}

\* A collector that waits for space gets it, or the actor stops, as long as the
\* unreadable temporaries leave room for its chunk.
BackpressureEnds ==
    collector = "wait" /\ SumFunctionOnSet(TempSize, Unreadable) + Size(pending) <= SpoolMaxBytes
      ~> collector # "wait"

\* An actor that is told to stop ends its process, wherever its collector waits and
\* however many rollouts are left.
StoppingActorExits == collector \in Running /\ stop ~> collector = "down"

\* No wait of the spool lasts for ever.
SpoolKeepsMoving == BackpressureEnds /\ StoppingActorExits

=============================================================================
