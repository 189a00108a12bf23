-------------------------- MODULE ActorSpool_proofs --------------------------
(***************************************************************************)
(* Proofs about ActorSpool, for any chunks, sizes, limit, number of        *)
(* senders and number of processes.                                        *)
(***************************************************************************)
EXTENDS ActorSpool, SumTheorems

-----------------------------------------------------------------------------
(* Directories and numbers.                                                *)

\* NextNumber is above every number of a finite directory.
LEMMA NextNumberFacts ==
    ASSUME NEW S \in SUBSET Nat, NEW k \in Nat, \A n \in S : n <= k
    PROVE  NextNumber(S) \in Nat /\ \A n \in S : n < NextNumber(S)
<1>1. CASE S = {}
  BY <1>1 DEF NextNumber
<1>2. CASE S # {}
  <2>1. PICK m \in S : m = Max(S) /\ \A n \in S : n <= m
    BY <1>2, MaxExists
  <2>2. NextNumber(S) = m + 1
    BY <1>2, <2>1 DEF NextNumber
  <2> QED  BY <2>1, <2>2
<1> QED  BY <1>1, <1>2

-----------------------------------------------------------------------------
(* What each action does to the directory.                                 *)

LEMMA InvParts ==
    IndInv => /\ StateTypeOK /\ Bounded /\ RecoveryInv /\ WriteInv
              /\ QueueInv /\ SenderInv /\ SurviveInv
BY DEF IndInv

\* A recovered temporary gets a free number: nothing is overwritten.
LEMMA RecoverDisk ==
    ASSUME IndInv, RecoverTemporary
    PROVE  \E n \in recovery.todo :
      /\ \A m \in recovery.todo : n <= m
      /\ n \in DOMAIN temps
      /\ \/ /\ AvailableNumber(n) \in Nat \ DOMAIN rollouts
            /\ DOMAIN rollouts' = DOMAIN rollouts \cup {AvailableNumber(n)}
            /\ rollouts'[AvailableNumber(n)] = temps[n].payload
            /\ \A i \in DOMAIN rollouts : rollouts'[i] = rollouts[i]
            /\ DOMAIN temps' = DOMAIN temps \ {n}
            /\ \A i \in DOMAIN temps' : temps'[i] = temps[i]
            /\ temps[n].complete
            /\ recovery' = [todo |-> recovery.todo \ {n},
                            next |-> recovery.next + IF n \in DOMAIN rollouts THEN 1 ELSE 0]
         \/ UNCHANGED disk /\ recovery' = [recovery EXCEPT !.todo = @ \ {n}]
<1>1. PICK n \in recovery.todo :
        /\ \A m \in recovery.todo : n <= m
        /\ \/ /\ temps[n].complete
              /\ rollouts' = Put(rollouts, AvailableNumber(n), temps[n].payload)
              /\ temps' = Without(temps, n)
              /\ recovery' = [todo |-> recovery.todo \ {n},
                              next |-> recovery.next + IF n \in DOMAIN rollouts THEN 1 ELSE 0]
           \/ UNCHANGED disk /\ recovery' = [recovery EXCEPT !.todo = @ \ {n}]
  BY DEF RecoverTemporary
<1>2. /\ n \in DOMAIN temps /\ n \in Nat /\ recovery.next \in Nat
      /\ recovery.next \notin DOMAIN rollouts
  BY <1>1, InvParts DEF RecoverTemporary, RecoveryInv, StateTypeOK, DirectoryTypeOK, ProcessTypeOK, Numbers
<1>3. AvailableNumber(n) \in Nat \ DOMAIN rollouts
  BY <1>2 DEF AvailableNumber
<1>4. CASE rollouts' = Put(rollouts, AvailableNumber(n), temps[n].payload)
             /\ temps' = Without(temps, n)
  <2>1. /\ DOMAIN rollouts' = DOMAIN rollouts \cup {AvailableNumber(n)}
        /\ rollouts'[AvailableNumber(n)] = temps[n].payload
        /\ \A i \in DOMAIN rollouts : rollouts'[i] = rollouts[i]
    BY <1>3, <1>4 DEF Put
  <2>2. /\ DOMAIN temps' = DOMAIN temps \ {n}
        /\ \A i \in DOMAIN temps' : temps'[i] = temps[i]
    BY <1>4 DEF Without
  <2> QED  BY <1>1, <1>2, <1>3, <2>1, <2>2
<1> QED  BY <1>1, <1>2, <1>4

LEMMA OpenDisk ==
    ASSUME OpenTemporary
    PROVE  /\ DOMAIN temps' = DOMAIN temps \cup {sequence}
           /\ temps'[sequence] = [payload |-> pending, complete |-> FALSE]
           /\ \A i \in DOMAIN temps : i # sequence => temps'[i] = temps[i]
BY DEF OpenTemporary, Put

LEMMA WriteDisk ==
    ASSUME IndInv, WriteTemporary
    PROVE  /\ DOMAIN temps' = DOMAIN temps
           /\ sequence \in DOMAIN temps
           /\ temps'[sequence] = [payload |-> pending, complete |-> TRUE]
           /\ \A i \in DOMAIN temps : i # sequence => temps'[i] = temps[i]
BY InvParts DEF WriteTemporary, WriteInv, StateTypeOK, DirectoryTypeOK

LEMMA ReplaceDisk ==
    ASSUME ReplaceTemporary
    PROVE  /\ DOMAIN rollouts' = DOMAIN rollouts \cup {sequence}
           /\ rollouts'[sequence] = pending
           /\ \A i \in DOMAIN rollouts : i # sequence => rollouts'[i] = rollouts[i]
           /\ DOMAIN temps' = DOMAIN temps \ {sequence}
           /\ \A i \in DOMAIN temps' : temps'[i] = temps[i]
BY DEF ReplaceTemporary, Put, Without

LEMMA UnlinkDisk ==
    ASSUME NEW s \in Sender, Unlink(s)
    PROVE  /\ DOMAIN rollouts' = DOMAIN rollouts \ {sender[s].number}
           /\ \A i \in DOMAIN rollouts' : rollouts'[i] = rollouts[i]
           /\ temps' = temps
BY DEF Unlink, Without

\* A crash may complete the temporary that is being written, or turn the rollout that
\* was renamed last into a temporary again.
LEMMA CrashDisk ==
    ASSUME IndInv, Crash
    PROVE  \/ UNCHANGED disk
           \/ /\ collector = "write" /\ rollouts' = rollouts
              /\ DOMAIN temps' = DOMAIN temps
              /\ sequence \in DOMAIN temps
              /\ temps'[sequence] = [payload |-> pending, complete |-> TRUE]
              /\ \A i \in DOMAIN temps : i # sequence => temps'[i] = temps[i]
           \/ /\ collector = "replaced"
              /\ DOMAIN rollouts' = DOMAIN rollouts \ {sequence}
              /\ \A i \in DOMAIN rollouts' : rollouts'[i] = rollouts[i]
              /\ DOMAIN temps' = DOMAIN temps \cup {sequence}
              /\ temps'[sequence] = [payload |-> pending, complete |-> TRUE]
              /\ \A i \in DOMAIN temps : i # sequence => temps'[i] = temps[i]
<1>1. CASE UNCHANGED disk
  BY <1>1
<1>2. CASE collector = "write" /\ temps' = [temps EXCEPT ![sequence].complete = TRUE]
             /\ UNCHANGED rollouts
  BY <1>2, InvParts DEF WriteInv, StateTypeOK, DirectoryTypeOK
<1>3. CASE /\ collector = "replaced" /\ rollouts' = Without(rollouts, sequence)
           /\ temps' = Put(temps, sequence, [payload |-> pending, complete |-> TRUE])
  BY <1>3 DEF Put, Without
<1> QED  BY <1>1, <1>2, <1>3 DEF Crash

\* Every other step leaves the directory alone.
LEMMA DiskFrame ==
    ASSUME Next
    PROVE  \/ UNCHANGED disk
           \/ RecoverTemporary \/ OpenTemporary \/ WriteTemporary \/ ReplaceTemporary
           \/ \E s \in Sender : Unlink(s)
           \/ Crash
<1> USE DEF disk
<1>1. Start \/ FinishRecovery \/ Begin \/ SpoolNext \/ Enqueue \/ DropOnStop => UNCHANGED disk
  BY DEF Start, FinishRecovery, Begin, SpoolNext, Spool, SpoolOversized, Enqueue, DropOnStop
<1>2. PersistFails \/ PersistTimesOut \/ StopRequested \/ LeaveCollection \/ Exit => UNCHANGED disk
  BY DEF PersistFails, PersistTimesOut, StopRequested, LeaveCollection, Exit
<1>3. \A s \in Sender : SenderNext(s) => UNCHANGED disk \/ Unlink(s)
  BY DEF SenderNext, Take, Accepted, Rejected, Lost, SendFails, Uncount
<1> QED  BY <1>1, <1>2, <1>3 DEF Next, PersistNext

\* next_sequence and sequence are above every file.
LEMMA FreshNumber ==
    ASSUME IndInv
    PROVE  NextNumber(Numbers) \in Nat /\ \A n \in Numbers : n < NextNumber(Numbers)
<1>1. Numbers \subseteq Nat
  BY InvParts DEF StateTypeOK, DirectoryTypeOK, Numbers
<1>2. PICK k \in Nat : \A n \in Numbers : n <= k
  BY InvParts DEF Bounded
<1> QED  BY <1>1, <1>2, NextNumberFacts

\* A busy sender has a file of its own, below the collector's next number.
LEMMA BusyFile ==
    ASSUME IndInv, NEW s \in Sender, Busy(s)
    PROVE  /\ sender[s].number \in DOMAIN rollouts
           /\ sender[s].number \in Nat
           /\ sender[s].number \notin queue
           /\ collector \in Running
           /\ collector \in Active => sender[s].number < sequence
           /\ File(s) \in Payload
           /\ \A t \in Sender \ {s} : Busy(t) => sender[t].number # sender[s].number
<1>1. StateTypeOK /\ SenderInv
  BY InvParts
<1>2. collector \in Running
  BY <1>1 DEF SenderInv, Busy, IdleSender
<1> QED  BY <1>1, <1>2 DEF SenderInv, StateTypeOK, DirectoryTypeOK, File

-----------------------------------------------------------------------------
(* Types.                                                                  *)

LEMMA DirectoryTypeStep == ASSUME IndInv, Next PROVE DirectoryTypeOK'
<1> USE DEF DirectoryTypeOK
<1>1. DirectoryTypeOK /\ ProcessTypeOK
  BY InvParts DEF StateTypeOK
<1>2. CASE UNCHANGED disk
  BY <1>1, <1>2 DEF disk
<1>3. CASE RecoverTemporary
  <2>1. \A n \in DOMAIN temps : temps[n].payload \in Payload
    BY <1>1
  <2> QED  BY <1>1, <1>2, <1>3, <2>1, RecoverDisk
<1>4. CASE OpenTemporary
  <2>1. pending \in Payload /\ sequence \in Nat /\ rollouts' = rollouts
    BY <1>1, <1>4 DEF OpenTemporary, ProcessTypeOK
  <2>2. [payload |-> pending, complete |-> FALSE] \in [payload : Payload, complete : BOOLEAN]
    BY <2>1
  <2> QED  BY <1>1, <1>4, <2>1, <2>2, OpenDisk
<1>5. CASE WriteTemporary
  <2>1. pending \in Payload /\ rollouts' = rollouts
    BY <1>1, <1>5 DEF WriteTemporary, ProcessTypeOK, Persisting
  <2>2. [payload |-> pending, complete |-> TRUE] \in [payload : Payload, complete : BOOLEAN]
    BY <2>1
  <2> QED  BY <1>1, <1>5, <2>1, <2>2, WriteDisk
<1>6. CASE ReplaceTemporary
  <2>1. pending \in Payload /\ sequence \in Nat
    BY <1>1, <1>6 DEF ReplaceTemporary, ProcessTypeOK, Persisting
  <2> QED  BY <1>1, <1>6, <2>1, ReplaceDisk
<1>7. ASSUME NEW s \in Sender, Unlink(s) PROVE DirectoryTypeOK'
  BY <1>1, <1>7, UnlinkDisk
<1>8. CASE Crash
  <2>1. collector \in Persisting => pending \in Payload /\ sequence \in Nat
    BY <1>1 DEF ProcessTypeOK
  <2>2. collector \in Persisting =>
          [payload |-> pending, complete |-> TRUE] \in [payload : Payload, complete : BOOLEAN]
    BY <2>1
  <2> QED  BY <1>1, <1>2, <1>8, <2>1, <2>2, CrashDisk DEF Persisting
<1> QED  BY <1>2, <1>3, <1>4, <1>5, <1>6, <1>7, <1>8, DiskFrame

LEMMA ProcessTypeStep == ASSUME IndInv, Next PROVE ProcessTypeOK'
<1> USE DEF ProcessTypeOK, Running, Persisting, history, threads
<1>1. DirectoryTypeOK /\ ProcessTypeOK
  BY InvParts DEF StateTypeOK
<1>2. CASE Start
  BY <1>1, <1>2, FreshNumber DEF Start, Numbers, DirectoryTypeOK
<1>3. CASE RecoverTemporary
  BY <1>1, <1>3 DEF RecoverTemporary
<1>4. CASE FinishRecovery
  BY <1>1, <1>4, FreshNumber DEF FinishRecovery, NoRecovery, Numbers
<1>5. CASE Begin
  BY <1>1, <1>5 DEF Begin, DirectoryTypeOK
<1>6. CASE SpoolNext
  <2>1. \A c \in Chunk :
          [session |-> SessionId, sequence |-> sequence, chunk |-> c, closed |-> FALSE] \in Payload
    BY <1>1 DEF SessionId, Payload
  <2> QED  BY <1>1, <1>6, <2>1 DEF SpoolNext, Spool, SpoolOversized, Flush
<1>7. CASE PersistNext
  BY <1>1, <1>7 DEF PersistNext, OpenTemporary, WriteTemporary, ReplaceTemporary, Enqueue, DropOnStop
<1>8. CASE PersistFails \/ PersistTimesOut
  BY <1>1, <1>8 DEF PersistFails, PersistTimesOut, Payload
<1>9. ASSUME NEW s \in Sender, SenderNext(s) PROVE ProcessTypeOK'
  <2>1. CASE Take(s)
    <3>1. PICK n \in queue :
            /\ queue' = queue \ {n}
            /\ sender' = [sender EXCEPT ![s] = [doing |-> "sending", number |-> n, payload |-> None]]
      BY <2>1 DEF Take
    <3>2. [doing |-> "sending", number |-> n, payload |-> None] \in SenderState
      BY <1>1 DEF SenderState
    <3> QED  BY <1>1, <2>1, <3>1, <3>2 DEF Take
  <2>2. CASE Accepted(s) \/ Rejected(s)
    <3>1. Busy(s)
      BY <2>2 DEF Accepted, Rejected, Busy
    <3>2. File(s) \in Payload
      BY <3>1, BusyFile
    <3>3. Answered(s) \in SenderState
      BY <3>1, <3>2, BusyFile DEF Answered, SenderState
    <3> QED  BY <1>1, <2>2, <3>2, <3>3 DEF Accepted, Rejected
  <2>3. CASE Lost(s)
    <3>1. File(s) \in Payload
      BY <2>3, BusyFile DEF Lost, Busy
    <3>2. sender' \in [Sender -> SenderState]
      BY <1>1, <2>3 DEF Lost, SenderState
    <3> QED  BY <1>1, <2>3, <3>1, <3>2 DEF Lost
  <2>4. CASE SendFails(s)
    BY <1>1, <2>4 DEF SendFails, SenderState, IdleSender
  <2>5. CASE Unlink(s)
    BY <1>1, <2>5 DEF Unlink, SenderState, IdleSender
  <2>6. CASE Uncount(s)
    BY <1>1, <2>6 DEF Uncount, SenderState
  <2> QED  BY <1>9, <2>1, <2>2, <2>3, <2>4, <2>5, <2>6 DEF SenderNext
<1>10. CASE StopRequested \/ LeaveCollection
  BY <1>1, <1>10 DEF StopRequested, LeaveCollection
<1>11. CASE Exit \/ Crash
  <2>1. ProcessEnds
    BY <1>11 DEF Exit, Crash
  <2>2. (sender \in [Sender -> SenderState])'
    BY <2>1 DEF ProcessEnds, SenderState
  <2>3. (recovery \in [todo : SUBSET Nat, next : Nat])'
    BY <2>1 DEF ProcessEnds, NoRecovery
  <2> QED  BY <1>1, <2>1, <2>2, <2>3 DEF ProcessEnds
<1> QED
  BY <1>2, <1>3, <1>4, <1>5, <1>6, <1>7, <1>8, <1>9, <1>10, <1>11 DEF Next

-----------------------------------------------------------------------------
(* Numbers, files and threads.                                             *)

LEMMA BoundedStep == ASSUME IndInv, Next PROVE Bounded'
<1> USE DEF Bounded, Numbers
<1>1. DirectoryTypeOK /\ ProcessTypeOK
  BY InvParts DEF StateTypeOK
<1>2. PICK k \in Nat : \A n \in Numbers : n <= k
  BY InvParts
<1>3. CASE UNCHANGED disk
  BY <1>2, <1>3 DEF disk
<1>4. CASE RecoverTemporary
  <2>1. CASE UNCHANGED disk
    BY <1>3, <2>1
  <2>2. CASE ~UNCHANGED disk
    <3>1. PICK m \in Nat : /\ DOMAIN rollouts' = DOMAIN rollouts \cup {m}
                           /\ DOMAIN temps' \subseteq DOMAIN temps
      BY <1>4, <2>2, RecoverDisk
    <3>2. \A n \in Numbers' : n <= k + m
      BY <1>1, <1>2, <3>1 DEF DirectoryTypeOK
    <3> QED  BY <1>2, <3>1, <3>2
  <2> QED  BY <2>1, <2>2
<1>5. CASE OpenTemporary \/ WriteTemporary \/ ReplaceTemporary \/ Crash
  <2>1. Numbers' \subseteq Numbers \cup {sequence}
    BY <1>5, OpenDisk, WriteDisk, ReplaceDisk, CrashDisk DEF OpenTemporary, WriteTemporary, disk
  <2>2. sequence \in Nat
    BY <1>1 DEF ProcessTypeOK
  <2>3. \A n \in Numbers' : n <= k + sequence
    BY <1>1, <1>2, <2>1, <2>2 DEF DirectoryTypeOK
  <2> QED  BY <1>2, <2>2, <2>3
<1>6. ASSUME NEW s \in Sender, Unlink(s) PROVE Bounded'
  BY <1>2, <1>6, UnlinkDisk
<1> QED  BY <1>3, <1>4, <1>5, <1>6, DiskFrame

LEMMA RecoveryStep == ASSUME IndInv, Next PROVE RecoveryInv'
<1> USE DEF RecoveryInv, Numbers
<1>1. DirectoryTypeOK /\ ProcessTypeOK /\ RecoveryInv
  BY InvParts DEF StateTypeOK
<1>2. CASE collector' # "recover"
  BY <1>2
<1>3. CASE Start
  <2>1. recovery' = [todo |-> DOMAIN temps, next |-> NextNumber(Numbers)] /\ UNCHANGED disk
    BY <1>3 DEF Start
  <2> QED  BY <2>1, FreshNumber DEF disk
<1>4. CASE RecoverTemporary
  <2>1. PICK n \in recovery.todo :
          \/ /\ DOMAIN rollouts' = DOMAIN rollouts \cup {AvailableNumber(n)}
             /\ DOMAIN temps' = DOMAIN temps \ {n}
             /\ recovery' = [todo |-> recovery.todo \ {n},
                             next |-> recovery.next + IF n \in DOMAIN rollouts THEN 1 ELSE 0]
          \/ UNCHANGED disk /\ recovery' = [recovery EXCEPT !.todo = @ \ {n}]
    BY <1>4, RecoverDisk
  <2>2. /\ collector = "recover" /\ n \in DOMAIN temps
        /\ recovery.next \in Nat /\ Numbers \subseteq Nat
    BY <1>1, <1>4 DEF RecoverTemporary, DirectoryTypeOK, ProcessTypeOK
  <2>3. CASE UNCHANGED disk /\ recovery' = [recovery EXCEPT !.todo = @ \ {n}]
    BY <1>1, <2>2, <2>3 DEF disk, ProcessTypeOK
  <2>4. CASE /\ DOMAIN rollouts' = DOMAIN rollouts \cup {AvailableNumber(n)}
             /\ DOMAIN temps' = DOMAIN temps \ {n}
             /\ recovery' = [todo |-> recovery.todo \ {n},
                             next |-> recovery.next + IF n \in DOMAIN rollouts THEN 1 ELSE 0]
    <3>1. AvailableNumber(n) < recovery'.next /\ recovery.next <= recovery'.next
      BY <1>1, <2>2, <2>4 DEF AvailableNumber
    <3>2. recovery'.todo \subseteq DOMAIN temps' /\ recovery'.next \in Nat
      BY <1>1, <2>2, <2>4
    <3>3. \A i \in Numbers : i < recovery'.next
      BY <1>1, <2>2, <3>1, <3>2
    <3> QED  BY <2>4, <3>1, <3>2, <3>3
  <2> QED  BY <2>1, <2>3, <2>4
<1>5. CASE collector' = "recover" /\ ~Start /\ ~RecoverTemporary
  <2>1. UNCHANGED <<collector, recovery, rollouts, temps>>
    <3> USE <1>5 DEF Running, Persisting, disk, history, threads
    <3>1. ~FinishRecovery /\ ~Begin /\ ~SpoolNext /\ ~PersistNext /\ ~PersistFails
          /\ ~PersistTimesOut /\ ~LeaveCollection /\ ~Exit /\ ~Crash
      BY DEF FinishRecovery, Begin, SpoolNext, Spool, SpoolOversized, PersistNext, OpenTemporary,
             WriteTemporary, ReplaceTemporary, Enqueue, DropOnStop, PersistFails, PersistTimesOut,
             LeaveCollection, Exit, Crash, ProcessEnds
    <3>2. CASE StopRequested
      BY <3>2 DEF StopRequested
    <3>3. ASSUME NEW s \in Sender, SenderNext(s) PROVE UNCHANGED <<collector, recovery, rollouts, temps>>
      <4>1. collector' = collector
        BY <3>3 DEF SenderNext, Take, Accepted, Rejected, Lost, SendFails, Unlink, Uncount
      <4>2. sender[s] = IdleSender
        BY <4>1, InvParts DEF SenderInv
      <4>3. Take(s)
        BY <3>3, <4>2 DEF SenderNext, Accepted, Rejected, Lost, SendFails, Unlink, Uncount, IdleSender
      <4> QED  BY <4>3 DEF Take
    <3> QED  BY <3>1, <3>2, <3>3 DEF Next
  <2> QED  BY <1>1, <2>1
<1> QED  BY <1>2, <1>3, <1>4, <1>5

LEMMA WriteStep == ASSUME IndInv, Next PROVE WriteInv'
<1> USE DEF WriteInv, Running, Persisting, Active, disk, history, threads
<1>1. WriteInv /\ ProcessTypeOK
  BY InvParts DEF StateTypeOK
<1>2. CASE Start \/ RecoverTemporary \/ Begin \/ SpoolNext \/ Enqueue \/ DropOnStop
  BY <1>1, <1>2 DEF Start, RecoverTemporary, Begin, SpoolNext, Spool, SpoolOversized, Enqueue,
                    DropOnStop
<1>3. CASE FinishRecovery
  BY <1>3, FreshNumber DEF FinishRecovery, Numbers
<1>4. CASE OpenTemporary
  BY <1>4, OpenDisk DEF OpenTemporary
<1>5. CASE WriteTemporary
  BY <1>1, <1>5, WriteDisk DEF WriteTemporary
<1>6. CASE ReplaceTemporary
  BY <1>1, <1>6, ReplaceDisk DEF ReplaceTemporary
<1>7. CASE PersistFails \/ PersistTimesOut \/ StopRequested \/ LeaveCollection \/ Exit \/ Crash
  BY <1>1, <1>7 DEF PersistFails, PersistTimesOut, StopRequested, LeaveCollection, Exit, Crash,
                    ProcessEnds
<1>8. ASSUME NEW s \in Sender, SenderNext(s) PROVE WriteInv'
  <2>1. UNCHANGED <<temps, collector, sequence, pending>>
    BY <1>8 DEF SenderNext, Take, Accepted, Rejected, Lost, SendFails, Unlink, Uncount
  <2>2. CASE UNCHANGED rollouts
    BY <1>1, <2>1, <2>2
  <2>3. CASE Unlink(s)
    <3>1. Busy(s)
      BY <2>3 DEF Unlink, Busy
    <3>2. /\ collector \in Active => sender[s].number # sequence
          /\ collector # "register"
      <4>1. sender[s].number \in Nat /\ sequence \in Nat
        BY <1>1, <3>1, BusyFile DEF ProcessTypeOK
      <4> QED  BY <3>1, <4>1, BusyFile
    <3>3. DOMAIN rollouts' = DOMAIN rollouts \ {sender[s].number}
          /\ \A i \in DOMAIN rollouts' : rollouts'[i] = rollouts[i]
      BY <2>3, UnlinkDisk
    <3> QED  BY <1>1, <2>1, <3>2, <3>3
  <2> QED  BY <1>8, <2>2, <2>3 DEF SenderNext, Take, Accepted, Rejected, Lost, SendFails, Uncount
<1> QED  BY <1>2, <1>3, <1>4, <1>5, <1>6, <1>7, <1>8 DEF Next, PersistNext

LEMMA QueueStep == ASSUME IndInv, Next PROVE QueueInv'
<1> USE DEF QueueInv, Running, Persisting, Active, disk, history, threads
<1>1. QueueInv /\ DirectoryTypeOK /\ ProcessTypeOK
  BY InvParts DEF StateTypeOK
<1>2. CASE Start \/ RecoverTemporary \/ FinishRecovery
  <2>1. queue' = {}
    BY <1>2, InvParts DEF SenderInv, Start, RecoverTemporary, FinishRecovery
  <2> QED  BY <2>1
<1>3. CASE Begin
  BY <1>3, InvParts DEF Begin, WriteInv
<1>4. CASE SpoolNext \/ OpenTemporary \/ WriteTemporary \/ DropOnStop
  <2>1. CASE SpoolNext
    BY <1>1, <2>1 DEF SpoolNext, Spool, SpoolOversized, Flush
  <2>2. CASE OpenTemporary \/ WriteTemporary \/ DropOnStop
    BY <1>1, <2>2 DEF OpenTemporary, WriteTemporary, DropOnStop
  <2> QED  BY <1>4, <2>1, <2>2
<1>5. CASE ReplaceTemporary
  BY <1>1, <1>5, ReplaceDisk DEF ReplaceTemporary
<1>6. CASE Enqueue
  <2>1. sequence \in DOMAIN rollouts
    BY <1>6, InvParts DEF Enqueue, WriteInv
  <2>2. collector \in Active /\ sequence \in Nat /\ queue \subseteq Nat
    BY <1>1, <1>6 DEF Enqueue, ProcessTypeOK
  <2> QED  BY <1>1, <1>6, <2>1, <2>2 DEF Enqueue
<1>7. CASE PersistFails \/ PersistTimesOut \/ StopRequested \/ LeaveCollection
  BY <1>1, <1>7 DEF PersistFails, PersistTimesOut, StopRequested, LeaveCollection
<1>8. ASSUME NEW s \in Sender, SenderNext(s) PROVE QueueInv'
  <2>1. UNCHANGED <<collector, sequence>> /\ queue' \subseteq queue
    BY <1>8 DEF SenderNext, Take, Accepted, Rejected, Lost, SendFails, Unlink, Uncount
  <2>2. CASE UNCHANGED rollouts
    BY <1>1, <2>1, <2>2
  <2>3. CASE Unlink(s)
    <3>1. sender[s].number \notin queue
      BY <2>3, BusyFile DEF Unlink, Busy
    <3> QED  BY <1>1, <2>1, <2>3, <3>1, UnlinkDisk
  <2> QED  BY <1>8, <2>2, <2>3 DEF SenderNext, Take, Accepted, Rejected, Lost, SendFails, Uncount
<1>9. CASE Exit \/ Crash
  BY <1>9 DEF Exit, Crash, ProcessEnds
<1> QED  BY <1>2, <1>3, <1>4, <1>5, <1>6, <1>7, <1>8, <1>9 DEF Next, PersistNext

LEMMA SenderStep == ASSUME IndInv, Next PROVE SenderInv'
<1> USE DEF SenderInv, Busy, Running, Persisting, Active, disk, history, threads
<1>1. SenderInv /\ ProcessTypeOK
  BY InvParts DEF StateTypeOK
<1>2. CASE Start \/ RecoverTemporary \/ FinishRecovery \/ Begin
  BY <1>1, <1>2 DEF Start, RecoverTemporary, FinishRecovery, Begin, IdleSender
<1>3. CASE SpoolNext \/ PersistFails \/ PersistTimesOut \/ StopRequested \/ LeaveCollection
  <2>1. UNCHANGED <<rollouts, sequence, queue, sender, settled>>
    BY <1>3 DEF SpoolNext, Spool, SpoolOversized, PersistFails, PersistTimesOut, StopRequested,
                LeaveCollection
  <2>2. /\ collector' \in Active => collector \in Active
        /\ collector' \notin Running => collector \notin Running
    BY <1>3 DEF SpoolNext, Spool, SpoolOversized, Flush, PersistFails, PersistTimesOut,
                StopRequested, LeaveCollection
  <2> QED  BY <1>1, <2>1, <2>2 DEF File
<1>4. CASE OpenTemporary \/ WriteTemporary \/ DropOnStop
  BY <1>1, <1>4 DEF OpenTemporary, WriteTemporary, DropOnStop, File
<1>5. CASE ReplaceTemporary
  <2>1. \A s \in Sender : Busy(s) => sender[s].number # sequence
    <3>1. collector \in Active
      BY <1>5 DEF ReplaceTemporary
    <3>2. \A s \in Sender : Busy(s) => sender[s].number \in Nat
      BY BusyFile
    <3> QED  BY <1>1, <3>1, <3>2 DEF ProcessTypeOK
  <2> QED  BY <1>1, <1>5, <2>1, ReplaceDisk DEF ReplaceTemporary, File
<1>6. CASE Enqueue
  <2>1. \A s \in Sender : Busy(s) => sender[s].number \in Nat
    BY BusyFile
  <2> QED  BY <1>1, <1>6, <2>1 DEF Enqueue, File, ProcessTypeOK
<1>7. ASSUME NEW s \in Sender, SenderNext(s) PROVE SenderInv'
  <2> USE DEF ProcessTypeOK
  <2>1. collector \in Running
    BY <1>1, <1>7 DEF SenderNext, Take, Accepted, Rejected, Lost, SendFails, Unlink, Uncount, IdleSender
  <2>2. CASE Take(s)
    <3>1. PICK n \in queue :
            /\ queue' = queue \ {n}
            /\ sender' = [sender EXCEPT ![s] = [doing |-> "sending", number |-> n, payload |-> None]]
      BY <2>2 DEF Take
    <3>2. sender'[s].number = n /\ sender'[s].doing = "sending"
      BY <1>1, <3>1
    <3>3. \A t \in Sender \ {s} : sender'[t] = sender[t]
      BY <1>1, <3>1
    <3>4. n \in DOMAIN rollouts /\ (collector \in Active => n < sequence)
      BY InvParts DEF QueueInv
    <3>5. UNCHANGED <<rollouts, collector, sequence, settled>>
      BY <2>2 DEF Take
    <3> QED  BY <1>1, <2>1, <3>1, <3>2, <3>3, <3>4, <3>5 DEF File
  <2>3. CASE Accepted(s) \/ Rejected(s)
    <3>1. /\ sender'[s] = Answered(s)
          /\ \A t \in Sender \ {s} : sender'[t] = sender[t]
      BY <1>1, <2>3 DEF Accepted, Rejected
    <3>2. /\ sender'[s].number = sender[s].number
          /\ sender'[s].payload = File(s)
      BY <3>1 DEF Answered
    <3>3. /\ UNCHANGED <<rollouts, queue, collector, sequence>>
          /\ settled' = settled \cup {File(s)}
          /\ Busy(s)
      BY <2>3 DEF Accepted, Rejected
    <3>4. File(s)' = File(s)
      BY <3>2, <3>3 DEF File
    <3> QED  BY <1>1, <2>1, <3>1, <3>2, <3>3, <3>4 DEF File
  <2>4. CASE Lost(s) \/ SendFails(s) \/ Uncount(s)
    <3>1. /\ sender'[s] = sender[s] \/ sender'[s].doing \in {"idle", "dead"}
          /\ \A t \in Sender \ {s} : sender'[t] = sender[t]
      BY <1>1, <2>4 DEF Lost, SendFails, Uncount, IdleSender, SenderState
    <3>2. UNCHANGED <<rollouts, queue, collector, sequence, settled>>
      BY <2>4 DEF Lost, SendFails, Uncount
    <3> QED  BY <1>1, <2>1, <3>1, <3>2 DEF File
  <2>5. CASE Unlink(s)
    <3>1. /\ sender'[s].doing = "unlinked"
          /\ \A t \in Sender \ {s} : sender'[t] = sender[t]
      BY <1>1, <2>5 DEF Unlink, SenderState, IdleSender
    <3>2. UNCHANGED <<queue, collector, sequence, settled>> /\ Busy(s)
      BY <2>5 DEF Unlink
    <3>3. \A t \in Sender \ {s} : Busy(t) =>
            sender[t].number \in DOMAIN rollouts' /\ rollouts'[sender[t].number] = File(t)
      BY <1>1, <2>5, <3>2, UnlinkDisk DEF File
    <3> QED  BY <1>1, <2>1, <3>1, <3>2, <3>3 DEF File
  <2> QED  BY <1>7, <2>2, <2>3, <2>4, <2>5 DEF SenderNext
<1>8. CASE Exit \/ Crash
  BY <1>8 DEF Exit, Crash, ProcessEnds, IdleSender
<1> QED  BY <1>2, <1>3, <1>4, <1>5, <1>6, <1>7, <1>8 DEF Next, PersistNext

LEMMA SurviveStep == ASSUME IndInv, Next PROVE SurviveInv'
<1> USE DEF SurviveInv, Running, Persisting, Active, disk, history, threads
<1>1. SurviveInv /\ DirectoryTypeOK /\ ProcessTypeOK
  BY InvParts DEF StateTypeOK
<1>2. CASE Start \/ Begin \/ SpoolNext \/ PersistFails \/ PersistTimesOut \/ StopRequested
           \/ LeaveCollection
  <2>1. UNCHANGED <<rollouts, sequence, persisted, settled>>
    BY <1>2 DEF Start, Begin, SpoolNext, Spool, SpoolOversized, Flush, PersistFails,
                PersistTimesOut, StopRequested, LeaveCollection
  <2>2. collector' \in Active => collector \in Active
    BY <1>2 DEF Start, Begin, SpoolNext, Spool, SpoolOversized, Flush, PersistFails,
                PersistTimesOut, StopRequested, LeaveCollection
  <2> QED  BY <1>1, <2>1, <2>2
<1>3. CASE RecoverTemporary
  <2>1. /\ DOMAIN rollouts \subseteq DOMAIN rollouts'
        /\ \A i \in DOMAIN rollouts : rollouts'[i] = rollouts[i]
    BY <1>3, RecoverDisk
  <2> QED  BY <1>1, <1>3, <2>1 DEF RecoverTemporary
<1>4. CASE FinishRecovery
  BY <1>1, <1>4, FreshNumber DEF FinishRecovery, Numbers
<1>5. CASE OpenTemporary \/ WriteTemporary \/ DropOnStop
  BY <1>1, <1>5 DEF OpenTemporary, WriteTemporary, DropOnStop
<1>6. CASE ReplaceTemporary
  <2>1. \A i \in DOMAIN rollouts : i < sequence => i # sequence
    BY <1>1 DEF DirectoryTypeOK, ProcessTypeOK
  <2>2. collector \in Active /\ UNCHANGED <<sequence, persisted, settled>>
    BY <1>6 DEF ReplaceTemporary
  <2> QED  BY <1>1, <1>6, <2>1, <2>2, ReplaceDisk
<1>7. CASE Enqueue
  <2>1. sequence \in DOMAIN rollouts /\ rollouts[sequence] = pending
    BY <1>7, InvParts DEF Enqueue, WriteInv
  <2>2. DOMAIN rollouts \subseteq Nat /\ sequence \in Nat
    BY <1>1 DEF DirectoryTypeOK, ProcessTypeOK
  <2> QED  BY <1>1, <1>7, <2>1, <2>2 DEF Enqueue
<1>8. ASSUME NEW s \in Sender, SenderNext(s) PROVE SurviveInv'
  <2>1. CASE Unlink(s)
    <3>1. File(s) \in settled
      BY <2>1, InvParts DEF Unlink, SenderInv, Busy
    <3>2. UNCHANGED <<collector, sequence, persisted, settled>>
      BY <2>1 DEF Unlink
    <3>3. ASSUME NEW p \in persisted \ settled
          PROVE  \E n \in DOMAIN rollouts' : /\ rollouts'[n] = p
                                             /\ collector \in Active => n < sequence
      <4>1. PICK n \in DOMAIN rollouts : rollouts[n] = p /\ (collector \in Active => n < sequence)
        BY <1>1
      <4>2. n # sender[s].number
        BY <3>1, <4>1 DEF File
      <4> QED  BY <2>1, <4>1, <4>2, UnlinkDisk
    <3> QED  BY <3>2, <3>3
  <2>2. CASE ~Unlink(s)
    <3>1. UNCHANGED <<rollouts, collector, sequence, persisted>> /\ settled \subseteq settled'
      BY <1>8, <2>2 DEF SenderNext, Take, Accepted, Rejected, Lost, SendFails, Uncount
    <3> QED  BY <1>1, <3>1
  <2> QED  BY <2>1, <2>2
<1>9. CASE Exit
  BY <1>1, <1>9 DEF Exit, ProcessEnds
<1>10. CASE Crash
  <2>1. collector' = "down" /\ UNCHANGED <<persisted, settled>>
    BY <1>10 DEF Crash, ProcessEnds
  <2>2. \/ rollouts' = rollouts
        \/ /\ collector = "replaced"
           /\ DOMAIN rollouts' = DOMAIN rollouts \ {sequence}
           /\ \A i \in DOMAIN rollouts' : rollouts'[i] = rollouts[i]
    BY <1>10, CrashDisk
  <2>3. \A i \in DOMAIN rollouts : i < sequence => i # sequence
    BY <1>1 DEF DirectoryTypeOK, ProcessTypeOK
  <2> QED  BY <1>1, <2>1, <2>2, <2>3
<1> QED
  BY <1>2, <1>3, <1>4, <1>5, <1>6, <1>7, <1>8, <1>9, <1>10 DEF Next, PersistNext

\* IndInv: the directory is typed and bounded, recovery and writing use free numbers,
\* every queued or taken file exists and is nobody else's, and what was queued is still
\* there.  Each part needs the others: a sender's file survives because the collector
\* writes above it, and that because numbering starts above what recovery left.
THEOREM Inductive == Spec => []IndInv
<1>1. Init => IndInv
  <2> SUFFICES ASSUME Init PROVE IndInv
    OBVIOUS
  <2>1. /\ DOMAIN rollouts = {} /\ DOMAIN temps = {} /\ queue = {} /\ persisted = {}
        /\ collector = "down" /\ sender = [s \in Sender |-> IdleSender]
    BY DEF Init
  <2>2. DirectoryTypeOK
    BY <2>1 DEF DirectoryTypeOK
  <2>3. ProcessTypeOK
    BY DEF Init, ProcessTypeOK, SenderState, NoRecovery, Running, Persisting
  <2>4. Bounded
    <3>1. 0 \in Nat /\ \A n \in Numbers : n <= 0
      BY <2>1 DEF Numbers
    <3> QED  BY <3>1 DEF Bounded
  <2>5. RecoveryInv /\ WriteInv /\ QueueInv /\ SurviveInv
    BY <2>1 DEF RecoveryInv, WriteInv, QueueInv, SurviveInv
  <2>6. SenderInv
    BY <2>1 DEF SenderInv, Busy, IdleSender
  <2> QED  BY <2>2, <2>3, <2>4, <2>5, <2>6 DEF IndInv, StateTypeOK
<1>2. IndInv /\ [Next]_vars => IndInv'
  <2>1. ASSUME IndInv, Next PROVE IndInv'
    BY <2>1, DirectoryTypeStep, ProcessTypeStep, BoundedStep, RecoveryStep, WriteStep, QueueStep,
       SenderStep, SurviveStep DEF IndInv, StateTypeOK
  <2>2. ASSUME IndInv, UNCHANGED vars PROVE IndInv'
    BY <2>2 DEF vars, IndInv, StateTypeOK, DirectoryTypeOK, ProcessTypeOK, Bounded, Numbers,
                RecoveryInv, WriteInv, QueueInv, SenderInv, Busy, File, SurviveInv
  <2> QED  BY <2>1, <2>2
<1> QED  BY <1>1, <1>2, PTL DEF Spec

\* Every rollout that was queued stays in the spool until the learner answered, over
\* all crashes, recoveries and failed writes.
THEOREM Survive == Spec => []PersistedRolloutsSurvive
<1>1. IndInv => PersistedRolloutsSurvive
  BY DEF IndInv, SurviveInv, PersistedRolloutsSurvive
<1> QED  BY <1>1, Inductive, PTL

-----------------------------------------------------------------------------
(* Keys.                                                                   *)

\* No step but the end of a write, a crash during it and the loss of a file changes
\* what is known.
LEMMA KnownStep ==
    ASSUME IndInv, Next
    PROVE  \A p \in Known' : p \in Known \/ (p = pending /\ collector \in Persisting)
<1> USE DEF Known
<1>1. DirectoryTypeOK /\ ProcessTypeOK
  BY InvParts DEF StateTypeOK
<1>2. ASSUME NEW s \in Sender, SenderNext(s) PROVE Known' \subseteq Known
  <2>1. \A i \in DOMAIN rollouts' : i \in DOMAIN rollouts /\ rollouts'[i] = rollouts[i]
    BY <1>2, UnlinkDisk DEF SenderNext, Take, Accepted, Rejected, Lost, SendFails, Uncount, disk
  <2>2. temps' = temps
    BY <1>2 DEF SenderNext, Take, Accepted, Rejected, Lost, SendFails, Unlink, Uncount, disk
  <2>3. delivered' \subseteq Known
    <3>1. CASE Accepted(s) \/ Lost(s)
      <4>1. sender[s].number \in DOMAIN rollouts
        BY <3>1, BusyFile DEF Accepted, Lost, Busy
      <4> QED  BY <3>1, <4>1 DEF Accepted, Lost, File
    <3>2. CASE ~Accepted(s) /\ ~Lost(s)
      BY <1>2, <3>2 DEF SenderNext, Take, Rejected, SendFails, Unlink, Uncount, history
    <3> QED  BY <3>1, <3>2
  <2> QED  BY <2>1, <2>2, <2>3
<1>3. CASE ~\E s \in Sender : SenderNext(s)
  <2>1. delivered' = delivered
    BY <1>3 DEF Next, Start, RecoverTemporary, FinishRecovery, Begin, SpoolNext, Spool,
                SpoolOversized, PersistNext, OpenTemporary, WriteTemporary, ReplaceTemporary,
                Enqueue, DropOnStop, PersistFails, PersistTimesOut, StopRequested,
                LeaveCollection, Exit, Crash, ProcessEnds, history
  <2>2. CASE UNCHANGED disk
    BY <2>1, <2>2 DEF disk
  <2>3. CASE RecoverTemporary
    <3>1. CASE ~UNCHANGED disk
      <4>1. PICK n \in DOMAIN temps :
              /\ temps[n].complete
              /\ DOMAIN rollouts' = DOMAIN rollouts \cup {AvailableNumber(n)}
              /\ rollouts'[AvailableNumber(n)] = temps[n].payload
              /\ \A i \in DOMAIN rollouts : rollouts'[i] = rollouts[i]
              /\ DOMAIN temps' = DOMAIN temps \ {n}
              /\ \A i \in DOMAIN temps' : temps'[i] = temps[i]
        BY <2>3, <3>1, RecoverDisk
      <4> QED  BY <2>1, <4>1
    <3> QED  BY <2>2, <3>1
  <2>4. CASE OpenTemporary
    <3>1. rollouts' = rollouts /\ temps'[sequence].complete = FALSE
      BY <2>4, OpenDisk DEF OpenTemporary
    <3> QED  BY <2>1, <2>4, <3>1, OpenDisk
  <2>5. CASE WriteTemporary
    <3>1. rollouts' = rollouts /\ temps'[sequence].payload = pending /\ collector \in Persisting
      BY <2>5, WriteDisk DEF WriteTemporary, Persisting
    <3> QED  BY <2>1, <2>5, <3>1, WriteDisk
  <2>6. CASE ReplaceTemporary
    <3>1. collector \in Persisting
      BY <2>6 DEF ReplaceTemporary, Persisting
    <3> QED  BY <2>1, <2>6, <3>1, ReplaceDisk
  <2>7. CASE Crash
    <3>1. CASE collector \in {"write", "replaced"}
      <4>1. collector \in Persisting
        BY <3>1 DEF Persisting
      <4>2. \A i \in DOMAIN rollouts' : i \in DOMAIN rollouts /\ rollouts'[i] = rollouts[i]
        BY <2>7, CrashDisk DEF disk
      <4>3. \A i \in DOMAIN temps' : (i \in DOMAIN temps /\ temps'[i] = temps[i])
                                       \/ temps'[i].payload = pending
        BY <2>7, CrashDisk DEF disk
      <4> QED  BY <2>1, <4>1, <4>2, <4>3
    <3> QED  BY <2>2, <2>7, <3>1, CrashDisk
  <2> QED  BY <1>3, <2>2, <2>3, <2>4, <2>5, <2>6, <2>7, DiskFrame DEF SenderNext
<1> QED  BY <1>2, <1>3

LEMMA KnownType == ASSUME IndInv PROVE Known \subseteq Payload
BY InvParts DEF Known, StateTypeOK, DirectoryTypeOK, ProcessTypeOK

\* Without failed writes that are taken for lost telemetry, no step can give a second
\* payload a known key.
LEMMA KeyStep == ASSUME ~DiskTimeouts, IndInv, KeyInv, Next PROVE KeyInv'
<1> USE DEF Persisting, history, threads
<1> DEFINE Below(p) ==
      /\ p.session <= starts
      /\ collector \in {"recover", "register"} => p.session < starts
      /\ collector \in {"collect", "wait"} /\ p.session = starts => p.sequence < sequence
      /\ collector \in Persisting /\ p.session = starts => p.sequence < sequence \/ p = pending
<1>1. /\ sequence \in Nat /\ starts \in Nat
      /\ \A p \in Known : p \in Payload /\ p.session \in Nat /\ p.sequence \in Nat
      /\ collector \in {"wait"} \cup Persisting =>
           pending \in Payload /\ pending.session = starts /\ pending.sequence = sequence
  BY InvParts, KnownType DEF StateTypeOK, ProcessTypeOK, KeyInv, Payload
<1>2. \A p \in Known : Below(p)
  BY DEF KeyInv
<1>3. ASSUME NEW p \in Known' PROVE p \in Known \/ (p = pending /\ collector \in Persisting)
  BY <1>3, KnownStep
<1>4. \A p \in Known' : Below(p) /\ p.session \in Nat /\ p.sequence \in Nat
  <2> SUFFICES ASSUME NEW p \in Known' PROVE Below(p) /\ p.session \in Nat /\ p.sequence \in Nat
    OBVIOUS
  <2>1. CASE p \in Known
    BY <1>1, <1>2, <2>1
  <2>2. CASE p = pending /\ collector \in Persisting
    BY <1>1, <2>2 DEF Payload
  <2> QED  BY <1>3, <2>1, <2>2
<1>5. KeysIdentifyPayloads'
  <2> SUFFICES ASSUME NEW p \in Known', NEW q \in Known',
                      p.session = q.session, p.sequence = q.sequence
               PROVE  p = q
    BY DEF KeysIdentifyPayloads
  <2>1. CASE p \in Known /\ q \in Known
    BY <2>1 DEF KeyInv, KeysIdentifyPayloads
  <2>2. CASE p = pending /\ collector \in Persisting
    BY <1>1, <1>4, <2>2
  <2>3. CASE q = pending /\ collector \in Persisting
    BY <1>1, <1>4, <2>3
  <2> QED  BY <1>3, <2>1, <2>2, <2>3
<1>6. (\A p \in Known : Below(p))' /\ (collector \in {"wait"} \cup Persisting =>
         pending.session = starts /\ pending.sequence = sequence)'
  <2>1. CASE Start
    BY <1>1, <1>4, <2>1 DEF Start
  <2>2. CASE RecoverTemporary \/ FinishRecovery \/ Begin
    BY <1>1, <1>4, <2>2 DEF RecoverTemporary, FinishRecovery, Begin
  <2>3. CASE SpoolNext
    BY <1>1, <1>4, <2>3 DEF SpoolNext, Spool, SpoolOversized, Flush, SessionId
  <2>4. CASE OpenTemporary \/ WriteTemporary \/ ReplaceTemporary \/ DropOnStop
    BY <1>1, <1>4, <2>4 DEF OpenTemporary, WriteTemporary, ReplaceTemporary, DropOnStop
  <2>5. CASE Enqueue
    <3>1. \A p \in Known' : p.session = starts => p.sequence < sequence + 1
      BY <1>1, <1>4, <2>5 DEF Enqueue
    <3> QED  BY <1>4, <2>5, <3>1 DEF Enqueue
  <2>6. CASE PersistFails \/ LeaveCollection \/ Exit \/ Crash
    BY <1>4, <2>6 DEF PersistFails, LeaveCollection, Exit, Crash, ProcessEnds
  <2>7. CASE PersistTimesOut
    BY <2>7 DEF PersistTimesOut
  <2>8. CASE StopRequested
    BY <1>1, <1>4, <2>8 DEF StopRequested
  <2>9. ASSUME NEW s \in Sender, SenderNext(s)
        PROVE  UNCHANGED <<collector, sequence, pending, starts>>
    BY <2>9 DEF SenderNext, Take, Accepted, Rejected, Lost, SendFails, Unlink, Uncount
  <2>10. CASE UNCHANGED <<collector, sequence, pending, starts>>
    BY <1>1, <1>4, <2>10
  <2> QED
    BY <2>1, <2>2, <2>3, <2>4, <2>5, <2>6, <2>7, <2>8, <2>9, <2>10 DEF Next, PersistNext
<1> QED  BY <1>5, <1>6 DEF KeyInv

\* A key never stands for two payloads, although file numbers are used again and the
\* numbering starts over from what is left in the directory.
THEOREM KeysUnique == ~DiskTimeouts => (Spec => []KeysIdentifyPayloads)
<1> SUFFICES ASSUME ~DiskTimeouts PROVE Spec => []KeysIdentifyPayloads
  OBVIOUS
<1>1. Init => KeyInv
  <2> SUFFICES ASSUME Init PROVE KeyInv
    OBVIOUS
  <2>1. Known = {}
    BY DEF Init, Known
  <2> QED  BY <2>1 DEF Init, KeyInv, KeysIdentifyPayloads, Persisting
<1>2. IndInv /\ KeyInv /\ [Next]_vars => KeyInv'
  <2>1. ASSUME IndInv, KeyInv, Next PROVE KeyInv'
    BY <2>1, KeyStep
  <2>2. ASSUME KeyInv, UNCHANGED vars PROVE KeyInv'
    BY <2>2 DEF vars, KeyInv, KeysIdentifyPayloads, Known
  <2> QED  BY <2>1, <2>2
<1>3. KeyInv => KeysIdentifyPayloads
  BY DEF KeyInv
<1> QED  BY <1>1, <1>2, <1>3, Inductive, PTL DEF Spec

-----------------------------------------------------------------------------
(* Bytes.                                                                  *)

\* What the rollouts, the temporaries and the deleted files weigh, one by one.
RolloutSize == [n \in DOMAIN rollouts |-> Size(rollouts[n])]
UnlinkedSize ==
    [s \in Sender |-> IF sender[s].doing = "unlinked" THEN Size(sender[s].payload) ELSE 0]

LEMMA SizeType == ASSUME NEW p \in Payload PROVE Size(p) \in Nat
BY SpoolAssumption DEF Size, Payload

LEMMA BytesAre ==
    /\ DirectoryBytes = SumFunctionOnSet(RolloutSize, DOMAIN rollouts)
                          + SumFunctionOnSet(TempSize, DOMAIN temps)
    /\ UnlinkedBytes = SumFunctionOnSet(UnlinkedSize, Sender)
<1>1. DOMAIN RolloutSize = DOMAIN rollouts /\ DOMAIN TempSize = DOMAIN temps
      /\ DOMAIN UnlinkedSize = Sender
  BY DEF RolloutSize, TempSize, UnlinkedSize
<1>2. DirectoryBytes = SumFunction(RolloutSize) + SumFunction(TempSize)
  BY DEF DirectoryBytes, RolloutBytes, RolloutSize
<1>3. UnlinkedBytes = SumFunction(UnlinkedSize)
  BY DEF UnlinkedBytes, UnlinkedSize
<1> QED  BY <1>1, <1>2, <1>3 DEF SumFunction

\* The sums are over finite sets of naturals.
LEMMA BytesFinite ==
    ASSUME IndInv
    PROVE  /\ IsFiniteSet(DOMAIN rollouts) /\ IsFiniteSet(DOMAIN temps) /\ IsFiniteSet(Sender)
           /\ \A n \in DOMAIN rollouts :
                RolloutSize[n] = Size(rollouts[n]) /\ RolloutSize[n] \in Nat
           /\ \A n \in DOMAIN temps :
                TempSize[n] = Size(temps[n].payload) /\ TempSize[n] \in Nat
           /\ \A s \in Sender : UnlinkedSize[s] \in Nat
<1>1. StateTypeOK /\ Bounded
  BY InvParts
<1>2. IsFiniteSet(DOMAIN rollouts) /\ IsFiniteSet(DOMAIN temps)
  <2>1. PICK k \in Nat : \A n \in Numbers : n <= k
    BY <1>1 DEF Bounded
  <2>2. DOMAIN rollouts \in SUBSET Nat /\ DOMAIN temps \in SUBSET Nat
    BY <1>1 DEF StateTypeOK, DirectoryTypeOK
  <2>3. (\A n \in DOMAIN rollouts : n <= k) /\ (\A n \in DOMAIN temps : n <= k)
    BY <2>1 DEF Numbers
  <2> QED  BY <2>2, <2>3, FS_BoundedSetOfNaturals
<1>3. \A n \in DOMAIN rollouts : rollouts[n] \in Payload
  BY <1>1 DEF StateTypeOK, DirectoryTypeOK
<1>4. \A n \in DOMAIN temps : temps[n].payload \in Payload
  BY <1>1 DEF StateTypeOK, DirectoryTypeOK
<1>5. \A s \in Sender : sender[s].doing = "unlinked" => sender[s].payload \in Payload
  BY <1>1 DEF StateTypeOK, ProcessTypeOK, SenderState, IdleSender
<1>6. IsFiniteSet(Sender)
  BY SpoolAssumption
<1> QED  BY <1>2, <1>3, <1>4, <1>5, <1>6, SizeType DEF RolloutSize, TempSize, UnlinkedSize

\* Both sums are naturals, and the directory weighs at least each of its files.
LEMMA BytesType ==
    ASSUME IndInv
    PROVE  /\ DirectoryBytes \in Nat /\ UnlinkedBytes \in Nat
           /\ \A n \in DOMAIN rollouts : Size(rollouts[n]) <= DirectoryBytes
           /\ \A n \in DOMAIN temps : Size(temps[n].payload) <= DirectoryBytes
           /\ \A s \in Sender : UnlinkedSize[s] <= UnlinkedBytes
<1> DEFINE r == SumFunctionOnSet(RolloutSize, DOMAIN rollouts)
           t == SumFunctionOnSet(TempSize, DOMAIN temps)
           u == SumFunctionOnSet(UnlinkedSize, Sender)
<1>1. r \in Nat /\ t \in Nat /\ u \in Nat
  BY BytesFinite, SumNat
<1>2. /\ \A n \in DOMAIN rollouts : RolloutSize[n] <= r
      /\ \A n \in DOMAIN temps : TempSize[n] <= t
      /\ \A s \in Sender : UnlinkedSize[s] <= u
  BY BytesFinite, SumBound
<1>3. DirectoryBytes = r + t /\ UnlinkedBytes = u
  BY BytesAre
<1> HIDE DEF r, t, u
<1>4. /\ \A n \in DOMAIN rollouts : Size(rollouts[n]) = RolloutSize[n] /\ RolloutSize[n] \in Nat
      /\ \A n \in DOMAIN temps : Size(temps[n].payload) = TempSize[n] /\ TempSize[n] \in Nat
  BY BytesFinite
<1> QED  BY <1>1, <1>2, <1>3, <1>4

\* A new rollout adds its size, a deleted one takes it away.
LEMMA RolloutAdded ==
    ASSUME IndInv, NEW n, n \notin DOMAIN rollouts, NEW p \in Payload,
           DOMAIN rollouts' = DOMAIN rollouts \cup {n}, rollouts'[n] = p,
           \A i \in DOMAIN rollouts : rollouts'[i] = rollouts[i]
    PROVE  SumFunctionOnSet(RolloutSize', DOMAIN rollouts')
             = SumFunctionOnSet(RolloutSize, DOMAIN rollouts) + Size(p)
<1>1. IsFiniteSet(DOMAIN rollouts) /\ \A i \in DOMAIN rollouts : RolloutSize[i] \in Int
  BY BytesFinite
<1>2. \A i \in DOMAIN rollouts : RolloutSize'[i] = RolloutSize[i]
  BY DEF RolloutSize, Size
<1>3. RolloutSize'[n] = Size(p) /\ Size(p) \in Int
  BY SizeType DEF RolloutSize, Size
<1> HIDE DEF Size
<1> QED  BY <1>1, <1>2, <1>3, SumGrows

LEMMA RolloutRemoved ==
    ASSUME IndInv, NEW n \in DOMAIN rollouts,
           DOMAIN rollouts' = DOMAIN rollouts \ {n},
           \A i \in DOMAIN rollouts' : rollouts'[i] = rollouts[i]
    PROVE  SumFunctionOnSet(RolloutSize', DOMAIN rollouts')
             = SumFunctionOnSet(RolloutSize, DOMAIN rollouts) - Size(rollouts[n])
<1>1. IsFiniteSet(DOMAIN rollouts) /\ \A i \in DOMAIN rollouts : RolloutSize[i] \in Int
  BY BytesFinite
<1>2. \A i \in DOMAIN rollouts \ {n} : RolloutSize'[i] = RolloutSize[i]
  BY DEF RolloutSize, Size
<1>3. RolloutSize[n] = Size(rollouts[n]) /\ Size(rollouts[n]) \in Int
  BY BytesFinite
<1> QED  BY <1>1, <1>2, <1>3, SumShrinks

\* The same of temporaries.
LEMMA TempAdded ==
    ASSUME IndInv, NEW n, n \notin DOMAIN temps, NEW p \in Payload,
           DOMAIN temps' = DOMAIN temps \cup {n}, temps'[n].payload = p,
           \A i \in DOMAIN temps : temps'[i] = temps[i]
    PROVE  SumFunctionOnSet(TempSize', DOMAIN temps')
             = SumFunctionOnSet(TempSize, DOMAIN temps) + Size(p)
<1>1. IsFiniteSet(DOMAIN temps) /\ \A i \in DOMAIN temps : TempSize[i] \in Int
  BY BytesFinite
<1>2. \A i \in DOMAIN temps : TempSize'[i] = TempSize[i]
  BY DEF TempSize, Size
<1>3. TempSize'[n] = Size(p) /\ Size(p) \in Int
  BY SizeType DEF TempSize, Size
<1> HIDE DEF Size
<1> QED  BY <1>1, <1>2, <1>3, SumGrows

LEMMA TempRemoved ==
    ASSUME IndInv, NEW n \in DOMAIN temps,
           DOMAIN temps' = DOMAIN temps \ {n},
           \A i \in DOMAIN temps' : temps'[i] = temps[i]
    PROVE  SumFunctionOnSet(TempSize', DOMAIN temps')
             = SumFunctionOnSet(TempSize, DOMAIN temps) - Size(temps[n].payload)
<1>1. IsFiniteSet(DOMAIN temps) /\ \A i \in DOMAIN temps : TempSize[i] \in Int
  BY BytesFinite
<1>2. \A i \in DOMAIN temps \ {n} : TempSize'[i] = TempSize[i]
  BY DEF TempSize, Size
<1>3. TempSize[n] = Size(temps[n].payload) /\ Size(temps[n].payload) \in Int
  BY BytesFinite
<1> QED  BY <1>1, <1>2, <1>3, SumShrinks

LEMMA TempKept ==
    ASSUME IndInv, DOMAIN temps' = DOMAIN temps,
           \A i \in DOMAIN temps : temps'[i].payload = temps[i].payload
    PROVE  SumFunctionOnSet(TempSize', DOMAIN temps') = SumFunctionOnSet(TempSize, DOMAIN temps)
<1>1. TempSize' = TempSize
  BY DEF TempSize, Size
<1> QED  BY <1>1

\* How a step changes what the directory weighs: only opening a temporary adds to it, and
\* only deleting a file takes from it; recovery, renames and crashes move bytes around.
LEMMA DirectoryStep ==
    ASSUME IndInv, FreshInv, Next
    PROVE  /\ OpenTemporary => DirectoryBytes' = DirectoryBytes + Size(pending)
           /\ \A s \in Sender :
                Unlink(s) => DirectoryBytes' = DirectoryBytes - Size(sender[s].payload)
           /\ ~OpenTemporary /\ (\A s \in Sender : ~Unlink(s)) =>
                DirectoryBytes' = DirectoryBytes
<1> DEFINE r == SumFunctionOnSet(RolloutSize, DOMAIN rollouts)
           t == SumFunctionOnSet(TempSize, DOMAIN temps)
           rr == SumFunctionOnSet(RolloutSize', DOMAIN rollouts')
           tt == SumFunctionOnSet(TempSize', DOMAIN temps')
<1>1. r \in Nat /\ t \in Nat /\ DirectoryBytes = r + t
  BY BytesAre, BytesFinite, SumNat
<1>2. DirectoryBytes' = rr + tt
  <2>1. (DirectoryBytes = r + t)'
    BY BytesAre, PTL
  <2> QED  BY <2>1
<1>3. rollouts' = rollouts => rr = r
  BY DEF RolloutSize, Size
<1>4. temps' = temps => tt = t
  BY DEF TempSize, Size
<1>5. StateTypeOK /\ WriteInv /\ SenderInv
  BY InvParts
<1>6. collector \in {"wait"} \cup Persisting => pending \in Payload /\ Size(pending) \in Nat
  BY <1>5, SizeType DEF StateTypeOK, ProcessTypeOK
<1>7. \A n \in DOMAIN temps : temps[n].payload \in Payload /\ Size(temps[n].payload) \in Nat
  BY <1>5, SizeType DEF StateTypeOK, DirectoryTypeOK
<1>8. \A n \in DOMAIN rollouts : rollouts[n] \in Payload /\ Size(rollouts[n]) \in Nat
  BY <1>5, SizeType DEF StateTypeOK, DirectoryTypeOK
<1> HIDE DEF r, t, rr, tt
<1>9. ASSUME UNCHANGED disk PROVE DirectoryBytes' = DirectoryBytes
  BY <1>1, <1>2, <1>3, <1>4, <1>9 DEF disk
<1>10. ASSUME OpenTemporary PROVE DirectoryBytes' = DirectoryBytes + Size(pending)
  <2>1. collector = "wait" /\ rollouts' = rollouts /\ pending \in Payload
    BY <1>6, <1>10 DEF OpenTemporary
  <2>2. sequence \notin DOMAIN temps
    BY <1>5, <2>1 DEF FreshInv, Numbers, StateTypeOK, ProcessTypeOK, DirectoryTypeOK
  <2>3. tt = t + Size(pending)
    <3>1. /\ DOMAIN temps' = DOMAIN temps \cup {sequence} /\ temps'[sequence].payload = pending
          /\ \A i \in DOMAIN temps : temps'[i] = temps[i]
      BY <1>10, <2>2, OpenDisk
    <3> QED  BY <2>1, <2>2, <3>1, TempAdded DEF t, tt
  <2> QED  BY <1>1, <1>2, <1>3, <1>6, <2>1, <2>3
<1>11. ASSUME NEW s \in Sender, Unlink(s)
       PROVE  DirectoryBytes' = DirectoryBytes - Size(sender[s].payload)
  <2>1. sender[s].doing = "answered" /\ Busy(s)
    BY <1>11 DEF Unlink, Busy
  <2>2. sender[s].number \in DOMAIN rollouts /\ rollouts[sender[s].number] = sender[s].payload
    BY <1>5, <2>1 DEF SenderInv, File
  <2>3. rr = r - Size(sender[s].payload)
    BY <1>11, <2>2, UnlinkDisk, RolloutRemoved DEF r, rr
  <2>4. Size(sender[s].payload) \in Nat
    BY <1>8, <2>2
  <2>5. tt = t
    BY <1>4, <1>11, UnlinkDisk
  <2> QED  BY <1>1, <1>2, <2>3, <2>4, <2>5
<1>12. ASSUME RecoverTemporary PROVE DirectoryBytes' = DirectoryBytes
  <2>1. PICK n \in DOMAIN temps :
          \/ UNCHANGED disk
          \/ /\ AvailableNumber(n) \notin DOMAIN rollouts
             /\ DOMAIN rollouts' = DOMAIN rollouts \cup {AvailableNumber(n)}
             /\ rollouts'[AvailableNumber(n)] = temps[n].payload
             /\ \A i \in DOMAIN rollouts : rollouts'[i] = rollouts[i]
             /\ DOMAIN temps' = DOMAIN temps \ {n}
             /\ \A i \in DOMAIN temps' : temps'[i] = temps[i]
    BY <1>12, RecoverDisk
  <2>2. CASE UNCHANGED disk
    BY <1>9, <2>2
  <2>3. CASE ~ UNCHANGED disk
    <3>1. rr = r + Size(temps[n].payload)
      BY <1>7, <2>1, <2>3, RolloutAdded DEF r, rr
    <3>2. tt = t - Size(temps[n].payload)
      BY <2>1, <2>3, TempRemoved DEF t, tt
    <3> QED  BY <1>1, <1>2, <1>7, <3>1, <3>2
  <2> QED  BY <2>2, <2>3
<1>13. ASSUME WriteTemporary PROVE DirectoryBytes' = DirectoryBytes
  <2>1. \A i \in DOMAIN temps : temps'[i].payload = temps[i].payload
    <3>1. temps[sequence].payload = pending
      BY <1>5, <1>13 DEF WriteInv, WriteTemporary
    <3> QED  BY <1>13, <3>1, WriteDisk
  <2>2. tt = t
    BY <1>13, <2>1, WriteDisk, TempKept DEF t, tt
  <2> QED  BY <1>1, <1>2, <1>3, <1>13, <2>2 DEF WriteTemporary
<1>14. ASSUME ReplaceTemporary PROVE DirectoryBytes' = DirectoryBytes
  <2>1. /\ collector = "flushed" /\ sequence \in DOMAIN temps
        /\ temps[sequence].payload = pending /\ sequence \notin DOMAIN rollouts
    BY <1>5, <1>14 DEF WriteInv, ReplaceTemporary, FreshInv
  <2>2. pending \in Payload /\ Size(pending) \in Nat
    BY <1>6, <2>1 DEF Persisting
  <2>3. rr = r + Size(pending)
    BY <1>14, <2>1, <2>2, ReplaceDisk, RolloutAdded DEF r, rr
  <2>4. tt = t - Size(pending)
    BY <1>14, <2>1, ReplaceDisk, TempRemoved DEF t, tt
  <2> QED  BY <1>1, <1>2, <2>2, <2>3, <2>4
<1>15. ASSUME Crash PROVE DirectoryBytes' = DirectoryBytes
  <2> USE <1>15
  <2>1. CASE UNCHANGED disk
    BY <1>9, <2>1
  <2>2. CASE /\ collector = "write" /\ rollouts' = rollouts
             /\ DOMAIN temps' = DOMAIN temps
             /\ sequence \in DOMAIN temps
             /\ temps'[sequence] = [payload |-> pending, complete |-> TRUE]
             /\ \A i \in DOMAIN temps : i # sequence => temps'[i] = temps[i]
    <3>1. temps[sequence].payload = pending
      BY <1>5, <2>2 DEF WriteInv
    <3>2. \A i \in DOMAIN temps : temps'[i].payload = temps[i].payload
      BY <2>2, <3>1
    <3>3. tt = t
      BY <2>2, <3>2, TempKept DEF t, tt
    <3> QED  BY <1>1, <1>2, <1>3, <2>2, <3>3
  <2>3. CASE /\ collector = "replaced"
             /\ DOMAIN rollouts' = DOMAIN rollouts \ {sequence}
             /\ \A i \in DOMAIN rollouts' : rollouts'[i] = rollouts[i]
             /\ DOMAIN temps' = DOMAIN temps \cup {sequence}
             /\ temps'[sequence] = [payload |-> pending, complete |-> TRUE]
             /\ \A i \in DOMAIN temps : i # sequence => temps'[i] = temps[i]
    <3>1. /\ sequence \in DOMAIN rollouts /\ rollouts[sequence] = pending
          /\ sequence \notin DOMAIN temps
      BY <1>5, <2>3 DEF WriteInv, FreshInv
    <3>2. pending \in Payload /\ Size(pending) \in Nat
      BY <1>6, <2>3 DEF Persisting
    <3>3. /\ DOMAIN temps' = DOMAIN temps \cup {sequence} /\ temps'[sequence].payload = pending
          /\ \A i \in DOMAIN temps : temps'[i] = temps[i]
      BY <2>3, <3>1
    <3>4. rr = r - Size(pending)
      BY <2>3, <3>1, RolloutRemoved DEF r, rr
    <3>5. tt = t + Size(pending)
      BY <3>1, <3>2, <3>3, TempAdded DEF t, tt
    <3> QED  BY <1>1, <1>2, <3>2, <3>4, <3>5
  <2> QED  BY <1>15, <2>1, <2>2, <2>3, CrashDisk
<1> QED  BY <1>9, <1>10, <1>11, <1>12, <1>13, <1>14, <1>15, DiskFrame

\* Deleting a file adds to the deleted ones, subtracting it takes it away, and nothing
\* else does while the process lives.
LEMMA UnlinkedStep ==
    ASSUME IndInv, Next, collector' # "down"
    PROVE  \/ \E s \in Sender :
                Unlink(s) /\ UnlinkedBytes' = UnlinkedBytes + Size(sender[s].payload)
           \/ \E s \in Sender :
                Uncount(s) /\ UnlinkedBytes' = UnlinkedBytes - Size(sender[s].payload)
           \/ /\ \A s \in Sender : ~Unlink(s) /\ ~Uncount(s)
              /\ UnlinkedBytes' = UnlinkedBytes
<1> DEFINE u == SumFunctionOnSet(UnlinkedSize, Sender)
           uu == SumFunctionOnSet(UnlinkedSize', Sender)
<1>1. u \in Nat /\ UnlinkedBytes = u
  BY BytesAre, BytesFinite, SumNat
<1>2. UnlinkedBytes' = uu
  <2>1. (UnlinkedBytes = u)'
    BY BytesAre, PTL
  <2> QED  BY <2>1
<1>3. /\ IsFiniteSet(Sender) /\ \A s \in Sender : UnlinkedSize[s] \in Int
      /\ sender \in [Sender -> SenderState] /\ StateTypeOK /\ SenderInv
  BY BytesFinite, InvParts DEF StateTypeOK, ProcessTypeOK
<1>3a. \A s \in Sender : sender[s] \in SenderState /\ sender = [t \in Sender |-> sender[t]]
  BY <1>3
<1>3b. IsFiniteSet(Sender) /\ \A s \in Sender : UnlinkedSize[s] \in Int
  BY <1>3
<1> DEFINE Weight(x) == IF x.doing = "unlinked" THEN Size(x.payload) ELSE 0
<1>4. \A s \in Sender : UnlinkedSize[s] = Weight(sender[s])
  BY DEF UnlinkedSize
<1>5. \A s \in Sender : UnlinkedSize'[s] = Weight(sender'[s])
  BY DEF UnlinkedSize, Size
<1> HIDE DEF u, uu
<1>6. ASSUME \A s \in Sender : Weight(sender'[s]) = Weight(sender[s])
      PROVE  UnlinkedBytes' = UnlinkedBytes
  <2>1. \A s \in Sender : UnlinkedSize'[s] = UnlinkedSize[s]
    <3> HIDE DEF Weight
    <3> QED  BY <1>4, <1>5, <1>6
  <2> QED  BY <1>1, <1>2, <1>3, <2>1, SumSame DEF u, uu
<1>7. CASE UNCHANGED sender
  <2>1. \A s \in Sender : Weight(sender'[s]) = Weight(sender[s])
    BY <1>7
  <2>2. \A s \in Sender : ~Unlink(s) /\ ~Uncount(s)
    BY <1>3a, <1>7 DEF Unlink, Uncount, IdleSender, SenderState
  <2> QED  BY <1>6, <2>1, <2>2
<1>8. ASSUME NEW s \in Sender, Take(s) \/ Accepted(s) \/ Rejected(s) \/ Lost(s) \/ SendFails(s)
      PROVE  /\ \A t \in Sender : Weight(sender'[t]) = Weight(sender[t])
             /\ \A t \in Sender : ~Unlink(t) /\ ~Uncount(t)
  <2>1. /\ sender[s].doing # "unlinked" /\ sender'[s].doing # "unlinked"
        /\ sender[s].doing # "answered"
        /\ \A t \in Sender \ {s} : sender'[t] = sender[t]
    BY <1>3a, <1>8 DEF Take, Accepted, Rejected, Lost, SendFails, Answered, IdleSender,
                       SenderState
  <2>2. \A t \in Sender : Weight(sender'[t]) = Weight(sender[t])
    BY <2>1
  <2>3. \A t \in Sender : ~Unlink(t) /\ ~Uncount(t)
    <3> SUFFICES ASSUME NEW t \in Sender, Unlink(t) \/ Uncount(t) PROVE FALSE
      OBVIOUS
    <3>1. sender[t].doing # sender'[t].doing /\ sender[t].doing \in {"answered", "unlinked"}
      BY <1>3a DEF Unlink, Uncount, IdleSender, SenderState
    <3> QED  BY <2>1, <3>1
  <2> QED  BY <2>2, <2>3
<1>9. ASSUME NEW s \in Sender, Unlink(s)
      PROVE  UnlinkedBytes' = UnlinkedBytes + Size(sender[s].payload)
  <2>1. /\ UnlinkedSize[s] = 0 /\ UnlinkedSize'[s] = Size(sender[s].payload)
        /\ \A t \in Sender \ {s} : UnlinkedSize'[t] = UnlinkedSize[t]
    BY <1>3, <1>9 DEF UnlinkedSize, Unlink, Size
  <2>2. sender[s].payload \in Payload
    BY <1>3, <1>9 DEF Unlink, SenderState, IdleSender
  <2>3. Size(sender[s].payload) \in Nat
    BY <2>2, SizeType
  <2>4. uu = u - 0 + Size(sender[s].payload)
    <3>1. Size(sender[s].payload) \in Int /\ 0 \in Int
      BY <2>3
    <3> QED  BY <1>3b, <2>1, <3>1, SumUpdate DEF u, uu
  <2> QED  BY <1>1, <1>2, <2>1, <2>3, <2>4
<1>10. ASSUME NEW s \in Sender, Uncount(s)
       PROVE  UnlinkedBytes' = UnlinkedBytes - Size(sender[s].payload)
  <2>1. /\ UnlinkedSize'[s] = 0 /\ UnlinkedSize[s] = Size(sender[s].payload)
        /\ \A t \in Sender \ {s} : UnlinkedSize'[t] = UnlinkedSize[t]
    BY <1>3, <1>10 DEF UnlinkedSize, Uncount, Size, IdleSender
  <2>2. UnlinkedSize[s] \in Int
    BY <1>3
  <2>3. uu = u - Size(sender[s].payload) + 0
    <3>1. Size(sender[s].payload) \in Int /\ 0 \in Int
      BY <2>1, <2>2
    <3> QED  BY <1>3b, <2>1, <3>1, SumUpdate DEF u, uu
  <2> QED  BY <1>1, <1>2, <2>1, <2>2, <2>3
<1>11. Start \/ RecoverTemporary \/ FinishRecovery \/ Begin \/ SpoolNext \/ PersistNext
         \/ PersistFails \/ PersistTimesOut \/ StopRequested \/ LeaveCollection
         => UNCHANGED sender
  BY DEF Start, RecoverTemporary, FinishRecovery, Begin, SpoolNext, Spool, SpoolOversized,
         PersistNext, OpenTemporary, WriteTemporary, ReplaceTemporary, Enqueue, DropOnStop,
         PersistFails, PersistTimesOut, StopRequested, LeaveCollection, threads
<1>12. Exit \/ Crash => collector' = "down"
  BY DEF Exit, Crash, ProcessEnds
<1> HIDE DEF Weight
<1>13. CASE \E s \in Sender : SenderNext(s)
  <2>1. PICK s \in Sender : SenderNext(s)
    BY <1>13
  <2>2. CASE Unlink(s)
    BY <1>9, <2>2
  <2>3. CASE Uncount(s)
    BY <1>10, <2>3
  <2>4. CASE Take(s) \/ Accepted(s) \/ Rejected(s) \/ Lost(s) \/ SendFails(s)
    BY <1>6, <1>8, <2>4
  <2> QED  BY <2>1, <2>2, <2>3, <2>4 DEF SenderNext
<1> QED  BY <1>7, <1>11, <1>12, <1>13 DEF Next

\* Deleting and subtracting are steps of one sender.
LEMMA SenderSteps ==
    ASSUME IndInv, NEW s \in Sender
    PROVE  /\ Unlink(s) => /\ sender[s].doing = "answered" /\ sender'[s].doing = "unlinked"
                           /\ \A t \in Sender \ {s} : sender'[t] = sender[t]
           /\ Uncount(s) => /\ sender[s].doing = "unlinked" /\ sender'[s].doing = "idle"
                            /\ \A t \in Sender \ {s} : sender'[t] = sender[t]
<1>1. sender \in [Sender -> SenderState]
  BY InvParts DEF StateTypeOK, ProcessTypeOK
<1>2. \A t \in Sender : sender[t] \in SenderState /\ sender = [i \in Sender |-> sender[i]]
  BY <1>1
<1> QED  BY <1>2 DEF Unlink, Uncount, IdleSender, SenderState

\* Nothing is unlinked while no sender runs.
LEMMA NothingUnlinked ==
    ASSUME IndInv, collector \notin Running
    PROVE  UnlinkedBytes = 0
<1>1. \A s \in Sender : UnlinkedSize[s] = 0
  BY InvParts DEF SenderInv, UnlinkedSize, IdleSender
<1> QED  BY <1>1, BytesAre, BytesFinite, SumZero

\* The next number stays fresh.
LEMMA FreshStep == ASSUME ~DiskTimeouts, IndInv, FreshInv, Next PROVE FreshInv'
<1> USE DEF FreshInv, Persisting
<1>1. StateTypeOK /\ WriteInv /\ RecoveryInv
  BY InvParts
<1>2. sequence \in Nat /\ Numbers \subseteq Nat
  BY <1>1 DEF StateTypeOK, ProcessTypeOK, DirectoryTypeOK, Numbers
<1>3. CASE UNCHANGED <<disk, sequence>> /\ (collector' = collector
             \/ collector' \notin {"register", "collect", "wait"} \cup Persisting
             \/ {collector, collector'} \subseteq {"register", "collect", "wait"})
  BY <1>3 DEF disk, Numbers
<1>4. CASE FinishRecovery
  <2>1. sequence' = NextNumber(Numbers) /\ Numbers' = Numbers /\ collector' = "register"
    BY <1>4 DEF FinishRecovery, disk, Numbers
  <2> QED  BY <2>1, FreshNumber
<1>5. CASE OpenTemporary
  <2>1. collector = "wait" /\ collector' = "write" /\ sequence' = sequence /\ rollouts' = rollouts
    BY <1>5 DEF OpenTemporary
  <2>2. Numbers' = Numbers \cup {sequence}
    BY <1>5, <2>1, OpenDisk DEF Numbers
  <2> QED  BY <1>2, <2>1, <2>2 DEF Numbers
<1>6. CASE WriteTemporary
  <2>1. collector = "write" /\ collector' = "flushed" /\ sequence' = sequence
        /\ rollouts' = rollouts
    BY <1>6 DEF WriteTemporary
  <2>2. Numbers' = Numbers
    BY <1>6, <2>1, WriteDisk DEF Numbers
  <2> QED  BY <1>2, <2>1, <2>2 DEF Numbers
<1>7. CASE ReplaceTemporary
  <2>1. collector = "flushed" /\ collector' = "replaced" /\ sequence' = sequence
    BY <1>7 DEF ReplaceTemporary
  <2>2. Numbers' \subseteq Numbers \cup {sequence} /\ sequence \notin DOMAIN temps'
    BY <1>7, ReplaceDisk DEF Numbers
  <2> QED  BY <1>2, <2>1, <2>2
<1>8. CASE Enqueue
  <2>1. collector = "replaced" /\ collector' = "collect" /\ sequence' = sequence + 1
        /\ Numbers' = Numbers
    BY <1>8 DEF Enqueue, disk, Numbers
  <2>2. \A n \in Numbers : n \in Nat /\ n <= sequence
    BY <1>2, <2>1
  <2>3. \A n \in Numbers : n < sequence + 1
    BY <1>2, <2>2
  <2> QED  BY <2>1, <2>3
<1>9. ASSUME NEW s \in Sender, SenderNext(s) PROVE FreshInv'
  <2>1. collector' = collector /\ sequence' = sequence /\ temps' = temps
        /\ DOMAIN rollouts' \subseteq DOMAIN rollouts
    <3>1. Unlink(s) => DOMAIN rollouts' \subseteq DOMAIN rollouts
      BY UnlinkDisk
    <3> QED
      BY <1>9, <3>1 DEF SenderNext, Take, Accepted, Rejected, Lost, SendFails, Unlink, Uncount, disk
  <2> QED  BY <2>1 DEF Numbers
<1>10. CASE RecoverTemporary \/ Exit \/ Crash \/ PersistFails
  BY <1>10 DEF RecoverTemporary, Exit, Crash, ProcessEnds, PersistFails
<1>11. CASE Start \/ Begin \/ SpoolNext \/ DropOnStop \/ StopRequested \/ LeaveCollection
  BY <1>3, <1>11 DEF Start, Begin, SpoolNext, Spool, SpoolOversized, Flush, DropOnStop,
                     StopRequested, LeaveCollection
<1>12. ~PersistTimesOut
  BY DEF PersistTimesOut
<1> QED
  BY <1>4, <1>5, <1>6, <1>7, <1>8, <1>9, <1>10, <1>11, <1>12 DEF Next, PersistNext

\* The counter follows the directory, and a file is opened only below the limit.
LEMMA BytesStep == ASSUME ~DiskTimeouts, IndInv, BytesInv, Next PROVE BytesInv'
<1> DEFINE d == DirectoryBytes
           dd == DirectoryBytes'
           u == UnlinkedBytes
           uu == UnlinkedBytes'
<1>1. /\ StateTypeOK /\ WriteInv /\ SenderInv /\ FreshInv /\ bytes \in Nat
      /\ SpoolWithinLimit /\ ByteCountIsExact /\ SpoolMaxBytes \in Nat
  BY InvParts, SpoolAssumption DEF BytesInv, BytesAreAccounted
<1>2. FreshInv'
  BY <1>1, FreshStep
<1>3. d \in Nat /\ u \in Nat /\ d <= SpoolMaxBytes
  BY <1>1, BytesType DEF SpoolWithinLimit
<1>4. collector \in {"wait"} \cup Persisting => Size(pending) \in Nat
  BY <1>1, SizeType DEF StateTypeOK, ProcessTypeOK
<1>5. collector \in Persisting => Size(pending) <= d
  <2>1. collector \in Persisting =>
          \/ sequence \in DOMAIN temps /\ temps[sequence].payload = pending
          \/ sequence \in DOMAIN rollouts /\ rollouts[sequence] = pending
    BY <1>1 DEF WriteInv, Persisting
  <2> QED  BY <2>1, BytesType
<1>6. /\ collector \in {"register", "collect", "wait"} => bytes = d + u
      /\ collector \in Persisting => bytes + Size(pending) = d + u
  <2>1. collector \in Persisting => collector \notin {"register", "collect", "wait"}
    BY DEF Persisting
  <2>2. collector \in {"register", "collect", "wait"} => bytes + 0 = d + u
    BY <1>1, <2>1 DEF ByteCountIsExact
  <2> QED  BY <1>1, <2>1, <2>2 DEF ByteCountIsExact
<1>7. /\ OpenTemporary => dd = d + Size(pending)
      /\ \A s \in Sender : Unlink(s) => dd = d - Size(sender[s].payload)
      /\ ~OpenTemporary /\ (\A s \in Sender : ~Unlink(s)) => dd = d
  BY <1>1, DirectoryStep
<1>8. collector' # "down" =>
        \/ \E s \in Sender : Unlink(s) /\ uu = u + Size(sender[s].payload)
        \/ \E s \in Sender : Uncount(s) /\ uu = u - Size(sender[s].payload)
        \/ (\A s \in Sender : ~Unlink(s) /\ ~Uncount(s)) /\ uu = u
  BY UnlinkedStep
<1> HIDE DEF d, u, dd, uu
<1> DEFINE Exact == /\ collector' \in {"register", "collect", "wait"} => bytes' = dd + uu
                    /\ collector' \in Persisting => bytes' + Size(pending') = dd + uu
<1>9. ASSUME bytes' \in Nat, Exact, dd <= SpoolMaxBytes PROVE BytesInv'
  <2>1. SpoolWithinLimit'
    BY <1>9 DEF SpoolWithinLimit, dd
  <2>2. ByteCountIsExact'
    <3>1. collector' \in Persisting => collector' \notin {"register", "collect", "wait"}
      BY DEF Persisting
    <3> QED  BY <1>9, <3>1 DEF ByteCountIsExact, dd, uu, Persisting, Size
  <2> QED  BY <1>2, <1>9, <2>1, <2>2 DEF BytesInv, BytesAreAccounted
<1> USE DEF Persisting
<1>10. CASE Exit \/ Crash
  <2>1. collector' = "down" /\ bytes' = 0 /\ dd = d
    BY <1>7, <1>10 DEF Exit, Crash, ProcessEnds, OpenTemporary, Unlink
  <2> QED  BY <1>3, <1>9, <2>1
<1>11. UNCHANGED sender => /\ \A s \in Sender : ~Unlink(s) /\ ~Uncount(s)
                           /\ collector' # "down" => uu = u
  BY <1>8, SenderSteps
<1>12. CASE FinishRecovery
  <2>1. /\ collector = "recover" /\ collector' = "register" /\ UNCHANGED sender
        /\ bytes' = d
    BY <1>12 DEF FinishRecovery, ScanBytes, threads, d
  <2>2. u = 0
    BY <2>1, NothingUnlinked DEF Running, u
  <2>3. uu = u
    BY <1>11, <2>1
  <2>4. dd = d
    BY <1>7, <2>1 DEF OpenTemporary, Unlink
  <2> QED  BY <1>3, <1>9, <2>1, <2>2, <2>3, <2>4
<1>13. CASE OpenTemporary
  <2>1. /\ collector = "wait" /\ collector' = "write" /\ UNCHANGED <<sender, bytes, pending>>
        /\ bytes + Size(pending) <= SpoolMaxBytes
    BY <1>13 DEF OpenTemporary, threads
  <2>2. dd = d + Size(pending) /\ uu = u /\ bytes = d + u
    BY <1>6, <1>7, <1>11, <1>13, <2>1
  <2>3. Size(pending') = Size(pending)
    BY <2>1
  <2>4. bytes' = bytes /\ collector' \notin {"register", "collect", "wait"}
    BY <2>1
  <2>5. Size(pending) \in Nat
    BY <1>4, <2>1
  <2>6. bytes' + Size(pending') = dd + uu /\ dd <= SpoolMaxBytes
    BY <1>1, <1>3, <2>1, <2>2, <2>3, <2>4, <2>5
  <2> QED  BY <1>1, <1>9, <2>4, <2>6
<1>14. CASE Enqueue
  <2>1. /\ collector = "replaced" /\ collector' = "collect" /\ UNCHANGED sender
        /\ bytes' = bytes + Size(pending)
    BY <1>14 DEF Enqueue
  <2>2. dd = d /\ uu = u /\ bytes + Size(pending) = d + u /\ Size(pending) \in Nat
    BY <1>4, <1>6, <1>7, <1>11, <2>1 DEF OpenTemporary, Unlink
  <2> QED  BY <1>1, <1>3, <1>9, <2>1, <2>2
<1>15. ASSUME NEW s \in Sender, Unlink(s) PROVE BytesInv'
  <2>1. UNCHANGED <<collector, bytes, pending>> /\ collector \in Running
    <3>1. Busy(s)
      BY <1>15 DEF Unlink, Busy
    <3> QED  BY <1>15, <3>1, BusyFile DEF Unlink
  <2>2. Size(sender[s].payload) \in Nat
    <3>1. sender[s].payload \in Payload
      BY <1>1, <1>15 DEF Unlink, StateTypeOK, ProcessTypeOK, SenderState, IdleSender
    <3> QED  BY <3>1, SizeType
  <2>3. dd = d - Size(sender[s].payload)
    BY <1>7, <1>15
  <2>4. uu = u + Size(sender[s].payload)
    <3>1. PICK t \in Sender : Unlink(t) /\ uu = u + Size(sender[t].payload)
      <4>1. collector' # "down"
        BY <2>1 DEF Running
      <4>2. \A t \in Sender : ~Uncount(t)
        BY <1>15, SenderSteps
      <4> QED  BY <1>8, <1>15, <4>1, <4>2
    <3>2. t = s
      BY <1>15, <3>1, SenderSteps
    <3> QED  BY <3>1, <3>2
  <2>5. dd + uu = d + u /\ dd <= SpoolMaxBytes
    BY <1>1, <1>3, <2>2, <2>3, <2>4
  <2>6. Size(pending') = Size(pending)
    BY <2>1
  <2> QED  BY <1>1, <1>6, <1>9, <2>1, <2>5, <2>6
<1>16. ASSUME NEW s \in Sender, Uncount(s) PROVE BytesInv'
  <2>1. UNCHANGED <<collector, pending>> /\ bytes' = Max({0, bytes - Size(sender[s].payload)})
    BY <1>16 DEF Uncount
  <2>2. Size(sender[s].payload) \in Nat /\ Size(sender[s].payload) <= u
    <3>1. sender[s].payload \in Payload
      BY <1>1, <1>16 DEF Uncount, StateTypeOK, ProcessTypeOK, SenderState, IdleSender
    <3>2. UnlinkedSize[s] = Size(sender[s].payload)
      BY <1>16 DEF Uncount, UnlinkedSize
    <3> QED  BY <3>1, <3>2, SizeType, BytesType DEF u
  <2>3. dd = d
    <3>1. ~OpenTemporary
      BY <1>16 DEF OpenTemporary, Uncount, disk, Put
    <3>2. \A t \in Sender : ~Unlink(t)
      BY <1>16, SenderSteps
    <3> QED  BY <1>7, <3>1, <3>2
  <2>4. uu = u - Size(sender[s].payload)
    <3>1. collector' # "down"
      BY <1>1, <1>16, <2>1 DEF SenderInv, Running, IdleSender, Uncount
    <3>2. PICK t \in Sender : Uncount(t) /\ uu = u - Size(sender[t].payload)
      <4>1. \A t \in Sender : ~Unlink(t)
        BY <1>16, SenderSteps
      <4> QED  BY <1>8, <1>16, <3>1, <4>1
    <3>3. t = s
      BY <1>16, <3>2, SenderSteps
    <3> QED  BY <3>2, <3>3
  <2> DEFINE w == Size(sender[s].payload)
  <2>5. bytes' \in Nat /\ (w <= bytes => bytes' = bytes - w)
    <3> DEFINE x == bytes - w
    <3>1. x \in Int /\ bytes' = Max({0, x})
      BY <1>1, <2>1, <2>2
    <3> HIDE DEF x
    <3>2. bytes' = IF x >= 0 THEN x ELSE 0
      BY <3>1 DEF Max
    <3> QED  BY <1>1, <2>2, <3>1, <3>2 DEF x
  <2>6. Size(pending') = Size(pending)
    BY <2>1
  <2>7. collector \in {"register", "collect", "wait"} \cup Persisting => w <= bytes
    BY <1>1, <1>3, <1>4, <1>5, <1>6, <2>2
  <2>8. w \in Nat
    BY <2>2
  <2> HIDE DEF w
  <2>9. /\ collector \in {"register", "collect", "wait"} => bytes' = dd + uu
        /\ collector \in Persisting => bytes' + Size(pending) = dd + uu
    <3>1. uu = u - w
      BY <2>4 DEF w
    <3> QED  BY <1>1, <1>3, <1>4, <1>6, <2>3, <2>5, <2>7, <2>8, <3>1
  <2> QED  BY <1>3, <1>9, <2>1, <2>3, <2>5, <2>6, <2>9
<1>17. ASSUME UNCHANGED <<bytes, sender, pending>>, ~OpenTemporary, collector' # "down",
              \/ collector' = collector
              \/ collector' \notin {"register", "collect", "wait"} \cup Persisting
              \/ {collector, collector'} \subseteq {"register", "collect", "wait"}
              \/ {collector, collector'} \subseteq Persisting
       PROVE  BytesInv'
  <2>1. uu = u /\ dd = d
    BY <1>7, <1>11, <1>17
  <2>2. Size(pending') = Size(pending)
    BY <1>17
  <2> QED  BY <1>1, <1>3, <1>6, <1>9, <1>17, <2>1, <2>2
<1>18. CASE Start \/ RecoverTemporary \/ Begin
  <2>1. /\ UNCHANGED <<bytes, sender, pending>> /\ ~OpenTemporary /\ collector' # "down"
        /\ collector' \in {"recover", "collect"}
        /\ collector' = "collect" => collector = "register"
    BY <1>18 DEF Start, RecoverTemporary, Begin, OpenTemporary, threads
  <2> QED  BY <1>17, <2>1
<1>19. CASE SpoolNext
  <2>1. UNCHANGED <<bytes, sender>> /\ ~OpenTemporary /\ collector = "collect"
        /\ collector' \in {"wait", "joining"}
    BY <1>19 DEF SpoolNext, Spool, SpoolOversized, Flush, OpenTemporary, threads
  <2>2. uu = u /\ dd = d
    BY <1>7, <1>11, <2>1
  <2>3. /\ bytes' = bytes /\ collector' \notin Persisting
        /\ collector' = "wait" => bytes' = dd + uu
    BY <1>6, <2>1, <2>2
  <2> QED  BY <1>1, <1>3, <1>9, <2>1, <2>2, <2>3
<1>20. CASE WriteTemporary \/ ReplaceTemporary
  <2>1. UNCHANGED <<bytes, sender, pending>> /\ ~OpenTemporary /\ collector' # "down"
        /\ {collector, collector'} \subseteq Persisting
    BY <1>20 DEF WriteTemporary, ReplaceTemporary, OpenTemporary, threads
  <2> QED  BY <1>17, <2>1
<1>21. CASE DropOnStop \/ PersistFails \/ LeaveCollection
  <2>1. UNCHANGED <<bytes, sender>> /\ ~OpenTemporary
        /\ (collector' = "joining" \/ (collector = "wait" /\ collector' = "collect"))
    <3>1. /\ DropOnStop =>
               UNCHANGED <<bytes, sender>> /\ collector = "wait" /\ collector' = "collect"
          /\ PersistFails => UNCHANGED <<bytes, sender>> /\ collector' = "joining"
          /\ LeaveCollection => UNCHANGED <<bytes, sender>> /\ collector' = "joining"
          /\ OpenTemporary => collector' = "write"
      BY DEF DropOnStop, PersistFails, LeaveCollection, OpenTemporary, threads
    <3> QED  BY <1>21, <3>1
  <2>2. uu = u /\ dd = d
    BY <1>7, <1>11, <2>1
  <2>3. /\ bytes' = bytes /\ collector' \notin Persisting
        /\ collector' = "collect" => bytes' = dd + uu
    BY <1>6, <2>1, <2>2
  <2> QED  BY <1>1, <1>3, <1>9, <2>1, <2>2, <2>3
<1>22. CASE StopRequested
  <2>1. UNCHANGED <<bytes, sender, pending, collector>> /\ ~OpenTemporary /\ collector' # "down"
    BY <1>22 DEF StopRequested, OpenTemporary, threads, Running
  <2> QED  BY <1>17, <2>1
<1>23. ASSUME NEW s \in Sender, Take(s) \/ Accepted(s) \/ Rejected(s) \/ Lost(s) \/ SendFails(s)
       PROVE  BytesInv'
  <2>1. UNCHANGED <<bytes, pending, collector>>
    BY <1>23 DEF Take, Accepted, Rejected, Lost, SendFails, history
  <2>2. sender[s].doing \in {"idle", "sending"}
    BY <1>23 DEF Take, Accepted, Rejected, Lost, SendFails
  <2>3. \A t \in Sender \ {s} : sender'[t] = sender[t]
    BY <1>1, <1>23 DEF Take, Accepted, Rejected, Lost, SendFails, StateTypeOK, ProcessTypeOK
  <2>4. \A t \in Sender : ~Unlink(t) /\ ~Uncount(t)
    <3> SUFFICES ASSUME NEW t \in Sender, Unlink(t) \/ Uncount(t) PROVE FALSE
      OBVIOUS
    <3>1. sender[t].doing \in {"answered", "unlinked"} /\ sender'[t].doing # sender[t].doing
      BY SenderSteps
    <3> QED  BY <2>2, <2>3, <3>1
  <2>5. ~OpenTemporary /\ collector \in Running
    <3>1. OpenTemporary => collector' # collector
      BY DEF OpenTemporary
    <3>2. sender[s] # IdleSender \/ Take(s)
      BY <1>23 DEF Accepted, Rejected, Lost, SendFails, IdleSender
    <3> QED  BY <1>1, <2>1, <3>1, <3>2 DEF SenderInv, Take
  <2>6. uu = u /\ dd = d
    BY <1>7, <1>8, <2>1, <2>4, <2>5 DEF Running
  <2>7. Size(pending') = Size(pending) /\ bytes' = bytes
    BY <2>1
  <2> QED  BY <1>1, <1>3, <1>6, <1>9, <2>1, <2>6, <2>7
<1>24. ~PersistTimesOut
  BY DEF PersistTimesOut
<1> QED
  BY <1>10, <1>12, <1>13, <1>14, <1>15, <1>16, <1>18, <1>19, <1>20, <1>21, <1>22, <1>23, <1>24
     DEF Next, PersistNext, SenderNext

\* The files of an actor never take more than its limit, and the counter that enforces it
\* is exact, over crashes, recoveries and failed writes, as long as no write is taken for
\* lost telemetry.
THEOREM BytesCounted == ~DiskTimeouts => (Spec => []BytesAreAccounted)
<1> SUFFICES ASSUME ~DiskTimeouts PROVE Spec => []BytesAreAccounted
  OBVIOUS
<1>1. Init => BytesInv
  <2> SUFFICES ASSUME Init PROVE BytesInv
    OBVIOUS
  <2>1. /\ DOMAIN rollouts = {} /\ DOMAIN temps = {} /\ bytes = 0 /\ collector = "down"
    BY DEF Init
  <2>2. DirectoryBytes = 0
    BY <2>1, BytesAre, SumEmpty
  <2>3. SpoolMaxBytes \in Nat
    BY SpoolAssumption
  <2> QED  BY <2>1, <2>2, <2>3 DEF BytesInv, FreshInv, BytesAreAccounted, SpoolWithinLimit,
                                   ByteCountIsExact, Persisting
<1>2. IndInv /\ BytesInv /\ [Next]_vars => BytesInv'
  <2>1. ASSUME IndInv, BytesInv, Next PROVE BytesInv'
    BY <2>1, BytesStep
  <2>2. ASSUME BytesInv, UNCHANGED vars PROVE BytesInv'
    <3>1. DirectoryBytes' = DirectoryBytes /\ UnlinkedBytes' = UnlinkedBytes
      BY <2>2 DEF vars, DirectoryBytes, RolloutBytes, TempSize, UnlinkedBytes, Size
    <3> QED
      BY <2>2, <3>1 DEF vars, BytesInv, FreshInv, Numbers, BytesAreAccounted, SpoolWithinLimit,
                        ByteCountIsExact, Persisting, Size
  <2> QED  BY <2>1, <2>2
<1>3. BytesInv => BytesAreAccounted
  BY DEF BytesInv
<1> QED  BY <1>1, <1>2, <1>3, Inductive, PTL DEF Spec

\* The counter stays a natural number, with any failed writes.
LEMMA CounterStep == ASSUME IndInv, bytes \in Nat, Next PROVE bytes' \in Nat
<1>1. StateTypeOK
  BY InvParts
<1>2. CASE FinishRecovery
  BY <1>2, BytesType DEF FinishRecovery, ScanBytes
<1>3. CASE Enqueue
  <2>1. pending \in Payload
    BY <1>1, <1>3 DEF Enqueue, StateTypeOK, ProcessTypeOK, Persisting
  <2> QED  BY <1>3, <2>1, SizeType DEF Enqueue
<1>4. ASSUME NEW s \in Sender, Uncount(s) PROVE bytes' \in Nat
  <2>1. sender[s].payload \in Payload
    BY <1>1, <1>4 DEF Uncount, StateTypeOK, ProcessTypeOK, SenderState, IdleSender
  <2> DEFINE x == bytes - Size(sender[s].payload)
  <2>2. x \in Int /\ bytes' = Max({0, x})
    BY <1>4, <2>1, SizeType DEF Uncount
  <2> HIDE DEF x
  <2> QED  BY <2>2 DEF Max
<1>5. CASE Exit \/ Crash
  BY <1>5 DEF Exit, Crash, ProcessEnds
<1>6. ASSUME NEW s \in Sender, SenderNext(s), ~Uncount(s) PROVE bytes' = bytes
  BY <1>6 DEF SenderNext, Take, Accepted, Rejected, Lost, SendFails, Unlink
<1>7. Start \/ RecoverTemporary \/ Begin \/ SpoolNext => bytes' = bytes
  BY DEF Start, RecoverTemporary, Begin, SpoolNext, Spool, SpoolOversized
<1>8. OpenTemporary \/ WriteTemporary \/ ReplaceTemporary \/ DropOnStop \/ PersistFails
        \/ PersistTimesOut \/ StopRequested \/ LeaveCollection => bytes' = bytes
  BY DEF OpenTemporary, WriteTemporary, ReplaceTemporary, DropOnStop, PersistFails,
         PersistTimesOut, StopRequested, LeaveCollection
<1> QED  BY <1>2, <1>3, <1>4, <1>5, <1>6, <1>7, <1>8 DEF Next, PersistNext

\* The spool keeps its types.
THEOREM TypeCorrect == Spec => []TypeOK
<1>1. Init => bytes \in Nat
  BY DEF Init
<1>2. IndInv /\ bytes \in Nat /\ [Next]_vars => (bytes \in Nat)'
  BY CounterStep DEF vars
<1>3. IndInv /\ bytes \in Nat => TypeOK
  BY DEF IndInv, TypeOK
<1> QED  BY <1>1, <1>2, <1>3, Inductive, PTL DEF Spec

=============================================================================
