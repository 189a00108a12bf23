---------------------------- MODULE RemoteTracker ----------------------------
(***************************************************************************)
(* The run's log: every event goes to the local file and then, through a   *)
(* bounded queue and a worker thread, to a remote tracker that may be slow,*)
(* fail or hang (core/builtins.py, observability/trackers.py).  Any thread *)
(* of the learner logs; the logger is closed when they have ended.         *)
(***************************************************************************)
EXTENDS Integers, FiniteSets, Sequences

CONSTANTS
    Logger,      \* the threads that log
    QueueSize,   \* queue_size
    MaxLogged    \* bound: events that are logged

ASSUME TrackerAssumption ==
    IsFiniteSet(Logger) /\ QueueSize \in Nat \ {0} /\ MaxLogged \in Nat

VARIABLES
    logged,         \* the local file
    caller,         \* per thread, the event it is about to hand over, and where it is
    outbox,         \* _events
    worker,         \* the worker thread, with the event it is sending
    enabled, failed, droppedEvents,
    received,      \* what the remote has
    closer,         \* where close is
    exitCode        \* of the remote run, Unfinished before

trackerVars == <<logged, caller, outbox, worker, enabled, failed, droppedEvents, received,
                 closer, exitCode>>
queueVars == <<outbox, worker, received>>
closeVars == <<closer, exitCode>>

Kind == {"silent", "metric", "failure"}  \* silent: not sent as an event of its own
Events == [thread : Logger, number : 1 .. MaxLogged, kind : Kind]
Done == [at |-> "idle"]
Waiting == [at |-> "waits"]
Ended == [at |-> "ended"]
Token == [kind |-> "close"]
Unfinished == 2
Logging(t) == Cardinality({k \in DOMAIN logged : logged[k].thread = t})

TrackerInit ==
    /\ logged = <<>> /\ caller = [t \in Logger |-> Done]
    /\ outbox = <<>> /\ worker = Waiting /\ received = <<>>
    /\ enabled = TRUE /\ failed = FALSE /\ droppedEvents = 0
    /\ closer = "open" /\ exitCode = Unfinished

-----------------------------------------------------------------------------
(* CompositeRunLogger.log: the local file first, then the remote.            *)
LogLocally(t) ==
    /\ caller[t] = Done /\ closer = "open" /\ Len(logged) < MaxLogged
    /\ \E kind \in Kind :
         LET event == [thread |-> t, number |-> Logging(t) + 1, kind |-> kind]
         IN /\ logged' = Append(logged, event)
            /\ caller' = [caller EXCEPT ![t] = [at |-> "local", event |-> event]]
    /\ UNCHANGED <<queueVars, enabled, failed, droppedEvents, closeVars>>

\* Under the lock the event becomes metrics, and a failure of the run is remembered.
Project(t) ==
    /\ caller[t].at = "local"
    /\ LET event == caller[t].event
       IN /\ failed' = (failed \/ event.kind = "failure")
          /\ caller' = [caller EXCEPT ![t] =
                IF event.kind = "silent" \/ ~enabled THEN Done
                ELSE [at |-> "projected", event |-> event]]
    /\ UNCHANGED <<logged, queueVars, enabled, droppedEvents, closeVars>>

\* Without the lock they are queued, or dropped when the queue is full.
HasRoom == Len(outbox) < QueueSize
HandOver(t) ==
    /\ caller[t].at = "projected"
    /\ \/ HasRoom /\ outbox' = Append(outbox, caller[t].event) /\ UNCHANGED droppedEvents
       \/ ~HasRoom /\ droppedEvents' = droppedEvents + 1 /\ UNCHANGED outbox
    /\ caller' = [caller EXCEPT ![t] = Done]
    /\ UNCHANGED <<logged, worker, received, enabled, failed, closeVars>>

-----------------------------------------------------------------------------
(* The worker; after an error it goes on taking events and sends none.        *)
TakeEvent ==
    /\ worker = Waiting /\ outbox # <<>>
    /\ outbox' = Tail(outbox)
    /\ worker' = IF Head(outbox) = Token THEN Ended
                 ELSE IF enabled THEN [at |-> "sends", event |-> Head(outbox)] ELSE Waiting
    /\ UNCHANGED <<logged, caller, received, enabled, failed, droppedEvents, closeVars>>

Sending == worker.at = "sends"
Send ==
    /\ Sending
    /\ worker' = Waiting /\ received' = Append(received, worker.event)
    /\ UNCHANGED <<logged, caller, outbox, enabled, failed, droppedEvents, closeVars>>

RemoteFails ==
    /\ Sending
    /\ worker' = Waiting /\ enabled' = FALSE /\ failed' = TRUE
    /\ UNCHANGED <<logged, caller, outbox, received, droppedEvents, closeVars>>

-----------------------------------------------------------------------------
(* close, once the threads that log have ended.                               *)
BeginClose ==
    /\ closer = "open" /\ \A t \in Logger : caller[t] = Done
    /\ closer' = "put"
    /\ UNCHANGED <<logged, caller, queueVars, enabled, failed, droppedEvents, exitCode>>

\* The token is queued, or its five seconds pass while the queue is full.
PutToken ==
    /\ closer = "put"
    /\ \/ HasRoom /\ outbox' = Append(outbox, Token) /\ closer' = "join"
          /\ UNCHANGED droppedEvents
       \/ ~HasRoom /\ droppedEvents' = droppedEvents + 1 /\ closer' = "finish"
          /\ UNCHANGED outbox
    /\ UNCHANGED <<logged, caller, worker, received, enabled, failed, exitCode>>

\* The worker has ended, or ten seconds have passed.
JoinWorker ==
    /\ closer = "join" /\ closer' = "finish"
    /\ UNCHANGED <<logged, caller, queueVars, enabled, failed, droppedEvents, exitCode>>

WorkerMissed == worker # Ended
FinishRun ==
    /\ closer = "finish" /\ closer' = "closed"
    /\ failed' = (failed \/ WorkerMissed)
    /\ exitCode' = IF failed' THEN 1 ELSE 0
    /\ UNCHANGED <<logged, caller, queueVars, enabled, droppedEvents>>

-----------------------------------------------------------------------------
CallerStep(t) == Project(t) \/ HandOver(t)
CloserStep == PutToken \/ JoinWorker \/ FinishRun
TrackerNext ==
    \/ \E t \in Logger : LogLocally(t) \/ CallerStep(t)
    \/ TakeEvent \/ Send \/ RemoteFails
    \/ BeginClose \/ CloserStep

\* Threads and close go on by themselves; nothing is expected of the remote.
TrackerFairness ==
    WF_trackerVars(CloserStep) /\ \A t \in Logger : WF_trackerVars(CallerStep(t))

TrackerSpec == TrackerInit /\ [][TrackerNext]_trackerVars

-----------------------------------------------------------------------------
\* The file, the queue, the threads and the worker keep their types.
TrackerTypeOK ==
    /\ logged \in Seq(Events) /\ Len(logged) <= MaxLogged
    /\ caller \in [Logger -> {Done} \cup [at : {"local", "projected"}, event : Events]]
    /\ outbox \in Seq(Events \cup {Token}) /\ Len(outbox) <= QueueSize
    /\ worker \in {Waiting, Ended} \cup [at : {"sends"}, event : Events]
    /\ received \in Seq(Events)
    /\ {enabled, failed} \subseteq BOOLEAN /\ droppedEvents \in Nat
    /\ closer \in {"open", "put", "join", "finish", "closed"} /\ exitCode \in 0 .. 2

\* The local file is the source of truth: what the remote has is in it, each event once, and
\* those of one thread in its order.  A remote run that ends with success has everything the
\* queue had room for, its worker has ended, and the run logged no failure
\* (trackers.py:1, :143-170).
RemoteRunIsTrue ==
    /\ \A k \in DOMAIN received :
         /\ \E i \in DOMAIN logged : logged[i] = received[k]
         /\ \A j \in 1 .. k - 1 : received[j].thread = received[k].thread
                                    => received[j].number < received[k].number
    /\ exitCode = 0 =>
         LET loud == {k \in DOMAIN logged : logged[k].kind # "silent"}
         IN /\ worker = Ended
            /\ \A k \in loud : logged[k].kind = "metric"
            /\ Cardinality(loud) = Len(received) + droppedEvents

\* A remote that hangs holds up nobody: a thread that logs goes on, and close comes back
\* (trackers.py:143-170).
LoggingNeverBlocks ==
    /\ \A t \in Logger : caller[t] # Done ~> caller[t] = Done
    /\ closer = "put" ~> closer = "closed"

-----------------------------------------------------------------------------
(* The inductive invariant.                                                  *)

\* Close begins when the threads have ended, so its token is the last thing in the queue, and
\* nothing is behind it when the worker takes it.
TokenInv ==
    /\ closer # "open" => \A t \in Logger : caller[t] = Done
    /\ \A k \in DOMAIN outbox : outbox[k] = Token =>
         k = Len(outbox) /\ closer \notin {"open", "put"}
    /\ worker = Ended => outbox = <<>> /\ closer \notin {"open", "put"}

\* Whatever is on its way is in the local file.
InFile(event) == \E i \in DOMAIN logged : logged[i] = event
FileInv ==
    /\ \A t \in Logger : caller[t] # Done => InFile(caller[t].event) /\ caller[t].event.thread = t
    /\ \A k \in DOMAIN outbox : outbox[k] # Token => InFile(outbox[k])
    /\ Sending => InFile(worker.event)
    /\ \A k \in DOMAIN received : InFile(received[k])
    /\ \A i \in DOMAIN logged : logged[i].number <= Logging(logged[i].thread)

\* The events of a thread are on their way in its order: received ones first, then the one
\* that is being sent, the queue, and the one the thread is about to hand over.
Before(e, f) == e.thread = f.thread => e.number < f.number
AfterReceived(event) == \A k \in DOMAIN received : Before(received[k], event)
AfterSent(event) == AfterReceived(event) /\ (Sending => Before(worker.event, event))
OrderInv ==
    /\ \A k \in DOMAIN received : \A j \in 1 .. k - 1 : Before(received[j], received[k])
    /\ Sending => AfterReceived(worker.event)
    /\ \A k \in DOMAIN outbox : outbox[k] # Token =>
         AfterSent(outbox[k]) /\ \A j \in 1 .. k - 1 : Before(outbox[j], outbox[k])
    /\ \A t \in Logger : caller[t] # Done =>
         /\ AfterSent(caller[t].event)
         /\ \A k \in DOMAIN outbox : outbox[k] # Token => Before(outbox[k], caller[t].event)

\* While the remote works every event that is to be sent is somewhere, or was dropped and
\* counted; a token that was dropped is counted too, but then the worker never ends.
Loud == {k \in DOMAIN logged : logged[k].kind # "silent"}
HandedOver == {t \in Logger : caller[t] # Done /\ caller[t].event.kind # "silent"}
TokenQueued == outbox # <<>> /\ outbox[Len(outbox)] = Token
Queued == IF TokenQueued THEN Len(outbox) - 1 ELSE Len(outbox)
TokenDropped == closer \in {"finish", "closed"} /\ ~TokenQueued /\ worker # Ended
CountInv ==
    /\ closer = "join" => TokenQueued \/ worker = Ended
    /\ \A t \in Logger : caller[t].at = "projected" => caller[t].event.kind # "silent"
    /\ enabled /\ ~TokenDropped =>
         Cardinality(Loud) = Cardinality(HandedOver) + Queued + (IF Sending THEN 1 ELSE 0)
                               + Len(received) + droppedEvents

\* A remote that stopped working and a failure of the run are remembered.
FailureInv ==
    /\ ~enabled => failed
    /\ \A i \in DOMAIN logged : logged[i].kind = "failure" =>
         failed \/ \E t \in Logger : caller[t].at = "local" /\ caller[t].event = logged[i]
    /\ exitCode # Unfinished => closer = "closed"
    /\ exitCode = 0 => ~failed /\ worker = Ended

TrackerInv == TrackerTypeOK /\ TokenInv /\ FileInv /\ OrderInv /\ CountInv /\ FailureInv

=============================================================================
