----------------------------- MODULE RolloutLog -----------------------------
(***************************************************************************)
(* What the durability layer promises, whatever fails: accepted rollouts   *)
(* form one log, a rollout enters the log at most once, and the learner's  *)
(* replay holds the rollouts of a prefix of that log, each exactly once.   *)
(* A learner that stops loses its replay; one that starts again holds the  *)
(* whole log before it takes another step.                                 *)
(***************************************************************************)
EXTENDS Integers

CONSTANT Chunk

VARIABLES
    position,               \* chunk -> its place in the log, 0 when not accepted
    length,                 \* number of accepted rollouts
    applied                 \* chunk -> times it stands in the learner's replay

logVars == <<position, length, applied>>

EmptyReplay == [c \in Chunk |-> 0]

WholeLog == [c \in Chunk |-> IF position[c] = 0 THEN 0 ELSE 1]

LogInit ==
    /\ position = EmptyReplay
    /\ length = 0
    /\ applied = EmptyReplay

\* A rollout that is not in the log is appended to it.
Accept(c) ==
    /\ position[c] = 0
    /\ length' = length + 1
    /\ position' = [position EXCEPT ![c] = length + 1]
    /\ UNCHANGED applied

\* The learner takes the first rollout of the log it does not hold.
Apply(c) ==
    /\ position[c] # 0
    /\ applied[c] = 0
    /\ \A d \in Chunk : position[d] # 0 /\ position[d] < position[c] => applied[d] = 1
    /\ applied' = [applied EXCEPT ![c] = 1]
    /\ UNCHANGED <<position, length>>

Stop ==
    /\ applied' = EmptyReplay
    /\ UNCHANGED <<position, length>>

Recover ==
    /\ applied = EmptyReplay
    /\ applied' = WholeLog
    /\ UNCHANGED <<position, length>>

LogNext ==
    \/ \E c \in Chunk : Accept(c) \/ Apply(c)
    \/ Stop
    \/ Recover

LogSpec == LogInit /\ [][LogNext]_logVars

=============================================================================
