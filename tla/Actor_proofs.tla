----------------------------- MODULE Actor_proofs -----------------------------
(***************************************************************************)
(* Proofs about what stands between a policy and the game, for any senders *)
(* and bounds: the control signals between actors and learner, the keys an *)
(* actor holds down for any actions, the frames a client cuts out of the   *)
(* plugin's stream, and what the two recorders save of a human's driving.  *)
(***************************************************************************)
EXTENDS MCActor, SumTheorems

CallSteps == {"idle", "call", "checked", "journalled", "answered", "signalled", "retry"}
Answering == {"checked", "journalled", "answered", "signalled"}
CallState == [step: CallSteps, rollout: Rollout \cup {None}, answer: Answer \cup {None}]

\* The types, by who owns the variables.  A call past "idle" has a rollout, and one whose
\* lag was checked an answer.
LearnerOK ==
    /\ updates \in Version /\ published \in Version 
    /\ {due, stopping, publishing} \subseteq BOOLEAN
    /\ episodes \in Nat /\ inbox \in Nat /\ received \subseteq Nat
FlagsOK == {stop, refresh, timer, evaluate} \subseteq BOOLEAN
PolicyOK == held \in Version /\ poll \in [step: {"wait", "answered", "replaced"}, version: Version]
CollectorOK ==
    /\ request \in Version \cup {None}
    /\ collector \in [step: {"loop", "cleared", "evaluating", "start", "episode", "ended"},
                      version: Version]
SpoolOK == spooled \subseteq Rollout /\ sequence \in Nat /\ lost \in Nat
CallsOK ==
    /\ calls \in [Call -> CallState]
    /\ \A c \in Call :
        /\ calls[c].step # "idle" => calls[c].rollout \in Rollout
        /\ calls[c].step \in Answering => calls[c].answer \in Answer
HistoryOK == scheduled \in Nat /\ evaluated \in Nat /\ worstLag \in Int

TypeInv ==
    LearnerOK /\ FlagsOK /\ PolicyOK /\ CollectorOK /\ SpoolOK /\ CallsOK /\ HistoryOK

\* The version a rollout reports is the one its transitions were played with.
Honest(rollout) == rollout.transitions => rollout.version = rollout.played
HonestInv ==
    /\ \A rollout \in spooled : Honest(rollout)
    /\ \A c \in Call : calls[c].step # "idle" => Honest(calls[c].rollout)

\* A rollout whose lag was checked was recent then.
Recently(state) ==
    state.step = "checked" /\ state.rollout.transitions
        => state.answer.checked - state.rollout.version <= HardLag
CheckedInv == \A c \in Call : Recently(calls[c])

\* An evaluation on its way: the answers that carry one, and with them the flags of the learner
\* and the actor, never stand for more evaluations than were scheduled.
Carrying(state) == state.step \in {"answered", "signalled"} /\ state.answer.evaluation # None
Carriers == {c \in Call : Carrying(calls[c])}
One(flag) == IF flag THEN 1 ELSE 0
OnTheirWay ==
    One(due) + Cardinality(Carriers) + One(evaluate) + One(collector.step = "cleared")
ScheduleInv == evaluated + OnTheirWay <= scheduled

-----------------------------------------------------------------------------
(* The calls.                                                               *)

\* There are finitely many, and a handler nobody waits for is not a sender.
LEMMA CallsFinite ==
  /\ IsFiniteSet(Call) /\ Sender \subseteq Call
  /\ \A s \in Sender : s \notin Int
<1>1. IsFiniteSet(1 .. MaxLost)
  BY ControlAssumption, FS_Interval DEF ControlAssumption
<1> QED BY <1>1, ControlAssumption, FS_Union DEF ControlAssumption, Call

\* What a step of a call does to the table of calls.
LEMMA CallMoves ==
  ASSUME NEW c \in Call, calls \in [Call -> CallState], NEW state,
         calls' = [calls EXCEPT ![c] = state]
  PROVE  /\ calls'[c] = state
         /\ \A d \in Call \ {c} : calls'[d] = calls[d]
         /\ state \in CallState => calls' \in [Call -> CallState]
  OBVIOUS

\* The number of answers that carry an evaluation follows the call that moved.
LEMMA CarriersMove ==
  ASSUME NEW c \in Call, calls \in [Call -> CallState], NEW state,
         calls' = [calls EXCEPT ![c] = state]
  PROVE  /\ Cardinality(Carriers) \in Nat /\ Cardinality(Carriers') \in Nat
         /\ Cardinality(Carriers') + One(Carrying(calls[c]))
              = Cardinality(Carriers) + One(Carrying(state))
<1> DEFINE Others == {d \in Call \ {c} : Carrying(calls[d])}
<1>1. IsFiniteSet(Others) /\ c \notin Others
  <2>1. Others \subseteq Call OBVIOUS
  <2> QED BY <2>1, CallsFinite, FS_Subset
<1>2. Carriers = IF Carrying(calls[c]) THEN Others \cup {c} ELSE Others
  BY DEF Carriers
<1>3. Carriers' = IF Carrying(state) THEN Others \cup {c} ELSE Others
  <2>1. \A d \in Call : Carrying(calls[d])' = Carrying(calls'[d]) BY DEF Carrying
  <2>2. Carriers' = {d \in Call : Carrying(calls'[d])} BY <2>1 DEF Carriers
  <2>3. calls'[c] = state /\ \A d \in Call \ {c} : calls'[d] = calls[d] BY CallMoves
  <2> QED BY <2>2, <2>3
<1>4. Cardinality(Others \cup {c}) = Cardinality(Others) + 1 /\ Cardinality(Others) \in Nat
  BY <1>1, FS_AddElement, FS_CardinalityType
<1> HIDE DEF Others
<1> QED BY <1>2, <1>3, <1>4 DEF One

-----------------------------------------------------------------------------
(* Which steps change what.                                                 *)

OwnStep(c) ==
    \/ TakeRollout(c) \/ Admit(c) \/ Reject(c) \/ Journal(c) \/ AssignEvaluation(c)
    \/ HandleSignals(c) \/ SettleRollout(c) \/ SubmitAgain(c)
CallStepOf(c) == OwnStep(c) \/ (c \in Sender /\ LoseCall(c))
SomeCall == \E c \in Call : CallStepOf(c)

LearnerSteps ==
    \/ Update \/ Publish \/ IngestEpisode \/ LearnerStops
    \/ \E c \in Call : Journal(c) \/ AssignEvaluation(c)
SpoolSteps ==
    \/ FlushRollout \/ FinishEpisode \/ InterruptEpisode \/ FinishEvaluation
    \/ \E c \in Call : TakeRollout(c)

\* The steps there are.
LEMMA NextCases ==
  ASSUME [ControlNext]_controlVars
  PROVE  \/ Update \/ Publish \/ IngestEpisode \/ LearnerStops \/ ExternalStop
         \/ Collect \/ Poll \/ SomeCall \/ UNCHANGED controlVars
<1>1. ASSUME NEW s \in Sender, Deliver(s) \/ LoseCall(s) PROVE SomeCall
  BY <1>1, CallsFinite DEF SomeCall, CallStepOf, OwnStep, Deliver, Handle
<1>2. ASSUME NEW c \in 1 .. MaxLost, Handle(c) PROVE SomeCall
  BY <1>2 DEF SomeCall, CallStepOf, OwnStep, Handle, Call
<1> QED BY <1>1, <1>2 DEF ControlNext

\* Only the learner's own steps, an append and an assignment change the learner.
LEMMA LearnerFrame ==
  ASSUME [ControlNext]_controlVars, ~LearnerSteps
  PROVE  UNCHANGED learnerVars
<1> USE DEF LearnerSteps, learnerVars
<1>1. CASE Collect
  BY <1>1 DEF Collect, ClearEvaluate, TakeRequest, NoEvaluation, StartEpisode, ResetExhausted,
              FlushRollout, FinishEpisode, InterruptEpisode, FinishEvaluation, LeaveCollection
<1>2. CASE Poll
  BY <1>2 DEF Poll, TimerExpires, AskPolicy, ReplacePolicy, ClearRefresh
<1>3. ASSUME NEW c \in Call, CallStepOf(c) PROVE UNCHANGED learnerVars
  BY <1>3 DEF CallStepOf, OwnStep, TakeRollout, Admit, Reject, HandleSignals,
              SettleRollout, SubmitAgain, LoseCall
<1>4. CASE ExternalStop BY <1>4 DEF ExternalStop
<1>5. CASE UNCHANGED controlVars BY <1>5 DEF controlVars
<1> QED BY <1>1, <1>2, <1>3, <1>4, <1>5, NextCases DEF SomeCall

\* Only a call moves the calls.
LEMMA CallFrame ==
  ASSUME [ControlNext]_controlVars, ~SomeCall
  PROVE  UNCHANGED <<calls, lost>>
<1> USE DEF SomeCall, spoolVars
<1>1. CASE Collect
  BY <1>1 DEF Collect, ClearEvaluate, TakeRequest, NoEvaluation, StartEpisode, ResetExhausted,
              FlushRollout, FinishEpisode, InterruptEpisode, FinishEvaluation, LeaveCollection
<1>2. CASE Poll
  BY <1>2 DEF Poll, TimerExpires, AskPolicy, ReplacePolicy, ClearRefresh
<1>3. CASE Update \/ Publish \/ IngestEpisode \/ LearnerStops \/ ExternalStop
  BY <1>3 DEF Update, Publish, IngestEpisode, LearnerStops, ExternalStop
<1>5. CASE UNCHANGED controlVars BY <1>5 DEF controlVars
<1> QED BY <1>1, <1>2, <1>3, <1>5, NextCases DEF SomeCall

\* Only the collector and a sender that takes a rollout change the spool.
LEMMA SpoolFrame ==
  ASSUME [ControlNext]_controlVars, ~SpoolSteps
  PROVE  UNCHANGED <<spooled, sequence>>
<1> USE DEF SpoolSteps, spoolVars
<1>1. CASE Collect
  BY <1>1 DEF Collect, ClearEvaluate, TakeRequest, NoEvaluation, StartEpisode, ResetExhausted,
              LeaveCollection
<1>2. CASE Poll
  BY <1>2 DEF Poll, TimerExpires, AskPolicy, ReplacePolicy, ClearRefresh
<1>3. CASE Update \/ Publish \/ IngestEpisode \/ LearnerStops \/ ExternalStop
  BY <1>3 DEF Update, Publish, IngestEpisode, LearnerStops, ExternalStop
<1>4. ASSUME NEW c \in Call, CallStepOf(c) PROVE UNCHANGED <<spooled, sequence>>
  BY <1>4 DEF CallStepOf, OwnStep, Admit, Reject, Journal, AssignEvaluation,
              HandleSignals, SettleRollout, SubmitAgain, LoseCall
<1>5. CASE UNCHANGED controlVars BY <1>5 DEF controlVars
<1> QED BY <1>1, <1>2, <1>3, <1>4, <1>5, NextCases DEF SomeCall


-----------------------------------------------------------------------------
(* Where a call's step leads.                                                *)

\* An accepted rollout's answer, with an evaluation if one is due.
AssignedAnswer(c) ==
    [calls[c].answer EXCEPT !.evaluation = IF Assigned THEN published ELSE None]

\* What a lag check reads is an answer.
LEMMA SubmissionsAreAnswers ==
  ASSUME LearnerOK, NEW c \in Call, NEW accepted \in BOOLEAN
  PROVE  Submission(c, accepted) \in Answer /\ Submission(c, accepted).evaluation = None
<1>1. (~accepted \/ Lag(calls[c].rollout) > SoftLag) \in BOOLEAN OBVIOUS
<1> QED BY <1>1 DEF LearnerOK, Submission, Answer

\* So is what an assignment makes of one.
LEMMA AssignedAnswersAreAnswers ==
  ASSUME LearnerOK, NEW c \in Call, calls[c].answer \in Answer
  PROVE  /\ AssignedAnswer(c) \in Answer
         /\ AssignedAnswer(c).evaluation = IF Assigned THEN published ELSE None
<1>1. (IF Assigned THEN published ELSE None) \in Version \cup {None} BY DEF LearnerOK
<1> QED BY <1>1 DEF AssignedAnswer, Answer

\* A call moves to a state that fits its step; if it starts, its rollout is from the spool, and
\* else it keeps its rollout.
LEMMA StepsMove ==
  ASSUME TypeInv, NEW c \in Call, OwnStep(c)
  PROVE  \E step \in CallSteps, rollout \in Rollout \cup {None}, answer \in Answer \cup {None} :
            /\ Moves(c, step, rollout, answer)
            /\ step # "idle" =>
                 \/ rollout \in spooled
                 \/ calls[c].step # "idle" /\ rollout = calls[c].rollout
            /\ step \in Answering => answer \in Answer
            /\ step = "checked" =>
                 Admit(c) /\ rollout = calls[c].rollout /\ answer = Submission(c, TRUE)
<1> USE DEF CallSteps, Answering
<1>0. /\ calls[c].step # "idle" => calls[c].rollout \in Rollout
      /\ calls[c].step \in Answering => calls[c].answer \in Answer
      /\ spooled \subseteq Rollout
  BY DEF TypeInv, CallsOK, SpoolOK
<1>1. CASE TakeRollout(c) BY <1>0, <1>1 DEF TakeRollout
<1>2. CASE Admit(c)
  BY <1>0, <1>2, SubmissionsAreAnswers DEF Admit, TypeInv
<1>3. CASE Reject(c)
  BY <1>0, <1>3, SubmissionsAreAnswers DEF Reject, Answers, TypeInv
<1>4. CASE Journal(c) BY <1>0, <1>4 DEF Journal
<1>5. CASE AssignEvaluation(c)
  <2>1. calls[c].step = "journalled" /\ Answers(c, AssignedAnswer(c))
    BY <1>5 DEF AssignEvaluation, AssignedAnswer
  <2>2. AssignedAnswer(c) \in Answer
    BY <1>0, <2>1, AssignedAnswersAreAnswers DEF TypeInv
  <2> QED BY <1>0, <2>1, <2>2 DEF Answers
<1>6. CASE HandleSignals(c) BY <1>0, <1>6 DEF HandleSignals
<1>7. CASE SettleRollout(c) BY <1>7 DEF SettleRollout
<1>8. CASE SubmitAgain(c) BY <1>0, <1>8 DEF SubmitAgain
<1> QED BY <1>1, <1>2, <1>3, <1>4, <1>5, <1>6, <1>7, <1>8 DEF OwnStep

\* A call that fails: its sender waits, and its handler, if it was reached, is a call of its own.
LEMMA LoseMoves ==
  ASSUME TypeInv, NEW s \in Sender, LoseCall(s)
  PROVE  \E c \in Call \ {s} :
            /\ calls' \in [Call -> CallState]
            /\ calls'[s] = [step |-> "retry", rollout |-> calls[s].rollout, answer |-> None]
            /\ calls'[c] = IF calls[s].step = "answered" THEN IdleCall ELSE calls[s]
            /\ \A d \in Call \ {s, c} : calls'[d] = calls[d]
            /\ calls[s].step # "idle"
<1>1. lost + 1 \in 1 .. MaxLost
  BY ControlAssumption DEF LoseCall, TypeInv, SpoolOK, ControlAssumption
<1>2. lost + 1 \in Call /\ lost + 1 # s /\ s \in Call
  BY <1>1, CallsFinite DEF Call
<1>3. calls \in [Call -> CallState] /\ calls[s].step # "idle" /\ calls[s].rollout \in Rollout
  BY <1>2 DEF LoseCall, TypeInv, CallsOK
<1>4. calls' = [calls EXCEPT
           ![s] = [step |-> "retry", rollout |-> calls[s].rollout, answer |-> None],
           ![lost + 1] = IF calls[s].step = "answered" THEN IdleCall ELSE calls[s]]
  BY DEF LoseCall
<1>5. /\ [step |-> "retry", rollout |-> calls[s].rollout, answer |-> None] \in CallState
      /\ IdleCall \in CallState /\ calls[s] \in CallState
  BY <1>2, <1>3 DEF CallState, CallSteps, IdleCall
<1> QED BY <1>2, <1>3, <1>4, <1>5

\* Every step keeps the calls' types.
LEMMA CallsKept ==
  ASSUME TypeInv, [ControlNext]_controlVars
  PROVE  CallsOK'
<1>1. ASSUME NEW c \in Call, OwnStep(c) PROVE CallsOK'
  <2>1. PICK step \in CallSteps, rollout \in Rollout \cup {None}, answer \in Answer \cup {None} :
            /\ Moves(c, step, rollout, answer)
            /\ step # "idle" =>
                 rollout \in spooled \/ (calls[c].step # "idle" /\ rollout = calls[c].rollout)
            /\ step \in Answering => answer \in Answer
    BY <1>1, StepsMove
  <2>2. step # "idle" => rollout \in Rollout BY <2>1 DEF TypeInv, SpoolOK, CallsOK
  <2> DEFINE state == [step |-> step, rollout |-> rollout, answer |-> answer]
  <2>3. state \in CallState BY DEF CallState
  <2>4. calls' = [calls EXCEPT ![c] = state] BY <2>1 DEF Moves
  <2>5. state.step = step /\ state.rollout = rollout /\ state.answer = answer OBVIOUS
  <2> HIDE DEF state
  <2> QED BY <2>1, <2>2, <2>3, <2>4, <2>5, CallMoves DEF CallsOK, TypeInv
<1>2. ASSUME NEW s \in Sender, LoseCall(s) PROVE CallsOK'
  <2>1. PICK c \in Call \ {s} :
            /\ calls' \in [Call -> CallState]
            /\ calls'[s] = [step |-> "retry", rollout |-> calls[s].rollout, answer |-> None]
            /\ calls'[c] = IF calls[s].step = "answered" THEN IdleCall ELSE calls[s]
            /\ \A d \in Call \ {s, c} : calls'[d] = calls[d]
            /\ calls[s].step # "idle"
    BY <1>2, LoseMoves
  <2>2. s \in Call BY CallsFinite
  <2>3. \A d \in Call : /\ calls[d].step # "idle" => calls[d].rollout \in Rollout
                        /\ calls[d].step \in Answering => calls[d].answer \in Answer
    BY DEF TypeInv, CallsOK
  <2> QED BY <2>1, <2>2, <2>3 DEF CallsOK, IdleCall, Answering
<1>3. CASE ~SomeCall
  BY <1>3, CallFrame DEF TypeInv, CallsOK
<1> QED BY <1>1, <1>2, <1>3 DEF SomeCall, CallStepOf


-----------------------------------------------------------------------------
(* The other types.                                                          *)

\* Every step keeps the learner's types.
LEMMA LearnerKept ==
  ASSUME TypeInv, [ControlNext]_controlVars
  PROVE  LearnerOK'
<1> USE ControlAssumption DEF ControlAssumption, Version
<1>1. CASE Update
  <2>1. updates' = updates + 1 /\ updates < MaxUpdates BY <1>1 DEF Update, NewVersion
  <2>2. updates' \in Version BY <2>1 DEF TypeInv, LearnerOK
  <2> QED BY <1>1, <2>2 DEF Update, TypeInv, LearnerOK
<1>7. CASE Publish
  BY <1>7 DEF Publish, TypeInv, LearnerOK
<1>2. CASE IngestEpisode
  <2>1. inbox' \in Nat /\ episodes' \in Nat BY <1>2 DEF IngestEpisode, TypeInv, LearnerOK
  <2>2. due' = TRUE \/ due' = due BY <1>2 DEF IngestEpisode
  <2>3. UNCHANGED <<updates, published, publishing, received, stopping>> BY <1>2 DEF IngestEpisode
  <2> QED BY <2>1, <2>2, <2>3 DEF TypeInv, LearnerOK
<1>3. CASE LearnerStops BY <1>3 DEF LearnerStops, TypeInv, LearnerOK
<1>4. ASSUME NEW c \in Call, Journal(c) PROVE LearnerOK'
  <2>1. calls[c].rollout \in Rollout BY <1>4 DEF Journal, TypeInv, CallsOK
  <2>2. calls[c].rollout.seq \in Nat BY <2>1 DEF Rollout
  <2>3. received' \subseteq Nat /\ (inbox' = inbox \/ inbox' = inbox + 1)
    BY <1>4, <2>2 DEF Journal, TypeInv, LearnerOK
  <2>4. UNCHANGED <<updates, published, publishing, due, episodes, stopping>>
    BY <1>4 DEF Journal
  <2> QED BY <2>3, <2>4 DEF TypeInv, LearnerOK
<1>6. ASSUME NEW c \in Call, AssignEvaluation(c) PROVE LearnerOK'
  <2>1. StaysDue \in BOOLEAN BY DEF StaysDue
  <2> QED BY <1>6, <2>1 DEF AssignEvaluation, TypeInv, LearnerOK
<1>5. CASE ~LearnerSteps
  BY <1>5, LearnerFrame DEF learnerVars, TypeInv, LearnerOK
<1> QED BY <1>1, <1>2, <1>3, <1>4, <1>5, <1>6, <1>7 DEF LearnerSteps

\* Every step keeps the types of the actor's flags.
LEMMA FlagsKept ==
  ASSUME TypeInv, [ControlNext]_controlVars
  PROVE  FlagsOK'
<1> USE DEF TypeInv, FlagsOK, threadVars, requestVars
<1>1. CASE Collect
  BY <1>1 DEF Collect, ClearEvaluate, TakeRequest, NoEvaluation, StartEpisode, ResetExhausted,
              FlushRollout, FinishEpisode, InterruptEpisode, FinishEvaluation, LeaveCollection
<1>2. CASE Poll
  BY <1>2 DEF Poll, TimerExpires, AskPolicy, ReplacePolicy, ClearRefresh, LearnerOK
<1>3. CASE Update \/ Publish \/ IngestEpisode \/ LearnerStops \/ ExternalStop
  BY <1>3 DEF Update, Publish, IngestEpisode, LearnerStops, ExternalStop
<1>4. ASSUME NEW c \in Call, CallStepOf(c) PROVE FlagsOK'
  BY <1>4 DEF CallStepOf, OwnStep, TakeRollout, Admit, Reject, Journal, AssignEvaluation,
              HandleSignals, SettleRollout, SubmitAgain, LoseCall
<1>5. CASE UNCHANGED controlVars BY <1>5 DEF controlVars
<1> QED BY <1>1, <1>2, <1>3, <1>4, <1>5, NextCases DEF SomeCall

\* Every step keeps the types of the policy the actor holds.
LEMMA PolicyKept ==
  ASSUME TypeInv, [ControlNext]_controlVars
  PROVE  PolicyOK'
<1> USE ControlAssumption DEF TypeInv, PolicyOK, threadVars, ControlAssumption
<1>1. CASE Collect
  BY <1>1 DEF Collect, ClearEvaluate, TakeRequest, NoEvaluation, StartEpisode, ResetExhausted,
              FlushRollout, FinishEpisode, InterruptEpisode, FinishEvaluation, LeaveCollection
<1>2. CASE Poll
  <2>1. CASE TimerExpires BY <2>1 DEF TimerExpires
  <2>2. CASE AskPolicy BY <2>2 DEF AskPolicy, LearnerOK
  <2>3. CASE ReplacePolicy BY <2>3 DEF ReplacePolicy
  <2>4. CASE ClearRefresh BY <2>4 DEF ClearRefresh, Version
  <2> QED BY <1>2, <2>1, <2>2, <2>3, <2>4 DEF Poll
<1>3. CASE Update \/ Publish \/ IngestEpisode \/ LearnerStops \/ ExternalStop
  BY <1>3 DEF Update, Publish, IngestEpisode, LearnerStops, ExternalStop
<1>4. ASSUME NEW c \in Call, CallStepOf(c) PROVE PolicyOK'
  BY <1>4 DEF CallStepOf, OwnStep, TakeRollout, Admit, Reject, Journal, AssignEvaluation,
              HandleSignals, SettleRollout, SubmitAgain, LoseCall
<1>5. CASE UNCHANGED controlVars BY <1>5 DEF controlVars
<1> QED BY <1>1, <1>2, <1>3, <1>4, <1>5, NextCases DEF SomeCall

\* Every step keeps the types of the collection thread and its request.
LEMMA CollectorKept ==
  ASSUME TypeInv, [ControlNext]_controlVars
  PROVE  CollectorOK'
<1> USE DEF TypeInv, CollectorOK, requestVars, Step
<1>1. CASE Collect
  <2>1. 0 \in Version BY ControlAssumption DEF ControlAssumption, Version
  <2>2. CASE ClearEvaluate \/ NoEvaluation \/ ResetExhausted \/ LeaveCollection
    BY <2>1, <2>2 DEF ClearEvaluate, NoEvaluation, ResetExhausted, LeaveCollection
  <2>3. CASE TakeRequest \/ StartEpisode
    BY <2>3 DEF TakeRequest, StartEpisode, PolicyOK
  <2>4. CASE FlushRollout BY <2>4 DEF FlushRollout
  <2>5. CASE FinishEpisode BY <2>1, <2>5 DEF FinishEpisode
  <2>6. CASE InterruptEpisode BY <2>1, <2>6 DEF InterruptEpisode
  <2>7. CASE FinishEvaluation BY <2>1, <2>7 DEF FinishEvaluation
  <2> QED BY <1>1, <2>2, <2>3, <2>4, <2>5, <2>6, <2>7 DEF Collect
<1>2. CASE Poll
  BY <1>2 DEF Poll, TimerExpires, AskPolicy, ReplacePolicy, ClearRefresh
<1>3. CASE Update \/ Publish \/ IngestEpisode \/ LearnerStops \/ ExternalStop
  BY <1>3 DEF Update, Publish, IngestEpisode, LearnerStops, ExternalStop
<1>4. ASSUME NEW c \in Call, HandleSignals(c) PROVE CollectorOK'
  <2>1. calls[c].answer.evaluation \in Version \cup {None}
    BY <1>4 DEF HandleSignals, CallsOK, Answering, Answer
  <2> QED BY <1>4, <2>1 DEF HandleSignals
<1>5. ASSUME NEW c \in Call, CallStepOf(c), ~HandleSignals(c)
      PROVE  CollectorOK'
  BY <1>5 DEF CallStepOf, OwnStep, TakeRollout, Admit, Reject, Journal, AssignEvaluation,
              SettleRollout, SubmitAgain, LoseCall
<1>6. CASE UNCHANGED controlVars BY <1>6 DEF controlVars
<1> QED BY <1>1, <1>2, <1>3, <1>4, <1>5, <1>6, NextCases DEF SomeCall

\* A rollout the collection thread spools is one, and honest about its policy.
LEMMA SpoolsHonestly ==
  ASSUME TypeInv, NEW transitions \in BOOLEAN, NEW episode \in BOOLEAN,
         SpoolRollout(transitions, episode)
  PROVE  \E rollout \in Rollout :
            /\ Honest(rollout) /\ spooled' = spooled \cup {rollout}
            /\ sequence' \in Nat
<1> DEFINE rollout == [seq |-> sequence, version |-> ReportedVersion(transitions),
             played |-> collector.version, transitions |-> transitions, episode |-> episode]
<1>1. rollout \in Rollout
  BY DEF TypeInv, PolicyOK, CollectorOK, SpoolOK, Rollout, ReportedVersion
<1>2. Honest(rollout) BY DEF Honest, ReportedVersion
<1>3. spooled' = spooled \cup {rollout} /\ sequence' \in Nat
  BY DEF SpoolRollout, TypeInv, SpoolOK
<1> QED BY <1>1, <1>2, <1>3

\* What happens to the spool: nothing, one honest rollout more, or one less.
LEMMA SpoolMoves ==
  ASSUME TypeInv, [ControlNext]_controlVars
  PROVE  /\ sequence' \in Nat
         /\ \/ spooled' \subseteq spooled
            \/ \E rollout \in Rollout : Honest(rollout) /\ spooled' = spooled \cup {rollout}
<1>1. CASE FlushRollout BY <1>1, SpoolsHonestly DEF FlushRollout
<1>2. CASE FinishEpisode BY <1>2, SpoolsHonestly DEF FinishEpisode
<1>3. CASE InterruptEpisode
  BY <1>3, SpoolsHonestly DEF InterruptEpisode, TypeInv, SpoolOK
<1>4. CASE FinishEvaluation
  <2> DEFINE rollout == [seq |-> sequence, version |-> collector.version,
           played |-> collector.version, transitions |-> FALSE, episode |-> FALSE]
  <2>1. rollout \in Rollout /\ Honest(rollout)
    BY DEF TypeInv, CollectorOK, SpoolOK, Rollout, Honest
  <2>2. spooled' = spooled \cup {rollout} /\ sequence' \in Nat
    BY <1>4 DEF FinishEvaluation, TypeInv, SpoolOK
  <2> QED BY <2>1, <2>2
<1>5. ASSUME NEW c \in Call, TakeRollout(c)
      PROVE  spooled' \subseteq spooled /\ sequence' \in Nat
  BY <1>5 DEF TakeRollout, TypeInv, SpoolOK
<1>6. CASE ~SpoolSteps
  BY <1>6, SpoolFrame DEF TypeInv, SpoolOK
<1> QED BY <1>1, <1>2, <1>3, <1>4, <1>5, <1>6 DEF SpoolSteps

\* Every step keeps the types of the spool.
LEMMA SpoolKept ==
  ASSUME TypeInv, [ControlNext]_controlVars
  PROVE  SpoolOK'
<1>1. lost' \in Nat
  <2>1. ASSUME NEW c \in Call, CallStepOf(c) PROVE lost' = lost \/ lost' = lost + 1
    BY <2>1 DEF CallStepOf, OwnStep, TakeRollout, Admit, Reject, Journal, AssignEvaluation,
                HandleSignals, SettleRollout, SubmitAgain, LoseCall
  <2> QED BY <2>1, CallFrame DEF SomeCall, TypeInv, SpoolOK
<1> QED BY <1>1, SpoolMoves DEF TypeInv, SpoolOK


-----------------------------------------------------------------------------
(* Accepted transitions are recent.                                          *)

\* Every step keeps rollouts honest.
LEMMA HonestKept ==
  ASSUME TypeInv, HonestInv, [ControlNext]_controlVars
  PROVE  HonestInv'
<1>1. \A rollout \in spooled' : Honest(rollout)
  BY SpoolMoves DEF HonestInv
<1>2. ASSUME NEW c \in Call, OwnStep(c)
      PROVE  \A d \in Call : calls'[d].step # "idle" => Honest(calls'[d].rollout)
  <2>1. PICK step \in CallSteps, rollout \in Rollout \cup {None}, answer \in Answer \cup {None} :
            /\ Moves(c, step, rollout, answer)
            /\ step # "idle" =>
                 rollout \in spooled \/ (calls[c].step # "idle" /\ rollout = calls[c].rollout)
    BY <1>2, StepsMove
  <2>2. step # "idle" => Honest(rollout) BY <2>1 DEF HonestInv
  <2> DEFINE state == [step |-> step, rollout |-> rollout, answer |-> answer]
  <2>3. calls' = [calls EXCEPT ![c] = state] BY <2>1 DEF Moves
  <2>4. state.step = step /\ state.rollout = rollout OBVIOUS
  <2> HIDE DEF state
  <2>5. calls'[c] = state /\ \A d \in Call \ {c} : calls'[d] = calls[d]
    BY <2>3, CallMoves DEF TypeInv, CallsOK
  <2> QED BY <2>2, <2>4, <2>5 DEF HonestInv
<1>3. ASSUME NEW s \in Sender, LoseCall(s)
      PROVE  \A d \in Call : calls'[d].step # "idle" => Honest(calls'[d].rollout)
  <2>1. PICK c \in Call \ {s} :
            /\ calls'[s] = [step |-> "retry", rollout |-> calls[s].rollout, answer |-> None]
            /\ calls'[c] = IF calls[s].step = "answered" THEN IdleCall ELSE calls[s]
            /\ \A d \in Call \ {s, c} : calls'[d] = calls[d]
            /\ calls[s].step # "idle"
    BY <1>3, LoseMoves
  <2>2. s \in Call BY CallsFinite
  <2> QED BY <2>1, <2>2 DEF HonestInv, IdleCall
<1>4. ASSUME ~SomeCall
      PROVE  \A d \in Call : calls'[d].step # "idle" => Honest(calls'[d].rollout)
  BY <1>4, CallFrame DEF HonestInv
<1>5. \A d \in Call : calls'[d].step # "idle" => Honest(calls'[d].rollout)
  BY <1>2, <1>3, <1>4 DEF SomeCall, CallStepOf, HonestInv
<1> QED BY <1>1, <1>5 DEF HonestInv, Honest

\* A lag check lets only recent rollouts through.
LEMMA AdmitsTheRecent ==
  ASSUME TypeInv, NEW c \in Call, Admit(c)
  PROVE  Recently([step |-> "checked", rollout |-> calls[c].rollout,
                   answer |-> Submission(c, TRUE)])
<1> DEFINE v == calls[c].rollout.version
<1>1. calls[c].rollout \in Rollout BY DEF Admit, TypeInv, CallsOK
<1>2. v \in Int /\ updates \in Int /\ HardLag \in Int
  BY <1>1, ControlAssumption DEF Rollout, Version, TypeInv, LearnerOK, ControlAssumption
<1>3. calls[c].rollout.transitions => ~((IF updates > v THEN updates - v ELSE 0) > HardLag)
  BY DEF Admit, Rejects, Lag
<1>4. HardLag >= 0 BY ControlAssumption DEF ControlAssumption
<1>5. calls[c].rollout.transitions => updates - v <= HardLag
  <2> HIDE DEF v
  <2> QED BY <1>2, <1>3, <1>4
<1>6. Submission(c, TRUE).checked = updates BY DEF Submission
<1> QED BY <1>5, <1>6 DEF Recently

\* Every step keeps what the lag checks let through recent.
LEMMA CheckedKept ==
  ASSUME TypeInv, CheckedInv, [ControlNext]_controlVars
  PROVE  CheckedInv'
<1>1. ASSUME NEW c \in Call, OwnStep(c) PROVE CheckedInv'
  <2>1. PICK step \in CallSteps, rollout \in Rollout \cup {None}, answer \in Answer \cup {None} :
            /\ Moves(c, step, rollout, answer)
            /\ step = "checked" =>
                 Admit(c) /\ rollout = calls[c].rollout /\ answer = Submission(c, TRUE)
    BY <1>1, StepsMove
  <2> DEFINE state == [step |-> step, rollout |-> rollout, answer |-> answer]
  <2>2. calls' = [calls EXCEPT ![c] = state] BY <2>1 DEF Moves
  <2>3. Recently(state)
    <3>1. CASE step = "checked" BY <2>1, <3>1, AdmitsTheRecent
    <3>2. CASE step # "checked" BY <3>2 DEF Recently
    <3> QED BY <3>1, <3>2
  <2> HIDE DEF state
  <2>4. calls'[c] = state /\ \A d \in Call \ {c} : calls'[d] = calls[d]
    BY <2>2, CallMoves DEF TypeInv, CallsOK
  <2>5. \A d \in Call : Recently(calls'[d])
    BY <2>3, <2>4 DEF CheckedInv
  <2> QED BY <2>5 DEF CheckedInv, Recently
<1>2. ASSUME NEW s \in Sender, LoseCall(s) PROVE CheckedInv'
  <2>1. PICK c \in Call \ {s} :
            /\ calls'[s] = [step |-> "retry", rollout |-> calls[s].rollout, answer |-> None]
            /\ calls'[c] = IF calls[s].step = "answered" THEN IdleCall ELSE calls[s]
            /\ \A d \in Call \ {s, c} : calls'[d] = calls[d]
    BY <1>2, LoseMoves
  <2>2. s \in Call BY CallsFinite
  <2>3. Recently(calls'[s]) BY <2>1 DEF Recently
  <2>4. Recently(calls'[c])
    BY <2>1, <2>2 DEF Recently, CheckedInv, IdleCall
  <2>5. \A d \in Call : Recently(calls'[d])
    BY <2>1, <2>3, <2>4 DEF CheckedInv
  <2> QED BY <2>5 DEF CheckedInv, Recently
<1>3. CASE ~SomeCall
  BY <1>3, CallFrame DEF CheckedInv, Recently
<1> QED BY <1>1, <1>2, <1>3 DEF SomeCall, CallStepOf

\* Only an append changes the largest age.
LEMMA LagFrame ==
  ASSUME [ControlNext]_controlVars, \A c \in Call : ~Journal(c)
  PROVE  worstLag' = worstLag
<1> USE DEF history
<1>1. CASE Collect
  BY <1>1 DEF Collect, ClearEvaluate, TakeRequest, NoEvaluation, StartEpisode, ResetExhausted,
              FlushRollout, FinishEpisode, InterruptEpisode, FinishEvaluation, LeaveCollection
<1>2. CASE Poll
  BY <1>2 DEF Poll, TimerExpires, AskPolicy, ReplacePolicy, ClearRefresh
<1>3. CASE Update \/ Publish \/ IngestEpisode \/ LearnerStops \/ ExternalStop
  BY <1>3 DEF Update, Publish, IngestEpisode, LearnerStops, ExternalStop
<1>4. ASSUME NEW c \in Call, CallStepOf(c) PROVE worstLag' = worstLag
  BY <1>4 DEF CallStepOf, OwnStep, TakeRollout, Admit, Reject, AssignEvaluation, HandleSignals,
              SettleRollout, SubmitAgain, LoseCall
<1>5. CASE UNCHANGED controlVars BY <1>5 DEF controlVars
<1> QED BY <1>1, <1>2, <1>3, <1>4, <1>5, NextCases DEF SomeCall

\* An honest rollout that was let through is recent when it is appended.
LEMMA RecentKept ==
  ASSUME TypeInv, HonestInv, CheckedInv, AcceptedTransitionsAreRecent, [ControlNext]_controlVars
  PROVE  AcceptedTransitionsAreRecent' /\ worstLag' \in Int
<1>1. ASSUME NEW c \in Call, Journal(c)
      PROVE  AcceptedTransitionsAreRecent' /\ worstLag' \in Int
  <2> DEFINE rollout == calls[c].rollout
             checked == calls[c].answer.checked
  <2>1. /\ rollout \in Rollout /\ calls[c].answer \in Answer
        /\ rollout.transitions => rollout.version = rollout.played
    BY <1>1 DEF Journal, TypeInv, CallsOK, Answering, HonestInv, Honest
  <2>2. rollout.version \in Int /\ rollout.played \in Int /\ checked \in Int
    BY <2>1, ControlAssumption DEF Rollout, Answer, Version, ControlAssumption
  <2>3. worstLag' = IF rollout.transitions /\ checked - rollout.played > worstLag
                    THEN checked - rollout.played ELSE worstLag
    BY <1>1 DEF Journal, Age
  <2>4. rollout.transitions => checked - rollout.version <= HardLag
    BY <1>1 DEF Journal, CheckedInv, Recently
  <2>5. HardLag \in Nat /\ worstLag \in Int /\ worstLag <= HardLag
    BY ControlAssumption
    DEF ControlAssumption, TypeInv, HistoryOK, AcceptedTransitionsAreRecent
  <2> HIDE DEF rollout, checked
  <2> QED BY <2>1, <2>2, <2>3, <2>4, <2>5 DEF AcceptedTransitionsAreRecent
<1>2. CASE \A c \in Call : ~Journal(c)
  BY <1>2, LagFrame DEF AcceptedTransitionsAreRecent, TypeInv, HistoryOK
<1> QED BY <1>1, <1>2


-----------------------------------------------------------------------------
(* Evaluations keep within their schedule.                                   *)

\* With the calls at rest the evaluations on their way are counted by the flags.
LEMMA FlagsCount ==
  ASSUME TypeInv, ScheduleInv, UNCHANGED calls, scheduled' \in Nat, evaluated' \in Nat,
         evaluated' + One(due') + One(evaluate') + One((collector.step = "cleared")') - scheduled'
           <= evaluated + One(due) + One(evaluate) + One(collector.step = "cleared") - scheduled
  PROVE  ScheduleInv'
<1>1. Carriers' = Carriers BY DEF Carriers, Carrying
<1>2. Cardinality(Carriers) \in Nat
  <2>1. Carriers \subseteq Call BY DEF Carriers
  <2> QED BY <2>1, CallsFinite, FS_Subset, FS_CardinalityType
<1>3. evaluated \in Nat /\ scheduled \in Nat BY DEF TypeInv, HistoryOK
<1>4. OnTheirWay' = One(due') + Cardinality(Carriers) + One(evaluate')
                      + One((collector.step = "cleared")')
  BY <1>1 DEF OnTheirWay, One
<1>5. \A b : One(b) \in Nat BY DEF One
<1> HIDE DEF One
<1> DEFINE c == Cardinality(Carriers)
           d == One(due)  d1 == One(due')
           e == One(evaluate)  e1 == One(evaluate')
           k == One(collector.step = "cleared")  k1 == One((collector.step = "cleared")')
<1>6. {c, d, d1, e, e1, k, k1} \subseteq Nat BY <1>2, <1>5
<1>7. evaluated + (d + c + e + k) <= scheduled BY DEF ScheduleInv, OnTheirWay
<1>8. evaluated' + d1 + e1 + k1 - scheduled' <= evaluated + d + e + k - scheduled OBVIOUS
<1>9. evaluated' + (d1 + c + e1 + k1) <= scheduled'
  <2> HIDE DEF c, d, d1, e, e1, k, k1
  <2> QED BY <1>3, <1>6, <1>7, <1>8
<1> QED BY <1>4, <1>9 DEF ScheduleInv

\* A call that takes an evaluation out of the due set, or brings one to the actor.
LEMMA CallsCount ==
  ASSUME TypeInv, ScheduleInv, NEW c \in Call, NEW step, NEW rollout, NEW answer,
         Moves(c, step, rollout, answer), UNCHANGED <<scheduled, evaluated, collector>>,
         One(due') + One(evaluate')
             + One(Carrying([step |-> step, rollout |-> rollout, answer |-> answer]))
           <= One(due) + One(evaluate) + One(Carrying(calls[c]))
  PROVE  ScheduleInv'
<1> DEFINE state == [step |-> step, rollout |-> rollout, answer |-> answer]
           n == Cardinality(Carriers)  n1 == Cardinality(Carriers')
           d == One(due)  d1 == One(due')
           e == One(evaluate)  e1 == One(evaluate')
           k == One(collector.step = "cleared")
           m == One(Carrying(calls[c]))  m1 == One(Carrying(state))
<1>1. n \in Nat /\ n1 \in Nat /\ n1 + m = n + m1
  <2>1. calls' = [calls EXCEPT ![c] = state] BY DEF Moves
  <2> HIDE DEF state
  <2> QED BY <2>1, CarriersMove DEF TypeInv, CallsOK
<1>2. \A b : One(b) \in Nat BY DEF One
<1>3. evaluated \in Nat /\ scheduled \in Nat BY DEF TypeInv, HistoryOK
<1>4. evaluated + (d + n + e + k) <= scheduled BY DEF ScheduleInv, OnTheirWay
<1>5. d1 + e1 + m1 <= d + e + m OBVIOUS
<1>6. OnTheirWay' = d1 + n1 + e1 + k BY DEF OnTheirWay, One
<1>7. {d, d1, e, e1, k, m, m1} \subseteq Nat BY <1>2
<1>8. evaluated + (d1 + n1 + e1 + k) <= scheduled
  <2> HIDE DEF n, n1, d, d1, e, e1, k, m, m1
  <2> QED BY <1>1, <1>3, <1>4, <1>5, <1>7
<1> QED BY <1>6, <1>8 DEF ScheduleInv

\* A failed call takes no evaluation to the actor that was not on its way.
LEMMA LostCallsCount ==
  ASSUME TypeInv, ScheduleInv, NEW s \in Sender, LoseCall(s)
  PROVE  ScheduleInv'
<1>1. PICK c \in Call \ {s} :
            /\ calls'[s] = [step |-> "retry", rollout |-> calls[s].rollout, answer |-> None]
            /\ calls'[c] = IF calls[s].step = "answered" THEN IdleCall ELSE calls[s]
            /\ \A d \in Call \ {s, c} : calls'[d] = calls[d]
  BY LoseMoves
<1>2. calls[s].step \in {"call", "checked", "journalled", "answered"} /\ s \in Call
  BY CallsFinite DEF LoseCall
<1>3. ~Carrying(calls'[s]) /\ ~Carrying(calls'[c])
  BY <1>1, <1>2 DEF Carrying, IdleCall
<1>4. \A d \in Call : Carrying(calls'[d]) => Carrying(calls[d])
  BY <1>1, <1>3
<1>5. Carriers' \subseteq Carriers
  <2>1. Carriers' = {d \in Call : Carrying(calls'[d])} BY DEF Carriers, Carrying
  <2> QED BY <1>4, <2>1 DEF Carriers
<1>6. /\ Cardinality(Carriers) \in Nat /\ Cardinality(Carriers') \in Nat
      /\ Cardinality(Carriers') <= Cardinality(Carriers)
  <2>1. Carriers \subseteq Call BY DEF Carriers
  <2>2. IsFiniteSet(Carriers) BY <2>1, CallsFinite, FS_Subset
  <2> QED BY <1>5, <2>2, FS_Subset, FS_CardinalityType
<1>7. UNCHANGED <<due, evaluate, collector, scheduled, evaluated>>
  BY DEF LoseCall, learnerVars, requestVars, history
<1> DEFINE n == Cardinality(Carriers)  n1 == Cardinality(Carriers')
           d == One(due)  e == One(evaluate)  k == One(collector.step = "cleared")
<1>8. {d, e, k, evaluated, scheduled} \subseteq Nat
  BY DEF One, TypeInv, HistoryOK
<1>9. OnTheirWay = d + n + e + k /\ OnTheirWay' = d + n1 + e + k
  BY <1>7 DEF OnTheirWay, One
<1>10. evaluated + (d + n + e + k) <= scheduled BY <1>9 DEF ScheduleInv
<1>11. evaluated + (d + n1 + e + k) <= scheduled
  <2> HIDE DEF d, e, k, n, n1
  <2> QED BY <1>6, <1>8, <1>10 DEF n, n1
<1> QED BY <1>7, <1>9, <1>11 DEF ScheduleInv


\* So a call's own step keeps the evaluations within their schedule.
LEMMA CallScheduleKept ==
  ASSUME TypeInv, ScheduleInv, NEW c \in Call, OwnStep(c)
  PROVE  ScheduleInv'
<1>0. UNCHANGED <<scheduled, evaluated, collector>>
  BY DEF OwnStep, TakeRollout, Admit, Reject, Journal, AssignEvaluation, HandleSignals,
         SettleRollout, SubmitAgain, requestVars, history
<1>1. \A b : One(b) \in {0, 1} BY DEF One
<1>2. ASSUME NEW step, NEW rollout, NEW answer, Moves(c, step, rollout, answer),
             UNCHANGED <<due, evaluate>>,
             Carrying([step |-> step, rollout |-> rollout, answer |-> answer])
               => Carrying(calls[c])
      PROVE  ScheduleInv'
  <2> DEFINE state == [step |-> step, rollout |-> rollout, answer |-> answer]
  <2>1. One(Carrying(state)) <= One(Carrying(calls[c])) BY <1>2 DEF One
  <2>2. One(due') = One(due) /\ One(evaluate') = One(evaluate) BY <1>2
  <2>3. {One(due), One(evaluate), One(Carrying(state)), One(Carrying(calls[c]))} \subseteq {0, 1}
    BY <1>1
  <2>4. One(due') + One(evaluate') + One(Carrying(state))
          <= One(due) + One(evaluate) + One(Carrying(calls[c]))
    <3> HIDE DEF One, state
    <3> QED BY <2>1, <2>2, <2>3
  <2> QED BY <1>0, <1>2, <2>4, CallsCount
<1>3. CASE TakeRollout(c) \/ Admit(c) \/ Journal(c) \/ SubmitAgain(c)
  <2>1. /\ UNCHANGED <<due, evaluate>>
        /\ \E step \in CallSteps, rollout \in Rollout \cup {None}, answer \in Answer \cup {None} :
              Moves(c, step, rollout, answer) /\ step \notin {"answered", "signalled"}
    <3>1. UNCHANGED <<due, evaluate>>
      BY <1>3 DEF TakeRollout, Admit, Journal, SubmitAgain, learnerVars, requestVars
    <3>2. TypeInv => /\ spooled \subseteq Rollout
                     /\ calls[c].rollout \in Rollout \cup {None}
                     /\ calls[c].answer \in Answer \cup {None}
      BY DEF TypeInv, SpoolOK, CallsOK, CallState
    <3>3. CASE TakeRollout(c) BY <3>1, <3>2, <3>3 DEF TakeRollout, CallSteps
    <3>4. CASE Admit(c)
      BY <3>1, <3>2, <3>4, SubmissionsAreAnswers DEF Admit, CallSteps, TypeInv
    <3>5. CASE Journal(c) BY <3>1, <3>2, <3>5 DEF Journal, CallSteps
    <3>6. CASE SubmitAgain(c) BY <3>1, <3>2, <3>6 DEF SubmitAgain, CallSteps
    <3> QED BY <1>3, <3>3, <3>4, <3>5, <3>6
  <2> QED BY <1>2, <2>1 DEF Carrying
<1>4. CASE Reject(c)
  <2>1. UNCHANGED <<due, evaluate>> BY <1>4 DEF Reject, learnerVars, requestVars
  <2>2. Submission(c, FALSE).evaluation = None BY DEF Submission
  <2>3. \/ Moves(c, "answered", calls[c].rollout, Submission(c, FALSE))
        \/ Moves(c, "idle", None, None)
    BY <1>4 DEF Reject, Answers
  <2> QED BY <1>2, <2>1, <2>2, <2>3 DEF Carrying
<1>5. CASE AssignEvaluation(c)
  <2>1. due' = (due /\ ~Assigned) /\ evaluate' = evaluate /\ calls[c].step = "journalled"
    BY <1>5 DEF AssignEvaluation, StaysDue, requestVars
  <2>2. calls[c].answer \in Answer BY <2>1 DEF TypeInv, CallsOK, Answering
  <2>3. AssignedAnswer(c).evaluation = IF Assigned THEN published ELSE None
    BY <2>2, AssignedAnswersAreAnswers DEF TypeInv
  <2>4. ~Carrying(calls[c]) BY <2>1 DEF Carrying
  <2>5. ASSUME NEW step, NEW rollout, NEW answer, Moves(c, step, rollout, answer),
               Carrying([step |-> step, rollout |-> rollout, answer |-> answer]) => Assigned
        PROVE  ScheduleInv'
    <3> DEFINE carries == Carrying([step |-> step, rollout |-> rollout, answer |-> answer])
    <3>1. due \in BOOLEAN /\ (Assigned => due) BY DEF TypeInv, LearnerOK, Assigned
    <3>2. /\ One(due') <= One(due)
          /\ {One(due'), One(due), One(evaluate), One(carries)} \subseteq {0, 1}
      BY <2>1, <3>1 DEF One
    <3>3. carries => One(due') = 0 /\ One(due) = 1 BY <2>1, <2>5, <3>1 DEF One
    <3>4. ~carries => One(carries) = 0 BY DEF One
    <3>5. One(Carrying(calls[c])) = 0 /\ One(evaluate') = One(evaluate) BY <2>1, <2>4 DEF One
    <3>6. One(due') + One(evaluate') + One(carries)
            <= One(due) + One(evaluate) + One(Carrying(calls[c]))
      <4> HIDE DEF carries, One
      <4> QED BY <3>2, <3>3, <3>4, <3>5
    <3> QED BY <1>0, <2>5, <3>6, CallsCount
  <2>6. \/ Moves(c, "answered", calls[c].rollout, AssignedAnswer(c))
        \/ Moves(c, "idle", None, None)
    BY <1>5 DEF AssignEvaluation, Answers, AssignedAnswer
  <2> QED BY <2>3, <2>5, <2>6 DEF Carrying
<1>6. CASE HandleSignals(c)
  <2>1. /\ UNCHANGED <<due, evaluate>> /\ calls[c].step = "answered"
        /\ Moves(c, "signalled", calls[c].rollout, calls[c].answer)
    BY <1>6 DEF HandleSignals, learnerVars
  <2> QED BY <1>2, <2>1 DEF Carrying
<1>7. CASE SettleRollout(c)
  <2>1. /\ due' = due /\ calls[c].step = "signalled" /\ Moves(c, "idle", None, None)
        /\ evaluate' = (evaluate \/ calls[c].answer.evaluation # None)
    BY <1>7 DEF SettleRollout, learnerVars
  <2>2. One(Carrying([step |-> "idle", rollout |-> None, answer |-> None])) = 0
    BY DEF One, Carrying
  <2>3. One(evaluate') <= One(evaluate) + One(Carrying(calls[c]))
    <3>1. CASE calls[c].answer.evaluation # None BY <2>1, <3>1 DEF One, Carrying
    <3>2. CASE calls[c].answer.evaluation = None
      <4>1. evaluate \in BOOLEAN BY DEF TypeInv, FlagsOK
      <4>2. One(evaluate') = One(evaluate) BY <2>1, <3>2, <4>1
      <4> HIDE DEF One
      <4> QED BY <1>1, <4>2
    <3> QED BY <3>1, <3>2
  <2>4. One(due') = One(due) BY <2>1 DEF One
  <2>5. One(due') + One(evaluate')
          + One(Carrying([step |-> "idle", rollout |-> None, answer |-> None]))
          <= One(due) + One(evaluate) + One(Carrying(calls[c]))
    <3> HIDE DEF One
    <3> QED BY <1>1, <2>2, <2>3, <2>4
  <2> QED BY <1>0, <2>1, <2>5, CallsCount
<1> QED BY <1>3, <1>4, <1>5, <1>6, <1>7 DEF OwnStep

\* Every step keeps the evaluations within their schedule.
LEMMA ScheduleKept ==
  ASSUME TypeInv, ScheduleInv, [ControlNext]_controlVars
  PROVE  ScheduleInv' /\ scheduled' \in Nat /\ evaluated' \in Nat
<1>0. evaluated \in Nat /\ scheduled \in Nat BY DEF TypeInv, HistoryOK
<1>1. CASE IngestEpisode
  <2>1. \/ due' = TRUE /\ scheduled' = scheduled + 1
        \/ UNCHANGED <<due, scheduled>>
    BY <1>1 DEF IngestEpisode
  <2>2. UNCHANGED <<calls, evaluate, collector, evaluated>>
    BY <1>1 DEF IngestEpisode, requestVars, spoolVars
  <2> QED BY <1>0, <2>1, <2>2, FlagsCount DEF One
<1>2. CASE Collect
  <2>1. CASE ClearEvaluate
    <3>1. evaluate /\ ~evaluate' /\ collector.step = "loop" /\ collector'.step = "cleared"
      BY <2>1 DEF ClearEvaluate, Step
    <3>2. UNCHANGED <<due, calls, evaluated, scheduled>>
      BY <2>1 DEF ClearEvaluate, learnerVars, spoolVars, history
    <3> QED BY <1>0, <3>1, <3>2, FlagsCount DEF One
  <2>2. CASE TakeRequest
    <3>1. evaluated' = evaluated + 1 /\ collector.step = "cleared" /\ collector'.step = "evaluating"
      BY <2>2 DEF TakeRequest
    <3>2. UNCHANGED <<due, calls, evaluate, scheduled>>
      BY <2>2 DEF TakeRequest, learnerVars, spoolVars
    <3> QED BY <1>0, <3>1, <3>2, FlagsCount DEF One
  <2>3. CASE NoEvaluation \/ StartEpisode \/ ResetExhausted \/ FlushRollout
             \/ FinishEpisode \/ InterruptEpisode \/ FinishEvaluation \/ LeaveCollection
    <3>0. SUFFICES UNCHANGED <<due, calls, evaluate, evaluated, scheduled>>
            /\ (collector' = collector \/ collector'.step \in {"loop", "start", "episode", "ended"})
      BY <1>0, FlagsCount DEF One
    <3> USE DEF learnerVars, requestVars, spoolVars, history, Step
    <3>1. CASE NoEvaluation BY <3>1 DEF NoEvaluation
    <3>2. CASE StartEpisode BY <3>2 DEF StartEpisode
    <3>3. CASE ResetExhausted BY <3>3 DEF ResetExhausted
    <3>4. CASE FlushRollout BY <3>4 DEF FlushRollout
    <3>5. CASE FinishEpisode BY <3>5 DEF FinishEpisode
    <3>6. CASE InterruptEpisode BY <3>6 DEF InterruptEpisode
    <3>7. CASE FinishEvaluation BY <3>7 DEF FinishEvaluation
    <3>8. CASE LeaveCollection BY <3>8 DEF LeaveCollection
    <3> QED BY <2>3, <3>1, <3>2, <3>3, <3>4, <3>5, <3>6, <3>7, <3>8
  <2> QED BY <1>2, <2>1, <2>2, <2>3 DEF Collect
<1>3. CASE \/ Poll \/ Update \/ Publish \/ LearnerStops \/ ExternalStop
           \/ UNCHANGED controlVars
  <2>1. UNCHANGED <<due, calls, evaluate, collector, evaluated, scheduled>>
    BY <1>3 DEF Poll, TimerExpires, AskPolicy, ReplacePolicy, ClearRefresh, Update, Publish,
                LearnerStops, ExternalStop, controlVars, learnerVars, requestVars, spoolVars,
                history
  <2> QED BY <1>0, <2>1, FlagsCount DEF One
<1>4. ASSUME NEW c \in Call, CallStepOf(c) PROVE ScheduleInv'
  BY <1>4, CallScheduleKept, LostCallsCount DEF CallStepOf
<1>5. ASSUME NEW c \in Call, CallStepOf(c)
      PROVE  scheduled' \in Nat /\ evaluated' \in Nat
  BY <1>0, <1>5 DEF CallStepOf, OwnStep, TakeRollout, Admit, Reject, Journal, AssignEvaluation,
              HandleSignals, SettleRollout, SubmitAgain, LoseCall, history
<1>6. CASE ~SomeCall
  <2>1. scheduled' \in Nat /\ evaluated' \in Nat
    <3> USE DEF history
    <3>1. CASE IngestEpisode BY <1>0, <3>1 DEF IngestEpisode
    <3>2. CASE Collect
      <4>1. CASE TakeRequest BY <1>0, <4>1 DEF TakeRequest
      <4>2. CASE ClearEvaluate \/ NoEvaluation \/ StartEpisode \/ ResetExhausted
        BY <1>0, <4>2 DEF ClearEvaluate, NoEvaluation, StartEpisode, ResetExhausted
      <4>3. CASE FlushRollout \/ FinishEpisode \/ InterruptEpisode \/ FinishEvaluation
                 \/ LeaveCollection
        BY <1>0, <4>3 DEF FlushRollout, FinishEpisode, InterruptEpisode, FinishEvaluation,
                          LeaveCollection
      <4> QED BY <3>2, <4>1, <4>2, <4>3 DEF Collect
    <3>3. CASE \/ Poll \/ Update \/ Publish \/ LearnerStops \/ ExternalStop
               \/ UNCHANGED controlVars
      BY <1>0, <3>3 DEF Poll, TimerExpires, AskPolicy, ReplacePolicy, ClearRefresh, Update,
                        Publish, LearnerStops, ExternalStop, controlVars
    <3> QED BY <1>6, <3>1, <3>2, <3>3, NextCases
  <2> QED BY <1>1, <1>2, <1>3, <1>6, <2>1, NextCases
<1> QED BY <1>4, <1>5, <1>6 DEF SomeCall

-----------------------------------------------------------------------------
ControlInv ==
    TypeInv /\ HonestInv /\ CheckedInv /\ ScheduleInv /\ AcceptedTransitionsAreRecent

\* The actor and the learner start in a state that satisfies the invariant.
LEMMA ControlStarts == ControlInit => ControlInv
<1> SUFFICES ASSUME ControlInit PROVE ControlInv OBVIOUS
<1>1. 0 \in Version BY ControlAssumption DEF ControlAssumption, Version
<1>2. LearnerOK /\ FlagsOK /\ PolicyOK /\ CollectorOK /\ SpoolOK /\ HistoryOK
  <2> USE <1>1 DEF ControlInit
  <2>1. LearnerOK BY DEF LearnerOK
  <2>2. FlagsOK BY DEF FlagsOK
  <2>3. PolicyOK BY DEF PolicyOK
  <2>4. CollectorOK BY DEF CollectorOK
  <2>5. SpoolOK /\ HistoryOK BY DEF SpoolOK, HistoryOK
  <2> QED BY <2>1, <2>2, <2>3, <2>4, <2>5
<1>3. \A c \in Call : calls[c] = IdleCall BY DEF ControlInit
<1>4. CallsOK
  BY <1>3 DEF ControlInit, CallsOK, CallState, CallSteps, Answering, IdleCall
<1>5. HonestInv /\ CheckedInv
  BY <1>3 DEF ControlInit, HonestInv, CheckedInv, Recently, IdleCall
<1>6. ScheduleInv
  <2>1. Carriers = {} BY <1>3 DEF Carriers, Carrying, IdleCall
  <2>2. OnTheirWay = 0 BY <2>1, FS_EmptySet DEF OnTheirWay, One, ControlInit
  <2> QED BY <2>2 DEF ControlInit, ScheduleInv
<1>7. AcceptedTransitionsAreRecent
  BY ControlAssumption DEF ControlAssumption, ControlInit, AcceptedTransitionsAreRecent
<1> QED BY <1>2, <1>4, <1>5, <1>6, <1>7 DEF ControlInv, TypeInv

\* Every step of the actor and the learner keeps the inductive invariant.
THEOREM ControlInductive == ControlSpec => []ControlInv
<1>1. ControlInit => ControlInv
  BY ControlStarts
<1>2. ControlInv /\ [ControlNext]_controlVars => ControlInv'
  <2> SUFFICES ASSUME ControlInv, [ControlNext]_controlVars PROVE ControlInv'
    OBVIOUS
  <2>1. TypeInv /\ HonestInv /\ CheckedInv /\ ScheduleInv /\ AcceptedTransitionsAreRecent
    BY DEF ControlInv
  <2>2. HistoryOK' BY <2>1, ScheduleKept, RecentKept DEF HistoryOK
  <2>3. TypeInv'
    BY <2>1, <2>2, LearnerKept, FlagsKept, PolicyKept, CollectorKept, SpoolKept, CallsKept
    DEF TypeInv
  <2> QED BY <2>1, <2>3, HonestKept, CheckedKept, ScheduleKept, RecentKept DEF ControlInv
<1> QED BY <1>1, <1>2, PTL DEF ControlSpec

\* The variables of the learner, the actor and its threads keep their types.
THEOREM ControlTypeCorrect == ControlSpec => []ControlTypeOK
<1>1. ControlInv => ControlTypeOK
  BY DEF ControlInv, TypeInv, LearnerOK, FlagsOK, PolicyOK, CollectorOK, SpoolOK, CallsOK,
         HistoryOK, ControlTypeOK, CallState, CallSteps
<1> QED BY <1>1, ControlInductive, PTL

\* The learner journals no transitions that were played with a policy more than HardLag updates
\* old when their lag was checked, however many senders there are, whatever handlers run on
\* after their calls failed and whatever is refreshed while an episode runs.
THEOREM Recent == ControlSpec => []AcceptedTransitionsAreRecent
<1>1. ControlInv => AcceptedTransitionsAreRecent BY DEF ControlInv
<1> QED BY <1>1, ControlInductive, PTL

\* The actor plays at most one evaluation for each that the learner scheduled, whatever answers
\* are lost and rollouts sent again.
THEOREM WithinSchedules == ControlSpec => []EvaluationsWithinSchedules
<1>1. ASSUME ControlInv PROVE EvaluationsWithinSchedules
  <2>1. Cardinality(Carriers) \in Nat
    <3>1. Carriers \subseteq Call BY DEF Carriers
    <3> QED BY <3>1, CallsFinite, FS_Subset, FS_CardinalityType
  <2>2. OnTheirWay \in Nat BY <2>1 DEF OnTheirWay, One
  <2> QED BY <1>1, <2>2
      DEF ControlInv, TypeInv, HistoryOK, ScheduleInv, EvaluationsWithinSchedules
<1> QED BY <1>1, ControlInductive, PTL

Key == {Enter, Restart, Left, Right, Brake, Gas}
Held == {Left, Right, Brake, Gas}

\* A timer that may still lift the brake is that of the last action, or loose; the controller
\* only knows the former.
TimersInv ==
    /\ tapTimer # NoTimer => tapTimer = tapped
    /\ \A t \in Tap : timers[t] = "running" => t = tapTimer \/ t \in loose
    /\ \A t \in Tap : timers[t] = "fired" => t \in loose \cup {tapped}

\* The keys are those of the last action, but for a brake that was lifted, unless a stroke has
\* failed.
KeysInv ==
    failures = 0 =>
        /\ down = pressed
        /\ pressed = asked \/ (pressed = asked \ {Brake} /\ lifted \in loose \cup {tapped})
        /\ closed => pressed = {}

KeyboardInv == KeyboardTypeOK /\ TimersInv /\ KeysInv

-----------------------------------------------------------------------------

\* No timer is not a timer.
LEMMA NoTimerIsNone == NoTimer \notin Tap
  BY KeyboardAssumption

\* What an action asks for are keys that can be held.
LEMMA TargetsAreKeys == ASSUME NEW target \in Targets PROVE target \subseteq Held
  BY KeyboardAssumption DEF Held

\* Failures are a number.
LEMMA FailuresAreCounted == failures \in 0 .. MaxFailures => failures \in Nat
  BY KeyboardAssumption

\* A set of keys brought into force: the types, and the keys when every stroke is sent.
LEMMA PressedOK ==
    ASSUME KeyboardTypeOK, NEW target \in SUBSET Held,
           SetPressed(target) \/ FailPressed(target)
    PROVE  /\ down' \subseteq Key
           /\ pressed' \subseteq Held
           /\ failures' \in 0 .. MaxFailures
           /\ failures' = 0 /\ (failures = 0 => down = pressed)
                => pressed' = target /\ down' = target /\ failures = 0
  <1>1. failures \in 0 .. MaxFailures /\ failures \in Nat /\ MaxFailures \in Nat
    BY KeyboardAssumption DEF KeyboardTypeOK
  <1>2. down \subseteq Key /\ pressed \subseteq Held /\ Held \subseteq Key
    BY DEF KeyboardTypeOK, Key, Held
  <1>3. CASE SetPressed(target)
    <2>1. pressed' = target /\ failures' = failures
      BY <1>3 DEF SetPressed
    <2>2. down' = (down \ (pressed \ target)) \cup (target \ pressed)
      BY <1>3 DEF SetPressed, Lifts, Presses
    <2>3. down = pressed => down' = target
      BY <2>2
    <2> QED BY <1>1, <1>2, <2>1, <2>2, <2>3
  <1>4. CASE FailPressed(target)
    <2>1. failures' = failures + 1 /\ failures < MaxFailures /\ pressed' = pressed
      BY <1>4 DEF FailPressed
    <2>2. PICK lifts \in SUBSET Lifts(target), presses \in SUBSET Presses(target) :
              down' = (down \ lifts) \cup presses
      BY <1>4 DEF FailPressed
    <2>3. down' \subseteq Key
      BY <1>2, <2>2 DEF Presses
    <2>4. failures' \in 0 .. MaxFailures /\ failures' # 0
      BY <1>1, <2>1
    <2> QED BY <1>2, <2>1, <2>3, <2>4
  <1> QED BY <1>3, <1>4

\* Once an action has the lock, no timer the controller knows is left running.
LEMMA CancelledOK ==
    ASSUME KeyboardTypeOK, TimersInv,
           NEW tap \in Tap \cup {NoTimer}, NEW target, Begin(target, tap)
    PROVE  /\ Cancelled \in [Tap -> {"unused", "running", "fired", "over"}]
           /\ \A t \in Tap : Cancelled[t] = "running" => t \in loose'
           /\ \A t \in Tap : Cancelled[t] = "fired" => t \in loose'
           /\ loose' \subseteq Tap
  BY DEF KeyboardTypeOK, TimersInv, Cancelled, Begin

\* The keyboard starts in a state that satisfies the invariant.
LEMMA KeyboardStarts == KeyboardInit => KeyboardInv
  <1> SUFFICES ASSUME KeyboardInit PROVE KeyboardInv
    OBVIOUS
  <1>1. 0 \in 0 .. MaxFailures
    BY KeyboardAssumption
  <1>2. KeyboardTypeOK
    BY <1>1 DEF KeyboardInit, KeyboardTypeOK
  <1>3. TimersInv
    BY DEF KeyboardInit, TimersInv
  <1>4. KeysInv
    BY DEF KeyboardInit, KeysInv
  <1> QED BY <1>2, <1>3, <1>4 DEF KeyboardInv

\* An action without a tap holds its keys.
LEMMA ApplyInv == ASSUME NEW target \in Targets PROVE KeyboardInv /\ Apply(target) => KeyboardInv'
  <1> SUFFICES ASSUME KeyboardInv, Apply(target) PROVE KeyboardInv'
    OBVIOUS
  <1> USE DEF KeyboardInv
  <1>1. target \in SUBSET Held
    BY TargetsAreKeys
  <1>2. SetPressed(target) \/ FailPressed(target)
    BY DEF Apply
  <1>3. Begin(target, NoTimer) /\ timers' = Cancelled /\ tapTimer' = NoTimer /\ closed' = closed
    BY DEF Apply
  <1>4. asked' = target /\ tapped' = NoTimer /\ lifted' = NoTimer /\ ~closed
    BY <1>3 DEF Begin
  <1>5. KeyboardTypeOK'
    BY <1>1, <1>2, <1>3, <1>4, PressedOK, CancelledOK DEF KeyboardTypeOK, Key, Held
  <1>6. TimersInv'
    BY <1>3, CancelledOK DEF TimersInv
  <1>7. KeysInv'
    BY <1>1, <1>2, <1>3, <1>4, PressedOK DEF KeysInv
  <1> QED BY <1>5, <1>6, <1>7

\* An action with a brake tap starts a timer.
LEMMA ApplyTapInv ==
    ASSUME NEW target \in Targets, NEW t \in Tap
    PROVE  KeyboardInv /\ ApplyTap(target, t) => KeyboardInv'
  <1> SUFFICES ASSUME KeyboardInv, ApplyTap(target, t) PROVE KeyboardInv'
    OBVIOUS
  <1> USE DEF KeyboardInv
  <1> DEFINE braking == target \cup {Brake}
  <1>1. braking \in SUBSET Held
    BY TargetsAreKeys DEF Held
  <1>2. SetPressed(braking) \/ FailPressed(braking)
    BY DEF ApplyTap
  <1>3. Begin(braking, t) /\ closed' = closed
    BY DEF ApplyTap
  <1>4. \/ timers' = [Cancelled EXCEPT ![t] = "running"] /\ tapTimer' = t
        \/ timers' = Cancelled /\ tapTimer' = NoTimer
    BY DEF ApplyTap
  <1> HIDE DEF braking
  <1>5. asked' = braking /\ tapped' = t /\ lifted' = NoTimer /\ ~closed
    BY <1>3 DEF Begin
  <1>6. /\ Cancelled \in [Tap -> {"unused", "running", "fired", "over"}]
        /\ \A s \in Tap : Cancelled[s] \in {"running", "fired"} => s \in loose'
        /\ loose' \subseteq Tap
    BY <1>3, CancelledOK
  <1>7. KeyboardTypeOK'
    <2>1. timers' \in [Tap -> {"unused", "running", "fired", "over"}]
      BY <1>4, <1>6
    <2> QED BY <1>1, <1>2, <1>3, <1>4, <1>5, <1>6, <2>1, PressedOK
            DEF KeyboardTypeOK, Key, Held
  <1>8. TimersInv'
    BY <1>4, <1>5, <1>6 DEF TimersInv
  <1>9. KeysInv'
    BY <1>1, <1>2, <1>3, <1>5, PressedOK DEF KeysInv
  <1> QED BY <1>7, <1>8, <1>9

\* A timer goes off and waits for the lock.
LEMMA FireInv == ASSUME NEW t \in Tap PROVE KeyboardInv /\ Fire(t) => KeyboardInv'
  <1> SUFFICES ASSUME KeyboardInv, Fire(t) PROVE KeyboardInv'
    OBVIOUS
  <1> USE DEF KeyboardInv
  <1>1. /\ timers[t] = "running" /\ timers' = [timers EXCEPT ![t] = "fired"]
        /\ UNCHANGED <<down, pressed, tapTimer, closed, failures, asked, tapped, loose, lifted>>
    BY DEF Fire
  <1>2. KeyboardTypeOK'
    BY <1>1 DEF KeyboardTypeOK
  <1>3. t \in loose \cup {tapped}
    BY <1>1, NoTimerIsNone DEF TimersInv
  <1>4. TimersInv'
    BY <1>1, <1>3 DEF TimersInv, KeyboardTypeOK
  <1>5. KeysInv'
    BY <1>1 DEF KeysInv
  <1> QED BY <1>2, <1>4, <1>5

\* A timer that has gone off lifts the brake, or finds that it was replaced.
LEMMA ReleaseInv == ASSUME NEW t \in Tap PROVE KeyboardInv /\ ReleaseBrake(t) => KeyboardInv'
  <1> SUFFICES ASSUME KeyboardInv, ReleaseBrake(t) PROVE KeyboardInv'
    OBVIOUS
  <1> USE DEF KeyboardInv
  <1> DEFINE target == pressed \ {Brake}
  <1>1. target \in SUBSET Held
    BY DEF KeyboardTypeOK, Held
  <1>2. SetPressed(target) \/ FailPressed(target)
    BY DEF ReleaseBrake
  <1> HIDE DEF target
  <1>3. /\ timers[t] = "fired" /\ timers' = [timers EXCEPT ![t] = "over"] /\ tapTimer' = NoTimer
        /\ lifted' = IF Brake \in pressed THEN t ELSE lifted
        /\ loose' = loose \cup ({tapTimer} \ {NoTimer, t})
        /\ closed' = closed /\ asked' = asked /\ tapped' = tapped
    BY DEF ReleaseBrake
  <1>4. KeyboardTypeOK'
    BY <1>1, <1>2, <1>3, PressedOK DEF KeyboardTypeOK, Key, Held
  <1>5. TimersInv'
    BY <1>3, NoTimerIsNone DEF TimersInv, KeyboardTypeOK
  <1>6. t \in loose' \cup {tapped'}
    BY <1>3 DEF TimersInv
  <1>7. KeysInv'
    <2> SUFFICES ASSUME failures' = 0
                 PROVE  /\ down' = pressed'
                        /\ pressed' = asked' \/ (pressed' = asked' \ {Brake}
                                                 /\ lifted' \in loose' \cup {tapped'})
                        /\ closed' => pressed' = {}
      BY DEF KeysInv
    <2>1. pressed' = target /\ down' = target /\ failures = 0
      BY <1>1, <1>2, PressedOK DEF KeysInv
    <2>2. CASE Brake \in pressed
      BY <2>1, <2>2, <1>3, <1>6 DEF KeysInv, target
    <2>3. CASE Brake \notin pressed
      BY <2>1, <2>3, <1>3 DEF KeysInv, target
    <2> QED BY <2>2, <2>3
  <1> QED BY <1>4, <1>5, <1>7

\* A stroke presses and lifts one key, or fails on the way.
LEMMA StrikeOK ==
    ASSUME failures \in 0 .. MaxFailures, NEW key \in Key, NEW keys \in SUBSET Key,
           Strike(key, keys)
    PROVE  /\ down' \subseteq Key
           /\ failures' \in 0 .. MaxFailures
           /\ failures' = 0 => failures = 0 /\ down' = keys
  BY KeyboardAssumption DEF Strike

\* A reset lifts what is held and strikes the restart key.
LEMMA ResetInv == KeyboardInv /\ Reset => KeyboardInv'
  <1> SUFFICES ASSUME KeyboardInv, Reset PROVE KeyboardInv'
    OBVIOUS
  <1> USE DEF KeyboardInv
  <1>1. /\ Begin({}, NoTimer) /\ timers' = Cancelled /\ tapTimer' = NoTimer /\ closed' = closed
        /\ FailPressed({}) \/ (pressed' = {} /\ Strike(Restart, down \ pressed))
    BY DEF Reset
  <1>2. asked' = {} /\ tapped' = NoTimer /\ lifted' = NoTimer /\ ~closed
    BY <1>1 DEF Begin
  <1>3. /\ down' \subseteq Key /\ pressed' \subseteq Held
        /\ failures' \in 0 .. MaxFailures
        /\ failures' = 0 => pressed' = {} /\ down' = {}
    <2>1. CASE FailPressed({})
      BY <2>1, PressedOK DEF KeysInv
    <2>2. CASE pressed' = {} /\ Strike(Restart, down \ pressed)
      <3>1. down \ pressed \in SUBSET Key /\ Restart \in Key /\ failures \in 0 .. MaxFailures
        BY DEF KeyboardTypeOK, Key
      <3>2. /\ down' \subseteq Key
            /\ failures' \in 0 .. MaxFailures
            /\ failures' = 0 => failures = 0 /\ down' = down \ pressed
        BY <2>2, <3>1, StrikeOK
      <3> QED BY <2>2, <3>2 DEF KeysInv
    <2> QED BY <1>1, <2>1, <2>2
  <1>4. KeyboardTypeOK'
    BY <1>1, <1>2, <1>3, CancelledOK DEF KeyboardTypeOK, Key, Held
  <1>5. TimersInv'
    BY <1>1, CancelledOK DEF TimersInv
  <1>6. KeysInv'
    BY <1>1, <1>2, <1>3 DEF KeysInv
  <1> QED BY <1>4, <1>5, <1>6

\* A finish is confirmed with the enter key.
LEMMA ConfirmInv == KeyboardInv /\ ConfirmFinish => KeyboardInv'
  <1> SUFFICES ASSUME KeyboardInv, ConfirmFinish PROVE KeyboardInv'
    OBVIOUS
  <1> USE DEF KeyboardInv
  <1>1. /\ Strike(Enter, down \ {Enter})
        /\ UNCHANGED <<pressed, tapTimer, timers, closed, asked, tapped, loose, lifted>>
    BY DEF ConfirmFinish
  <1>2. down \ {Enter} \in SUBSET Key /\ Enter \in Key /\ failures \in 0 .. MaxFailures
    BY DEF KeyboardTypeOK, Key
  <1>3. /\ down' \subseteq Key
        /\ failures' \in 0 .. MaxFailures
        /\ failures' = 0 => failures = 0 /\ down' = down \ {Enter}
    BY <1>1, <1>2, StrikeOK
  <1>4. Enter \notin pressed
    BY DEF KeyboardTypeOK, Enter, Left, Right, Brake, Gas
  <1>5. KeyboardTypeOK'
    BY <1>1, <1>3 DEF KeyboardTypeOK, Key
  <1>6. TimersInv'
    BY <1>1 DEF TimersInv
  <1>7. KeysInv'
    BY <1>1, <1>3, <1>4 DEF KeysInv
  <1> QED BY <1>5, <1>6, <1>7

\* Closing lifts everything.
LEMMA CloseInv == KeyboardInv /\ CloseKeyboard => KeyboardInv'
  <1> SUFFICES ASSUME KeyboardInv, CloseKeyboard PROVE KeyboardInv'
    OBVIOUS
  <1> USE DEF KeyboardInv
  <1>1. {} \in SUBSET Held
    OBVIOUS
  <1>2. SetPressed({}) \/ FailPressed({})
    BY DEF CloseKeyboard
  <1>3. Begin({}, NoTimer) /\ timers' = Cancelled /\ tapTimer' = NoTimer /\ closed' = TRUE
    BY DEF CloseKeyboard
  <1>4. asked' = {} /\ tapped' = NoTimer /\ lifted' = NoTimer
    BY <1>3 DEF Begin
  <1>5. KeyboardTypeOK'
    BY <1>1, <1>2, <1>3, <1>4, PressedOK, CancelledOK DEF KeyboardTypeOK, Key, Held
  <1>6. TimersInv'
    BY <1>3, CancelledOK DEF TimersInv
  <1>7. KeysInv'
    BY <1>1, <1>2, <1>3, <1>4, PressedOK DEF KeysInv
  <1> QED BY <1>5, <1>6, <1>7

\* Nothing changes.
LEMMA StutterInv == KeyboardInv /\ UNCHANGED keyboardVars => KeyboardInv'
  BY DEF KeyboardInv, keyboardVars, KeyboardTypeOK, TimersInv, KeysInv

-----------------------------------------------------------------------------

\* Which timers may still lift the brake, and which keys are held, is inductive.
THEOREM KeyboardInductive == KeyboardSpec => []KeyboardInv
  <1>1. KeyboardInv /\ [KeyboardNext]_keyboardVars => KeyboardInv'
    BY ApplyInv, ApplyTapInv, FireInv, ReleaseInv, ResetInv, ConfirmInv, CloseInv, StutterInv
       DEF KeyboardNext
  <1> QED BY KeyboardStarts, <1>1, PTL DEF KeyboardSpec

\* The variables keep their types.
THEOREM KeyboardTypeCorrect == KeyboardSpec => []KeyboardTypeOK
  <1>1. KeyboardInv => KeyboardTypeOK
    BY DEF KeyboardInv
  <1> QED BY KeyboardInductive, <1>1, PTL

\* As long as no stroke has failed, the game sees the keys of the last action; only the brake
\* may have been lifted, by the timer of that action or by one that could not be cancelled any
\* more (keyboard_control.py:201-239).
THEOREM KeysFollow == KeyboardSpec => []KeysFollowActions
  <1>1. KeyboardInv => KeysFollowActions
    BY DEF KeyboardInv, KeysInv, KeysFollowActions
  <1> QED BY KeyboardInductive, <1>1, PTL

-----------------------------------------------------------------------------
(* The telemetry client.  Every piece the plugin sends has a number, and    *)
(* what the client keeps and what is on its way are numbered on from the    *)
(* start of a packet, whichever pieces a lost connection took along.        *)

\* A piece, its number in all that the plugin has sent, and pieces in the order they were sent in
\* behind number k.
Piece == Nat \X (1 .. PacketSize)
Number(piece) == PacketSize * piece[1] + piece[2]
InOrder(s, k) ==
    s \in Seq(Piece) /\ \A i \in 1 .. Len(s) : Number(s[i]) = k + i

\* The packet of a frame.
PacketOf(f) == [i \in 1 .. PacketSize |-> <<f, i>>]

\* What the client has and what is on its way follow each other, and begin with frame f.
Stream(f) ==
    /\ InOrder(buffer, PacketSize * f)
    /\ InOrder(wire, PacketSize * f + Len(buffer))
    /\ PacketSize * f + Len(buffer) + Len(wire) <= PacketSize * plugin.frame + plugin.piece
    /\ peer \in {"open", "eof"} =>
         PacketSize * f + Len(buffer) + Len(wire) = PacketSize * plugin.frame + plugin.piece
    /\ stage # "drain" /\ Gave =>
         /\ read.frame < f
         /\ read.connection = connections => f = read.frame + 1
    /\ stage = "drain" =>
         /\ f > 0 /\ packet = PacketOf(f - 1)
         /\ Gave => /\ read.frame < f - 1
                    /\ read.connection = connections => f = read.frame + 2

TelemetryInv ==
    /\ TelemetryTypeOK
    /\ Connected => \E f \in Nat : Stream(f)
    /\ ~Connected => wire = <<>> /\ buffer = <<>> /\ stage # "drain"
    /\ peer = "reset" => wire = <<>>
    /\ stage = "drain" => reading = "latest"
    /\ Gave => read.frame \in Nat /\ read.frame <= plugin.frame
    /\ read.connection \in 0 .. connections

\* Packets are as long as they are.
LEMMA SizeIs == PacketSize \in Nat \ {0} /\ PacketSize \in Int
  BY TelemetryAssumption

\* An earlier frame ends before a later one begins.
LEMMA FramesApart ==
    ASSUME NEW a \in Int, NEW b \in Int, a < b
    PROVE  PacketSize * a + PacketSize <= PacketSize * b
  <1> DEFINE d == b - a - 1
             k == PacketSize
  <1>1. d \in Nat /\ b = a + d + 1 /\ k \in Nat
    BY SizeIs
  <1> HIDE DEF d, k
  <1>2. k * b = k * a + k * d + k
    BY <1>1
  <1>3. k * d \in Nat /\ k * a \in Int
    BY <1>1
  <1>4. k * a + k <= k * b
    BY <1>1, <1>2, <1>3
  <1> QED BY <1>4 DEF k

\* A number is of one piece of one frame only.
LEMMA NumbersApart ==
    ASSUME NEW a \in Int, NEW b \in Int, NEW i \in 1 .. PacketSize, NEW j \in 1 .. PacketSize,
           PacketSize * a + i = PacketSize * b + j
    PROVE  a = b /\ i = j
  <1> DEFINE x == PacketSize * a
             y == PacketSize * b
  <1>1. x \in Int /\ y \in Int /\ x + i = y + j
    BY SizeIs
  <1>2. a < b => x + PacketSize <= y
    BY FramesApart
  <1>3. b < a => y + PacketSize <= x
    BY FramesApart
  <1>4. a = b => x = y
    OBVIOUS
  <1> HIDE DEF x, y
  <1>5. ~(a < b) /\ ~(b < a)
    BY <1>1, <1>2, <1>3, SizeIs
  <1> QED BY <1>1, <1>4, <1>5

\* The frame that numbers until those of another do not exceed.
LEMMA FrameBound ==
    ASSUME NEW a \in Int, NEW b \in Int, NEW p \in 1 .. PacketSize,
           PacketSize * a <= PacketSize * b + p
    PROVE  a <= b + 1
  <1> SUFFICES ASSUME b + 1 < a PROVE FALSE
    OBVIOUS
  <1> DEFINE x == PacketSize * a
             y == PacketSize * b
             z == PacketSize * (b + 1)
  <1>1. z + PacketSize <= x
    BY FramesApart
  <1>2. y + PacketSize <= z
    BY FramesApart
  <1>3. x \in Int /\ y \in Int /\ z \in Int /\ x <= y + p
    BY SizeIs
  <1> HIDE DEF x, y, z
  <1> QED BY <1>1, <1>2, <1>3, SizeIs

\* What is left of pieces in order, and what was taken from them.
LEMMA InOrderParts ==
    ASSUME NEW s, NEW k \in Int, InOrder(s, k), NEW m \in 0 .. Len(s)
    PROVE  /\ InOrder(SubSeq(s, 1, m), k) /\ Len(SubSeq(s, 1, m)) = m
           /\ InOrder(SubSeq(s, m + 1, Len(s)), k + m)
           /\ Len(SubSeq(s, m + 1, Len(s))) = Len(s) - m
           /\ \A i \in 1 .. m : SubSeq(s, 1, m)[i] = s[i]
  <1>1. s \in Seq(Piece) /\ Len(s) \in Nat /\ m \in Nat
    BY DEF InOrder
  <1> DEFINE a == SubSeq(s, 1, m)
             b == SubSeq(s, m + 1, Len(s))
  <1>2. a \in Seq(Piece) /\ Len(a) = m /\ \A i \in 1 .. m : a[i] = s[i]
    BY <1>1
  <1>3. b \in Seq(Piece) /\ Len(b) = Len(s) - m /\ \A i \in 1 .. Len(s) - m : b[i] = s[m + i]
    BY <1>1
  <1> HIDE DEF a, b
  <1>4. InOrder(a, k)
    <2>1. \A i \in 1 .. m : i \in 1 .. Len(s)
      BY <1>1
    <2> QED BY <1>2, <2>1 DEF InOrder
  <1>5. InOrder(b, k + m)
    <2> SUFFICES ASSUME NEW i \in 1 .. Len(b) PROVE Number(b[i]) = (k + m) + i
      BY <1>3 DEF InOrder
    <2>1. m + i \in 1 .. Len(s) /\ b[i] = s[m + i]
      BY <1>1, <1>3
    <2>2. Number(s[m + i]) = k + (m + i)
      BY <2>1 DEF InOrder
    <2> QED BY <1>1, <2>1, <2>2
  <1> QED BY <1>2, <1>3, <1>4, <1>5 DEF a, b

\* Pieces in order, one behind the other.
LEMMA InOrderJoin ==
    ASSUME NEW s, NEW t, NEW k \in Int, InOrder(s, k), InOrder(t, k + Len(s))
    PROVE  InOrder(s \o t, k) /\ Len(s \o t) = Len(s) + Len(t)
  <1>1. s \in Seq(Piece) /\ t \in Seq(Piece) /\ Len(s) \in Nat /\ Len(t) \in Nat
    BY DEF InOrder
  <1> DEFINE u == s \o t
  <1>2. /\ u \in Seq(Piece) /\ Len(u) = Len(s) + Len(t)
        /\ \A i \in 1 .. Len(u) : u[i] = IF i <= Len(s) THEN s[i] ELSE t[i - Len(s)]
    BY <1>1
  <1> HIDE DEF u
  <1>3. ASSUME NEW i \in 1 .. Len(u) PROVE Number(u[i]) = k + i
    <2>1. CASE i <= Len(s)
      <3>1. i \in 1 .. Len(s) /\ u[i] = s[i]
        BY <1>1, <1>2, <2>1
      <3> QED BY <3>1 DEF InOrder
    <2>2. CASE ~(i <= Len(s))
      <3>1. i - Len(s) \in 1 .. Len(t) /\ u[i] = t[i - Len(s)]
        BY <1>1, <1>2, <2>2
      <3>2. Number(t[i - Len(s)]) = (k + Len(s)) + (i - Len(s))
        BY <3>1 DEF InOrder
      <3> QED BY <1>1, <3>1, <3>2
    <2> QED BY <2>1, <2>2
  <1>4. InOrder(u, k)
    BY <1>2, <1>3 DEF InOrder
  <1> QED BY <1>2, <1>4 DEF u

\* The first pieces behind a frame are the packet of the next.
LEMMA FirstPacket ==
    ASSUME NEW s, NEW f \in Nat, InOrder(s, PacketSize * f), Len(s) >= PacketSize
    PROVE  \A i \in 1 .. PacketSize : s[i] = <<f, i>>
  <1> SUFFICES ASSUME NEW i \in 1 .. PacketSize PROVE s[i] = <<f, i>>
    OBVIOUS
  <1>1. s \in Seq(Piece) /\ Len(s) \in Nat /\ i \in 1 .. Len(s)
    BY SizeIs DEF InOrder
  <1>2. s[i] \in Piece /\ Number(s[i]) = PacketSize * f + i
    BY <1>1 DEF InOrder
  <1>3. /\ s[i] = <<s[i][1], s[i][2]>> /\ s[i][1] \in Nat /\ s[i][2] \in 1 .. PacketSize
    BY <1>2 DEF Piece
  <1>4. PacketSize * s[i][1] + s[i][2] = PacketSize * f + i
    BY <1>2 DEF Number
  <1>5. s[i][1] = f /\ s[i][2] = i
    BY <1>3, <1>4, NumbersApart
  <1> QED BY <1>3, <1>5

\* The client starts in a state that satisfies the invariant.
LEMMA TelemetryStarts == TelemetryInit => TelemetryInv
  <1> SUFFICES ASSUME TelemetryInit PROVE TelemetryInv
    OBVIOUS
  <1>1. TelemetryTypeOK
    <2>1. plugin \in [frame : Nat, piece : 1 .. PacketSize] /\ 0 \in 0 .. MaxConnections
      BY TelemetryAssumption DEF TelemetryInit
    <2>2. <<>> \in Seq(Nat \X (1 .. PacketSize))
      OBVIOUS
    <2>3. wire = <<>> /\ buffer = <<>> /\ plugin \in [frame : Nat, piece : 1 .. PacketSize]
          /\ connections \in 0 .. MaxConnections
      BY <2>1 DEF TelemetryInit
    <2> QED BY <2>2, <2>3 DEF TelemetryInit, TelemetryTypeOK
  <1>2. ~Gave /\ ~Connected /\ read.connection \in 0 .. connections
    BY DEF TelemetryInit, Gave, Connected
  <1> QED BY <1>1, <1>2 DEF TelemetryInit, TelemetryInv

\* Pieces in order are pieces.
LEMMA InOrderTypes ==
    ASSUME NEW s, NEW k, InOrder(s, k)
    PROVE  s \in Seq(Nat \X (1 .. PacketSize)) /\ Len(s) \in Nat
  BY DEF InOrder, Piece

\* No pieces at all are in order behind any number.
LEMMA NothingInOrder == ASSUME NEW k PROVE InOrder(<<>>, k) /\ Len(<<>>) = 0
  <1>1. <<>> \in Seq(Piece) /\ Len(<<>>) = 0
    OBVIOUS
  <1> QED BY <1>1 DEF InOrder

\* The plugin sends the next piece.
LEMMA SendInv == TelemetryInv /\ SendPiece => TelemetryInv'
  <1> SUFFICES ASSUME TelemetryInv, SendPiece PROVE TelemetryInv'
    OBVIOUS
  <1>1. /\ TelemetryTypeOK /\ peer = "open" /\ Connected
        /\ wire' = Append(wire, <<plugin'.frame, plugin'.piece>>)
        /\ UNCHANGED <<peer, connections, buffer, reading, stage, packet, expired, read>>
    BY DEF TelemetryInv, SendPiece, Connected
  <1>2. PICK f \in Nat : Stream(f)
    BY <1>1 DEF TelemetryInv
  <1>3. plugin.frame \in Nat /\ plugin.piece \in 1 .. PacketSize
    BY <1>1 DEF TelemetryTypeOK
  <1> DEFINE k == PacketSize * plugin.frame
             x == <<plugin'.frame, plugin'.piece>>
             l == PacketSize * f
  <1>4. k \in Nat /\ l \in Nat /\ PacketSize * (plugin.frame + 1) = k + PacketSize
    BY <1>3, SizeIs
  <1>5. /\ plugin' \in [frame : Nat, piece : 1 .. PacketSize]
        /\ PacketSize * plugin'.frame + plugin'.piece = k + plugin.piece + 1
        /\ plugin.frame <= plugin'.frame
    <2>1. CASE plugin.piece < PacketSize
      <3>1. plugin' = [plugin EXCEPT !.piece = plugin.piece + 1]
        BY <2>1 DEF SendPiece
      <3>2. plugin'.frame = plugin.frame /\ plugin'.piece = plugin.piece + 1
        BY <1>1, <3>1 DEF TelemetryTypeOK
      <3>3. plugin' \in [frame : Nat, piece : 1 .. PacketSize]
        BY <1>1, <1>3, <2>1, <3>1, SizeIs DEF TelemetryTypeOK
      <3> QED BY <1>3, <1>4, <3>2, <3>3
    <2>2. CASE ~(plugin.piece < PacketSize)
      <3>1. plugin' = [frame |-> plugin.frame + 1, piece |-> 1]
        BY <2>2 DEF SendPiece
      <3>2. plugin.piece = PacketSize
        BY <1>3, <2>2, SizeIs
      <3>3. plugin'.frame = plugin.frame + 1 /\ plugin'.piece = 1
        BY <3>1
      <3>4. plugin' \in [frame : Nat, piece : 1 .. PacketSize]
        BY <1>3, <3>1, SizeIs
      <3> HIDE DEF k
      <3> QED BY <1>3, <1>4, <3>2, <3>3, <3>4, SizeIs
    <2> QED BY <2>1, <2>2
  <1>6. /\ InOrder(buffer, l) /\ InOrder(wire, l + Len(buffer)) /\ Len(buffer) \in Nat
        /\ Len(wire) \in Nat /\ l + Len(buffer) + Len(wire) = k + plugin.piece
    BY <1>1, <1>2, InOrderTypes DEF Stream
  <1>7. x \in Piece /\ Number(x) = k + plugin.piece + 1
    BY <1>5 DEF Piece, Number
  <1> HIDE DEF k, l, x
  <1>8. wire' = Append(wire, x)
    BY <1>1 DEF x
  <1>9. InOrder(wire', l + Len(buffer)) /\ Len(wire') = Len(wire) + 1
    <2>1. /\ wire' \in Seq(Piece) /\ Len(wire') = Len(wire) + 1 /\ wire'[Len(wire) + 1] = x
          /\ \A i \in 1 .. Len(wire) : wire'[i] = wire[i]
      BY <1>6, <1>7, <1>8 DEF InOrder
    <2>2. ASSUME NEW i \in 1 .. Len(wire') PROVE Number(wire'[i]) = (l + Len(buffer)) + i
      <3>1. i \in 1 .. Len(wire) \/ i = Len(wire) + 1
        BY <1>6, <2>1
      <3>2. (l + Len(buffer)) + (Len(wire) + 1) = k + plugin.piece + 1
        BY <1>3, <1>4, <1>6
      <3> QED BY <1>6, <1>7, <2>1, <3>1, <3>2 DEF InOrder
    <2> QED BY <2>1, <2>2 DEF InOrder
  <1>10. Stream(f)'
    <2>1. Gave' <=> Gave
      BY <1>1 DEF Gave
    <2>2. l + Len(buffer') + Len(wire') = PacketSize * plugin'.frame + plugin'.piece
      BY <1>1, <1>3, <1>4, <1>5, <1>6, <1>9
    <2>3. InOrder(buffer', l) /\ InOrder(wire', l + Len(buffer'))
      BY <1>1, <1>6, <1>9
    <2>4. l + Len(buffer') + Len(wire') <= PacketSize * plugin'.frame + plugin'.piece
      BY <1>3, <1>4, <1>5, <2>2
    <2> QED BY <1>1, <1>2, <2>1, <2>2, <2>3, <2>4 DEF Stream, l
  <1>11. TelemetryTypeOK'
    <2>1. wire' \in Seq(Nat \X (1 .. PacketSize))
      BY <1>9, InOrderTypes
    <2> QED BY <1>1, <1>5, <2>1 DEF TelemetryTypeOK
  <1>12. Gave' => read'.frame \in Nat /\ read'.frame <= plugin'.frame
    BY <1>1, <1>3, <1>5 DEF TelemetryInv, Gave
  <1> QED BY <1>1, <1>10, <1>11, <1>12 DEF TelemetryInv, Connected

\* The plugin goes away.
LEMMA LeavesInv ==
    ASSUME NEW how \in {"eof", "reset"} PROVE TelemetryInv /\ PeerLeaves(how) => TelemetryInv'
  <1> SUFFICES ASSUME TelemetryInv, PeerLeaves(how) PROVE TelemetryInv'
    OBVIOUS
  <1>1. /\ TelemetryTypeOK /\ peer = "open" /\ Connected /\ peer' = how
        /\ wire' = IF how = "reset" THEN <<>> ELSE wire
        /\ UNCHANGED <<plugin, connections, buffer, reading, stage, packet, expired, read>>
    BY DEF TelemetryInv, PeerLeaves, Connected
  <1>2. PICK f \in Nat : Stream(f)
    BY <1>1 DEF TelemetryInv
  <1>3. /\ InOrder(buffer, PacketSize * f) /\ InOrder(wire, PacketSize * f + Len(buffer))
        /\ Len(wire) \in Nat /\ Len(buffer) \in Nat
    BY <1>2, InOrderTypes DEF Stream
  <1>4. InOrder(wire', PacketSize * f + Len(buffer)) /\ Len(wire') <= Len(wire)
    BY <1>1, <1>3, NothingInOrder
  <1>5. Stream(f)'
    <2> DEFINE l == PacketSize * f
               k == PacketSize * plugin.frame + plugin.piece
    <2>0. plugin.frame \in Nat /\ plugin.piece \in Nat
      BY <1>1, SizeIs DEF TelemetryTypeOK
    <2>1. l \in Nat /\ k \in Nat
      BY <2>0, SizeIs
    <2>9. Len(wire') \in Nat
      BY <1>4, InOrderTypes
    <2>2. l + Len(buffer) + Len(wire) <= k
          /\ (peer' \in {"open", "eof"} => l + Len(buffer) + Len(wire') = k)
      BY <1>1, <1>2 DEF Stream
    <2> HIDE DEF l, k
    <2>3. l + Len(buffer) + Len(wire') <= k
      BY <1>3, <1>4, <2>1, <2>2, <2>9
    <2>4. Gave' <=> Gave
      BY <1>1 DEF Gave
    <2> QED BY <1>1, <1>2, <1>3, <1>4, <2>2, <2>3, <2>4 DEF Stream, l, k
  <1>6. TelemetryTypeOK'
    <2>1. wire' \in Seq(Nat \X (1 .. PacketSize))
      BY <1>4, InOrderTypes
    <2> QED BY <1>1, <2>1 DEF TelemetryTypeOK
  <1>7. Gave' => read'.frame \in Nat /\ read'.frame <= plugin'.frame
    BY <1>1 DEF TelemetryInv, Gave
  <1> QED BY <1>1, <1>5, <1>6, <1>7 DEF TelemetryInv, Connected

\* A step of the client that leaves the connection alone.
LEMMA AloneInv ==
    ASSUME TelemetryInv,
           UNCHANGED <<plugin, wire, peer, connections, buffer, packet, read>>,
           reading' \in {"latest", "next"}, stage' \in {"receive", "drain", "failed"},
           expired' \in BOOLEAN, stage' = "drain" <=> stage = "drain",
           stage' = "drain" => reading' = "latest"
    PROVE  TelemetryInv'
  <1>1. TelemetryTypeOK'
    BY DEF TelemetryInv, TelemetryTypeOK
  <1>2. Gave' <=> Gave
    BY DEF Gave
  <1>3. ASSUME Connected PROVE \E f \in Nat : Stream(f)'
    <2>1. PICK f \in Nat : Stream(f)
      BY <1>3 DEF TelemetryInv
    <2>2. Stream(f)'
      BY <1>2, <2>1 DEF Stream
    <2> QED BY <2>2
  <1> QED BY <1>1, <1>2, <1>3 DEF TelemetryInv, Connected

\* A step that closes the connection.
LEMMA HangUpInv ==
    ASSUME TelemetryInv, Close, UNCHANGED <<plugin, connections>>,
           reading' \in {"idle", "latest", "next"}, stage' \in {"receive", "failed"},
           expired' \in BOOLEAN,
           UNCHANGED read \/ (~Gave' /\ read'.connection = 0)
    PROVE  TelemetryInv'
  <1>1. peer' = "none" /\ wire' = <<>> /\ buffer' = <<>>
    BY DEF Close
  <1>2. TelemetryTypeOK'
    <2>1. <<>> \in Seq(Nat \X (1 .. PacketSize))
      OBVIOUS
    <2> QED BY <1>1, <2>1 DEF TelemetryInv, TelemetryTypeOK
  <1>3. Gave' => Gave /\ UNCHANGED read
    BY DEF Gave
  <1>4. connections \in Nat
    BY TelemetryAssumption DEF TelemetryInv, TelemetryTypeOK
  <1> QED BY <1>1, <1>2, <1>3, <1>4 DEF TelemetryInv, Connected

\* A connection begins with a new packet, behind everything the plugin has sent.
LEMMA ConnectInv == TelemetryInv /\ Connect => TelemetryInv'
  <1> SUFFICES ASSUME TelemetryInv, Connect PROVE TelemetryInv'
    OBVIOUS
  <1>1. /\ TelemetryTypeOK /\ ~Connected /\ connections < MaxConnections
        /\ connections' = connections + 1 /\ peer' = "open" /\ wire' = <<>> /\ buffer = <<>>
        /\ plugin' = [plugin EXCEPT !.piece = PacketSize]
        /\ stage = "receive"
        /\ UNCHANGED <<buffer, reading, stage, packet, expired, read>>
    BY DEF TelemetryInv, Connect
  <1>2. /\ plugin' \in [frame : Nat, piece : 1 .. PacketSize] /\ plugin.frame \in Nat
        /\ plugin'.frame = plugin.frame /\ plugin'.piece = PacketSize
        /\ connections \in Nat
    <2>1. plugin \in [frame : Nat, piece : 1 .. PacketSize] /\ connections \in 0 .. MaxConnections
      BY <1>1 DEF TelemetryTypeOK
    <2>2. PacketSize \in 1 .. PacketSize /\ plugin.frame \in Nat
      BY <2>1, SizeIs
    <2>3. plugin' = [frame |-> plugin.frame, piece |-> PacketSize]
      BY <1>1, <2>1
    <2>4. connections \in Nat
      BY <2>1, TelemetryAssumption
    <2> QED BY <2>2, <2>3, <2>4
  <1>3. TelemetryTypeOK'
    <2>1. <<>> \in Seq(Nat \X (1 .. PacketSize)) /\ connections + 1 \in 0 .. MaxConnections
      BY <1>1, <1>2, TelemetryAssumption
    <2> QED BY <1>1, <1>2, <2>1 DEF TelemetryTypeOK
  <1>4. Gave' <=> Gave
    BY <1>1 DEF Gave
  <1>5. /\ Gave => read.frame \in Nat /\ read.frame <= plugin.frame
        /\ read.connection \in 0 .. connections
    BY DEF TelemetryInv
  <1>6. PICK g \in Nat : g = plugin.frame + 1
    BY <1>2
  <1>7. Stream(g)'
    <2> DEFINE l == PacketSize * g
               k == PacketSize * plugin'.frame + plugin'.piece
    <2>1. l \in Nat /\ l = k
      BY <1>2, <1>6, SizeIs
    <2>2. (Gave => read.frame < g) /\ read.connection # connections + 1
      BY <1>2, <1>5, <1>6
    <2> HIDE DEF l, k
    <2>3. InOrder(buffer', l) /\ Len(buffer') = 0 /\ Len(wire') = 0
      BY <1>1, NothingInOrder
    <2>4. InOrder(wire', l + Len(buffer'))
      BY <1>1, NothingInOrder
    <2>5. l + Len(buffer') + Len(wire') <= k /\ l + Len(buffer') + Len(wire') = k
      BY <2>1, <2>3
    <2> QED BY <1>1, <1>4, <2>2, <2>3, <2>4, <2>5 DEF Stream, l, k
  <1>9. read'.connection \in 0 .. connections'
    BY <1>1, <1>2, <1>5
  <1> QED BY <1>1, <1>2, <1>3, <1>4, <1>5, <1>7, <1>9 DEF TelemetryInv, Connected

\* Pieces arrive.
LEMMA ReceiveInv == TelemetryInv /\ ReceivePieces => TelemetryInv'
  <1> SUFFICES ASSUME TelemetryInv, ReceivePieces PROVE TelemetryInv'
    OBVIOUS
  <1>1. /\ TelemetryTypeOK /\ Connected /\ stage = "receive"
        /\ UNCHANGED <<plugin, peer, connections, reading, stage, packet, expired, read>>
    BY DEF TelemetryInv, ReceivePieces
  <1>2. PICK f \in Nat : Stream(f)
    BY <1>1 DEF TelemetryInv
  <1>3. PICK c \in 1 .. PacketSize - Len(buffer) :
          /\ c <= Len(wire) /\ buffer' = buffer \o SubSeq(wire, 1, c)
          /\ wire' = SubSeq(wire, c + 1, Len(wire))
    BY DEF ReceivePieces
  <1> DEFINE l == PacketSize * f
             k == PacketSize * plugin.frame + plugin.piece
             a == SubSeq(wire, 1, c)
  <1>4. l \in Nat
    BY SizeIs
  <1>5. /\ InOrder(buffer, l) /\ InOrder(wire, l + Len(buffer))
        /\ l + Len(buffer) + Len(wire) <= k
        /\ peer \in {"open", "eof"} => l + Len(buffer) + Len(wire) = k
    BY <1>2 DEF Stream
  <1>6. UNCHANGED k
    BY <1>1
  <1> HIDE DEF l, k
  <1>7. /\ Len(buffer) \in Nat /\ Len(wire) \in Nat /\ c \in 0 .. Len(wire)
        /\ l + Len(buffer) \in Int
    BY <1>3, <1>4, <1>5, InOrderTypes
  <1>8. InOrder(a, l + Len(buffer)) /\ Len(a) = c
    BY <1>5, <1>7, InOrderParts
  <1>9. InOrder(wire', (l + Len(buffer)) + c) /\ Len(wire') = Len(wire) - c
    BY <1>3, <1>5, <1>7, InOrderParts
  <1>10. buffer' = buffer \o a
    BY <1>3
  <1> HIDE DEF a
  <1>11. InOrder(buffer', l) /\ Len(buffer') = Len(buffer) + c
    <2>1. l \in Int /\ InOrder(buffer, l) /\ InOrder(a, l + Len(buffer))
      BY <1>4, <1>5, <1>8
    <2>2. InOrder(buffer \o a, l) /\ Len(buffer \o a) = Len(buffer) + Len(a)
      BY <2>1, InOrderJoin
    <2> QED BY <1>8, <1>10, <2>2
  <1>12. l + Len(buffer') = (l + Len(buffer)) + c
    BY <1>4, <1>7, <1>11
  <1>13. l + Len(buffer') + Len(wire') = l + Len(buffer) + Len(wire)
    BY <1>4, <1>7, <1>9, <1>11
  <1>14. Gave' <=> Gave
    BY <1>1 DEF Gave
  <1>15. InOrder(wire', l + Len(buffer'))
    BY <1>9, <1>12
  <1>16. Stream(f)'
    <2>1. /\ l + Len(buffer') + Len(wire') <= k
          /\ peer' \in {"open", "eof"} => l + Len(buffer') + Len(wire') = k
      BY <1>1, <1>5, <1>13
    <2>2. k = PacketSize * plugin'.frame + plugin'.piece
      BY <1>1 DEF k
    <2>3. stage # "drain" /\ (Gave => /\ read.frame < f
                                      /\ read.connection = connections => f = read.frame + 1)
      BY <1>1, <1>2 DEF Stream
    <2> QED BY <1>1, <1>11, <1>14, <1>15, <2>1, <2>2, <2>3 DEF Stream, l
  <1>17. TelemetryTypeOK'
    <2>1. buffer' \in Seq(Nat \X (1 .. PacketSize)) /\ wire' \in Seq(Nat \X (1 .. PacketSize))
      BY <1>9, <1>11, InOrderTypes
    <2> QED BY <1>1, <2>1 DEF TelemetryTypeOK
  <1>18. peer = "reset" => FALSE
    <2>1. peer = "reset" => Len(wire) = 0
      BY DEF TelemetryInv
    <2> QED BY <1>3, <1>7, <2>1
  <1> QED BY <1>1, <1>14, <1>16, <1>17, <1>18 DEF TelemetryInv, Connected

\* A frame is given: later than the frames given before, and with those of its connection that
\* lie between them counted.
FrameGiven(f) ==
    /\ read' = [how |-> reading, frame |-> f, pieces |-> PacketOf(f),
                skipped |-> read'.skipped, connection |-> connections]
    /\ f \in Nat /\ f <= plugin.frame /\ reading \in {"latest", "next"}
    /\ Gave => /\ read.frame < f
               /\ read.connection = connections => read'.skipped = f - read.frame - 1

\* Such a frame is what FramesAreAccounted asks for.
LEMMA GivenIsAccounted ==
    ASSUME NEW f, FrameGiven(f)
    PROVE  /\ Gave' /\ FrameIsWhole' /\ read'.frame = f /\ read'.connection = connections
           /\ Gave => read'.frame > read.frame
           /\ Gave /\ read'.connection = read.connection =>
                read'.skipped = read'.frame - read.frame - 1
  <1>1. /\ read'.how = reading /\ read'.frame = f /\ read'.pieces = PacketOf(f)
        /\ read'.connection = connections
    BY DEF FrameGiven
  <1>2. Gave' /\ FrameIsWhole'
    BY <1>1 DEF FrameGiven, Gave, FrameIsWhole, PacketOf
  <1> QED BY <1>1, <1>2 DEF FrameGiven

\* The first packet is taken off the buffer.
LEMMA TakeParts ==
    ASSUME TelemetryInv, TakePacket
    PROVE  /\ Connected /\ \E f \in Nat : /\ Stream(f) /\ Take(buffer) = PacketOf(f)
                                         /\ f <= plugin.frame
                                         /\ InOrder(buffer', PacketSize * (f + 1))
                                         /\ Len(buffer') = Len(buffer) - PacketSize
                                         /\ Len(buffer) \in Nat
  <1>1. /\ TelemetryTypeOK /\ Len(buffer) >= PacketSize /\ buffer' = Rest(buffer)
    BY DEF TelemetryInv, TakePacket
  <1>2. Connected
    <2>1. Len(<<>>) = 0
      OBVIOUS
    <2> QED BY <1>1, <2>1, SizeIs DEF TelemetryInv
  <1>3. PICK f \in Nat : Stream(f)
    BY <1>2 DEF TelemetryInv
  <1> DEFINE l == PacketSize * f
             k == PacketSize * plugin.frame
  <1>4. InOrder(buffer, l) /\ Len(buffer) \in Nat /\ Len(wire) \in Nat
        /\ l + Len(buffer) + Len(wire) <= k + plugin.piece
    BY <1>3, InOrderTypes DEF Stream
  <1>5. plugin.frame \in Nat /\ plugin.piece \in 1 .. PacketSize
    BY <1>1 DEF TelemetryTypeOK
  <1>6. l \in Nat /\ k \in Nat /\ PacketSize * (f + 1) = l + PacketSize
    BY <1>5, SizeIs
  <1>7. PacketSize \in 0 .. Len(buffer)
    BY <1>1, <1>4, SizeIs
  <1>8. Take(buffer) = PacketOf(f)
    <2>1. \A i \in 1 .. PacketSize : buffer[i] = <<f, i>>
      BY <1>1, <1>4, FirstPacket
    <2>2. buffer \in Seq(Nat \X (1 .. PacketSize))
      BY <1>1 DEF TelemetryTypeOK
    <2>3. Take(buffer) = [i \in 1 .. PacketSize |-> buffer[i]]
      BY <1>4, <1>7, <2>2, SizeIs DEF Take
    <2> QED BY <2>1, <2>3 DEF PacketOf
  <1>9. PacketSize * (f + 1) <= PacketSize * plugin.frame + plugin.piece
    <2> HIDE DEF l, k
    <2>1. l + PacketSize <= k + plugin.piece
      BY <1>1, <1>4, <1>5, <1>6, SizeIs
    <2> QED BY <1>6, <2>1 DEF k
  <1>10. f <= plugin.frame
    <2>1. f + 1 <= plugin.frame + 1
      BY <1>5, <1>9, FrameBound
    <2> QED BY <1>5, <2>1
  <1>11. InOrder(buffer', l + PacketSize) /\ Len(buffer') = Len(buffer) - PacketSize
    <2>1. l \in Int /\ InOrder(buffer, l)
      BY <1>4, <1>6
    <2> HIDE DEF l
    <2>2. /\ InOrder(SubSeq(buffer, PacketSize + 1, Len(buffer)), l + PacketSize)
          /\ Len(SubSeq(buffer, PacketSize + 1, Len(buffer))) = Len(buffer) - PacketSize
      BY <1>7, <2>1, InOrderParts
    <2> QED BY <1>1, <2>2 DEF Rest
  <1> QED BY <1>2, <1>3, <1>4, <1>6, <1>8, <1>10, <1>11

\* What DrainQueue finds: whole packets behind the one already taken, and the rest.
LEMMA DrainParts ==
    ASSUME TelemetryInv, DrainQueue
    PROVE  \E f \in Nat, w \in Nat :
             /\ Stream(f) /\ f > 0 /\ w = Whole(buffer \o wire)
             /\ NewestPacket(buffer \o wire) = PacketOf(f - 1 + w)
             /\ f - 1 + w <= plugin.frame
             /\ w * PacketSize \in 0 .. Len(buffer \o wire)
             /\ InOrder(buffer \o wire, PacketSize * f)
             /\ Len(buffer \o wire) = Len(buffer) + Len(wire)
             /\ Len(buffer) \in Nat /\ Len(wire) \in Nat
  <1>1. TelemetryTypeOK /\ stage = "drain" /\ Connected
    BY DEF TelemetryInv, DrainQueue, Connected
  <1>2. PICK f \in Nat : Stream(f)
    BY <1>1 DEF TelemetryInv
  <1> DEFINE l == PacketSize * f
             s == buffer \o wire
             w == Whole(s)
             k == PacketSize * plugin.frame
  <1>3. /\ InOrder(buffer, l) /\ InOrder(wire, l + Len(buffer)) /\ f > 0
        /\ packet = PacketOf(f - 1)
        /\ l + Len(buffer) + Len(wire) <= k + plugin.piece
    BY <1>1, <1>2 DEF Stream
  <1>4. Len(buffer) \in Nat /\ Len(wire) \in Nat /\ l \in Int
    BY <1>3, InOrderTypes, SizeIs
  <1>5. plugin.frame \in Nat /\ plugin.piece \in 1 .. PacketSize /\ k \in Nat
    <2>1. plugin.frame \in Nat /\ plugin.piece \in 1 .. PacketSize
      BY <1>1 DEF TelemetryTypeOK
    <2> QED BY <2>1, SizeIs
  <1>6. InOrder(s, l) /\ Len(s) = Len(buffer) + Len(wire)
    <2> HIDE DEF l
    <2> QED BY <1>3, <1>4, InOrderJoin
  <1> HIDE DEF s
  <1>7. w \in Nat /\ w * PacketSize <= Len(s)
    <2>1. Len(s) \in Nat
      BY <1>4, <1>6
    <2> QED BY <2>1, SizeIs DEF Whole
  <1> HIDE DEF w
  <1>8. /\ w * PacketSize \in Nat /\ PacketSize * (f + w) = l + w * PacketSize
        /\ f + w \in Int
    <2>1. w * PacketSize \in Nat
      BY <1>7, SizeIs
    <2>2. PacketSize * (f + w) = PacketSize * f + PacketSize * w /\ PacketSize * w = w * PacketSize
      BY <1>7, SizeIs
    <2> QED BY <1>7, <2>1, <2>2
  <1>9. f - 1 + w <= plugin.frame
    <2> DEFINE x == w * PacketSize
               y == PacketSize * (f + w)
    <2>1. x \in Nat /\ y = l + x /\ x <= Len(s)
      BY <1>7, <1>8
    <2> HIDE DEF x, y, l, k
    <2>2. y <= k + plugin.piece
      BY <1>3, <1>4, <1>5, <1>6, <2>1
    <2>3. f + w <= plugin.frame + 1
      BY <1>5, <1>8, <2>2, FrameBound DEF y, k
    <2> QED BY <1>5, <1>7, <2>3
  <1>10. NewestPacket(s) = PacketOf(f - 1 + w)
    <2>1. CASE w = 0
      BY <1>3, <2>1 DEF NewestPacket, w
    <2>2. CASE w # 0
      <3> DEFINE m == (w - 1) * PacketSize
                 t == SubSeq(s, m + 1, Len(s))
                 g == f - 1 + w
      <3>1. m \in Nat /\ w * PacketSize = m + PacketSize /\ PacketSize * g = l + m /\ g \in Nat
        <4>1. w - 1 \in Nat /\ g = f + (w - 1)
          BY <1>7, <2>2
        <4>2. PacketSize * (f + (w - 1)) = PacketSize * f + PacketSize * (w - 1)
          BY <4>1, SizeIs
        <4>3. PacketSize * (w - 1) = (w - 1) * PacketSize
          BY <4>1, SizeIs
        <4>4. m \in Nat
          BY <4>1, SizeIs
        <4>5. w * PacketSize = (w - 1) * PacketSize + PacketSize
          BY <1>7, SizeIs
        <4>6. g \in Nat
          BY <4>1
        <4> QED BY <4>1, <4>2, <4>3, <4>4, <4>5, <4>6
      <3> HIDE DEF l
      <3>2. m \in 0 .. Len(s) /\ Len(s) \in Nat
        <4> HIDE DEF m
        <4> QED BY <1>4, <1>6, <1>7, <3>1, SizeIs
      <3>3. InOrder(t, l + m) /\ Len(t) = Len(s) - m
        <4> HIDE DEF m
        <4> QED BY <1>4, <1>6, <3>2, InOrderParts
      <3>4. Len(t) >= PacketSize
        <4> HIDE DEF m, t
        <4> QED BY <1>7, <3>1, <3>2, <3>3, SizeIs
      <3>5. \A i \in 1 .. PacketSize : t[i] = <<g, i>>
        <4> HIDE DEF m, t
        <4>1. InOrder(t, PacketSize * g)
          BY <3>1, <3>3
        <4> HIDE DEF g
        <4> QED BY <3>1, <3>4, <4>1, FirstPacket
      <3>6. s \in Seq(Piece)
        BY <1>6 DEF InOrder
      <3>7. \A i \in 1 .. PacketSize : t[i] = s[m + i]
        <4> HIDE DEF m
        <4> QED BY SMTT(20), <3>1, <3>2, <3>3, <3>4, <3>6, SizeIs
      <3>8. NewestPacket(s) = SubSeq(s, m + 1, w * PacketSize)
        BY <2>2 DEF NewestPacket, w
      <3>9. NewestPacket(s) = [i \in 1 .. PacketSize |-> s[m + i]]
        <4> HIDE DEF m
        <4>1. m + PacketSize <= Len(s)
          BY <1>7, <3>1
        <4>2. NewestPacket(s) = SubSeq(s, m + 1, m + PacketSize)
          BY <3>1, <3>8
        <4>3. SubSeq(s, m + 1, m + PacketSize)
                = [i \in 1 .. (m + PacketSize) - (m + 1) + 1 |-> s[(m + 1) + i - 1]]
          <5>1. m + PacketSize \in 0 .. Len(s) /\ m + 1 \in Nat
            BY <3>1, <3>2, <4>1, SizeIs
          <5> HIDE DEF m
          <5> DEFINE u == SubSeq(s, m + 1, m + PacketSize)
          <5>2. /\ u \in Seq(Piece) /\ Len(u) = PacketSize
                /\ \A i \in 1 .. PacketSize : u[i] = s[(m + 1) + i - 1]
            BY <3>1, <3>2, <3>6, <5>1, SizeIs
          <5>3. (m + PacketSize) - (m + 1) + 1 = PacketSize
            BY <3>1, SizeIs
          <5> HIDE DEF u
          <5>4. u = [i \in 1 .. PacketSize |-> s[(m + 1) + i - 1]]
            <6>1. u = [i \in 1 .. Len(u) |-> u[i]]
              BY <5>2
            <6> QED BY <5>2, <6>1
          <5> QED BY <5>3, <5>4 DEF u
        <4>4. (m + PacketSize) - (m + 1) + 1 = PacketSize
          BY <3>1, SizeIs
        <4>5. \A i \in 1 .. PacketSize : (m + 1) + i - 1 = m + i
          BY <3>1
        <4> QED BY <4>2, <4>3, <4>4, <4>5
      <3> HIDE DEF m, t, g
      <3>10. NewestPacket(s) = [i \in 1 .. PacketSize |-> <<g, i>>]
        BY <3>5, <3>7, <3>9
      <3> QED BY <3>10 DEF PacketOf, g
    <2> QED BY <2>1, <2>2
  <1>11. w * PacketSize \in 0 .. Len(s)
    <2>1. Len(s) \in Nat
      BY <1>4, <1>6
    <2> QED BY <1>7, <1>8, <2>1
  <1> QED BY <1>2, <1>3, <1>4, <1>6, <1>7, <1>9, <1>10, <1>11 DEF s, w

\* The first packet is taken; the frame is given, or more is awaited.
LEMMA TakeInv == TelemetryInv /\ TakePacket => TelemetryInv'
  <1> SUFFICES ASSUME TelemetryInv, TakePacket PROVE TelemetryInv'
    OBVIOUS
  <1>1. PICK f \in Nat : /\ Stream(f) /\ Take(buffer) = PacketOf(f) /\ f <= plugin.frame
                         /\ InOrder(buffer', PacketSize * (f + 1))
                         /\ Len(buffer') = Len(buffer) - PacketSize /\ Len(buffer) \in Nat
    BY TakeParts
  <1>2. /\ TelemetryTypeOK /\ Connected /\ stage = "receive"
        /\ reading \in {"latest", "next"} /\ connections \in Nat
        /\ UNCHANGED <<plugin, wire, peer, connections, expired>>
    BY TakeParts, TelemetryAssumption DEF TelemetryInv, TakePacket, TelemetryTypeOK
  <1>3. PICK g \in Nat : g = f + 1
    OBVIOUS
  <1> DEFINE l == PacketSize * f
             m == PacketSize * g
             k == PacketSize * plugin.frame + plugin.piece
  <1>4. m = l + PacketSize /\ l \in Nat
    BY <1>3, SizeIs
  <1>5. /\ InOrder(wire, l + Len(buffer)) /\ l + Len(buffer) + Len(wire) <= k
        /\ peer \in {"open", "eof"} => l + Len(buffer) + Len(wire) = k
        /\ Gave => read.frame < f /\ (read.connection = connections => f = read.frame + 1)
    BY <1>1, <1>2 DEF Stream
  <1>6. InOrder(buffer', m)
    BY <1>1, <1>3
  <1>7. UNCHANGED k
    BY <1>2
  <1> HIDE DEF l, m, k
  <1>8. m + Len(buffer') = l + Len(buffer) /\ Len(wire) \in Nat
    BY <1>1, <1>4, <1>5, InOrderTypes, SizeIs
  <1>9. /\ InOrder(wire', m + Len(buffer')) /\ m + Len(buffer') + Len(wire') <= k
        /\ peer' \in {"open", "eof"} => m + Len(buffer') + Len(wire') = k
    BY <1>2, <1>5, <1>8
  <1>10. buffer' \in Seq(Nat \X (1 .. PacketSize))
    BY <1>6, InOrderTypes
  <1>11. k = PacketSize * plugin'.frame + plugin'.piece
    BY <1>2 DEF k
  <1>12. CASE reading = "next"
    <2>1. reading' = "idle" /\ Returned(Take(buffer), 0) /\ UNCHANGED <<stage, packet>>
      BY <1>12 DEF TakePacket
    <2>2. read' = [how |-> reading, frame |-> f, pieces |-> PacketOf(f),
                   skipped |-> 0, connection |-> connections]
      <3>1. PacketOf(f)[1][1] = f
        BY SizeIs DEF PacketOf
      <3> QED BY <1>1, <2>1, <3>1 DEF Returned
    <2>3. read'.frame = f /\ read'.connection = connections
      BY <2>2
    <2>4. Stream(g)'
      BY <1>2, <1>3, <1>6, <1>9, <1>11, <2>1, <2>3 DEF Stream, m
    <2>5. TelemetryTypeOK'
      BY <1>2, <1>10, <2>1 DEF TelemetryTypeOK
    <2>6. read'.connection \in 0 .. connections' /\ read'.frame <= plugin'.frame
      BY <1>1, <1>2, <2>3
    <2> QED BY <1>2, <2>1, <2>3, <2>4, <2>5, <2>6 DEF TelemetryInv, Connected
  <1>13. CASE reading # "next"
    <2>1. stage' = "drain" /\ packet' = Take(buffer) /\ UNCHANGED <<reading, read>>
      BY <1>13 DEF TakePacket
    <2>2. Gave' <=> Gave
      BY <2>1 DEF Gave
    <2>3. g > 0 /\ g - 1 = f /\ packet' = PacketOf(g - 1)
      BY <1>1, <1>3, <2>1
    <2>4. Gave => /\ read.frame < g - 1
                  /\ read.connection = connections => g = read.frame + 2
      BY <1>3, <1>5, <2>3 DEF TelemetryInv
    <2>5. Stream(g)'
      BY <1>2, <1>6, <1>9, <1>11, <2>1, <2>2, <2>3, <2>4 DEF Stream, m
    <2>6. TelemetryTypeOK'
      BY <1>2, <1>10, <2>1 DEF TelemetryTypeOK
    <2> QED BY <1>2, <1>13, <2>1, <2>2, <2>5, <2>6 DEF TelemetryInv, Connected
  <1> QED BY <1>12, <1>13

\* Everything that has arrived is read, and the newest frame given.
LEMMA DrainInv == TelemetryInv /\ DrainQueue => TelemetryInv'
  <1> SUFFICES ASSUME TelemetryInv, DrainQueue PROVE TelemetryInv'
    OBVIOUS
  <1> DEFINE s == buffer \o wire
  <1>1. PICK f \in Nat, w \in Nat :
             /\ Stream(f) /\ f > 0 /\ w = Whole(s)
             /\ NewestPacket(s) = PacketOf(f - 1 + w)
             /\ f - 1 + w <= plugin.frame
             /\ w * PacketSize \in 0 .. Len(s)
             /\ InOrder(s, PacketSize * f)
             /\ Len(s) = Len(buffer) + Len(wire)
             /\ Len(buffer) \in Nat /\ Len(wire) \in Nat
    BY DrainParts
  <1>2. /\ TelemetryTypeOK /\ stage = "drain" /\ peer \in {"open", "eof"} /\ Connected
        /\ reading = "latest" /\ reading' = "idle" /\ stage' = "receive"
        /\ Returned(NewestPacket(s), Whole(s))
        /\ UNCHANGED <<plugin, connections, packet, expired>>
        /\ connections \in Nat
    BY TelemetryAssumption DEF TelemetryInv, TelemetryTypeOK, DrainQueue, Connected
  <1>3. PICK g \in Nat : g = f - 1 + w
    BY <1>1
  <1>4. read' = [how |-> reading, frame |-> g, pieces |-> PacketOf(g),
                 skipped |-> w, connection |-> connections]
    <2>1. PacketOf(g)[1][1] = g
      BY SizeIs DEF PacketOf
    <2> HIDE DEF s
    <2> QED BY <1>1, <1>2, <1>3, <2>1 DEF Returned
  <1>5. read'.frame = g /\ read'.connection = connections
    BY <1>4
  <1>6. read'.frame \in Nat /\ read'.frame <= plugin'.frame
        /\ read'.connection \in 0 .. connections'
    BY <1>1, <1>2, <1>3, <1>5
  <1>7. CASE peer = "eof"
    <2>1. peer' = "none" /\ wire' = <<>> /\ buffer' = <<>>
      BY <1>7 DEF DrainQueue, Close
    <2>2. TelemetryTypeOK'
      <3>1. <<>> \in Seq(Nat \X (1 .. PacketSize))
        OBVIOUS
      <3> QED BY <1>2, <2>1, <3>1 DEF TelemetryTypeOK
    <2> QED BY <1>2, <1>6, <2>1, <2>2 DEF TelemetryInv, Connected
  <1>8. CASE peer # "eof"
    <2>1. /\ buffer' = SubSeq(s, w * PacketSize + 1, Len(s)) /\ wire' = <<>> /\ peer' = peer
          /\ peer' = "open"
      BY <1>1, <1>2, <1>8 DEF DrainQueue
    <2>2. PICK h \in Nat : h = f + w
      OBVIOUS
    <2> DEFINE l == PacketSize * f
               x == w * PacketSize
               m == PacketSize * h
               k == PacketSize * plugin.frame + plugin.piece
    <2>3. l \in Nat /\ m = l + x /\ x \in Nat
      <3>1. /\ PacketSize * (f + w) = PacketSize * f + PacketSize * w
            /\ PacketSize * w = w * PacketSize
        BY SizeIs
      <3>2. w * PacketSize \in Nat /\ PacketSize * f \in Nat
        BY SizeIs
      <3> QED BY <2>2, <3>1, <3>2
    <2>4. l + Len(buffer) + Len(wire) = k
      BY <1>1, <1>2 DEF Stream
    <2>5. UNCHANGED k
      BY <1>2
    <2>6. x \in 0 .. Len(s) /\ InOrder(s, l) /\ Len(s) = Len(buffer) + Len(wire)
          /\ buffer' = SubSeq(s, x + 1, Len(s))
      BY <1>1, <2>1
    <2> HIDE DEF s, l, x, m, k
    <2>7. /\ InOrder(SubSeq(s, x + 1, Len(s)), l + x)
          /\ Len(SubSeq(s, x + 1, Len(s))) = Len(s) - x
      <3>1. l \in Int /\ x \in 0 .. Len(s) /\ InOrder(s, l)
        BY <2>3, <2>6
      <3> QED BY <3>1, InOrderParts
    <2>8. InOrder(buffer', m) /\ Len(buffer') = Len(s) - x /\ Len(wire') = 0
      BY <2>1, <2>3, <2>6, <2>7, NothingInOrder
    <2>9. InOrder(wire', m + Len(buffer'))
      BY <2>1, NothingInOrder
    <2>10. m + Len(buffer') + Len(wire') <= k /\ m + Len(buffer') + Len(wire') = k
      <3>1. Len(buffer) \in Nat /\ Len(wire) \in Nat
        BY <1>1
      <3>2. m + Len(buffer') + Len(wire') = l + Len(s)
        <4>1. Len(s) \in Nat
          BY <2>6, <3>1
        <4>2. Len(buffer') = Len(s) - x /\ Len(wire') = 0
          BY <2>8
        <4> QED BY <2>3, <4>1, <4>2
      <3>3. l + Len(s) = k
        BY <2>3, <2>4, <2>6, <3>1
      <3>4. k \in Int
        BY <2>3, <2>6, <3>1, <3>3
      <3> QED BY <3>2, <3>3, <3>4
    <2>11. g < h /\ h = g + 1
      BY <1>3, <2>2
    <2>12. k = PacketSize * plugin'.frame + plugin'.piece
      BY <1>2 DEF k
    <2>13. Stream(h)'
      BY <1>2, <1>5, <2>8, <2>9, <2>10, <2>11, <2>12 DEF Stream, m
    <2>14. TelemetryTypeOK'
      <3>1. buffer' \in Seq(Nat \X (1 .. PacketSize)) /\ wire' \in Seq(Nat \X (1 .. PacketSize))
        BY <2>8, <2>9, InOrderTypes
      <3> QED BY <1>2, <2>1, <3>1 DEF TelemetryTypeOK
    <2> QED BY <1>2, <1>6, <2>1, <2>13, <2>14 DEF TelemetryInv, Connected
  <1> QED BY <1>7, <1>8

\* Every step keeps the invariant.
LEMMA TelemetryStep == TelemetryInv /\ [TelemetryNext]_telemetryVars => TelemetryInv'
  <1> SUFFICES ASSUME TelemetryInv, [TelemetryNext]_telemetryVars PROVE TelemetryInv'
    OBVIOUS
  <1>0. TelemetryTypeOK /\ (stage = "drain" => reading = "latest")
    BY DEF TelemetryInv
  <1>1. CASE SendPiece
    BY <1>1, SendInv
  <1>2. ASSUME NEW how \in {"eof", "reset"}, PeerLeaves(how) PROVE TelemetryInv'
    BY <1>2, LeavesInv
  <1>3. ASSUME NEW kind \in {"latest", "next"}, BeginRead(kind) PROVE TelemetryInv'
    <2>1. /\ UNCHANGED <<plugin, wire, peer, connections, buffer, packet, read>>
          /\ reading' \in {"latest", "next"} /\ stage' = "receive" /\ expired' \in BOOLEAN
          /\ stage # "drain"
      BY <1>0, <1>3 DEF BeginRead
    <2> QED BY <2>1, AloneInv
  <1>4. CASE ClientStep
    <2>1. CASE Connect
      BY <2>1, ConnectInv
    <2>2. CASE ConnectRefused
      <3>1. /\ UNCHANGED <<plugin, wire, peer, connections, buffer, packet, read>>
            /\ reading' \in {"latest", "next"} /\ stage' = "failed" /\ expired' \in BOOLEAN
            /\ stage # "drain"
        BY <1>0, <2>2 DEF ConnectRefused, TelemetryTypeOK
      <3> QED BY <3>1, AloneInv
    <2>3. CASE ReceivePieces
      BY <2>3, ReceiveInv
    <2>4. CASE ReceiveFails
      BY <1>0, <2>4, HangUpInv DEF ReceiveFails, TelemetryTypeOK
    <2>5. ASSUME NEW how \in {"timeout", "disconnected"}, Raised(how) PROVE TelemetryInv'
      <3>1. /\ Close /\ UNCHANGED <<plugin, connections>> /\ reading' = "idle"
            /\ stage' = "receive" /\ expired' \in BOOLEAN
        BY <1>0, <2>5 DEF Raised, TelemetryTypeOK
      <3>2. ~Gave' /\ read'.connection = 0
        BY <2>5 DEF Raised, Gave
      <3> QED BY <3>1, <3>2, HangUpInv
    <2>6. CASE ReceiveTimesOut
      BY <2>5, <2>6 DEF ReceiveTimesOut
    <2>7. CASE ConnectTimesOut
      BY <2>5, <2>7 DEF ConnectTimesOut
    <2>8. CASE Retry
      BY <1>0, <2>8, HangUpInv DEF Retry, TelemetryTypeOK
    <2>9. CASE GiveUp
      BY <2>5, <2>9 DEF GiveUp
    <2>10. CASE TakePacket
      BY <2>10, TakeInv
    <2>11. CASE DrainQueue
      BY <2>11, DrainInv
    <2>12. CASE DrainFails
      BY <1>0, <2>12, HangUpInv DEF DrainFails, TelemetryTypeOK
    <2> QED BY <1>4, <2>1, <2>2, <2>3, <2>4, <2>6, <2>7, <2>8, <2>9, <2>10, <2>11, <2>12
             DEF ClientStep
  <1>5. CASE DeadlinePasses
    <2>1. /\ UNCHANGED <<plugin, wire, peer, connections, buffer, packet, read, stage>>
          /\ reading' \in {"latest", "next"} /\ expired' \in BOOLEAN
          /\ stage' \in {"receive", "drain", "failed"}
          /\ (stage = "drain" => reading' = "latest")
      BY <1>0, <1>5 DEF DeadlinePasses, TelemetryTypeOK
    <2> QED BY <2>1, AloneInv
  <1>6. CASE UNCHANGED telemetryVars
    <2>1. UNCHANGED <<plugin, wire, peer, connections, buffer, reading, stage, packet,
                     expired, read>>
      BY <1>6 DEF telemetryVars
    <2>2. TelemetryTypeOK' /\ (Gave' <=> Gave) /\ (Connected' <=> Connected)
      BY <1>0, <2>1 DEF TelemetryTypeOK, Gave, Connected
    <2>3. ASSUME Connected PROVE \E f \in Nat : Stream(f)'
      <3>1. PICK f \in Nat : Stream(f)
        BY <2>3 DEF TelemetryInv
      <3>2. Stream(f)'
        BY <2>1, <2>2, <3>1 DEF Stream
      <3> QED BY <3>2
    <2> QED BY <2>1, <2>2, <2>3 DEF TelemetryInv
  <1> QED BY <1>1, <1>2, <1>3, <1>4, <1>5, <1>6 DEF TelemetryNext

\* A step that changes what was read, and reads a frame, gives one.
LEMMA AStepGives ==
    ASSUME TelemetryInv, TelemetryNext, read' # read, Gave'
    PROVE  \E f \in Nat : FrameGiven(f)
  <1>1. ASSUME NEW how, Raised(how), how \in {"timeout", "disconnected"} PROVE FALSE
    BY <1>1 DEF Raised, Gave
  <1>2. ~ReceiveTimesOut /\ ~ConnectTimesOut /\ ~GiveUp
    BY <1>1 DEF ReceiveTimesOut, ConnectTimesOut, GiveUp
  <1>3. TakePacket \/ DrainQueue
    BY <1>2 DEF TelemetryNext, SendPiece, PeerLeaves, BeginRead, ClientStep, Connect,
                ConnectRefused, ReceivePieces, ReceiveFails, Retry, DrainFails, DeadlinePasses
  <1>4. CASE TakePacket
    <2>1. PICK f \in Nat : /\ Stream(f) /\ Take(buffer) = PacketOf(f) /\ f <= plugin.frame
      BY <1>4, TakeParts
    <2>2. reading = "next" /\ Returned(Take(buffer), 0) /\ stage = "receive"
      BY <1>4 DEF TakePacket
    <2>3. read' = [how |-> reading, frame |-> f, pieces |-> PacketOf(f),
                   skipped |-> 0, connection |-> connections]
      <3>1. PacketOf(f)[1][1] = f
        BY SizeIs DEF PacketOf
      <3> QED BY <2>1, <2>2, <3>1 DEF Returned
    <2>4. read'.skipped = 0
      BY <2>3
    <2>5. Gave => /\ read.frame < f
                  /\ read.connection = connections => 0 = f - read.frame - 1
      BY <2>1, <2>2 DEF Stream, TelemetryInv
    <2> QED BY <2>1, <2>2, <2>3, <2>4, <2>5 DEF FrameGiven
  <1>5. CASE DrainQueue
    <2> DEFINE s == buffer \o wire
    <2>1. PICK f \in Nat, w \in Nat :
             /\ Stream(f) /\ f > 0 /\ w = Whole(s)
             /\ NewestPacket(s) = PacketOf(f - 1 + w) /\ f - 1 + w <= plugin.frame
      BY <1>5, DrainParts
    <2>2. reading = "latest" /\ Returned(NewestPacket(s), Whole(s)) /\ stage = "drain"
      BY <1>5 DEF DrainQueue, TelemetryInv
    <2> HIDE DEF s
    <2>3. PICK g \in Nat : g = f - 1 + w
      BY <2>1
    <2>4. read' = [how |-> reading, frame |-> g, pieces |-> PacketOf(g),
                   skipped |-> w, connection |-> connections]
      <3>1. PacketOf(g)[1][1] = g
        BY SizeIs DEF PacketOf
      <3> QED BY <2>1, <2>2, <2>3, <3>1 DEF Returned
    <2>5. read'.skipped = w
      BY <2>4
    <2>6. Gave => /\ read.frame < g
                  /\ read.connection = connections => w = g - read.frame - 1
      <3>1. Gave => /\ read.frame < f - 1
                    /\ read.connection = connections => f = read.frame + 2
        BY <2>1, <2>2 DEF Stream
      <3>2. Gave => read.frame \in Nat
        BY DEF TelemetryInv
      <3>3. f \in Nat /\ w \in Nat /\ g = f - 1 + w
        BY <2>3
      <3> QED BY <3>1, <3>2, <3>3
    <2> QED BY <2>1, <2>2, <2>3, <2>4, <2>5, <2>6 DEF FrameGiven
  <1> QED BY <1>3, <1>4, <1>5

\* The stream is cut where the packets end: TelemetryInv is inductive.
THEOREM TelemetryInductive == TelemetrySpec => []TelemetryInv
  <1>1. TelemetryInit => TelemetryInv
    BY TelemetryStarts
  <1>2. TelemetryInv /\ [TelemetryNext]_telemetryVars => TelemetryInv'
    BY TelemetryStep
  <1> QED BY <1>1, <1>2, PTL DEF TelemetrySpec

\* FramesAreAccounted: every frame given is one packet of the plugin's, later than those
\* before it, and those between it and the last of its connection were counted as skipped.
THEOREM FramesAccounted == TelemetrySpec => FramesAreAccounted
  <1> DEFINE A == read' # read /\ Gave' =>
                    /\ FrameIsWhole'
                    /\ Gave => read'.frame > read.frame
                    /\ Gave /\ read'.connection = read.connection =>
                         read'.skipped = read'.frame - read.frame - 1
  <1>1. TelemetryInv /\ [TelemetryNext]_telemetryVars => [A]_telemetryVars
    <2> SUFFICES ASSUME TelemetryInv, TelemetryNext, read' # read, Gave' PROVE A
      BY DEF telemetryVars
    <2>1. PICK f \in Nat : FrameGiven(f)
      BY AStepGives
    <2> QED BY <2>1, GivenIsAccounted
  <1>2. TelemetrySpec => [][A]_telemetryVars
    <2> HIDE DEF A
    <2> QED BY <1>1, TelemetryInductive, PTL DEF TelemetrySpec
  <1> QED BY <1>2 DEF FramesAreAccounted

-----------------------------------------------------------------------------
(* Recorded laps.                                                          *)

\* What a frame can be when at most n were lost since frame g: of the same race and not far behind,
\* or in the countdown of a later one.
Reached(g, n) ==
    {h \in Frame :
        \/ h.race = g.race /\ g.clock <= h.clock /\ h.clock <= g.clock + n + 1
        \/ h.race > g.race /\ h.clock <= n - Countdown}

\* A frame and the one sent after it.
LEMMA FollowingIs ==
    ASSUME NEW f \in Frame, NEW h \in Following(f)
    PROVE  /\ h \in Frame
           /\ \/ h.race = f.race /\ f.clock <= h.clock /\ h.clock <= f.clock + 1
              \/ h.race = f.race + 1 /\ h.clock = -Countdown
  <1>1. f.race \in 1 .. MaxRaces /\ f.clock \in -Countdown .. MaxClock /\ f.finish \in BOOLEAN
    BY DEF Frame
  <1>2. Countdown \in Nat \ {0} /\ MaxClock \in Nat \ {0} /\ MaxRaces \in Nat \ {0}
    BY RecorderAssumption
  <1> DEFINE tick == IF f.clock < MaxClock THEN f.clock + 1 ELSE f.clock
  <1>3. tick \in -Countdown .. MaxClock /\ f.clock <= tick /\ tick <= f.clock + 1
    BY <1>1, <1>2
  <1>4. CASE \E done \in BOOLEAN : h = [race |-> f.race, clock |-> tick, finish |-> done]
    <2> HIDE DEF tick
    <2> QED BY <1>1, <1>3, <1>4 DEF Frame
  <1>5. CASE /\ h = [race |-> f.race + 1, clock |-> -Countdown, finish |-> FALSE]
             /\ h.race <= MaxRaces
    <2>1. h.race = f.race + 1 /\ h.clock = -Countdown /\ h.finish = FALSE
      BY <1>5
    <2>2. f.race + 1 \in 1 .. MaxRaces /\ -Countdown \in -Countdown .. MaxClock
      BY <1>1, <1>2, <1>5, <2>1
    <2>3. h \in Frame
      BY <1>5, <2>2 DEF Frame
    <2> QED BY <2>1, <2>3
  <1>6. \/ \E done \in BOOLEAN : h = [race |-> f.race, clock |-> tick, finish |-> done]
        \/ /\ h = [race |-> f.race + 1, clock |-> -Countdown, finish |-> FALSE]
           /\ h.race <= MaxRaces
    <2>1. (f.clock > 0) \in BOOLEAN
      OBVIOUS
    <2> HIDE DEF tick
    <2> QED BY <1>1, <2>1 DEF Following, tick
  <1> QED BY <1>4, <1>5, <1>6

\* What can follow a frame that is reached, is reached with one more frame lost.
LEMMA FollowingReached ==
    ASSUME NEW g \in Frame, NEW n \in Nat, NEW f \in Reached(g, n)
    PROVE  Following(f) \subseteq Reached(g, n + 1)
  <1> SUFFICES ASSUME NEW h \in Following(f) PROVE h \in Reached(g, n + 1)
    OBVIOUS
  <1>1. f \in Frame /\ f.race \in 1 .. MaxRaces /\ f.clock \in -Countdown .. MaxClock
    BY DEF Reached, Frame
  <1>2. Countdown \in Nat \ {0} /\ MaxClock \in Nat \ {0} /\ MaxRaces \in Nat \ {0}
    BY RecorderAssumption
  <1>3. h \in Frame
    BY <1>1, FollowingIs
  <1>4. \/ h.race = f.race /\ f.clock <= h.clock /\ h.clock <= f.clock + 1
        \/ h.race = f.race + 1 /\ h.clock = -Countdown
    BY <1>1, FollowingIs
  <1>5. g.race \in 1 .. MaxRaces /\ g.clock \in -Countdown .. MaxClock
    BY DEF Frame
  <1>6. \/ f.race = g.race /\ g.clock <= f.clock /\ f.clock <= g.clock + n + 1
        \/ f.race > g.race /\ f.clock <= n - Countdown
    BY DEF Reached
  <1>7. h.race \in Int /\ h.clock \in Int
    BY <1>2, <1>3 DEF Frame
  <1>8. \/ h.race = g.race /\ g.clock <= h.clock /\ h.clock <= g.clock + (n + 1) + 1
        \/ h.race > g.race /\ h.clock <= (n + 1) - Countdown
    BY <1>1, <1>2, <1>4, <1>5, <1>6, <1>7
  <1> QED BY <1>3, <1>8 DEF Reached

\* Nothing lost: the frame after the last one.
LEMMA NextReached == ASSUME NEW g \in Frame PROVE Following(g) \subseteq Reached(g, 0)
  <1> SUFFICES ASSUME NEW h \in Following(g) PROVE h \in Reached(g, 0)
    OBVIOUS
  <1>1. g.race \in 1 .. MaxRaces /\ g.clock \in -Countdown .. MaxClock
    BY DEF Frame
  <1>2. Countdown \in Nat \ {0} /\ MaxClock \in Nat \ {0} /\ MaxRaces \in Nat \ {0}
    BY RecorderAssumption
  <1>3. h \in Frame
    BY FollowingIs
  <1>4. \/ h.race = g.race /\ g.clock <= h.clock /\ h.clock <= g.clock + 1
        \/ h.race = g.race + 1 /\ h.clock = -Countdown
    BY FollowingIs
  <1>5. h.race \in Int /\ h.clock \in Int
    BY <1>2, <1>3 DEF Frame
  <1>6. \/ h.race = g.race /\ g.clock <= h.clock /\ h.clock <= g.clock + 0 + 1
        \/ h.race > g.race /\ h.clock <= 0 - Countdown
    BY <1>1, <1>2, <1>4, <1>5
  <1> QED BY <1>3, <1>6 DEF Reached

\* A frame lost more is still not far.
LEMMA ReachedGrows ==
    ASSUME NEW g \in Frame, NEW n \in Nat PROVE Reached(g, n) \subseteq Reached(g, n + 1)
  <1> SUFFICES ASSUME NEW h \in Reached(g, n) PROVE h \in Reached(g, n + 1)
    OBVIOUS
  <1>1. h \in Frame /\ Countdown \in Nat
    BY RecorderAssumption DEF Reached
  <1>2. h.race \in Int /\ h.clock \in Int /\ g.race \in Int /\ g.clock \in Int
    BY <1>1, RecorderAssumption DEF Frame
  <1>3. \/ h.race = g.race /\ g.clock <= h.clock /\ h.clock <= g.clock + n + 1
        \/ h.race > g.race /\ h.clock <= n - Countdown
    BY DEF Reached
  <1>4. \/ h.race = g.race /\ g.clock <= h.clock /\ h.clock <= g.clock + (n + 1) + 1
        \/ h.race > g.race /\ h.clock <= (n + 1) - Countdown
    BY <1>1, <1>2, <1>3
  <1> QED BY <1>1, <1>4 DEF Reached

\* The frames after each number of lost ones, as NextFrames computes them.
FramesStep(u, gap) ==
    IF gap = 0 THEN Following(game)
    ELSE u[gap - 1] \cup UNION {Following(g) : g \in u[gap - 1]}
FramesAfter(u, n) == u = [gap \in 0 .. n |-> FramesStep(u, gap)]

\* There are such frames, however many are lost, and they are reached.
LEMMA FramesExist ==
    ASSUME game \in Frame, NEW n \in Nat
    PROVE  \E u : FramesAfter(u, n)
  <1> DEFINE S == {m \in Nat : \E u : FramesAfter(u, m)}
  <1>1. 0 \in S
    <2> DEFINE u == [gap \in 0 .. 0 |-> Following(game)]
    <2>1. u = [gap \in 0 .. 0 |-> FramesStep(u, gap)]
      <3>1. \A gap \in 0 .. 0 : FramesStep(u, gap) = Following(game)
        BY DEF FramesStep
      <3> QED BY <3>1, Zenon
    <2> HIDE DEF u
    <2>2. FramesAfter(u, 0)
      BY <2>1 DEF FramesAfter
    <2> QED BY <2>2
  <1>2. ASSUME NEW m \in Nat, m \in S PROVE m + 1 \in S
    <2>1. PICK g : FramesAfter(g, m)
      BY <1>2
    <2> DEFINE u == [gap \in 0 .. m + 1 |-> FramesStep(g, gap)]
    <2>2. \A gap \in 0 .. m : u[gap] = g[gap]
      BY <1>2, <2>1 DEF FramesAfter
    <2>3. \A gap \in 0 .. m + 1 : FramesStep(u, gap) = FramesStep(g, gap)
      <3> SUFFICES ASSUME NEW gap \in 0 .. m + 1
                   PROVE  FramesStep(u, gap) = FramesStep(g, gap)
        OBVIOUS
      <3>1. gap # 0 => gap - 1 \in 0 .. m
        BY <1>2
      <3> HIDE DEF u
      <3> QED BY <2>2, <3>1 DEF FramesStep
    <2>4. u = [gap \in 0 .. m + 1 |-> FramesStep(u, gap)]
      <3> HIDE DEF u
      <3>1. u = [gap \in 0 .. m + 1 |-> FramesStep(g, gap)]
        BY DEF u
      <3> QED BY <2>3, <3>1
    <2> HIDE DEF u
    <2>5. FramesAfter(u, m + 1)
      BY <2>4 DEF FramesAfter
    <2> QED BY <1>2, <2>5
  <1>3. n \in S
    <2> HIDE DEF S
    <2> QED BY <1>1, <1>2, SetInduction
  <1> QED BY <1>3

\* The next frame is reached from the last one: a reconnect cannot skip a countdown.
LEMMA NextFramesReached ==
    ASSUME game \in Frame, NEW h \in NextFrames PROVE h \in Reached(game, MaxGap)
  <1> DEFINE u == CHOOSE k : k = [gap \in 0 .. MaxGap |-> FramesStep(k, gap)]
  <1>1. MaxGap \in Nat
    BY RecorderAssumption
  <1>2. u = [gap \in 0 .. MaxGap |-> FramesStep(u, gap)]
    <2>1. \E k : k = [gap \in 0 .. MaxGap |-> FramesStep(k, gap)]
      BY <1>1, FramesExist DEF FramesAfter
    <2> QED BY <2>1
  <1>3. NextFrames = u[MaxGap]
    BY DEF NextFrames, FramesStep
  <1> HIDE DEF u
  <1>4. \A gap \in 0 .. MaxGap : u[gap] = FramesStep(u, gap)
    BY <1>2
  <1> DEFINE S == {m \in Nat : m <= MaxGap => u[m] \subseteq Reached(game, m)}
  <1>5. 0 \in S
    <2>1. u[0] = FramesStep(u, 0)
      BY <1>1, <1>4
    <2>2. u[0] = Following(game)
      BY <2>1 DEF FramesStep
    <2> QED BY <2>2, NextReached
  <1>6. ASSUME NEW m \in Nat, m \in S PROVE m + 1 \in S
    <2> SUFFICES ASSUME m + 1 <= MaxGap PROVE u[m + 1] \subseteq Reached(game, m + 1)
      OBVIOUS
    <2>1. u[m] \subseteq Reached(game, m)
      BY <1>1, <1>6
    <2>2. u[m + 1] = u[m] \cup UNION {Following(g) : g \in u[m]}
      <3>1. m + 1 \in 0 .. MaxGap /\ m + 1 # 0 /\ (m + 1) - 1 = m
        BY <1>1
      <3> QED BY <1>4, <3>1 DEF FramesStep
    <2>3. \A g \in u[m] : Following(g) \subseteq Reached(game, m + 1)
      BY <2>1, FollowingReached
    <2>4. u[m] \subseteq Reached(game, m + 1)
      BY <2>1, ReachedGrows
    <2> QED BY <2>2, <2>3, <2>4
  <1>7. MaxGap \in S
    <2> HIDE DEF S
    <2> QED BY <1>1, <1>5, <1>6, SetInduction
  <1> QED BY <1>1, <1>3, <1>7

-----------------------------------------------------------------------------
\* The race of the last lap recorded.
LastRace == IF laps = <<>> THEN 0 ELSE laps[Len(laps)].frames[1].race

\* A lap under way: frames of the race now on, from its start, in the order of the clock.
OpenLap ==
    /\ frames # <<>> /\ current = frames[Len(frames)] /\ actions = Len(frames) - 1
    /\ frames[1].clock \in 1 .. 1 + MaxGap
    /\ current.clock <= game.clock
    /\ \A i \in 1 .. Len(frames) : frames[i].race = game.race
    /\ \A i \in 2 .. Len(frames) : frames[i].clock > frames[i - 1].clock /\ ~frames[i].finish

\* What the recorder knows of the race, by where it is.  A restart is observed in a countdown,
\* and only a later race has one.
PhasesInv ==
    /\ recording = "sync" => laps = <<>>
    /\ recording = "wait" =>
         /\ previous = Time(game) /\ LastRace <= game.race
         /\ observed => game.clock <= 0 /\ LastRace < game.race
    /\ recording = "restart" => game.clock <= 0 /\ LastRace < game.race
    /\ recording = "sample" => OpenLap /\ LastRace < game.race
    /\ recording # "stopped" => Len(laps) < Count

LapsOK == laps \in Seq([frames : Seq(Frame), actions : Nat])

RecorderInv == RecorderTypeOK /\ LapsOK /\ PhasesInv /\ RecordedLapsAreWhole

\* The frames and their order, as integers.
LEMMA FrameNumbers ==
    ASSUME NEW f \in Frame
    PROVE  /\ f.race \in Int /\ f.clock \in Int /\ f.finish \in BOOLEAN /\ f.race > 0
           /\ Time(f) \in Nat /\ (Time(f) > 0 <=> f.clock > 0) /\ (f.clock > 0 => Time(f) = f.clock)
  BY RecorderAssumption DEF Frame, Time

\* The next frame is of the same race and not before the last one, or in a countdown.
LEMMA NextIs ==
    ASSUME game \in Frame, NEW h \in NextFrames
    PROVE  /\ h \in Frame
           /\ \/ h.race = game.race /\ game.clock <= h.clock /\ h.clock <= game.clock + MaxGap + 1
              \/ h.race > game.race /\ h.clock < 0
  <1>1. h \in Reached(game, MaxGap)
    BY NextFramesReached
  <1>2. h \in Frame
    BY <1>1 DEF Reached
  <1>3. h.clock <= MaxGap - Countdown => h.clock < 0
    BY <1>2, FrameNumbers, RecorderAssumption
  <1> QED BY <1>1, <1>2, <1>3 DEF Reached

\* A sequence that is not empty has a last element.
LEMMA LastOf ==
    ASSUME NEW S, NEW q \in Seq(S), q # <<>>
    PROVE  Len(q) \in 1 .. Len(q) /\ q[Len(q)] \in S
  OBVIOUS

\* The last race is a race.
LEMMA LastRaceIs == ASSUME RecorderInv PROVE LastRace \in Int
  <1>1. CASE laps = <<>>
    BY <1>1 DEF LastRace
  <1>2. CASE laps # <<>>
    <2>0. Len(laps) \in 1 .. Len(laps) /\ laps[Len(laps)] \in [frames : Seq(Frame), actions : Nat]
      BY <1>2, LastOf DEF RecorderInv, LapsOK
    <2>1. Len(laps) \in 1 .. Len(laps) /\ laps[Len(laps)].frames \in Seq(Frame)
      BY <2>0
    <2>2. WholeLap(laps[Len(laps)])
      BY <2>1 DEF RecorderInv, RecordedLapsAreWhole
    <2>3. laps[Len(laps)].frames[1] \in Frame
      BY <2>1, <2>2 DEF WholeLap
    <2> QED BY <1>2, <2>3, FrameNumbers DEF LastRace
  <1> QED BY <1>1, <1>2

\* The recorder starts in a state that satisfies the invariant.
LEMMA RecorderStarts == RecorderInit => RecorderInv
  <1> SUFFICES ASSUME RecorderInit PROVE RecorderInv
    OBVIOUS
  <1>1. game \in Frame
    <2>1. game \in [race : {1}, clock : {-Countdown, 1}, finish : {FALSE}]
      BY DEF RecorderInit
    <2>2. 1 \in 1 .. MaxRaces /\ {-Countdown, 1} \subseteq -Countdown .. MaxClock
      BY RecorderAssumption
    <2> QED BY <2>1, <2>2 DEF Frame
  <1>2. RecorderTypeOK
    <2>1. 0 \in 0 .. Repeat /\ Len(<<>>) <= Count /\ Count \in Nat
      BY RecorderAssumption
    <2>2. frames \in Seq(Frame) /\ current \in Frame /\ Len(laps) <= Count
      BY <1>1, <2>1 DEF RecorderInit
    <2> QED BY <1>1, <2>1, <2>2 DEF RecorderInit, RecorderTypeOK
  <1>3. LapsOK /\ PhasesInv /\ RecordedLapsAreWhole
    BY RecorderAssumption DEF RecorderInit, LapsOK, PhasesInv, RecordedLapsAreWhole
  <1> QED BY <1>2, <1>3 DEF RecorderInv

\* What is left of the invariant when no lap is recorded.
LEMMA LapsKept ==
    ASSUME RecorderInv, UNCHANGED laps
    PROVE  LapsOK' /\ RecordedLapsAreWhole' /\ LastRace' = LastRace
  BY DEF RecorderInv, LapsOK, RecordedLapsAreWhole, WholeLap, LastRace

\* A recording starts with the first frame behind a countdown.
LEMMA StartInv ==
    ASSUME RecorderInv, NEW h \in NextFrames, game' = h, StartSampling(h), UNCHANGED laps,
           game.clock <= 0, LastRace < game.race, recording # "stopped", Time(h) > 0,
           previous' \in Nat, observed' \in BOOLEAN
    PROVE  RecorderInv'
  <1>1. game \in Frame /\ RecorderTypeOK /\ PhasesInv
    BY DEF RecorderInv, RecorderTypeOK
  <1>2. h \in Frame /\ h.clock > 0 /\ h.race = game.race /\ h.clock <= 1 + MaxGap
    BY <1>1, NextIs, FrameNumbers, RecorderAssumption
  <1>3. /\ frames' = <<h>> /\ Len(frames') = 1 /\ frames'[1] = h /\ frames' \in Seq(Frame)
        /\ recording' = "sample" /\ current' = h /\ actions' = 0 /\ remaining' = Repeat
    BY <1>2 DEF StartSampling
  <1>4. RecorderTypeOK'
    BY <1>1, <1>2, <1>3, RecorderAssumption DEF RecorderTypeOK
  <1>5. OpenLap'
    <2>1. h.clock \in Int
      BY <1>2, FrameNumbers
    <2> QED BY <1>2, <1>3, <2>1, RecorderAssumption DEF OpenLap
  <1>6. LastRace' < game'.race
    BY <1>2, LapsKept
  <1>7. Len(laps)' < Count
    BY <1>1 DEF PhasesInv
  <1> QED BY <1>3, <1>4, <1>5, <1>6, <1>7, LapsKept DEF RecorderInv, PhasesInv

\* The first frame of the session keeps the invariant.
LEMMA SynchronizeInv == RecorderInv /\ SynchronizeStream => RecorderInv'
  <1> SUFFICES ASSUME RecorderInv, SynchronizeStream PROVE RecorderInv'
    OBVIOUS
  <1>1. game \in Frame /\ RecorderTypeOK /\ PhasesInv
    BY DEF RecorderInv, RecorderTypeOK
  <1>2. PICK h \in NextFrames :
          game' = h /\ previous' = Time(h) /\ observed' = (Time(h) <= 0)
    BY DEF SynchronizeStream
  <1>3. h \in Frame
    BY <1>1, NextIs
  <1>4. RecorderTypeOK'
    BY <1>1, <1>2, <1>3, FrameNumbers DEF RecorderTypeOK, SynchronizeStream
  <1>5. LastRace' = 0 /\ laps' = <<>>
    BY <1>1, LapsKept DEF PhasesInv, SynchronizeStream, LastRace
  <1>6. PhasesInv'
    <2>0. observed' <=> Time(h) <= 0
      BY <1>2, Zenon
    <2>1. game'.race > 0 /\ (observed' => game'.clock <= 0) /\ previous' = Time(h)
      BY <1>2, <1>3, <2>0, FrameNumbers
    <2>2. recording' = "wait"
      BY DEF SynchronizeStream
    <2>3. Time(h) = Time(game)' /\ Len(laps)' < Count
      BY <1>2, <1>5, RecorderAssumption DEF Time
    <2> QED BY <1>2, <1>3, <1>5, <2>1, <2>2, <2>3, FrameNumbers DEF PhasesInv
  <1> QED BY <1>4, <1>6, LapsKept DEF RecorderInv, SynchronizeStream

\* Waiting for a new run keeps the invariant: a clock that has run backwards is in a countdown.
LEMMA WaitInv == RecorderInv /\ WaitForNewRun => RecorderInv'
  <1> SUFFICES ASSUME RecorderInv, WaitForNewRun PROVE RecorderInv'
    OBVIOUS
  <1>1. game \in Frame /\ RecorderTypeOK /\ PhasesInv /\ LastRace \in Int
    BY LastRaceIs DEF RecorderInv, RecorderTypeOK
  <1>2. PICK h \in NextFrames :
          /\ game' = h /\ previous' = Time(h)
          /\ observed' = (observed \/ Time(h) < previous)
          /\ IF observed' /\ Time(h) > 0 THEN StartSampling(h)
             ELSE UNCHANGED <<recording, current, frames, actions, remaining>>
    BY DEF WaitForNewRun
  <1>3. /\ h \in Frame
        /\ \/ h.race = game.race /\ game.clock <= h.clock
           \/ h.race > game.race /\ h.clock < 0
    BY <1>1, <1>2, NextIs
  <1>4. /\ recording = "wait" /\ UNCHANGED laps /\ previous = Time(game)
        /\ LastRace <= game.race /\ (observed => game.clock <= 0 /\ LastRace < game.race)
    BY <1>1 DEF WaitForNewRun, PhasesInv
  <1>5. Time(h) < previous => h.race > game.race /\ h.clock < 0
    <2>1. CASE h.race = game.race /\ game.clock <= h.clock
      BY <1>1, <1>3, <1>4, <2>1, FrameNumbers
    <2> QED BY <1>3, <2>1
  <1>6. observed' \in BOOLEAN
    BY <1>1, <1>2, Zenon DEF RecorderTypeOK
  <1>7. previous' \in Nat
    BY <1>2, <1>3, FrameNumbers
  <1>8. CASE observed' /\ Time(h) > 0
    <2>1. observed
      <3>1. ~(Time(h) < previous)
        BY <1>3, <1>5, <1>8, FrameNumbers
      <3>2. observed' <=> (observed \/ Time(h) < previous)
        BY <1>2, Zenon
      <3> QED BY <1>8, <3>1, <3>2
    <2> QED BY <1>2, <1>4, <1>6, <1>7, <1>8, <2>1, StartInv
  <1>9. CASE ~(observed' /\ Time(h) > 0)
    <2>1. UNCHANGED <<recording, current, frames, actions, remaining>>
      BY <1>2, <1>9
    <2>2. RecorderTypeOK'
      BY <1>1, <1>2, <1>3, <1>4, <1>6, <1>7, <2>1 DEF RecorderTypeOK
    <2>3. LastRace <= h.race
      BY <1>1, <1>3, <1>4, FrameNumbers
    <2>4. observed' => h.clock <= 0 /\ LastRace < h.race
      <3> SUFFICES ASSUME observed' PROVE h.clock <= 0 /\ LastRace < h.race
        OBVIOUS
      <3>1. h.clock <= 0
        <4>1. ~(Time(h) > 0)
          BY <1>9
        <4> QED BY <1>3, <4>1, FrameNumbers
      <3>2. CASE observed
        BY <1>1, <1>3, <1>4, <3>1, <3>2, FrameNumbers
      <3>3. CASE Time(h) < previous
        BY <1>1, <1>3, <1>4, <1>5, <3>3, FrameNumbers
      <3>4. observed \/ Time(h) < previous
        BY <1>2, Zenon
      <3> QED BY <3>1, <3>2, <3>3, <3>4
    <2>5. PhasesInv'
      <3>1. Len(laps)' < Count /\ recording' = "wait" /\ previous' = Time(game)'
        BY <1>1, <1>2, <1>4, <2>1 DEF PhasesInv, Time
      <3> QED BY <1>2, <1>4, <2>3, <2>4, <3>1, LapsKept DEF PhasesInv
    <2> QED BY <1>4, <2>2, <2>5, LapsKept DEF RecorderInv
  <1> QED BY <1>8, <1>9

\* The clock of the last frame kept runs.
LEMMA CurrentRuns == ASSUME RecorderTypeOK, OpenLap PROVE current.clock > 0
  <1>1. frames \in Seq(Frame) /\ Len(frames) \in Nat \ {0}
    BY DEF RecorderTypeOK, OpenLap
  <1> DEFINE S == {n \in Nat : n + 1 <= Len(frames) => frames[n + 1].clock > 0}
  <1>2. 0 \in S
    <2>1. frames[1].clock \in 1 .. 1 + MaxGap
      BY DEF OpenLap
    <2> QED BY <2>1, RecorderAssumption
  <1>3. ASSUME NEW n \in Nat, n \in S PROVE n + 1 \in S
    <2> SUFFICES ASSUME n + 2 <= Len(frames) PROVE frames[n + 2].clock > 0
      BY <1>1
    <2>1. n + 2 \in 2 .. Len(frames) /\ (n + 2) - 1 = n + 1 /\ n + 1 \in 1 .. Len(frames)
      BY <1>1
    <2>2. frames[n + 2].clock > frames[n + 1].clock /\ frames[n + 1].clock > 0
      BY <1>1, <1>3, <2>1 DEF OpenLap
    <2>3. frames[n + 1] \in Frame /\ frames[n + 2] \in Frame
      BY <1>1, <2>1
    <2> QED BY <2>2, <2>3, FrameNumbers
  <1>4. Len(frames) - 1 \in S
    <2> HIDE DEF S
    <2> QED BY <1>1, <1>2, <1>3, SetInduction
  <1>5. (Len(frames) - 1) + 1 = Len(frames)
    BY <1>1
  <1> QED BY <1>1, <1>4, <1>5 DEF OpenLap

\* A frame that is kept is a later one of the race of the lap.
LEMMA NextOfLap ==
    ASSUME RecorderInv, NEW h \in NextFrames, recording = "sample",
           ~Backwards(h), TargetReached(h)
    PROVE  h \in Frame /\ h.race = game.race /\ current.clock < h.clock /\ h.clock > 0
  <1>1. game \in Frame /\ current \in Frame /\ OpenLap
    BY DEF RecorderInv, RecorderTypeOK, PhasesInv
  <1>2. current.clock > 0
    BY <1>1, CurrentRuns DEF RecorderInv
  <1>3. /\ h \in Frame
        /\ \/ h.race = game.race /\ game.clock <= h.clock
           \/ h.race > game.race /\ h.clock < 0
    BY <1>1, NextIs
  <1>4. Time(h) > Time(current)
    BY DEF TargetReached
  <1> QED BY <1>1, <1>2, <1>3, <1>4, FrameNumbers

\* The recording goes on as it was while the clock of the race runs on.
LEMMA PassInv ==
    ASSUME RecorderInv, NEW h \in NextFrames, game' = h, recording = "sample", PassOver(h)
    PROVE  RecorderInv'
  <1>1. game \in Frame /\ RecorderTypeOK /\ PhasesInv
    BY DEF RecorderInv, RecorderTypeOK
  <1>2. /\ h \in Frame
        /\ \/ h.race = game.race /\ game.clock <= h.clock
           \/ h.race > game.race /\ h.clock < 0
    BY <1>1, NextIs
  <1>3. OpenLap /\ LastRace < game.race /\ Len(laps) < Count
    BY <1>1 DEF PhasesInv
  <1>4. UNCHANGED <<recording, previous, observed, current, frames, actions, laps>>
    BY DEF PassOver
  <1>5. current.clock > 0 /\ current \in Frame
    BY <1>1, <1>3, CurrentRuns DEF RecorderTypeOK
  <1>6. h.race = game.race /\ current.clock <= h.clock
    <2>1. ~(Time(h) < Time(current))
      BY DEF PassOver, Backwards
    <2> QED BY <1>1, <1>2, <1>3, <1>5, <2>1, FrameNumbers DEF OpenLap
  <1>7. remaining' \in 0 .. Repeat
    BY <1>1, RecorderAssumption DEF RecorderTypeOK, PassOver
  <1>8. RecorderTypeOK'
    BY <1>1, <1>2, <1>4, <1>7 DEF RecorderTypeOK
  <1>9. OpenLap' /\ LastRace' < game'.race
    BY <1>3, <1>4, <1>6, LapsKept DEF OpenLap
  <1> QED BY <1>3, <1>4, <1>8, <1>9, LapsKept DEF RecorderInv, PhasesInv

\* Another frame of the same lap.
LEMMA KeepInv ==
    ASSUME RecorderInv, NEW h \in NextFrames, game' = h, recording = "sample", KeepFrame(h)
    PROVE  RecorderInv'
  <1>1. game \in Frame /\ RecorderTypeOK /\ PhasesInv
    BY DEF RecorderInv, RecorderTypeOK
  <1>2. OpenLap /\ LastRace < game.race /\ Len(laps) < Count
    BY <1>1 DEF PhasesInv
  <1>3. h \in Frame /\ h.race = game.race /\ current.clock < h.clock
    BY NextOfLap DEF KeepFrame
  <1>4. /\ frames' = Append(frames, h) /\ actions' = actions + 1 /\ ~h.finish
        /\ current' = h /\ remaining' = Repeat
        /\ UNCHANGED <<recording, previous, observed, laps>>
    BY DEF KeepFrame
  <1>5. frames \in Seq(Frame) /\ Len(frames) \in Nat \ {0}
    BY <1>1, <1>2 DEF RecorderTypeOK, OpenLap
  <1>6. /\ frames' \in Seq(Frame) /\ Len(frames') = Len(frames) + 1
        /\ frames'[Len(frames) + 1] = h
        /\ \A i \in 1 .. Len(frames) : frames'[i] = frames[i]
    BY <1>3, <1>4, <1>5
  <1>7. actions \in Nat /\ Repeat \in Nat
    BY <1>1, RecorderAssumption DEF RecorderTypeOK
  <1>8. RecorderTypeOK'
    BY <1>1, <1>3, <1>4, <1>6, <1>7 DEF RecorderTypeOK
  <1>9. OpenLap'
    <2>1. \A i \in 1 .. Len(frames') : frames'[i].race = game'.race
      BY <1>2, <1>3, <1>5, <1>6 DEF OpenLap
    <2>2. \A i \in 2 .. Len(frames') : frames'[i].clock > frames'[i - 1].clock /\ ~frames'[i].finish
      <3> SUFFICES ASSUME NEW i \in 2 .. Len(frames')
                   PROVE  frames'[i].clock > frames'[i - 1].clock /\ ~frames'[i].finish
        OBVIOUS
      <3>1. CASE i = Len(frames) + 1
        <4>1. i - 1 = Len(frames) /\ frames'[i - 1] = current /\ frames'[i] = h
          BY <1>2, <1>5, <1>6, <3>1 DEF OpenLap
        <4>2. h.clock > current.clock
          BY <1>1, <1>3, FrameNumbers DEF RecorderTypeOK
        <4> QED BY <1>4, <4>1, <4>2
      <3>2. CASE i # Len(frames) + 1
        <4>1. i \in 2 .. Len(frames) /\ i - 1 \in 1 .. Len(frames) /\ i \in 1 .. Len(frames)
          BY <1>5, <1>6, <3>2
        <4> QED BY <1>2, <1>6, <4>1 DEF OpenLap
      <3> QED BY <3>1, <3>2
    <2>3. frames'[1] = frames[1] /\ frames' # <<>> /\ current' = frames'[Len(frames')]
      BY <1>4, <1>5, <1>6
    <2>4. actions' = Len(frames') - 1 /\ current'.clock <= game'.clock
      BY <1>2, <1>3, <1>4, <1>5, <1>6, FrameNumbers DEF OpenLap
    <2> QED BY <1>2, <2>1, <2>2, <2>3, <2>4 DEF OpenLap
  <1> QED BY <1>2, <1>3, <1>4, <1>8, <1>9, LapsKept DEF RecorderInv, PhasesInv

\* The lap ends with the frame that shows the finish.
LEMMA FinishInv ==
    ASSUME RecorderInv, NEW h \in NextFrames, game' = h, recording = "sample", FinishLap(h)
    PROVE  RecorderInv'
  <1>1. game \in Frame /\ RecorderTypeOK /\ PhasesInv /\ LapsOK /\ RecordedLapsAreWhole
    BY DEF RecorderInv, RecorderTypeOK
  <1>2. OpenLap /\ LastRace < game.race /\ Len(laps) < Count
    BY <1>1 DEF PhasesInv
  <1>3. h \in Frame /\ h.race = game.race /\ current.clock < h.clock /\ h.clock > 0
    BY NextOfLap DEF FinishLap
  <1> DEFINE lap == [frames |-> Append(frames, h), actions |-> actions + 1]
  <1>4. /\ laps' = Append(laps, lap) /\ h.finish
        /\ previous' = Time(h) /\ observed' = (Time(h) <= 0)
        /\ recording' = IF Len(laps') = Count THEN "stopped" ELSE "wait"
        /\ frames' = <<>> /\ actions' = 0 /\ UNCHANGED <<current, remaining>>
    BY DEF FinishLap
  <1>5. frames \in Seq(Frame) /\ Len(frames) \in Nat \ {0} /\ actions \in Nat
    BY <1>1, <1>2 DEF RecorderTypeOK, OpenLap
  <1>6. /\ lap.frames \in Seq(Frame) /\ Len(lap.frames) = Len(frames) + 1
        /\ lap.frames[Len(frames) + 1] = h
        /\ \A i \in 1 .. Len(frames) : lap.frames[i] = frames[i]
    BY <1>3, <1>5
  <1>7. WholeLap(lap) /\ lap.frames[1].race = game.race
    <2>1. lap.frames[1] = frames[1] /\ 1 \in 1 .. Len(frames)
      BY <1>5, <1>6
    <2>2. lap.actions = Len(lap.frames) - 1 /\ Len(lap.frames) > 1
      BY <1>2, <1>5, <1>6 DEF OpenLap
    <2>3. frames[1].race = game.race /\ lap.frames[1].clock \in 1 .. 1 + MaxGap
      BY <1>2, <2>1 DEF OpenLap
    <2>4. ASSUME NEW i \in 2 .. Len(lap.frames)
          PROVE  /\ lap.frames[i].race = game.race
                 /\ lap.frames[i].clock > lap.frames[i - 1].clock
                 /\ lap.frames[i].finish <=> i = Len(lap.frames)
      <3>1. CASE i = Len(frames) + 1
        <4>1. i - 1 = Len(frames) /\ lap.frames[i - 1] = current /\ lap.frames[i] = h
          BY <1>2, <1>5, <1>6, <3>1 DEF OpenLap
        <4>2. h.clock > current.clock
          BY <1>1, <1>3, FrameNumbers DEF RecorderTypeOK
        <4> HIDE DEF lap
        <4> QED BY <1>3, <1>4, <1>6, <3>1, <4>1, <4>2
      <3>2. CASE i # Len(frames) + 1
        <4>1. i \in 2 .. Len(frames) /\ i - 1 \in 1 .. Len(frames) /\ i \in 1 .. Len(frames)
          BY <1>5, <1>6, <3>2
        <4>2. lap.frames[i] = frames[i] /\ lap.frames[i - 1] = frames[i - 1]
          BY <1>6, <4>1
        <4> HIDE DEF lap
        <4> QED BY <1>2, <1>6, <3>2, <4>1, <4>2 DEF OpenLap
      <3> QED BY <3>1, <3>2
    <2> HIDE DEF lap
    <2> QED BY <2>1, <2>2, <2>3, <2>4 DEF WholeLap
  <1>8. LapsOK' /\ Len(laps') = Len(laps) + 1 /\ Len(laps) \in Nat
        /\ laps'[Len(laps) + 1] = lap /\ \A i \in 1 .. Len(laps) : laps'[i] = laps[i]
    <2>1. lap \in [frames : Seq(Frame), actions : Nat]
      BY <1>5, <1>6
    <2> HIDE DEF lap
    <2> QED BY <1>1, <1>4, <2>1 DEF LapsOK
  <1> HIDE DEF lap
  <1>9. RecordedLapsAreWhole'
    <2>1. \A i \in 1 .. Len(laps') : WholeLap(laps'[i])
      BY <1>1, <1>7, <1>8 DEF RecordedLapsAreWhole
    <2>2. ASSUME NEW i \in 2 .. Len(laps')
          PROVE  laps'[i].frames[1].race > laps'[i - 1].frames[1].race
      <3>1. CASE i = Len(laps) + 1
        <4>1. i - 1 = Len(laps) /\ laps # <<>> /\ laps'[i - 1] = laps[Len(laps)]
          BY <1>8, <3>1
        <4>2. laps[Len(laps)].frames[1].race = LastRace
          BY <4>1 DEF LastRace
        <4>3. game.race > LastRace
          BY <1>1, <1>2, LastRaceIs, FrameNumbers
        <4> QED BY <1>7, <1>8, <3>1, <4>1, <4>2, <4>3
      <3>2. CASE i # Len(laps) + 1
        <4>1. i \in 2 .. Len(laps) /\ i - 1 \in 1 .. Len(laps) /\ i \in 1 .. Len(laps)
          BY <1>8, <3>2
        <4> QED BY <1>1, <1>8, <4>1 DEF RecordedLapsAreWhole
      <3> QED BY <3>1, <3>2
    <2>3. \A i \in 1 .. Len(laps') : WholeLap(laps[i])'
      BY <2>1 DEF WholeLap
    <2> QED BY <2>2, <2>3 DEF RecordedLapsAreWhole
  <1>10. RecorderTypeOK'
    <2>1. observed' \in BOOLEAN
      <3>1. observed' = (Time(h) <= 0)
        BY <1>4
      <3>2. (Time(h) <= 0) \in BOOLEAN
        OBVIOUS
      <3> QED BY <3>1, <3>2
    <2>2. previous' \in Nat /\ Len(laps') <= Count /\ 0 \in Nat
      BY <1>2, <1>3, <1>4, <1>8, FrameNumbers, RecorderAssumption
    <2>3. recording' \in {"wait", "stopped"}
      BY <1>4
    <2> QED BY <1>1, <1>3, <1>4, <2>1, <2>2, <2>3 DEF RecorderTypeOK
  <1>11. PhasesInv'
    <2>1. ~observed'
      <3>1. ~(Time(h) <= 0)
        BY <1>3, FrameNumbers
      <3> QED BY <1>4, <3>1, Zenon
    <2>2. LastRace' = game.race /\ previous' = Time(game)'
      BY <1>4, <1>7, <1>8 DEF LastRace, Time
    <2>3. LastRace' <= game'.race
      BY <1>1, <1>3, <2>2, FrameNumbers
    <2>4. recording' # "stopped" => Len(laps') < Count
      BY <1>2, <1>4, <1>8, RecorderAssumption
    <2> QED BY <1>4, <2>1, <2>2, <2>3, <2>4 DEF PhasesInv
  <1> QED BY <1>8, <1>9, <1>10, <1>11 DEF RecorderInv

\* A lap is discarded: only a countdown shows a clock that has run backwards.
LEMMA DiscardInv ==
    ASSUME RecorderInv, NEW h \in NextFrames, game' = h, recording = "sample", DiscardLap(h)
    PROVE  RecorderInv'
  <1>1. game \in Frame /\ RecorderTypeOK /\ PhasesInv /\ LastRace \in Int
    BY LastRaceIs DEF RecorderInv, RecorderTypeOK
  <1>2. OpenLap /\ LastRace < game.race /\ Len(laps) < Count
    BY <1>1 DEF PhasesInv
  <1>3. /\ h \in Frame
        /\ \/ h.race = game.race /\ game.clock <= h.clock
           \/ h.race > game.race /\ h.clock < 0
    BY <1>1, NextIs
  <1>4. current.clock > 0 /\ current \in Frame
    BY <1>1, <1>2, CurrentRuns DEF RecorderTypeOK
  <1>5. h.race > game.race /\ h.clock < 0
    <2>1. Time(h) < Time(current)
      BY DEF DiscardLap, Backwards
    <2> QED BY <1>1, <1>2, <1>3, <1>4, <2>1, FrameNumbers DEF OpenLap
  <1>6. /\ recording' = "restart"
        /\ UNCHANGED <<current, frames, actions, remaining, previous, observed, laps>>
    <2>1. Time(h) <= 0
      BY <1>3, <1>5, FrameNumbers
    <2> QED BY <2>1 DEF DiscardLap
  <1>7. RecorderTypeOK'
    BY <1>1, <1>3, <1>6 DEF RecorderTypeOK
  <1>8. LastRace < h.race /\ h.clock <= 0
    BY <1>1, <1>2, <1>3, <1>5, FrameNumbers
  <1> QED BY <1>2, <1>6, <1>7, <1>8, LapsKept DEF RecorderInv, PhasesInv

\* Reading on through the countdown keeps the invariant.
LEMMA AwaitStartInv == RecorderInv /\ AwaitStart => RecorderInv'
  <1> SUFFICES ASSUME RecorderInv, AwaitStart PROVE RecorderInv'
    OBVIOUS
  <1>1. game \in Frame /\ RecorderTypeOK /\ PhasesInv /\ LastRace \in Int
    BY LastRaceIs DEF RecorderInv, RecorderTypeOK
  <1>2. PICK h \in NextFrames :
          /\ game' = h
          /\ IF Time(h) <= 0 THEN UNCHANGED <<recording, current, frames, actions, remaining>>
             ELSE StartSampling(h)
    BY DEF AwaitStart
  <1>3. /\ recording = "restart" /\ UNCHANGED <<previous, observed, laps>>
        /\ game.clock <= 0 /\ LastRace < game.race /\ Len(laps) < Count
    BY <1>1 DEF AwaitStart, PhasesInv
  <1>4. /\ h \in Frame
        /\ \/ h.race = game.race /\ game.clock <= h.clock
           \/ h.race > game.race /\ h.clock < 0
    BY <1>1, <1>2, NextIs
  <1>5. CASE Time(h) <= 0
    <2>1. UNCHANGED <<recording, current, frames, actions, remaining>>
      BY <1>2, <1>5
    <2>2. RecorderTypeOK'
      BY <1>1, <1>2, <1>3, <1>4, <2>1 DEF RecorderTypeOK
    <2>3. LastRace < h.race /\ h.clock <= 0
      BY <1>1, <1>3, <1>4, <1>5, FrameNumbers
    <2> QED BY <1>2, <1>3, <2>1, <2>2, <2>3, LapsKept DEF RecorderInv, PhasesInv
  <1>6. CASE ~(Time(h) <= 0)
    <2>1. Time(h) > 0
      BY <1>4, <1>6, FrameNumbers
    <2>2. previous' \in Nat /\ observed' \in BOOLEAN /\ recording # "stopped"
      BY <1>1, <1>3 DEF RecorderTypeOK
    <2> QED BY <1>2, <1>3, <1>6, <2>1, <2>2, StartInv
  <1> QED BY <1>5, <1>6

\* A session that ends keeps the laps it has.
LEMMA TimeOutInv == RecorderInv /\ TimeOut => RecorderInv'
  <1> SUFFICES ASSUME RecorderInv, TimeOut PROVE RecorderInv'
    OBVIOUS
  <1>1. RecorderTypeOK'
    <2>1. <<>> \in Seq(Frame)
      OBVIOUS
    <2> QED BY <2>1 DEF RecorderInv, RecorderTypeOK, TimeOut
  <1>2. PhasesInv'
    BY DEF TimeOut, PhasesInv
  <1> QED BY <1>1, <1>2, LapsKept DEF RecorderInv, TimeOut

\* Where the recorder is in which race is inductive.
THEOREM RecorderInductive == RecorderSpec => []RecorderInv
  <1>1. ASSUME RecorderInv, Sample PROVE RecorderInv'
    <2>1. PICK h \in NextFrames :
            game' = h /\ (DiscardLap(h) \/ PassOver(h) \/ KeepFrame(h) \/ FinishLap(h))
      BY <1>1 DEF Sample
    <2>2. recording = "sample"
      BY <1>1 DEF Sample
    <2> QED BY <1>1, <2>1, <2>2, DiscardInv, PassInv, KeepInv, FinishInv
  <1>2. ASSUME RecorderInv, UNCHANGED recorderVars PROVE RecorderInv'
    <2>1. UNCHANGED <<game, recording, previous, observed, current, remaining, frames, actions,
                      laps>>
      BY <1>2 DEF recorderVars
    <2>2. RecorderTypeOK' /\ PhasesInv'
      BY <1>2, <2>1 DEF RecorderInv, RecorderTypeOK, PhasesInv, OpenLap, LastRace, Time
    <2> QED BY <1>2, <2>1, <2>2, LapsKept DEF RecorderInv
  <1>3. RecorderInv /\ [RecorderNext]_recorderVars => RecorderInv'
    BY <1>1, <1>2, SynchronizeInv, WaitInv, AwaitStartInv, TimeOutInv DEF RecorderNext
  <1> QED BY <1>3, RecorderStarts, PTL DEF RecorderSpec

-----------------------------------------------------------------------------
(* Recorded recoveries.                                                    *)

\* Inputs a human did not give, and what is on its way once he was told to take over: nothing, or
\* what he does.
Robot == {x \in Input : x.who # "human"}
Late == {HandsOff} \cup {x \in Input : x.who = "human" /\ x.control # "neutral"}

\* What was given at each tick of an attempt: until a the model drove, until e the recorder held
\* control k, and then nobody did anything.
Ticks(a, e, k) ==
    [t \in Int |-> IF t <= a THEN Robot
                   ELSE IF t <= e THEN {[who |-> "recorder", control |-> k]} ELSE {HandsOff}]
Driven == [t \in Int |-> Robot]

\* Frames in the order of time from the start of the lap, and the inputs that are on their way.
Tape(c, w) ==
    /\ c \in Seq(Captured) /\ c # <<>> /\ c[1].time = 0
    /\ \A i, j \in 1 .. Len(c) : i < j => c[i].time < c[j].time
    /\ w \in Seq(Input) /\ Len(w) = InputLag

\* A frame shows what was given InputLag ticks before, and the rest of that is on its way.
Window(H, c, w) ==
    /\ \A i \in 1 .. Len(c) : c[i].input \in H[c[i].time - InputLag]
    /\ \A i \in 1 .. InputLag : w[i] \in H[c[Len(c)].time - InputLag + i]

\* The times of a tape.
LEMMA TapeTimes ==
    ASSUME NEW c, NEW w, Tape(c, w)
    PROVE  /\ Len(c) \in Nat \ {0}
           /\ \A i \in 1 .. Len(c) : /\ c[i].time \in 0 .. MaxTime /\ c[i].time \in Int
                                     /\ c[i].input \in Input
                                     /\ c[i].time <= c[Len(c)].time
           /\ MaxTime \in Nat /\ InputLag \in Nat
  <1>1. c \in Seq(Captured) /\ Len(c) \in Nat \ {0} /\ MaxTime \in Nat /\ InputLag \in Nat
    BY RecoveryAssumption DEF Tape
  <1>2. ASSUME NEW i \in 1 .. Len(c)
        PROVE  /\ c[i].time \in 0 .. MaxTime /\ c[i].time \in Int /\ c[i].input \in Input
    <2>1. c[i] \in Captured
      BY <1>1
    <2> QED BY <1>1, <2>1 DEF Captured
  <1>3. ASSUME NEW i \in 1 .. Len(c) PROVE c[i].time <= c[Len(c)].time
    <2>1. Len(c) \in 1 .. Len(c) /\ (i < Len(c) \/ i = Len(c))
      BY <1>1
    <2> QED BY <1>2, <2>1 DEF Tape
  <1> QED BY <1>1, <1>2, <1>3

\* Inputs on their way and n more of the same kind, one after the other.
LEMMA InputsAre ==
    ASSUME NEW n \in Nat \ {0}, NEW input \in Input, travelling \in Seq(Input),
           Len(travelling) = InputLag
    PROVE  /\ Inputs(n, input) \in Seq(Input) /\ Len(Inputs(n, input)) = InputLag + n
           /\ \A i \in 1 .. InputLag : Inputs(n, input)[i] = travelling[i]
           /\ \A i \in InputLag + 1 .. InputLag + n : Inputs(n, input)[i] = input
  <1> DEFINE more == [i \in 1 .. n |-> input]
  <1>1. more \in Seq(Input) /\ Len(more) = n /\ \A i \in 1 .. n : more[i] = input
    OBVIOUS
  <1>2. Inputs(n, input) = travelling \o more
    BY DEF Inputs
  <1> HIDE DEF more
  <1>3. InputLag \in Nat
    BY RecoveryAssumption
  <1>4. travelling \o more \in Seq(Input) /\ Len(travelling \o more) = InputLag + n
    BY <1>1, <1>3
  <1>5. \A i \in 1 .. InputLag : (travelling \o more)[i] = travelling[i]
    BY <1>1, <1>3
  <1>6. ASSUME NEW i \in InputLag + 1 .. InputLag + n PROVE (travelling \o more)[i] = input
    <2>1. i - InputLag \in 1 .. n
      BY <1>3
    <2>2. (travelling \o more)[i] = more[i - InputLag]
      BY <1>1, <1>3
    <2> QED BY <1>1, <2>1, <2>2
  <1> QED BY <1>2, <1>4, <1>5, <1>6

\* A frame more: the tape stays a tape.
LEMMA ShownTape ==
    ASSUME Tape(captured, travelling), NEW n \in Jumps, NEW input \in Input,
           Current.time + n <= MaxTime, Shown(n, input)
    PROVE  /\ Tape(captured', travelling')
           /\ Len(captured') = Len(captured) + 1
           /\ \A i \in 1 .. Len(captured) : captured'[i] = captured[i]
           /\ captured'[Len(captured) + 1] = [time |-> Current.time + n,
                                              input |-> Inputs(n, input)[n]]
           /\ \A i \in 1 .. InputLag : travelling'[i] = Inputs(n, input)[n + i]
  <1>1. n \in Nat \ {0} /\ InputLag \in Nat /\ MaxTime \in Nat
    BY RecoveryAssumption
  <1>2. captured \in Seq(Captured) /\ travelling \in Seq(Input) /\ Len(travelling) = InputLag
    BY DEF Tape
  <1>3. Len(captured) \in Nat \ {0} /\ Current.time \in 0 .. MaxTime
    <2>1. Len(captured) \in Nat \ {0} /\ Len(captured) \in 1 .. Len(captured)
      BY TapeTimes
    <2> QED BY <2>1, TapeTimes DEF Current
  <1> DEFINE given == Inputs(n, input)
             frame == [time |-> Current.time + n, input |-> given[n]]
  <1>4. given \in Seq(Input) /\ Len(given) = InputLag + n
    BY <1>1, <1>2, InputsAre
  <1>5. frame \in Captured
    <2>1. given[n] \in Input
      BY <1>1, <1>4
    <2>2. Current.time + n \in 0 .. MaxTime
      BY <1>1, <1>3
    <2> HIDE DEF given
    <2> QED BY <2>1, <2>2 DEF Captured
  <1>6. captured' = Append(captured, frame) /\ travelling' = SubSeq(given, n + 1, n + InputLag)
    BY DEF Shown, After
  <1> HIDE DEF given, frame
  <1>7. /\ captured' \in Seq(Captured) /\ Len(captured') = Len(captured) + 1
        /\ \A i \in 1 .. Len(captured) : captured'[i] = captured[i]
        /\ captured'[Len(captured) + 1] = frame
    BY <1>2, <1>5, <1>6
  <1>8. /\ travelling' \in Seq(Input) /\ Len(travelling') = InputLag
        /\ \A i \in 1 .. InputLag : travelling'[i] = given[n + i]
    <2>1. n + 1 \in 1 .. Len(given) + 1 /\ n + InputLag \in 0 .. Len(given)
      BY <1>1, <1>4
    <2> QED BY <1>1, <1>4, <1>6, <2>1
  <1>9. \A i, j \in 1 .. Len(captured') : i < j => captured'[i].time < captured'[j].time
    <2> SUFFICES ASSUME NEW i \in 1 .. Len(captured'), NEW j \in 1 .. Len(captured'), i < j
                 PROVE  captured'[i].time < captured'[j].time
      OBVIOUS
    <2>1. i \in 1 .. Len(captured) /\ captured'[i] = captured[i]
      BY <1>3, <1>7
    <2>2. CASE j = Len(captured) + 1
      <3>1. captured'[j].time = Current.time + n
        BY <1>7, <2>2 DEF frame
      <3>2. captured[i].time <= Current.time /\ captured[i].time \in Int
        BY <2>1, TapeTimes DEF Current
      <3> QED BY <1>1, <1>3, <2>1, <3>1, <3>2
    <2>3. CASE j # Len(captured) + 1
      <3>1. j \in 1 .. Len(captured)
        BY <1>3, <1>7, <2>3
      <3> QED BY <1>7, <2>1, <3>1 DEF Tape
    <2> QED BY <2>2, <2>3
  <1>10. captured'[1].time = 0 /\ captured' # <<>>
    BY <1>3, <1>7 DEF Tape
  <1> QED BY <1>7, <1>8, <1>9, <1>10 DEF Tape, given, frame

\* A frame more: it shows what the tape says, if the tape says so of what is given.
LEMMA ShownWindow ==
    ASSUME Tape(captured, travelling), NEW n \in Jumps, NEW input \in Input,
           Current.time + n <= MaxTime, Shown(n, input),
           NEW H, Window(H, captured, travelling),
           \A t \in Int : t > Current.time /\ t <= Current.time + n => input \in H[t]
    PROVE  Window(H, captured', travelling')
  <1>1. n \in Nat \ {0} /\ InputLag \in Nat /\ MaxTime \in Nat
    BY RecoveryAssumption
  <1>2. Len(captured) \in Nat \ {0} /\ Current.time \in Int /\ Current = captured[Len(captured)]
    <2>1. Len(captured) \in Nat \ {0} /\ Len(captured) \in 1 .. Len(captured)
      BY TapeTimes
    <2> QED BY <2>1, TapeTimes DEF Current
  <1> DEFINE given == Inputs(n, input)
             now == Current.time
  <1>3. ASSUME NEW i \in 1 .. InputLag + n PROVE given[i] \in H[now - InputLag + i]
    <2>1. CASE i \in 1 .. InputLag
      <3>1. given[i] = travelling[i]
        BY <1>1, <2>1, InputsAre DEF Tape
      <3>2. travelling[i] \in H[now - InputLag + i]
        BY <1>2, <2>1 DEF Window
      <3> QED BY <3>1, <3>2
    <2>2. CASE i \notin 1 .. InputLag
      <3>1. i \in InputLag + 1 .. InputLag + n
        BY <1>1, <2>2
      <3>2. given[i] = input
        BY <1>1, <3>1, InputsAre DEF Tape
      <3>3. now - InputLag + i \in Int /\ now - InputLag + i > now /\ now - InputLag + i <= now + n
        BY <1>1, <1>2, <3>1
      <3> QED BY <3>2, <3>3
    <2> QED BY <2>1, <2>2
  <1> HIDE DEF given
  <1>4. /\ Len(captured') = Len(captured) + 1
        /\ \A i \in 1 .. Len(captured) : captured'[i] = captured[i]
        /\ captured'[Len(captured) + 1] = [time |-> now + n, input |-> given[n]]
        /\ \A i \in 1 .. InputLag : travelling'[i] = given[n + i]
    BY ShownTape DEF given
  <1> HIDE DEF now
  <1>5. captured'[Len(captured')].time = now + n
    BY <1>4
  <1>6. ASSUME NEW i \in 1 .. InputLag
        PROVE  travelling'[i] \in H[captured'[Len(captured')].time - InputLag + i]
    <2>1. n + i \in 1 .. InputLag + n
      BY <1>1
    <2>2. now - InputLag + (n + i) = (now + n) - InputLag + i
      BY <1>1, <1>2 DEF now
    <2>3. given[n + i] \in H[now - InputLag + (n + i)]
      BY <1>3, <2>1
    <2> QED BY <1>4, <1>5, <2>2, <2>3
  <1>7. ASSUME NEW i \in 1 .. Len(captured')
        PROVE  captured'[i].input \in H[captured'[i].time - InputLag]
    <2>1. CASE i = Len(captured) + 1
      <3>1. n \in 1 .. InputLag + n /\ now - InputLag + n = (now + n) - InputLag
        BY <1>1, <1>2 DEF now
      <3>2. captured'[i].input = given[n] /\ captured'[i].time = now + n
        BY <1>4, <2>1
      <3>3. given[n] \in H[now - InputLag + n]
        BY <1>3, <3>1
      <3> QED BY <3>1, <3>2, <3>3
    <2>2. CASE i # Len(captured) + 1
      <3>1. i \in 1 .. Len(captured)
        BY <1>2, <1>4, <2>2
      <3> QED BY <1>4, <3>1 DEF Window
    <2> QED BY <2>1, <2>2
  <1> QED BY <1>6, <1>7 DEF Window

\* What a tape says of later ticks does not matter to what it shows.
LEMMA WindowSame ==
    ASSUME NEW c, NEW w, Tape(c, w), NEW H, NEW G, Window(H, c, w),
           \A t \in Int : t <= c[Len(c)].time => H[t] = G[t]
    PROVE  Window(G, c, w)
  <1>1. InputLag \in Nat /\ Len(c) \in 1 .. Len(c) /\ c[Len(c)].time \in Int
    BY TapeTimes
  <1>2. ASSUME NEW i \in 1 .. Len(c) PROVE c[i].input \in G[c[i].time - InputLag]
    <2>1. c[i].time \in Int /\ c[i].time <= c[Len(c)].time
      BY TapeTimes
    <2>2. c[i].time - InputLag \in Int /\ c[i].time - InputLag <= c[Len(c)].time
      BY <1>1, <2>1
    <2> QED BY <2>2 DEF Window
  <1>3. ASSUME NEW i \in 1 .. InputLag PROVE w[i] \in G[c[Len(c)].time - InputLag + i]
    <2>1. /\ c[Len(c)].time - InputLag + i \in Int
          /\ c[Len(c)].time - InputLag + i <= c[Len(c)].time
      BY <1>1
    <2> QED BY <2>1 DEF Window
  <1> QED BY <1>2, <1>3 DEF Window

-----------------------------------------------------------------------------
Side == {"left", "right"}

\* A perturbation that was confirmed: nobody but the recorder and the model until it was let go
\* of, the recorder last, and one control to a side for long enough, after enough context.
RunOK(f, p) ==
    LET ending == p.start + p.steps
    IN  /\ p.start \in Nat /\ p.steps \in Nat \ {0} /\ ending < Len(f)
        /\ f[p.start + 1].time - f[1].time >= Context
        /\ 2 * (f[ending + 1].time - f[p.start + 1].time) >= Duration
        /\ \A s \in p.start .. ending - 1 :
               /\ f[s + 1].input.control = f[p.start + 1].input.control
               /\ f[s + 1].input.control \in Side
        /\ f[ending].input.who = "recorder" /\ Neutral(f[ending + 1])
        /\ \A s \in 0 .. ending : f[s + 1].input.who # "human"

\* A human who has taken over at step t, after nobody did anything.
TakenOver(f, p, t) ==
    LET ending == p.start + p.steps
    IN  /\ t \in Nat /\ ending <= t /\ t < Len(f)
        /\ f[t + 1].input.who = "human" /\ ~Neutral(f[t + 1])
        /\ \A s \in 0 .. t - 1 : f[s + 1].input.who # "human"
        /\ \A s \in ending .. t - 1 : Neutral(f[s + 1])

\* The perturbation was begun: behind the context, against what the car was doing.
Begun ==
    /\ intended \in Side /\ startedAt \in 0 .. MaxTime /\ startedAt >= Context
    /\ \E s \in 1 .. Len(captured) :
           captured[s].time = startedAt /\ captured[s].input.control # intended

\* It was ended at tick e, and only the last frame may show it.
Ended(e) ==
    /\ e >= startedAt + Duration
    /\ \E s \in 1 .. Len(captured) : captured[s].time = e
    /\ Window(Ticks(startedAt, e, intended), captured, travelling)
    /\ \A s \in 1 .. Len(captured) - 1 : captured[s].time - InputLag <= e

\* Nobody did anything yet that a frame before the last one shows.
HandedOver ==
    LET ending == perturbation.start + perturbation.steps
    IN  /\ \A i \in ending + 1 .. Len(captured) : captured[i].input \in Late
        /\ \A i \in ending + 1 .. Len(captured) - 1 : captured[i].input = HandsOff
        /\ \A i \in 1 .. InputLag : travelling[i] \in Late

TapeInv ==
    /\ capture # "idle" => Tape(captured, travelling) /\ Len(archives) < Laps
    /\ capture = "idle" => captured = <<>> /\ travelling = <<>>
HandsInv ==
    /\ human.who = "human" /\ virtual.who # "human"
    /\ capture \notin {"handover", "finish"} => human = HumanAtRest
    /\ capture \in {"release", "handover", "finish"} => virtual = HandsOff
    /\ capture = "inject" => virtual = [who |-> "recorder", control |-> intended]
    /\ capture # "inject" /\ virtual.who = "recorder" => virtual.control = "neutral"
AttemptInv ==
    /\ capture \in {"drive", "perturb"} => Window(Driven, captured, travelling)
    /\ capture = "perturb" => Current.time >= Context
    /\ capture = "inject" =>
         Begun /\ Window(Ticks(startedAt, MaxTime, intended), captured, travelling)
    /\ capture = "release" => Begun /\ \E e \in Int : Ended(e)
    /\ capture \in {"handover", "finish"} =>
         RunOK(captured, perturbation) /\ perturbation \in [start : Nat, steps : Nat]
    /\ capture = "handover" => HandedOver
    /\ capture = "finish" => TakenOver(captured, perturbation, takeover)
ArchivesOK ==
    archives \in Seq([frames : Seq(Captured), takeover : Nat,
                      perturbation : [start : Nat, steps : Nat]])

RecoveryInv ==
    RecoveryTypeOK /\ TapeInv /\ HandsInv /\ AttemptInv /\ ArchivesOK /\ RecoveriesAreWhole

\* Frames that go on where others end.
Extends(f, g) == Len(g) >= Len(f) /\ \A i \in 1 .. Len(f) : g[i] = f[i]

\* What was recorded of a perturbation stays recorded.
LEMMA RunGrows ==
    ASSUME NEW f \in Seq(Captured), NEW g \in Seq(Captured), NEW p, RunOK(f, p), Extends(f, g)
    PROVE  RunOK(g, p)
  <1> DEFINE start == p.start
             ending == p.start + p.steps
  <1>1. /\ start \in Nat /\ p.steps \in Nat \ {0} /\ ending < Len(f) /\ ending \in Nat
        /\ start < ending
    BY SMTT(20) DEF RunOK
  <1>2. Len(f) \in Nat /\ Len(g) \in Nat /\ Len(g) >= Len(f)
    BY DEF Extends
  <1>3. \A s \in 0 .. ending : s + 1 \in 1 .. Len(f) /\ g[s + 1] = f[s + 1]
    BY <1>1, <1>2 DEF Extends
  <1>4. /\ g[start + 1] = f[start + 1] /\ g[ending + 1] = f[ending + 1] /\ g[1] = f[1]
        /\ g[ending] = f[ending]
    <2>1. {start, ending, 0, ending - 1} \subseteq 0 .. ending
      BY <1>1
    <2>2. (ending - 1) + 1 = ending /\ 0 + 1 = 1
      BY <1>1
    <2> HIDE DEF start, ending
    <2> QED BY SMTT(20), <1>3, <2>1, <2>2
  <1>5. \A s \in start .. ending - 1 : g[s + 1] = f[s + 1]
    <2>1. \A s \in start .. ending - 1 : s \in 0 .. ending
      BY <1>1
    <2> HIDE DEF start, ending
    <2> QED BY <1>3, <2>1
  <1>6. ending < Len(g)
    BY <1>1, <1>2
  <1> HIDE DEF start, ending
  <1> QED BY <1>1, <1>3, <1>4, <1>5, <1>6 DEF RunOK, start, ending

\* What was recorded of a takeover stays recorded.
LEMMA TakenGrows ==
    ASSUME NEW f \in Seq(Captured), NEW g \in Seq(Captured), NEW p, NEW t,
           p.start + p.steps \in Nat, TakenOver(f, p, t), Extends(f, g)
    PROVE  TakenOver(g, p, t)
  <1> DEFINE ending == p.start + p.steps
  <1>1. ending \in Nat /\ t \in Nat /\ ending <= t /\ t < Len(f)
    BY DEF TakenOver
  <1>2. Len(f) \in Nat /\ Len(g) \in Nat /\ Len(g) >= Len(f)
    BY DEF Extends
  <1>3. \A s \in 0 .. t : g[s + 1] = f[s + 1]
    BY <1>1, <1>2 DEF Extends
  <1>4. /\ t \in 0 .. t /\ t < Len(g)
        /\ \A s \in 0 .. t - 1 : s \in 0 .. t
        /\ \A s \in ending .. t - 1 : s \in 0 .. t
    BY <1>1, <1>2
  <1> HIDE DEF ending
  <1> QED BY <1>1, <1>3, <1>4 DEF TakenOver, ending

\* What RecoveriesAreWhole says of one saved lap.
WholeRecovery(a) ==
    LET ending == a.perturbation.start + a.perturbation.steps
        at(s) == a.frames[s + 1]
    IN  /\ ValidArchive(a)
        /\ at(a.takeover).input.who = "human" /\ ~Neutral(at(a.takeover))
        /\ \A s \in 0 .. a.takeover - 1 : at(s).input.who # "human"
        /\ at(ending - 1).input.who = "recorder"
        /\ \A s \in ending .. a.takeover - 1 : Neutral(at(s))

\* A lap that goes on for a frame at least after a takeover is whole.
LEMMA WholeWhenTaken ==
    ASSUME NEW f \in Seq(Captured), NEW p, NEW t, RunOK(f, p), TakenOver(f, p, t),
           t < Len(f) - 1
    PROVE  WholeRecovery([frames |-> f, takeover |-> t, perturbation |-> p])
  <1> DEFINE a == [frames |-> f, takeover |-> t, perturbation |-> p]
             start == p.start
             ending == p.start + p.steps
  <1>1. start \in Nat /\ p.steps \in Nat \ {0} /\ ending \in Nat \ {0} /\ (ending - 1) + 1 = ending
        /\ 0 + 1 = 1
    BY SMTT(20) DEF RunOK
  <1>2. a.frames = f /\ a.takeover = t /\ a.perturbation = p
    OBVIOUS
  <1>3. /\ f[start + 1].time - f[1].time >= Context
        /\ 2 * (f[ending + 1].time - f[start + 1].time) >= Duration
        /\ \A s \in start .. ending - 1 : /\ f[s + 1].input.control = f[start + 1].input.control
                                        /\ f[s + 1].input.control \in Side
        /\ f[ending].input.who = "recorder"
    BY DEF RunOK
  <1>4. /\ ending <= t /\ f[t + 1].input.who = "human" /\ ~Neutral(f[t + 1])
        /\ \A s \in 0 .. t - 1 : f[s + 1].input.who # "human"
        /\ \A s \in ending .. t - 1 : Neutral(f[s + 1])
    BY DEF TakenOver
  <1> HIDE DEF a
  <1>5. ValidArchive(a)
    BY <1>1, <1>2, <1>3, <1>4 DEF ValidArchive, Side
  <1>6. WholeRecovery(a)
    BY <1>1, <1>2, <1>3, <1>4, <1>5 DEF WholeRecovery
  <1> QED BY <1>6 DEF a

\* RecoveriesAreWhole says so of each saved lap, now and after a step.
LEMMA WholeIs ==
    /\ RecoveriesAreWhole <=> \A i \in 1 .. Len(archives) : WholeRecovery(archives[i])
    /\ RecoveriesAreWhole' <=> \A i \in 1 .. Len(archives') : WholeRecovery(archives'[i])
  BY DEF RecoveriesAreWhole, WholeRecovery

\* Nothing saved, nothing to show.
LEMMA ArchivesKept ==
    ASSUME ArchivesOK, RecoveriesAreWhole, UNCHANGED archives
    PROVE  ArchivesOK' /\ RecoveriesAreWhole'
  <1>1. archives' = archives
    OBVIOUS
  <1> QED BY <1>1, WholeIs DEF ArchivesOK

\* The recorder starts in a state that satisfies the invariant.
LEMMA RecoveryStarts == RecoveryInit => RecoveryInv
  <1> SUFFICES ASSUME RecoveryInit PROVE RecoveryInv
    OBVIOUS
  <1> USE RecoveryAssumption DEF RecoveryInit
  <1>1. RecoveryTypeOK
    BY DEF RecoveryTypeOK, HandsOff, HumanAtRest, Input, Control
  <1>2. TapeInv
    BY DEF TapeInv
  <1>3. HandsInv
    BY DEF HandsInv, HandsOff, HumanAtRest
  <1>4. AttemptInv /\ ArchivesOK /\ RecoveriesAreWhole
    BY DEF AttemptInv, ArchivesOK, RecoveriesAreWhole
  <1> QED BY <1>1, <1>2, <1>3, <1>4 DEF RecoveryInv

\* An attempt begins with nothing on its way but what the model may give.
LEMMA BeginAttemptInv == RecoveryInv /\ BeginAttempt => RecoveryInv'
  <1> SUFFICES ASSUME RecoveryInv, BeginAttempt PROVE RecoveryInv'
    OBVIOUS
  <1>1. /\ RecoveryTypeOK /\ HandsInv /\ ArchivesOK /\ RecoveriesAreWhole
        /\ {InputLag, MaxTime, MaxAttempts, Laps} \subseteq Nat
    BY RecoveryAssumption DEF RecoveryInv
  <1>2. /\ capture = "idle" /\ Len(archives) < Laps /\ attempts < MaxAttempts
        /\ attempts' = attempts + 1 /\ capture' = "drive" /\ virtual' = HandsOff
        /\ UNCHANGED <<human, intended, startedAt, perturbation, takeover, archives>>
    BY DEF BeginAttempt
  <1>3. HandsOff \in Input /\ HandsOff \in Robot
    BY DEF HandsOff, Input, Control, Robot
  <1> DEFINE frame == [time |-> 0, input |-> HandsOff]
  <1>4. frame \in Captured
    BY <1>1, <1>3 DEF Captured
  <1>5. /\ captured' = <<frame>> /\ Len(captured') = 1 /\ captured'[1] = frame
        /\ captured' \in Seq(Captured)
    BY <1>4 DEF BeginAttempt
  <1>6. /\ travelling' \in Seq(Input) /\ Len(travelling') = InputLag
        /\ \A i \in 1 .. InputLag : travelling'[i] = HandsOff
    BY <1>1, <1>3 DEF BeginAttempt
  <1>7. Tape(captured', travelling')
    BY <1>5, <1>6 DEF Tape
  <1>8. Window(Driven, captured', travelling')
    BY <1>1, <1>3, <1>5, <1>6 DEF Window, Driven
  <1> HIDE DEF frame
  <1>9. RecoveryTypeOK'
    BY <1>1, <1>2, <1>3, <1>4, <1>5, <1>6 DEF RecoveryTypeOK
  <1>10. TapeInv' /\ HandsInv' /\ AttemptInv'
    <2>1. TapeInv'
      BY <1>2, <1>7 DEF TapeInv
    <2>2. HandsInv'
      BY <1>1, <1>2 DEF HandsInv, HandsOff
    <2>3. AttemptInv'
      <3>1. Window(Driven, captured, travelling)'
        BY <1>8 DEF Window, Driven
      <3> QED BY <1>2, <3>1 DEF AttemptInv
    <2> QED BY <2>1, <2>2, <2>3
  <1>11. ArchivesOK' /\ RecoveriesAreWhole'
    BY <1>1, <1>2, ArchivesKept
  <1> QED BY <1>9, <1>10, <1>11 DEF RecoveryInv

\* The types of the frames and of what is on its way.
LEMMA TapeTypes ==
    ASSUME NEW c, NEW w, Tape(c, w)
    PROVE  (\A i \in 1 .. Len(c) : c[i] \in Captured) /\ Len(w) <= InputLag
  <1>1. InputLag \in Nat /\ c \in Seq(Captured) /\ Len(w) = InputLag
    BY RecoveryAssumption DEF Tape
  <1> QED BY <1>1

\* What is given to the game is an input.
LEMMA GivenIs == ASSUME RecoveryTypeOK PROVE Given \in Input
  BY DEF RecoveryTypeOK, Given

\* The current frame is the last one.
LEMMA CurrentIs ==
    ASSUME Tape(captured, travelling)
    PROVE  /\ Current = captured[Len(captured)] /\ Len(captured) \in 1 .. Len(captured)
           /\ Current.time \in 0 .. MaxTime /\ Current.input \in Input
           /\ Current \in Captured
  <1>1. Len(captured) \in 1 .. Len(captured) /\ captured \in Seq(Captured)
    BY TapeTimes DEF Tape
  <1>2. captured[Len(captured)] \in Captured
    BY <1>1
  <1> QED BY <1>1, <1>2, TapeTimes DEF Current

\* After a frame more, the current frame is that one, and what was captured is a part.
LEMMA CurrentMoves ==
    ASSUME Tape(captured, travelling), NEW n \in Jumps, NEW input \in Input,
           Current.time + n <= MaxTime, Shown(n, input)
    PROVE  /\ Tape(captured, travelling)'
           /\ Current'.time = Current.time + n
           /\ Extends(captured, captured') /\ Len(captured') = Len(captured) + 1
           /\ n \in Nat \ {0}
  <1>1. /\ Tape(captured', travelling') /\ Len(captured') = Len(captured) + 1
        /\ \A i \in 1 .. Len(captured) : captured'[i] = captured[i]
        /\ captured'[Len(captured) + 1].time = Current.time + n
    <2>1. captured'[Len(captured) + 1] = [time |-> Current.time + n,
                                          input |-> Inputs(n, input)[n]]
      BY ShownTape
    <2>2. captured'[Len(captured) + 1].time = Current.time + n
      BY <2>1
    <2> QED BY <2>2, ShownTape
  <1>2. Len(captured) \in Nat /\ n \in Nat \ {0}
    BY TapeTimes, RecoveryAssumption
  <1>3. Current' = captured'[Len(captured')]
    BY DEF Current
  <1>4. Tape(captured, travelling)'
    BY <1>1 DEF Tape
  <1> QED BY <1>1, <1>2, <1>3, <1>4 DEF Extends

\* Driving to the target keeps the invariant.
LEMMA DriveInv == RecoveryInv /\ DriveToTarget => RecoveryInv'
  <1> SUFFICES ASSUME RecoveryInv, DriveToTarget PROVE RecoveryInv'
    OBVIOUS
  <1>1. /\ RecoveryTypeOK /\ HandsInv /\ ArchivesOK /\ RecoveriesAreWhole
        /\ Tape(captured, travelling) /\ Len(archives) < Laps
        /\ Window(Driven, captured, travelling)
    BY DEF RecoveryInv, TapeInv, AttemptInv, DriveToTarget
  <1>2. PICK control \in Control, n \in Jumps :
          /\ Current.time + n <= MaxTime
          /\ virtual' = [who |-> "model", control |-> control]
          /\ Shown(n, virtual')
          /\ \/ capture' = "drive"
             \/ Current.time + n >= Context /\ capture' = "perturb"
    BY DEF DriveToTarget
  <1>3. UNCHANGED <<human, intended, startedAt, perturbation, takeover, attempts, archives>>
    BY DEF DriveToTarget
  <1>4. virtual' \in Input /\ virtual' \in Robot /\ virtual'.who = "model"
    BY <1>2 DEF Input, Robot
  <1>5. /\ Tape(captured, travelling)' /\ Current'.time = Current.time + n
        /\ Tape(captured', travelling')
    BY <1>1, <1>2, <1>4, CurrentMoves, ShownTape
  <1>6. Window(Driven, captured, travelling)'
    <2>1. \A t \in Int : virtual' \in Driven[t]
      BY <1>4 DEF Driven
    <2>2. Window(Driven, captured', travelling')
      BY <1>1, <1>2, <1>4, <2>1, ShownWindow
    <2> QED BY <2>2 DEF Window, Driven
  <1>7. RecoveryTypeOK'
    BY <1>1, <1>2, <1>3, <1>4, <1>5, TapeTypes DEF RecoveryTypeOK
  <1>8. TapeInv'
    BY <1>1, <1>2, <1>3, <1>5 DEF TapeInv
  <1>9. HandsInv'
    BY <1>1, <1>2, <1>3, <1>4 DEF HandsInv, DriveToTarget
  <1>10. AttemptInv'
    BY <1>2, <1>5, <1>6 DEF AttemptInv
  <1> QED BY <1>1, <1>3, <1>7, <1>8, <1>9, <1>10, ArchivesKept DEF RecoveryInv

\* The perturbation begins against what the car is doing.
LEMMA BeginPerturbationInv == RecoveryInv /\ BeginPerturbation => RecoveryInv'
  <1> SUFFICES ASSUME RecoveryInv, BeginPerturbation PROVE RecoveryInv'
    OBVIOUS
  <1>1. /\ RecoveryTypeOK /\ HandsInv /\ ArchivesOK /\ RecoveriesAreWhole
        /\ Tape(captured, travelling) /\ Len(archives) < Laps
        /\ Window(Driven, captured, travelling) /\ Current.time >= Context
        /\ human = HumanAtRest
    BY DEF RecoveryInv, TapeInv, AttemptInv, BeginPerturbation, HandsInv
  <1>2. PICK control \in Opposed(Current.input.control) :
          intended' = control /\ virtual' = [who |-> "recorder", control |-> control]
    BY DEF BeginPerturbation
  <1>3. /\ startedAt' = Current.time /\ capture' = "inject"
        /\ UNCHANGED <<captured, human, travelling, perturbation, takeover, attempts, archives>>
    BY DEF BeginPerturbation
  <1>4. control \in Side /\ control \in Control /\ control # Current.input.control
    BY DEF Opposed, Side, Control
  <1>5. virtual' \in Input
    BY <1>2, <1>4 DEF Input
  <1>6. Current.time \in 0 .. MaxTime /\ MaxTime \in Nat
    BY <1>1, CurrentIs, TapeTimes
  <1>7. Begun'
    <2>1. intended' \in Side /\ startedAt' \in 0 .. MaxTime /\ startedAt' >= Context
      BY <1>1, <1>2, <1>3, <1>4, <1>6
    <2>2. /\ Len(captured') \in 1 .. Len(captured')
          /\ captured'[Len(captured')].time = startedAt'
          /\ captured'[Len(captured')].input.control # intended'
      BY <1>1, <1>2, <1>3, <1>4, CurrentIs
    <2> QED BY <2>1, <2>2 DEF Begun
  <1>8. Window(Ticks(startedAt, MaxTime, intended), captured, travelling)'
    <2> DEFINE G == Ticks(Current.time, MaxTime, control)
    <2>1. \A t \in Int : t <= captured[Len(captured)].time => Driven[t] = G[t]
      BY <1>1, <1>6, CurrentIs DEF Driven, Ticks
    <2> HIDE DEF G
    <2>2. Window(G, captured, travelling)
      BY <1>1, <2>1, WindowSame
    <2> QED BY <1>2, <1>3, <2>2 DEF G, Window, Ticks
  <1>9. RecoveryTypeOK'
    BY <1>1, <1>2, <1>3, <1>4, <1>5, <1>6 DEF RecoveryTypeOK
  <1>10. TapeInv'
    BY <1>1, <1>3 DEF TapeInv, Tape
  <1>11. HandsInv'
    BY <1>1, <1>2, <1>3 DEF HandsInv
  <1>12. AttemptInv'
    BY <1>3, <1>7, <1>8 DEF AttemptInv
  <1> QED BY <1>1, <1>3, <1>9, <1>10, <1>11, <1>12, ArchivesKept DEF RecoveryInv

\* A tick of an attempt, to a frame later: what stays of the invariant whatever is given.
LEMMA NextFrameIs ==
    ASSUME RecoveryInv, capture # "idle", NextFrame
    PROVE  \E n \in Jumps :
             /\ Current.time + n <= MaxTime /\ Shown(n, Given) /\ Given \in Input
             /\ Tape(captured, travelling)' /\ Current'.time = Current.time + n
             /\ Extends(captured, captured') /\ Len(captured') = Len(captured) + 1
             /\ captured' \in Seq(Captured) /\ n \in Nat \ {0}
  <1>1. RecoveryTypeOK /\ Tape(captured, travelling)
    BY DEF RecoveryInv, TapeInv
  <1>2. PICK n \in Jumps : Current.time + n <= MaxTime /\ Shown(n, Given)
    BY DEF NextFrame
  <1>3. Given \in Input
    BY <1>1, GivenIs
  <1>4. captured' \in Seq(Captured)
    BY <1>1, <1>2, <1>3, ShownTape DEF Tape
  <1> QED BY <1>1, <1>2, <1>3, <1>4, CurrentMoves

\* The types after a frame more, when nothing else changes.
LEMMA FrameTypes ==
    ASSUME RecoveryInv, Tape(captured, travelling)', Len(archives) < Laps,
           UNCHANGED <<capture, virtual, human, intended, startedAt, perturbation, takeover,
                       attempts, archives>>, capture # "idle"
    PROVE  RecoveryTypeOK' /\ TapeInv' /\ HandsInv' /\ ArchivesOK' /\ RecoveriesAreWhole'
  <1>1. RecoveryTypeOK /\ TapeInv /\ HandsInv /\ ArchivesOK /\ RecoveriesAreWhole
    BY DEF RecoveryInv
  <1>2. Tape(captured', travelling')
    BY DEF Tape
  <1>3. RecoveryTypeOK'
    BY <1>1, <1>2, TapeTypes DEF RecoveryTypeOK
  <1>4. TapeInv'
    BY <1>2 DEF TapeInv
  <1>5. HandsInv'
    BY <1>1 DEF HandsInv
  <1> QED BY <1>1, <1>3, <1>4, <1>5, ArchivesKept

\* Frames more do not change that the perturbation was begun.
LEMMA BegunGrows ==
    ASSUME Begun, captured \in Seq(Captured), Extends(captured, captured'),
           captured' \in Seq(Captured), UNCHANGED <<intended, startedAt>>
    PROVE  Begun'
  <1>1. PICK s \in 1 .. Len(captured) :
          captured[s].time = startedAt /\ captured[s].input.control # intended
    BY DEF Begun
  <1>2. s \in 1 .. Len(captured') /\ captured'[s] = captured[s]
    BY DEF Extends
  <1> QED BY <1>1, <1>2 DEF Begun

\* While it is injected, the recorder's input is what is given.
LEMMA InjectInv == RecoveryInv /\ Inject => RecoveryInv'
  <1> SUFFICES ASSUME RecoveryInv, Inject PROVE RecoveryInv'
    OBVIOUS
  <1> DEFINE H == Ticks(startedAt, MaxTime, intended)
  <1>1. /\ HandsInv /\ Tape(captured, travelling) /\ Len(archives) < Laps
        /\ Begun /\ Window(H, captured, travelling)
    BY DEF RecoveryInv, TapeInv, AttemptInv, Inject
  <1>2. /\ capture = "inject" /\ NextFrame
        /\ UNCHANGED <<capture, virtual, human, intended, startedAt, perturbation, takeover,
                       attempts, archives>>
    BY DEF Inject
  <1>3. PICK n \in Jumps :
          /\ Current.time + n <= MaxTime /\ Shown(n, Given) /\ Given \in Input
          /\ Tape(captured, travelling)' /\ Extends(captured, captured')
          /\ captured' \in Seq(Captured) /\ n \in Nat \ {0}
    BY <1>2, NextFrameIs
  <1>4. Given = [who |-> "recorder", control |-> intended]
    BY <1>1, <1>2 DEF HandsInv, Given, HumanAtRest
  <1>5. startedAt <= Current.time /\ Current.time \in 0 .. MaxTime /\ MaxTime \in Nat
    BY <1>1, CurrentIs, TapeTimes DEF Begun
  <1>6. \A t \in Int : t > Current.time /\ t <= Current.time + n => Given \in H[t]
    BY <1>1, <1>3, <1>4, <1>5 DEF Ticks, Begun
  <1> HIDE DEF H
  <1>7. Window(H, captured', travelling')
    BY <1>1, <1>3, <1>6, ShownWindow
  <1>8. Window(Ticks(startedAt, MaxTime, intended), captured, travelling)'
    BY <1>2, <1>7 DEF H, Window, Ticks
  <1>9. Begun'
    BY <1>1, <1>2, <1>3, BegunGrows DEF Tape
  <1>10. AttemptInv'
    BY <1>2, <1>8, <1>9 DEF AttemptInv
  <1> QED BY <1>1, <1>2, <1>3, <1>10, FrameTypes DEF RecoveryInv

\* The perturbation ends: everything that was given of it is on its way or shown.
LEMMA EndPerturbationInv == RecoveryInv /\ EndPerturbation => RecoveryInv'
  <1> SUFFICES ASSUME RecoveryInv, EndPerturbation PROVE RecoveryInv'
    OBVIOUS
  <1>1. /\ RecoveryTypeOK /\ HandsInv /\ Tape(captured, travelling) /\ Len(archives) < Laps
        /\ Begun /\ Window(Ticks(startedAt, MaxTime, intended), captured, travelling)
        /\ ArchivesOK /\ RecoveriesAreWhole /\ human = HumanAtRest
    BY DEF RecoveryInv, TapeInv, AttemptInv, EndPerturbation, HandsInv
  <1>2. /\ capture = "inject" /\ Current.time - startedAt >= Duration
        /\ virtual' = HandsOff /\ capture' = "release"
        /\ UNCHANGED <<captured, human, travelling, intended, startedAt, perturbation, takeover,
                       attempts, archives>>
    BY DEF EndPerturbation
  <1>3. /\ Current.time \in 0 .. MaxTime /\ MaxTime \in Nat /\ startedAt \in Nat
        /\ Duration \in Nat /\ InputLag \in Nat
    BY <1>1, CurrentIs, TapeTimes, RecoveryAssumption DEF Begun
  <1> DEFINE e == Current.time
             H == Ticks(startedAt, MaxTime, intended)
             G == Ticks(startedAt, e, intended)
  <1>4. Window(G, captured, travelling)
    <2>1. \A t \in Int : t <= captured[Len(captured)].time => H[t] = G[t]
      BY <1>1, <1>3, CurrentIs DEF Ticks
    <2> HIDE DEF H, G
    <2>2. Window(H, captured, travelling)
      BY <1>1 DEF H
    <2> QED BY <1>1, <2>1, <2>2, WindowSame
  <1> HIDE DEF H, G
  <1>5. \A s \in 1 .. Len(captured) - 1 : captured[s].time - InputLag <= e
    <2> SUFFICES ASSUME NEW s \in 1 .. Len(captured) - 1
                 PROVE  captured[s].time - InputLag <= e
      OBVIOUS
    <2>1. s \in 1 .. Len(captured)
      BY <1>1, TapeTimes
    <2>2. captured[s].time \in Int /\ captured[s].time <= Current.time
      BY <1>1, <2>1, TapeTimes, CurrentIs
    <2> QED BY <1>3, <2>2
  <1>6. /\ Len(captured) \in 1 .. Len(captured) /\ captured[Len(captured)].time = e
    BY <1>1, CurrentIs
  <1>7. e >= startedAt + Duration /\ e \in Int
    BY <1>2, <1>3
  <1>8. Begun' /\ (\E k \in Int : Ended(k))'
    <2> HIDE DEF e
    <2>1. Begun'
      BY <1>1, <1>2 DEF Begun
    <2>2. Ended(e)
      BY <1>4, <1>5, <1>6, <1>7 DEF Ended, G
    <2>3. e \in Int
      BY <1>7
    <2>4. (\E k \in Int : Ended(k))'
      <3>1. PICK k \in Int : k = e
        BY <2>3
      <3>2. Ended(k)
        BY <2>2, <3>1
      <3>3. Ended(k)'
        BY <1>2, <3>2 DEF Ended
      <3> QED BY <3>3
    <2> QED BY <2>1, <2>4
  <1>9. HandsOff \in Input /\ HandsOff.who # "human" /\ HandsOff.control = "neutral"
    BY DEF HandsOff, Input, Control
  <1>10. RecoveryTypeOK'
    BY <1>1, <1>2, <1>9 DEF RecoveryTypeOK
  <1>11. TapeInv'
    BY <1>1, <1>2 DEF TapeInv, Tape
  <1>12. HandsInv'
    BY <1>1, <1>2, <1>9 DEF HandsInv
  <1>13. AttemptInv'
    BY <1>2, <1>8 DEF AttemptInv
  <1> QED BY <1>1, <1>2, <1>10, <1>11, <1>12, <1>13, ArchivesKept DEF RecoveryInv

\* Until telemetry shows the release, nothing but the perturbation is shown.
LEMMA AwaitReleaseInv == RecoveryInv /\ AwaitRelease => RecoveryInv'
  <1> SUFFICES ASSUME RecoveryInv, AwaitRelease PROVE RecoveryInv'
    OBVIOUS
  <1>1. /\ HandsInv /\ Tape(captured, travelling) /\ Len(archives) < Laps /\ Begun
    BY DEF RecoveryInv, TapeInv, AttemptInv, AwaitRelease
  <1>2. PICK e \in Int : Ended(e)
    BY DEF RecoveryInv, AttemptInv, AwaitRelease
  <1>3. /\ capture = "release" /\ NextFrame /\ ~Neutral(Current)
        /\ UNCHANGED <<capture, virtual, human, intended, startedAt, perturbation, takeover,
                       attempts, archives>>
    BY DEF AwaitRelease, Released
  <1>4. PICK n \in Jumps :
          /\ Current.time + n <= MaxTime /\ Shown(n, Given) /\ Given \in Input
          /\ Tape(captured, travelling)' /\ Extends(captured, captured')
          /\ Len(captured') = Len(captured) + 1
          /\ captured' \in Seq(Captured) /\ n \in Nat \ {0}
    BY <1>3, NextFrameIs
  <1>5. Given = HandsOff
    BY <1>1, <1>3 DEF HandsInv, Given, HumanAtRest
  <1> DEFINE H == Ticks(startedAt, e, intended)
  <1>6. /\ startedAt \in Nat /\ startedAt <= e /\ e <= Current.time /\ Current.time \in Nat
        /\ InputLag \in Nat /\ startedAt + InputLag < e
    <2>1. PICK s \in 1 .. Len(captured) : captured[s].time = e
      BY <1>2 DEF Ended
    <2>2. e <= Current.time
      BY <1>1, <2>1, TapeTimes, CurrentIs
    <2> QED BY SMTT(20), <1>1, <1>2, <2>2, CurrentIs, RecoveryAssumption DEF Ended, Begun
  <1>7. \A t \in Int : t > Current.time /\ t <= Current.time + n => Given \in H[t]
    BY <1>5, <1>6 DEF Ticks
  <1>8. Current.time - InputLag <= e
    <2> SUFFICES ASSUME ~(Current.time - InputLag <= e) PROVE FALSE
      OBVIOUS
    <2>1. Current.input \in H[Current.time - InputLag]
      BY <1>1, <1>2, CurrentIs DEF Ended, Window
    <2>2. H[Current.time - InputLag] = {HandsOff}
      BY <1>6 DEF Ticks
    <2> QED BY <1>3, <2>1, <2>2 DEF Neutral, HandsOff
  <1>9. Window(H, captured, travelling)
    BY <1>2 DEF Ended
  <1> HIDE DEF H
  <1>10. Window(H, captured', travelling')
    BY <1>1, <1>4, <1>7, <1>9, ShownWindow
  <1>11. Begun'
    BY <1>1, <1>3, <1>4, BegunGrows DEF Tape
  <1>12. (\E k \in Int : Ended(k))'
    <2>1. PICK s \in 1 .. Len(captured) : captured[s].time = e
      BY <1>2 DEF Ended
    <2>2. s \in 1 .. Len(captured') /\ captured'[s].time = e
      BY <1>4, <2>1 DEF Extends
    <2>3. \A i \in 1 .. Len(captured') - 1 : captured'[i].time - InputLag <= e
      <3> SUFFICES ASSUME NEW i \in 1 .. Len(captured') - 1
                   PROVE  captured'[i].time - InputLag <= e
        OBVIOUS
      <3>1. i \in 1 .. Len(captured) /\ captured'[i] = captured[i] /\ Len(captured) \in Nat
        BY <1>1, <1>4, TapeTimes DEF Extends
      <3>2. CASE i = Len(captured)
        BY <1>1, <1>8, <3>1, <3>2, CurrentIs
      <3>3. CASE i # Len(captured)
        <4>1. i \in 1 .. Len(captured) - 1
          BY <3>1, <3>3
        <4> QED BY <1>2, <3>1, <4>1 DEF Ended
      <3> QED BY <3>2, <3>3
    <2>4. e >= startedAt' + Duration
      BY <1>2, <1>3 DEF Ended
    <2>5. Window(Ticks(startedAt', e, intended'), captured', travelling')
      BY <1>3, <1>10 DEF H
    <2> QED BY <2>2, <2>3, <2>4, <2>5 DEF Ended, Window, Ticks
  <1>13. AttemptInv'
    BY <1>3, <1>11, <1>12 DEF AttemptInv
  <1> QED BY <1>1, <1>3, <1>4, <1>13, FrameTypes DEF RecoveryInv

-----------------------------------------------------------------------------
(* The longest run.                                                        *)

\* The steps that show the perturbation, and the first step of it.
Shows(s) == s < Len(captured) - 1 /\ captured[s + 1].input.control = intended
FirstStep == Min({s \in 0 .. Len(captured) - 1 : captured[s + 1].time >= startedAt})
IsRun(r) ==
    /\ r \in [start : FirstStep .. Len(captured) - 2, stop : FirstStep + 1 .. Len(captured) - 1]
    /\ r.start < r.stop
    /\ \A s \in r.start .. r.stop - 1 : Shows(s)
    /\ r.start = FirstStep \/ ~Shows(r.start - 1)
    /\ ~Shows(r.stop)

\* The runs are these.
LEMMA RunsAre == \A r : r \in Runs <=> IsRun(r)
  BY DEF Runs, IsRun, FirstStep, Shows

\* The first step is that of the frame the perturbation began at, which does not show it.
LEMMA FirstIs ==
    ASSUME Tape(captured, travelling), Begun
    PROVE  /\ FirstStep \in 0 .. Len(captured) - 1
           /\ captured[FirstStep + 1].time = startedAt
           /\ ~Shows(FirstStep)
  <1> DEFINE S == {s \in 0 .. Len(captured) - 1 : captured[s + 1].time >= startedAt}
  <1>1. PICK j \in 1 .. Len(captured) :
          captured[j].time = startedAt /\ captured[j].input.control # intended
    BY DEF Begun
  <1>2. Len(captured) \in Nat \ {0} /\ startedAt \in Int /\ (j - 1) + 1 = j
    BY TapeTimes DEF Begun
  <1>3. j - 1 \in S
    BY <1>1, <1>2
  <1>4. \A s \in S : j - 1 <= s
    <2> SUFFICES ASSUME NEW s \in S, ~(j - 1 <= s) PROVE FALSE
      OBVIOUS
    <2>1. s + 1 \in 1 .. Len(captured) /\ s + 1 < j
      BY <1>2
    <2>2. captured[s + 1].time < captured[j].time /\ captured[s + 1].time \in Int
      BY <2>1, TapeTimes DEF Tape
    <2> QED BY <1>1, <1>2, <2>2
  <1>5. Min(S) = j - 1
    <2>1. S \subseteq Int
      BY <1>2
    <2> HIDE DEF S
    <2>2. \E x \in S : \A y \in S : x <= y
      BY <1>3, <1>4
    <2>3. Min(S) \in S /\ \A y \in S : Min(S) <= y
      BY <2>2 DEF Min
    <2>4. Min(S) <= j - 1 /\ j - 1 <= Min(S) /\ Min(S) \in Int /\ j - 1 \in Int
      BY <1>3, <1>4, <2>1, <2>3
    <2> QED BY <2>4
  <1>6. FirstStep = j - 1
    BY <1>5 DEF FirstStep
  <1> QED BY <1>1, <1>2, <1>6 DEF Shows

\* What a frame shows in the release: the perturbation between the lag after its beginning and
\* the lag after its end, and nothing afterwards.
LEMMA ReleaseShows ==
    ASSUME Tape(captured, travelling), Begun, NEW e \in Int, Ended(e),
           NEW i \in 1 .. Len(captured)
    PROVE  /\ captured[i].time \in Int /\ captured[i].input.who # "human"
           /\ captured[i].time > startedAt + InputLag /\ captured[i].time <= e + InputLag =>
                captured[i].input = [who |-> "recorder", control |-> intended]
           /\ captured[i].time > e + InputLag => captured[i].input = HandsOff
           /\ startedAt \in Int /\ InputLag \in Nat /\ startedAt + InputLag < e
  <1>1. startedAt \in Int /\ InputLag \in Nat /\ startedAt + InputLag < e
    BY RecoveryAssumption DEF Begun, Ended
  <1>2. captured[i].time \in Int
    BY TapeTimes
  <1>3. captured[i].input \in Ticks(startedAt, e, intended)[captured[i].time - InputLag]
    BY DEF Ended, Window
  <1> DEFINE t == captured[i].time - InputLag
  <1>4. t \in Int
    BY <1>1, <1>2
  <1>5. Ticks(startedAt, e, intended)[t] =
          IF t <= startedAt THEN Robot
          ELSE IF t <= e THEN {[who |-> "recorder", control |-> intended]} ELSE {HandsOff}
    <2> HIDE DEF t
    <2> QED BY <1>4 DEF Ticks
  <1>6. captured[i].input.who # "human"
    BY <1>3, <1>5 DEF Robot, HandsOff
  <1>7. captured[i].time > startedAt + InputLag => ~(t <= startedAt)
    BY <1>1, <1>2
  <1>8. captured[i].time <= e + InputLag <=> t <= e
    BY <1>1, <1>2
  <1>9. captured[i].time > e + InputLag => ~(t <= e) /\ ~(t <= startedAt)
    BY <1>1, <1>2
  <1> HIDE DEF t
  <1>10. captured[i].input \in Ticks(startedAt, e, intended)[t]
    BY <1>3 DEF t
  <1> QED BY <1>1, <1>2, <1>5, <1>6, <1>7, <1>8, <1>9, <1>10

\* The recorder's run ends with the last frame and takes longer than an input needs to show.
LEMMA RecorderRun ==
    ASSUME Tape(captured, travelling), Begun, NEW e \in Int, Ended(e), Neutral(Current)
    PROVE  /\ \E q \in Runs : q.stop = Len(captured) - 1 /\ Length(q) > InputLag
           /\ Current.input = HandsOff /\ Current.time > e + InputLag /\ Len(captured) >= 3
  <1>1. /\ Len(captured) \in Nat \ {0} /\ Len(captured) \in 1 .. Len(captured)
        /\ Current = captured[Len(captured)] /\ Current.time \in Int
    BY TapeTimes, CurrentIs
  <1>2. startedAt \in Int /\ InputLag \in Nat /\ startedAt + InputLag < e /\ intended \in Side
    BY <1>1, ReleaseShows DEF Begun
  <1>3. PICK m \in 1 .. Len(captured) : captured[m].time = e
    BY DEF Ended
  <1>4. Current.time >= e
    BY <1>1, <1>3, TapeTimes
  <1>5. Current.time > e + InputLag
    <2> SUFFICES ASSUME ~(Current.time > e + InputLag) PROVE FALSE
      OBVIOUS
    <2>1. Current.input = [who |-> "recorder", control |-> intended]
      BY <1>1, <1>2, <1>4, ReleaseShows
    <2> QED BY <1>2, <2>1 DEF Neutral, Side
  <1>6. Current.input = HandsOff
    BY <1>1, <1>5, ReleaseShows
  <1>7. m # Len(captured) /\ m \in 1 .. Len(captured) - 1
    BY <1>1, <1>2, <1>3, <1>5
  <1>8. \A s \in m - 1 .. Len(captured) - 2 : Shows(s)
    <2> SUFFICES ASSUME NEW s \in m - 1 .. Len(captured) - 2 PROVE Shows(s)
      OBVIOUS
    <2>1. s + 1 \in 1 .. Len(captured) - 1 /\ s + 1 \in 1 .. Len(captured)
          /\ (m < s + 1 \/ m = s + 1) /\ s < Len(captured) - 1
      BY <1>1, <1>7
    <2>2. captured[s + 1].time >= e /\ captured[s + 1].time \in Int
      <3>1. captured[s + 1].time \in Int
        BY <2>1, TapeTimes
      <3>2. m < s + 1 => captured[m].time < captured[s + 1].time
        BY <2>1 DEF Tape
      <3> QED BY <1>3, <2>1, <3>1, <3>2
    <2>3. captured[s + 1].time - InputLag <= e
      BY <2>1 DEF Ended
    <2>4. captured[s + 1].input = [who |-> "recorder", control |-> intended]
      <3>1. captured[s + 1].time > startedAt + InputLag /\ captured[s + 1].time <= e + InputLag
        BY <1>2, <2>2, <2>3
      <3> QED BY <2>1, <3>1, ReleaseShows
    <2> QED BY <2>1, <2>4 DEF Shows
  <1>9. /\ FirstStep \in 0 .. Len(captured) - 1 /\ captured[FirstStep + 1].time = startedAt
        /\ ~Shows(FirstStep)
    BY FirstIs
  <1>10. FirstStep < m - 1
    <2>1. FirstStep + 1 \in 1 .. Len(captured)
      BY <1>1, <1>9
    <2>2. ~(m < FirstStep + 1) /\ m # FirstStep + 1
      BY <1>2, <1>3, <1>9, <2>1 DEF Tape
    <2> QED BY <1>7, <1>9, <2>2
  <1> DEFINE S == {j \in FirstStep .. Len(captured) - 2 :
                     \A s \in j .. Len(captured) - 2 : Shows(s)}
  <1>11. m - 1 \in S
    BY <1>1, <1>7, <1>8, <1>9, <1>10
  <1>12. PICK j \in S : \A k \in S : j <= k
    <2>1. S \in SUBSET Nat
      BY <1>1, <1>9
    <2> HIDE DEF S
    <2> QED BY <1>11, <2>1, LeastExists
  <1> DEFINE q == [start |-> j, stop |-> Len(captured) - 1]
  <1>13. /\ j \in FirstStep .. Len(captured) - 2 /\ j <= m - 1
         /\ \A s \in j .. Len(captured) - 2 : Shows(s)
    BY <1>11, <1>12
  <1>14. j = FirstStep \/ ~Shows(j - 1)
    <2> SUFFICES ASSUME j # FirstStep, Shows(j - 1) PROVE FALSE
      OBVIOUS
    <2>1. j - 1 \in FirstStep .. Len(captured) - 2
      BY <1>1, <1>9, <1>13
    <2>2. \A s \in j - 1 .. Len(captured) - 2 : Shows(s)
      <3> SUFFICES ASSUME NEW s \in j - 1 .. Len(captured) - 2 PROVE Shows(s)
        OBVIOUS
      <3>1. s = j - 1 \/ s \in j .. Len(captured) - 2
        BY <1>1, <1>9, <1>13
      <3> QED BY <1>13, <3>1
    <2>3. j - 1 \in S
      BY <2>1, <2>2
    <2> HIDE DEF S
    <2>4. j <= j - 1 /\ j \in Int
      BY <1>9, <1>12, <1>13, <2>3
    <2> QED BY <2>4
  <1>15. q \in Runs
    <2>1. IsRun(q)
      <3>1. q.start = j /\ q.stop = Len(captured) - 1
        OBVIOUS
      <3>2. q \in [start : FirstStep .. Len(captured) - 2,
                   stop : FirstStep + 1 .. Len(captured) - 1]
        BY <1>1, <1>9, <1>13
      <3>3. q.start < q.stop /\ \A s \in q.start .. q.stop - 1 : Shows(s)
        BY <1>1, <1>9, <1>13
      <3>4. ~Shows(q.stop)
        BY <1>1 DEF Shows
      <3> HIDE DEF q, S
      <3> QED BY <1>14, <3>1, <3>2, <3>3, <3>4 DEF IsRun
    <2> HIDE DEF q
    <2> QED BY <2>1, RunsAre
  <1>16. Length(q) > InputLag
    <2>1. q.start = j /\ q.stop = Len(captured) - 1
      OBVIOUS
    <2> HIDE DEF q, S
    <2>2. captured[q.stop + 1].time > e + InputLag /\ captured[q.stop + 1].time \in Int
      BY <1>1, <1>5, <2>1
    <2>3. captured[q.start + 1].time <= e /\ captured[q.start + 1].time \in Int
      <3>1. j + 1 \in 1 .. Len(captured) /\ (j + 1 < m \/ j + 1 = m)
        BY <1>1, <1>7, <1>9, <1>13
      <3>2. captured[j + 1].time \in Int
        BY <3>1, TapeTimes
      <3>3. j + 1 < m => captured[j + 1].time < captured[m].time
        BY <3>1 DEF Tape
      <3> QED BY <1>3, <2>1, <3>1, <3>2, <3>3
    <2> QED BY <1>2, <2>2, <2>3 DEF Length
  <1>17. Len(captured) >= 3
    BY <1>1, <1>7, <1>9, <1>10
  <1> QED BY <1>5, <1>6, <1>15, <1>16, <1>17

\* Any other run is shorter than the lag, so the longest is the recorder's, and ends with the
\* last frame.
LEMMA LongestEnds ==
    ASSUME Tape(captured, travelling), Begun, NEW e \in Int, Ended(e), Neutral(Current),
           NEW r \in Runs, Longest(r)
    PROVE  /\ r.stop = Len(captured) - 1 /\ r.start \in Nat /\ r.start < r.stop
           /\ captured[r.start + 1].time > startedAt
           /\ \A s \in r.start .. r.stop - 1 : captured[s + 1].input.control = intended
  <1>1. Len(captured) \in Nat \ {0} /\ Len(captured) >= 3
    BY TapeTimes, RecorderRun
  <1>2. /\ FirstStep \in 0 .. Len(captured) - 1 /\ captured[FirstStep + 1].time = startedAt
        /\ ~Shows(FirstStep) /\ startedAt \in Int /\ InputLag \in Nat
    BY FirstIs, RecoveryAssumption DEF Begun
  <1>3. IsRun(r)
    BY RunsAre
  <1>4. /\ r.start \in FirstStep .. Len(captured) - 2
        /\ r.stop \in FirstStep + 1 .. Len(captured) - 1
        /\ r.start < r.stop /\ r.start \in Nat /\ r.stop \in Nat
        /\ \A s \in r.start .. r.stop - 1 : Shows(s)
    BY <1>1, <1>2, <1>3 DEF IsRun
  <1>5. r.start # FirstStep
    BY <1>2, <1>4
  <1>6. captured[r.start + 1].time > startedAt /\ captured[r.start + 1].time \in Int
    <2>1. /\ FirstStep + 1 \in 1 .. Len(captured) /\ r.start + 1 \in 1 .. Len(captured)
          /\ FirstStep + 1 < r.start + 1
      BY <1>1, <1>2, <1>4, <1>5
    <2>2. captured[r.start + 1].time \in Int /\ captured[FirstStep + 1].time \in Int
      BY <2>1, TapeTimes
    <2>3. captured[FirstStep + 1].time < captured[r.start + 1].time
      BY <2>1 DEF Tape
    <2> QED BY <1>2, <2>2, <2>3
  <1>7. Length(r) > InputLag
    <2>1. PICK q \in Runs : q.stop = Len(captured) - 1 /\ Length(q) > InputLag
      BY RecorderRun
    <2>2. Length(r) \in Int /\ Length(q) \in Int
      <3>1. \A p \in Runs : Length(p) \in Int
        <4> SUFFICES ASSUME NEW p \in Runs PROVE Length(p) \in Int
          OBVIOUS
        <4>0. IsRun(p)
          BY RunsAre
        <4>1. p.start + 1 \in 1 .. Len(captured) /\ p.stop + 1 \in 1 .. Len(captured)
          BY <1>1, <1>2, <4>0 DEF IsRun
        <4> QED BY <4>1, TapeTimes DEF Length
      <3> QED BY <3>1
    <2>3. Length(q) < Length(r) \/ Length(q) = Length(r)
      BY DEF Longest
    <2> QED BY <1>2, <2>1, <2>2, <2>3
  <1>8. r.stop = Len(captured) - 1
    <2> SUFFICES ASSUME r.stop # Len(captured) - 1 PROVE FALSE
      OBVIOUS
    <2>1. r.stop < Len(captured) - 1 /\ r.stop + 1 \in 1 .. Len(captured) - 1
          /\ r.stop + 1 \in 1 .. Len(captured)
      BY <1>1, <1>2, <1>4
    <2>2. captured[r.stop + 1].input.control # intended
      BY <1>3, <2>1 DEF IsRun, Shows
    <2>3. captured[r.stop + 1].time - InputLag <= e /\ captured[r.stop + 1].time \in Int
      BY <2>1, TapeTimes DEF Ended
    <2>4. captured[r.stop + 1].time <= startedAt + InputLag
      <3> SUFFICES ASSUME ~(captured[r.stop + 1].time <= startedAt + InputLag) PROVE FALSE
        OBVIOUS
      <3>1. captured[r.stop + 1].input = [who |-> "recorder", control |-> intended]
        BY SMTT(20), <1>2, <2>1, <2>3, ReleaseShows
      <3> QED BY <2>2, <3>1
    <2> QED BY SMTT(20), <1>2, <1>6, <1>7, <2>3, <2>4 DEF Length
  <1> QED BY <1>4, <1>6, <1>8 DEF Shows

\* The longest run is what was perturbed, and it is over.
LEMMA ConfirmedRun ==
    ASSUME Tape(captured, travelling), Begun, NEW e \in Int, Ended(e), Neutral(Current),
           NEW r \in Runs, Longest(r), LongEnough(r),
           NEW p, p = [start |-> r.start, steps |-> r.stop - r.start]
    PROVE  /\ RunOK(captured, p) /\ p.start + p.steps = Len(captured) - 1
           /\ captured[Len(captured)].input = HandsOff
           /\ \A i \in 1 .. InputLag : travelling[i] = HandsOff
           /\ p.start \in Nat /\ p.steps \in Nat \ {0} /\ p \in [start : Nat, steps : Nat]
  <1>1. /\ r.stop = Len(captured) - 1 /\ r.start \in Nat /\ r.start < r.stop
        /\ captured[r.start + 1].time > startedAt
        /\ \A s \in r.start .. r.stop - 1 : captured[s + 1].input.control = intended
    BY LongestEnds
  <1>2. /\ Current.input = HandsOff /\ Current.time > e + InputLag /\ Len(captured) >= 3
        /\ Current = captured[Len(captured)] /\ Len(captured) \in Nat \ {0}
        /\ Len(captured) \in 1 .. Len(captured) /\ Current.time \in Int
    BY RecorderRun, CurrentIs, TapeTimes
  <1>3. /\ startedAt \in Int /\ InputLag \in Nat /\ startedAt + InputLag < e /\ intended \in Side
        /\ startedAt >= Context /\ Context \in Nat
    BY <1>2, ReleaseShows, RecoveryAssumption DEF Begun
  <1>4. /\ p.start = r.start /\ p.steps \in Nat \ {0} /\ p.start + p.steps = r.stop
        /\ r.stop \in Nat \ {0} /\ r.stop < Len(captured) /\ r.stop + 1 = Len(captured)
    BY <1>1, <1>2
  <1>5. captured[p.start + 1].time - captured[1].time >= Context
    <2>1. p.start + 1 \in 1 .. Len(captured) /\ captured[1].time = 0
      BY <1>1, <1>4 DEF Tape
    <2>2. captured[p.start + 1].time \in Int
      BY <2>1, TapeTimes
    <2> QED BY <1>1, <1>3, <1>4, <2>1, <2>2
  <1>6. 2 * (captured[r.stop + 1].time - captured[p.start + 1].time) >= Duration
    BY <1>4 DEF LongEnough, Length
  <1>7. \A s \in p.start .. r.stop - 1 :
            /\ captured[s + 1].input.control = captured[p.start + 1].input.control
            /\ captured[s + 1].input.control \in Side
    <2>1. p.start \in p.start .. r.stop - 1
      BY <1>1, <1>4
    <2> QED BY <1>1, <1>3, <1>4, <2>1
  <1>8. captured[r.stop].input.who = "recorder"
    <2>1. PICK m \in 1 .. Len(captured) : captured[m].time = e
      BY DEF Ended
    <2>2. m # Len(captured) /\ r.stop \in 1 .. Len(captured) /\ (m < r.stop \/ m = r.stop)
      BY SMTT(20), <1>2, <1>3, <1>4, <2>1
    <2>3. captured[r.stop].time \in Int /\ captured[r.stop].time - InputLag <= e
      <3>1. r.stop \in 1 .. Len(captured) - 1
        BY <1>2, <1>4
      <3> QED BY <2>2, <3>1, TapeTimes DEF Ended
    <2>4. captured[r.stop].time >= e
      <3>1. m < r.stop => captured[m].time < captured[r.stop].time
        BY <2>1, <2>2 DEF Tape
      <3> QED BY <2>1, <2>2, <2>3, <3>1
    <2>5. captured[r.stop].time > startedAt + InputLag /\ captured[r.stop].time <= e + InputLag
      BY <1>3, <2>3, <2>4
    <2>6. captured[r.stop].input = [who |-> "recorder", control |-> intended]
      BY <2>2, <2>5, ReleaseShows
    <2> QED BY <2>6
  <1>9. \A s \in 0 .. r.stop : captured[s + 1].input.who # "human"
    <2> SUFFICES ASSUME NEW s \in 0 .. r.stop PROVE captured[s + 1].input.who # "human"
      OBVIOUS
    <2>1. s + 1 \in 1 .. Len(captured)
      BY <1>4
    <2> QED BY <2>1, ReleaseShows
  <1>10. Neutral(captured[r.stop + 1])
    BY <1>2, <1>4 DEF Neutral, HandsOff
  <1>11. RunOK(captured, p)
    BY <1>1, <1>4, <1>5, <1>6, <1>7, <1>8, <1>9, <1>10 DEF RunOK
  <1>12. \A i \in 1 .. InputLag : travelling[i] = HandsOff
    <2> SUFFICES ASSUME NEW i \in 1 .. InputLag PROVE travelling[i] = HandsOff
      OBVIOUS
    <2>1. travelling[i] \in Ticks(startedAt, e, intended)[Current.time - InputLag + i]
      BY <1>2 DEF Ended, Window
    <2>2. /\ Current.time - InputLag + i \in Int
          /\ ~(Current.time - InputLag + i <= startedAt)
          /\ ~(Current.time - InputLag + i <= e)
      BY SMTT(20), <1>2, <1>3
    <2> QED BY <2>1, <2>2 DEF Ticks
  <1> QED BY <1>1, <1>2, <1>4, <1>11, <1>12

\* The human is told to take over when nothing of the perturbation is left.
LEMMA HandOverInv == RecoveryInv /\ HandOver => RecoveryInv'
  <1> SUFFICES ASSUME RecoveryInv, HandOver PROVE RecoveryInv'
    OBVIOUS
  <1>1. /\ RecoveryTypeOK /\ HandsInv /\ Tape(captured, travelling) /\ Len(archives) < Laps
        /\ Begun /\ ArchivesOK /\ RecoveriesAreWhole
    BY DEF RecoveryInv, TapeInv, AttemptInv, HandOver
  <1>2. PICK e \in Int : Ended(e)
    BY DEF RecoveryInv, AttemptInv, HandOver
  <1>3. PICK r \in Runs :
          /\ Longest(r) /\ LongEnough(r)
          /\ perturbation' = [start |-> r.start, steps |-> r.stop - r.start]
    BY DEF HandOver
  <1>4. /\ capture = "release" /\ Neutral(Current) /\ capture' = "handover"
        /\ UNCHANGED <<captured, virtual, human, travelling, intended, startedAt, takeover,
                       attempts, archives>>
    BY DEF HandOver, Released
  <1>5. /\ RunOK(captured, perturbation')
        /\ perturbation'.start + perturbation'.steps = Len(captured) - 1
        /\ captured[Len(captured)].input = HandsOff
        /\ \A i \in 1 .. InputLag : travelling[i] = HandsOff
        /\ perturbation'.start \in Nat /\ perturbation'.steps \in Nat \ {0}
        /\ perturbation' \in [start : Nat, steps : Nat]
    BY <1>1, <1>2, <1>3, <1>4, ConfirmedRun
  <1>6. HandedOver'
    <2>1. Len(captured) \in Nat \ {0} /\ HandsOff \in Late
      BY <1>1, TapeTimes DEF Late
    <2> QED BY <1>4, <1>5, <2>1 DEF HandedOver
  <1>7. RunOK(captured, perturbation)'
    BY <1>4, <1>5 DEF RunOK, Neutral
  <1>8. RecoveryTypeOK'
    BY <1>1, <1>4, <1>5 DEF RecoveryTypeOK
  <1>9. TapeInv'
    BY <1>1, <1>4 DEF TapeInv, Tape
  <1>10. HandsInv'
    BY <1>1, <1>4 DEF HandsInv, HandsOff
  <1>11. AttemptInv'
    BY <1>4, <1>5, <1>6, <1>7 DEF AttemptInv
  <1> QED BY <1>1, <1>4, <1>8, <1>9, <1>10, <1>11, ArchivesKept DEF RecoveryInv

\* The human may do anything then.
LEMMA HumanActsInv == RecoveryInv /\ HumanActs => RecoveryInv'
  <1> SUFFICES ASSUME RecoveryInv, HumanActs PROVE RecoveryInv'
    OBVIOUS
  <1>1. /\ RecoveryTypeOK /\ HandsInv /\ TapeInv /\ AttemptInv /\ ArchivesOK
        /\ RecoveriesAreWhole
    BY DEF RecoveryInv
  <1>2. PICK control \in Control : human' = [human EXCEPT !.control = control]
    BY DEF HumanActs
  <1>3. /\ capture \in {"handover", "finish"}
        /\ UNCHANGED <<capture, captured, virtual, travelling, intended, startedAt,
                       perturbation, takeover, attempts, archives>>
    BY DEF HumanActs
  <1>4. human' \in Input /\ human'.who = "human"
    BY <1>1, <1>2 DEF RecoveryTypeOK, HandsInv, Input
  <1>5. RecoveryTypeOK'
    BY <1>1, <1>3, <1>4 DEF RecoveryTypeOK
  <1>6. TapeInv'
    BY <1>1, <1>3 DEF TapeInv, Tape
  <1>7. HandsInv'
    BY <1>1, <1>3, <1>4 DEF HandsInv
  <1>8. AttemptInv'
    BY <1>1, <1>3 DEF AttemptInv, RunOK, TakenOver, HandedOver, Neutral
  <1> QED BY <1>1, <1>3, <1>5, <1>6, <1>7, <1>8, ArchivesKept DEF RecoveryInv

\* What is given after the handover is late: nothing, or what the human does.
LEMMA GivenIsLate ==
    ASSUME RecoveryTypeOK, HandsInv, capture \in {"handover", "finish"}
    PROVE  Given \in Late
  BY DEF RecoveryTypeOK, HandsInv, Given, Late, HandsOff

\* Until the human does something, nothing is shown.
LEMMA AwaitHumanInv == RecoveryInv /\ AwaitHuman => RecoveryInv'
  <1> SUFFICES ASSUME RecoveryInv, AwaitHuman PROVE RecoveryInv'
    OBVIOUS
  <1> DEFINE ending == perturbation.start + perturbation.steps
  <1>1. /\ RecoveryTypeOK /\ HandsInv /\ Tape(captured, travelling) /\ Len(archives) < Laps
        /\ RunOK(captured, perturbation) /\ perturbation \in [start : Nat, steps : Nat]
        /\ HandedOver /\ ArchivesOK /\ RecoveriesAreWhole
        /\ capture = "handover"
    BY DEF RecoveryInv, TapeInv, AttemptInv, AwaitHuman
  <1>2. UNCHANGED <<virtual, human, intended, startedAt, perturbation, attempts, archives>>
    BY DEF AwaitHuman
  <1>3. /\ Len(captured) \in Nat \ {0} /\ Current = captured[Len(captured)]
        /\ captured \in Seq(Captured) /\ InputLag \in Nat
    BY <1>1, CurrentIs, TapeTimes DEF Tape
  <1>4. /\ ending \in Nat \ {0} /\ ending < Len(captured) /\ Neutral(captured[ending + 1])
        /\ \A s \in 0 .. ending : captured[s + 1].input.who # "human"
    BY <1>1 DEF RunOK
  <1>5. /\ \A i \in ending + 1 .. Len(captured) : captured[i].input \in Late
        /\ \A i \in ending + 1 .. Len(captured) - 1 : captured[i].input = HandsOff
        /\ \A i \in 1 .. InputLag : travelling[i] \in Late
    BY <1>1 DEF HandedOver
  <1>6. HandsOff.who # "human" /\ HandsOff.control = "neutral"
    BY DEF HandsOff
  <1>7. CASE Neutral(Current)
    <2>1. NextFrame /\ UNCHANGED <<capture, takeover>>
      BY <1>7 DEF AwaitHuman
    <2>2. PICK n \in Jumps :
            /\ Current.time + n <= MaxTime /\ Shown(n, Given) /\ Given \in Input
            /\ Tape(captured, travelling)' /\ Extends(captured, captured')
            /\ captured' \in Seq(Captured) /\ n \in Nat \ {0}
      BY <1>1, <2>1, NextFrameIs
    <2>3. Given \in Late
      BY <1>1, GivenIsLate
    <2> DEFINE H == [t \in Int |-> Late]
               given == Inputs(n, Given)
    <2>4. /\ Len(captured') = Len(captured) + 1
          /\ \A i \in 1 .. Len(captured) : captured'[i] = captured[i]
          /\ captured'[Len(captured) + 1] = [time |-> Current.time + n, input |-> given[n]]
          /\ \A i \in 1 .. InputLag : travelling'[i] = given[n + i]
      BY <1>1, <2>2, ShownTape
    <2>5. \A i \in 1 .. InputLag + n : given[i] \in Late
      <3> SUFFICES ASSUME NEW i \in 1 .. InputLag + n PROVE given[i] \in Late
        OBVIOUS
      <3>1. i \in 1 .. InputLag \/ i \in InputLag + 1 .. InputLag + n
        BY <1>3, <2>2
      <3>2. /\ \A k \in 1 .. InputLag : given[k] = travelling[k]
            /\ \A k \in InputLag + 1 .. InputLag + n : given[k] = Given
        BY <1>1, <2>2, InputsAre DEF Tape
      <3> HIDE DEF given
      <3> QED BY <1>5, <2>3, <3>1, <3>2
    <2> HIDE DEF given
    <2>6. captured[Len(captured)].input = HandsOff
      <3>1. Len(captured) \in ending + 1 .. Len(captured)
        BY <1>3, <1>4
      <3>2. captured[Len(captured)].input \in Late
        BY <1>5, <3>1
      <3> QED BY <1>3, <1>7, <3>2 DEF Late, Neutral
    <2>7. HandedOver'
      <3>1. captured'[Len(captured) + 1].input \in Late
        <4>1. n \in 1 .. InputLag + n /\ captured'[Len(captured) + 1].input = given[n]
          BY <1>3, <2>2, <2>4
        <4> QED BY <2>5, <4>1
      <3>2. \A i \in 1 .. InputLag : travelling'[i] \in Late
        <4>1. \A i \in 1 .. InputLag : n + i \in 1 .. InputLag + n
          BY <1>3, <2>2
        <4> QED BY <2>4, <2>5, <4>1
      <3>3. \A i \in ending + 1 .. Len(captured') : captured'[i].input \in Late
        <4> SUFFICES ASSUME NEW i \in ending + 1 .. Len(captured')
                     PROVE  captured'[i].input \in Late
          OBVIOUS
        <4>1. \/ i = Len(captured) + 1
              \/ i \in ending + 1 .. Len(captured) /\ i \in 1 .. Len(captured)
          BY <1>3, <1>4, <2>4
        <4> QED BY <1>5, <2>4, <3>1, <4>1
      <3>4. \A i \in ending + 1 .. Len(captured') - 1 : captured'[i].input = HandsOff
        <4> SUFFICES ASSUME NEW i \in ending + 1 .. Len(captured') - 1
                     PROVE  captured'[i].input = HandsOff
          OBVIOUS
        <4>1. /\ i = Len(captured) \/ i \in ending + 1 .. Len(captured) - 1
              /\ i \in 1 .. Len(captured)
          BY <1>3, <1>4, <2>4
        <4> QED BY <1>5, <2>4, <2>6, <4>1
      <3>5. perturbation'.start + perturbation'.steps = ending
        BY <1>2
      <3> HIDE DEF ending
      <3> QED BY <3>2, <3>3, <3>4, <3>5 DEF HandedOver
    <2>8. RunOK(captured, perturbation)'
      <3>1. RunOK(captured', perturbation)
        BY <1>1, <1>3, <2>2, RunGrows
      <3> QED BY <1>2, <3>1 DEF RunOK, Neutral
    <2>9. AttemptInv'
      BY <1>1, <1>2, <2>1, <2>7, <2>8 DEF AttemptInv
    <2> QED BY <1>1, <1>2, <2>1, <2>2, <2>9, FrameTypes DEF RecoveryInv
  <1>8. CASE ~Neutral(Current)
    <2>1. /\ takeover' = Len(captured) - 1 /\ capture' = "finish"
          /\ UNCHANGED <<captured, travelling>>
      BY <1>8 DEF AwaitHuman
    <2>2. takeover' \in Nat /\ takeover' + 1 = Len(captured) /\ takeover' < Len(captured)
          /\ ending <= takeover'
      BY <1>3, <1>4, <2>1
    <2>3. captured[Len(captured)].input.who = "human"
      <3>1. Len(captured) \in ending + 1 .. Len(captured)
        BY <1>3, <1>4
      <3>2. captured[Len(captured)].input \in Late
        BY <1>5, <3>1
      <3> QED BY <1>3, <1>6, <1>8, <3>2 DEF Late, Neutral
    <2>4. \A s \in ending .. takeover' - 1 : captured[s + 1].input = HandsOff
      <3>1. \A s \in ending .. takeover' - 1 : s + 1 \in ending + 1 .. Len(captured) - 1
        BY <1>3, <1>4, <2>1
      <3> QED BY <1>5, <3>1
    <2>5. \A s \in 0 .. takeover' - 1 : captured[s + 1].input.who # "human"
      <3>1. \A s \in 0 .. takeover' - 1 : s \in 0 .. ending \/ s \in ending .. takeover' - 1
        BY <1>3, <1>4, <2>1
      <3> QED BY <1>4, <1>6, <2>4, <3>1
    <2>6. TakenOver(captured, perturbation, takeover')
      <3>1. captured[takeover' + 1] = Current
        BY <1>3, <2>2
      <3>2. \A s \in ending .. takeover' - 1 : Neutral(captured[s + 1])
        BY <1>6, <2>4 DEF Neutral
      <3>3. captured[takeover' + 1].input.who = "human" /\ ~Neutral(captured[takeover' + 1])
        BY <1>3, <1>8, <2>3, <3>1
      <3> QED BY <2>2, <2>5, <3>2, <3>3 DEF TakenOver
    <2>7. AttemptInv'
      <3>1. TakenOver(captured, perturbation, takeover)'
        BY <1>2, <2>1, <2>6 DEF TakenOver, Neutral
      <3>2. RunOK(captured, perturbation)'
        BY <1>1, <1>2, <2>1 DEF RunOK, Neutral
      <3> QED BY <1>1, <1>2, <2>1, <3>1, <3>2 DEF AttemptInv
    <2>8. RecoveryTypeOK'
      BY <1>1, <1>2, <2>1, <2>2 DEF RecoveryTypeOK
    <2>9. TapeInv'
      BY <1>1, <1>2, <2>1 DEF TapeInv, Tape
    <2>10. HandsInv'
      BY <1>1, <1>2, <2>1 DEF HandsInv, HandsOff
    <2> QED BY <1>1, <1>2, <2>7, <2>8, <2>9, <2>10, ArchivesKept DEF RecoveryInv
  <1> QED BY <1>7, <1>8

\* Frames until the finish leave what was recorded as it is.
LEMMA RecordFrameInv == RecoveryInv /\ RecordFrame => RecoveryInv'
  <1> SUFFICES ASSUME RecoveryInv, RecordFrame PROVE RecoveryInv'
    OBVIOUS
  <1>1. /\ Tape(captured, travelling) /\ Len(archives) < Laps /\ capture = "finish" /\ NextFrame
        /\ RunOK(captured, perturbation) /\ perturbation \in [start : Nat, steps : Nat]
        /\ TakenOver(captured, perturbation, takeover) /\ captured \in Seq(Captured)
    BY DEF RecoveryInv, TapeInv, AttemptInv, RecordFrame, Tape
  <1>2. UNCHANGED <<capture, virtual, human, intended, startedAt, perturbation, takeover,
                    attempts, archives>>
    BY DEF RecordFrame
  <1>3. /\ Tape(captured, travelling)' /\ Extends(captured, captured')
        /\ captured' \in Seq(Captured)
    BY <1>1, NextFrameIs
  <1>4. RunOK(captured', perturbation)
    BY <1>1, <1>3, RunGrows
  <1>5. TakenOver(captured', perturbation, takeover)
    <2>1. perturbation.start + perturbation.steps \in Nat
      BY <1>1 DEF RunOK
    <2> QED BY <1>1, <1>3, <2>1, TakenGrows
  <1>6. AttemptInv'
    BY <1>1, <1>2, <1>4, <1>5 DEF AttemptInv, RunOK, TakenOver, Neutral
  <1> QED BY <1>1, <1>2, <1>3, <1>6, FrameTypes DEF RecoveryInv

\* What an attempt leaves behind.
LEMMA ForgetInv ==
    ASSUME RecoveryInv, ForgetAttempt, UNCHANGED attempts, virtual' \in Input,
           virtual'.who # "human", virtual'.who = "recorder" => virtual'.control = "neutral",
           Len(archives') <= Laps
    PROVE  RecoveryTypeOK' /\ TapeInv' /\ HandsInv' /\ AttemptInv'
  <1>1. /\ capture' = "idle" /\ captured' = <<>> /\ human' = HumanAtRest /\ travelling' = <<>>
        /\ intended' = NoControl /\ startedAt' = 0 /\ perturbation' = NoControl /\ takeover' = 0
    BY DEF ForgetAttempt
  <1>2. HumanAtRest \in Input /\ HumanAtRest.who = "human"
    BY DEF HumanAtRest, Input, Control
  <1>3. 0 \in 0 .. MaxTime /\ Len(<<>>) <= InputLag
    BY RecoveryAssumption
  <1>4. RecoveryTypeOK'
    BY <1>1, <1>2, <1>3 DEF RecoveryInv, RecoveryTypeOK
  <1>5. TapeInv' /\ HandsInv' /\ AttemptInv'
    BY <1>1, <1>2 DEF TapeInv, HandsInv, AttemptInv
  <1> QED BY <1>4, <1>5

\* A lap that is saved is whole.
LEMMA FinishRecoveryInv == RecoveryInv /\ FinishRecovery => RecoveryInv'
  <1> SUFFICES ASSUME RecoveryInv, FinishRecovery PROVE RecoveryInv'
    OBVIOUS
  <1>1. /\ RecoveryTypeOK /\ HandsInv /\ Tape(captured, travelling) /\ Len(archives) < Laps
        /\ RunOK(captured, perturbation) /\ TakenOver(captured, perturbation, takeover)
        /\ ArchivesOK /\ RecoveriesAreWhole /\ capture = "finish"
    BY DEF RecoveryInv, TapeInv, AttemptInv, FinishRecovery
  <1>2. PICK n \in Jumps :
          /\ Current.time + n <= MaxTime
          /\ archives' = Append(archives, [frames |-> After(n, Given), takeover |-> takeover,
                                           perturbation |-> perturbation])
    BY DEF FinishRecovery
  <1>3. ForgetAttempt /\ UNCHANGED <<virtual, attempts>>
    BY DEF FinishRecovery
  <1> DEFINE f == After(n, Given)
             a == [frames |-> f, takeover |-> takeover, perturbation |-> perturbation]
  <1>4. f \in Seq(Captured) /\ Extends(captured, f) /\ Len(f) = Len(captured) + 1
    <2>1. Given \in Input /\ n \in Nat \ {0} /\ InputLag \in Nat
      BY <1>1, GivenIs, RecoveryAssumption
    <2>2. Inputs(n, Given)[n] \in Input
      <3>1. Inputs(n, Given) \in Seq(Input) /\ Len(Inputs(n, Given)) = InputLag + n
        BY <1>1, <2>1, InputsAre DEF Tape
      <3> QED BY <2>1, <3>1
    <2>3. Current.time + n \in 0 .. MaxTime
      BY SMTT(20), <1>1, <1>2, <2>1, CurrentIs, RecoveryAssumption
    <2> DEFINE frame == [time |-> Current.time + n, input |-> Inputs(n, Given)[n]]
    <2>4. frame \in Captured
      BY <2>2, <2>3 DEF Captured
    <2>5. f = Append(captured, frame)
      BY DEF After
    <2> HIDE DEF frame, f
    <2> QED BY <1>1, <2>4, <2>5 DEF Tape, Extends
  <1> HIDE DEF f
  <1>5. Len(captured) \in Nat \ {0} /\ captured \in Seq(Captured)
    BY <1>1, TapeTimes DEF Tape
  <1>6. RunOK(f, perturbation) /\ perturbation.start + perturbation.steps \in Nat
    <2>1. perturbation.start + perturbation.steps \in Nat
      BY <1>1 DEF RunOK
    <2> QED BY <1>1, <1>4, <1>5, <2>1, RunGrows
  <1>7. TakenOver(f, perturbation, takeover) /\ takeover < Len(f) - 1
    <2>1. takeover \in Nat /\ takeover < Len(captured)
      BY <1>1 DEF TakenOver
    <2> QED BY <1>1, <1>4, <1>5, <1>6, <2>1, TakenGrows
  <1>8. WholeRecovery(a)
    BY <1>4, <1>6, <1>7, WholeWhenTaken
  <1>9. a \in [frames : Seq(Captured), takeover : Nat, perturbation : [start : Nat, steps : Nat]]
    <2>1. perturbation \in [start : Nat, steps : Nat]
      BY <1>1 DEF RecoveryInv, AttemptInv
    <2> QED BY <1>1, <1>4, <2>1 DEF RecoveryTypeOK
  <1> HIDE DEF a
  <1>10. archives' = Append(archives, a)
    BY <1>2 DEF a, f
  <1>11. /\ ArchivesOK' /\ Len(archives') = Len(archives) + 1 /\ Len(archives) \in Nat
         /\ archives'[Len(archives) + 1] = a
         /\ \A i \in 1 .. Len(archives) : archives'[i] = archives[i]
    BY <1>1, <1>9, <1>10 DEF ArchivesOK
  <1>12. RecoveriesAreWhole'
    <2>1. \A i \in 1 .. Len(archives) : WholeRecovery(archives[i])
      BY <1>1, WholeIs
    <2>2. \A i \in 1 .. Len(archives') : WholeRecovery(archives'[i])
      <3> SUFFICES ASSUME NEW i \in 1 .. Len(archives') PROVE WholeRecovery(archives'[i])
        OBVIOUS
      <3>1. i = Len(archives) + 1 \/ i \in 1 .. Len(archives)
        BY <1>11
      <3> QED BY <1>8, <1>11, <2>1, <3>1
    <2> QED BY <2>2, WholeIs
  <1>13. Len(archives') <= Laps
    BY <1>1, <1>11, RecoveryAssumption
  <1>14. /\ virtual' \in Input /\ virtual'.who # "human"
         /\ virtual'.who = "recorder" => virtual'.control = "neutral"
    BY <1>1, <1>3 DEF RecoveryTypeOK, HandsInv
  <1> QED BY <1>3, <1>11, <1>12, <1>13, <1>14, ForgetInv DEF RecoveryInv

\* An attempt that is discarded leaves the controls released.
LEMMA DiscardAttemptInv == RecoveryInv /\ DiscardAttempt => RecoveryInv'
  <1> SUFFICES ASSUME RecoveryInv, DiscardAttempt PROVE RecoveryInv'
    OBVIOUS
  <1>1. /\ RecoveryTypeOK /\ HandsInv /\ ArchivesOK /\ RecoveriesAreWhole
        /\ ForgetAttempt /\ UNCHANGED <<attempts, archives>>
        /\ virtual' = IF capture = "inject" THEN HandsOff ELSE virtual
    BY DEF RecoveryInv, DiscardAttempt
  <1>2. HandsOff \in Input /\ HandsOff.who = "recorder" /\ HandsOff.control = "neutral"
    BY DEF HandsOff, Input, Control
  <1>3. /\ virtual' \in Input /\ virtual'.who # "human"
        /\ virtual'.who = "recorder" => virtual'.control = "neutral"
    BY <1>1, <1>2 DEF RecoveryTypeOK, HandsInv
  <1>4. Len(archives') <= Laps
    BY <1>1 DEF RecoveryTypeOK
  <1>5. RecoveryTypeOK' /\ TapeInv' /\ HandsInv' /\ AttemptInv'
    BY <1>1, <1>3, <1>4, ForgetInv
  <1> QED BY <1>1, <1>5, ArchivesKept DEF RecoveryInv

\* What is on its way during an attempt, and what was confirmed of it, is inductive.
THEOREM RecoveryInductive == RecoverySpec => []RecoveryInv
  <1>1. ASSUME RecoveryInv, UNCHANGED recoveryVars PROVE RecoveryInv'
    <2>1. /\ UNCHANGED <<capture, attempts, archives, captured, virtual, human, travelling,
                         intended, startedAt, perturbation, takeover>>
      BY <1>1 DEF recoveryVars, captureVars
    <2>2. RecoveryTypeOK' /\ TapeInv' /\ HandsInv' /\ AttemptInv'
      <3>1. RecoveryTypeOK /\ TapeInv /\ HandsInv /\ AttemptInv
        BY <1>1 DEF RecoveryInv
      <3>2. RecoveryTypeOK'
        BY <2>1, <3>1 DEF RecoveryTypeOK
      <3>3. TapeInv'
        BY <2>1, <3>1 DEF TapeInv, Tape
      <3>4. HandsInv'
        BY <2>1, <3>1 DEF HandsInv
      <3>5. AttemptInv'
        <4>1. Begun => Begun'
          BY <2>1 DEF Begun
        <4>2. ASSUME NEW e \in Int PROVE Ended(e) => Ended(e)'
          BY <2>1 DEF Ended
        <4>3. HandedOver => HandedOver'
          BY <2>1 DEF HandedOver
        <4>4. (\E e \in Int : Ended(e)) => \E e \in Int : Ended(e)'
          BY <4>2
        <4> QED BY <2>1, <3>1, <4>1, <4>3, <4>4 DEF AttemptInv, Current
      <3> QED BY <3>2, <3>3, <3>4, <3>5
    <2> QED BY <1>1, <2>1, <2>2, ArchivesKept DEF RecoveryInv
  <1>2. RecoveryInv /\ [RecoveryNext]_recoveryVars => RecoveryInv'
    BY <1>1, BeginAttemptInv, DriveInv, BeginPerturbationInv, InjectInv, EndPerturbationInv,
       AwaitReleaseInv, HandOverInv, HumanActsInv, AwaitHumanInv, RecordFrameInv,
       FinishRecoveryInv, DiscardAttemptInv
       DEF RecoveryNext
  <1> QED BY <1>2, RecoveryStarts, PTL DEF RecoverySpec

\* The perturbation is held only while it is injected.
LEMMA LetGo == RecoveryInv => PerturbationIsLetGo
  BY DEF RecoveryInv, HandsInv, PerturbationIsLetGo

-----------------------------------------------------------------------------
(* The parts of a behavior.                                                *)

\* A behavior of the parts is one of each, the others standing still.
LEMMA ActorParts ==
    MCFairSpec => ControlSpec /\ TelemetrySpec /\ KeyboardSpec /\ RecorderSpec /\ RecoverySpec
  <1>1. MCInit => ControlInit /\ TelemetryInit /\ KeyboardInit /\ RecorderInit /\ RecoveryInit
    BY DEF MCInit
  <1>2. [MCNext]_actorVars => [ControlNext]_controlVars
    BY DEF MCNext, actorVars
  <1>3. [MCNext]_actorVars => [TelemetryNext]_telemetryVars
    BY DEF MCNext, actorVars
  <1>4. [MCNext]_actorVars => [KeyboardNext]_keyboardVars
    BY DEF MCNext, actorVars, driveVars
  <1>5. [MCNext]_actorVars => [RecorderNext]_recorderVars
    BY DEF MCNext, actorVars, driveVars
  <1>6. [MCNext]_actorVars => [RecoveryNext]_recoveryVars
    BY DEF MCNext, actorVars, driveVars
  <1> QED BY <1>1, <1>2, <1>3, <1>4, <1>5, <1>6, PTL
          DEF MCFairSpec, ControlSpec, TelemetrySpec, KeyboardSpec, RecorderSpec, RecoverySpec

\* All parts keep their types.
THEOREM ActorTypeCorrect == MCFairSpec => []ActorTypeOK
  <1>1. TelemetryInv => TelemetryTypeOK
    BY DEF TelemetryInv
  <1>2. RecorderInv => RecorderTypeOK
    BY DEF RecorderInv
  <1>3. RecoveryInv => RecoveryTypeOK
    BY DEF RecoveryInv
  <1>4. /\ ControlTypeOK /\ TelemetryTypeOK /\ KeyboardTypeOK /\ RecorderTypeOK /\ RecoveryTypeOK
        => ActorTypeOK
    BY DEF ActorTypeOK
  <1> QED BY <1>1, <1>2, <1>3, <1>4, ActorParts, ControlTypeCorrect, TelemetryInductive,
             KeyboardTypeCorrect, RecorderInductive, RecoveryInductive, PTL

\* A recorded lap was driven by a human from its start to its finish without a frame missing, a
\* recorded recovery is what the human did after the last input of the recorder, and that input
\* was let go (demonstration_recording.py:40-114, human_recovery_recording.py:85-208).
THEOREM RecordingsWhole == MCFairSpec => []RecordingsAreWhole
  <1>1. RecorderInv => RecordedLapsAreWhole
    BY DEF RecorderInv
  <1>2. RecoveryInv => RecoveriesAreWhole
    BY DEF RecoveryInv
  <1>3. RecoveryInv => PerturbationIsLetGo
    BY LetGo
  <1>4. RecordedLapsAreWhole /\ RecoveriesAreWhole /\ PerturbationIsLetGo => RecordingsAreWhole
    BY DEF RecordingsAreWhole
  <1> QED BY <1>1, <1>2, <1>3, <1>4, ActorParts, RecorderInductive, RecoveryInductive, PTL

=============================================================================
