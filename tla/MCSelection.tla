----------------------------- MODULE MCSelection -----------------------------
(***************************************************************************)
(* The two places where a trained policy is selected and kept: by the      *)
(* evaluations of a distributed run, and by the validations of behavior    *)
(* cloning.  They share no state, so a behavior is one of either, chosen   *)
(* at the start; the other stays where it began.                           *)
(***************************************************************************)
EXTENDS MCEvaluationLeaders, BehaviorTraining

VARIABLE part                 \* the part whose behavior this is

selectionVars == <<vars, cloningVars, part>>

\* What every validation finds where no policy is cloned.
QuietOutcome == CHOOSE o \in Outcome : TRUE

SelectionInit ==
    /\ part \in {"leaders", "cloning"}
    /\ Init
    /\ CloningInit /\ (part = "leaders" => \A v \in 1 .. Validations : outcomes[v] = QuietOutcome)

SelectionNext ==
    \/ part = "leaders" /\ MCNext /\ UNCHANGED <<cloningVars, part>>
    \/ part = "cloning" /\ CloningNext /\ UNCHANGED <<vars, part>>

SelectionSpec == SelectionInit /\ [][SelectionNext]_selectionVars

\* Both keep their types.
SelectionTypeOK == TypeOK /\ CloningTypeOK

=============================================================================
