------------------------ MODULE MCEvaluationLeaders ------------------------
(* Finite instances of EvaluationLeaders for TLC.                          *)
EXTENDS EvaluationLeaders

\* A reliable batch, a better one, one with a fast lap that fails, one without a finish.
MCResults ==
    {[reliable |-> 1, fastest |-> 1, passed |-> TRUE],
     [reliable |-> 2, fastest |-> 1, passed |-> TRUE],
     [reliable |-> 0, fastest |-> 2, passed |-> FALSE]}

\* Each of the two is better than the other in one family.
MCTwoResults ==
    {[reliable |-> 1, fastest |-> 1, passed |-> TRUE],
     [reliable |-> 0, fastest |-> 2, passed |-> FALSE]}

\* After a restart, two batches with the results of MCTwoResults.
MCNext ==
    /\ Next
    /\ starts' > 1 => Len(journal') <= 2 /\ \A i \in DOMAIN journal' : journal'[i].result \in MCTwoResults

MCSpec == Init /\ [][MCNext]_vars

=============================================================================
