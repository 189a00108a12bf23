SPECIFICATION Spec
CONSTANTS
    Results <- MCResults
    Remembered = 2
    RequiredBatches = 2
    Interruptible = TRUE
    MaxUpdates = 3
    MaxBatches = 1
    MaxStarts = 1
INVARIANTS
    EvaluatedPolicyIsRemembered
CHECK_DEADLOCK FALSE
