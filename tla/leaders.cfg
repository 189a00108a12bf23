SPECIFICATION SelectionSpec
CONSTANTS
    Results <- MCResults
    Remembered = 1
    RequiredBatches = 2
    Interruptible = TRUE
    MaxUpdates = 1
    MaxBatches = 3
    MaxStarts = 2
    Nothing = Nothing
    MaxSteps = 7
    ValidationInterval = 2
    Patience = 2
    Losses = {10, 11, 12}
    Scores = {1, 2}
    Infinity = 100
    MaxTrainings = 2
INVARIANTS
    SelectionTypeOK
    LeadersAreBacked
    LeadersAreExact
    StopsAfterConsecutivePasses
    CloningResumes
CHECK_DEADLOCK FALSE
