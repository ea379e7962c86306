SPECIFICATION Spec
CONSTANTS
    Warmups = 0
    Runs = 2
    Flush = FALSE
    Cost = 2
    MaxSignals = 1
INVARIANT MeanOfRecordedRuns
