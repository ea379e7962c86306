SPECIFICATION Spec
CONSTANTS
    Warmups = 1
    Runs = 3
    Flush = TRUE
    Cost = 2
    MaxSignals = 2
INVARIANTS TypeOK OneChild CountedRuns CleanEnd
PROPERTIES SeriesSpec SeriesEnds
