SPECIFICATION FairSpec
CONSTANTS
    Java = {"good", "unusable", "missing"}
    Output <- MCOutput
    Capacity = 1
    MaxReuse = 2
    MaxSignals = 1
INVARIANTS TypeOK SampledToTheEnd ReportIsOfTheJvm NothingLeftBehind
PROPERTIES Ends
