SPECIFICATION FairSpec
CONSTANTS
    root = root
    sub = sub
    lib = lib
    debuginfo = debuginfo
    m644 = m644
    m666 = m666
    Dirs = {root, sub}
    Files = {lib, debuginfo}
    Root = root
    Parent <- MCParent
    Skipped = {debuginfo}
    Modes <- MCModes
    Writable = m666
    DefaultMode = m644
    Options = {TRUE, FALSE}
    Skew = 1
    OldNodes <- OldHost
    MaxTime = 2
    MaxEdits = 1
    MaxFaults = 2
INVARIANTS TypeOK UpToDateIsEqual DoneIsSynced RerunCopiesNothing
PROPERTIES Converges
