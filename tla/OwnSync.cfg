SPECIFICATION FairSpec
CONSTANTS
    host = host
    logs = logs
    a = a
    b = b
    Dirs = {host, logs}
    Files = {a, b}
    Root = host
    Parent <- MCParent
    Overwrites = {"never", "check", "always"}
    Tolerance = 1
    MaxTicks = 6
    MaxEdits = 1
    MaxPeer = 2
    MaxFaults = 1
INVARIANTS TypeOK UploadedOnce FailsOnlyIfDisturbed
PROPERTIES Converges KeepsWhatItSaw
