SPECIFICATION Spec
CONSTANTS
    Files = {index, patch}
    Interactive = TRUE
    Published <- ZeroToTwo
    ByHand <- None
    MaxNum = 3
    MaxEdits = 0
    MaxFaults = 0
INVARIANT CopiesToTheCr
