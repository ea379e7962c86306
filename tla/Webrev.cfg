SPECIFICATION Spec
CONSTANTS
    Files = {index, patch}
    Interactive = TRUE
    Published <- ZeroToTwo
    ByHand <- NoneOrTwo
    MaxNum = 3
    MaxEdits = 1
    MaxFaults = 2
INVARIANTS TypeOK NoGaps IncompleteWereBroken Publishes
PROPERTIES EarlierKept
