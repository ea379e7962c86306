SPECIFICATION Spec
CONSTANTS
    Jvms <- MCJvms
    Iterations = 3
    Windows = {1, 2, 4}
    FdLimit = 5
INVARIANTS TypeOK CountsOneIteration RowIsOneIteration NoLogLost
