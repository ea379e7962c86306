SPECIFICATION Spec
CONSTANTS
    Jvms <- MCJvms
    Iterations = 1
    Windows = {1}
    FdLimit = 5
INVARIANTS ColumnsAlign
