CONSTANTS
    n1 = n1
    n3 = n3
    Nodes   <- MCNodes
    MaxRuns = 2

SPECIFICATION Spec

INVARIANT BaseAccountCreated

CHECK_DEADLOCK FALSE
