CONSTANTS
    n1 = n1
    n3 = n3
    Nodes   <- MCNodes
    MaxRuns = 1

SPECIFICATION Spec

INVARIANT SingleRedisServer

CHECK_DEADLOCK FALSE
