CONSTANT MaxRuns = 2

SPECIFICATION Spec

INVARIANT TypeOK
INVARIANT AccountsAddedInOrder

\* The operator may stop after any run.
CHECK_DEADLOCK FALSE
