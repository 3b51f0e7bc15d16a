CONSTANT MaxRuns = 1

SPECIFICATION Spec

INVARIANT PaymentsBothWays

CHECK_DEADLOCK FALSE
