CONSTANT MaxRuns = 1

SPECIFICATION Spec

INVARIANT RatesOnlyAfterAccounts

CHECK_DEADLOCK FALSE
