CONSTANTS
    NoOption   = NoOption
    Absent     <- NoOption
    MinAmounts <- MCMinAmounts
    Intervals  <- MCIntervals

SPECIFICATION Spec

INVARIANT ThresholdFromCli

CHECK_DEADLOCK FALSE
