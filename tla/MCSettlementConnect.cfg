\* One peer; connect() may reject, and nothing else goes wrong.
CONSTANTS
    NumAccounts    = 1
    Batch          = 1
    MinSettlement  = 2
    AccrueAmounts  <- MCAccrueAmounts
    MaxOwed        = 2
    MaxTx          = 1
    MaxSweeps      = 1
    MaxStops       = 0
    DepositAmounts <- MCDepositAmounts
    MaxDeposits    = 0
    ConnectCanFail = TRUE
    RepliesCanBeLost = FALSE

SPECIFICATION Spec

PROPERTY StoreErrorsRetried

\* A process whose connect() failed does nothing more: it really may stop.
CHECK_DEADLOCK FALSE
