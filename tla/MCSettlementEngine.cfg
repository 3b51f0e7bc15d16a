CONSTANTS
    NumAccounts    = 2
    Batch          = 1
    MinSettlement  = 2
    AccrueAmounts  <- MCAccrueAmounts
    MaxOwed        = 3
    MaxTx          = 3
    MaxSweeps      = 2
    MaxStops       = 1
    DepositAmounts <- MCDepositAmounts
    MaxDeposits    = 1
    ConnectCanFail = TRUE
    RepliesCanBeLost = TRUE

SPECIFICATION Spec

INVARIANT TypeOK
INVARIANT PaymentsCovered

PROPERTY DueAccountEventuallyReserved
PROPERTY LedgerSpec

\* A process whose connect() rejected does nothing more: it really may stop.
CHECK_DEADLOCK FALSE
