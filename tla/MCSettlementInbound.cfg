\* Spec 4.5: handleTransaction credits every inbound transfer.
CONSTANTS
    NumAccounts    = 1
    Batch          = 1
    MinSettlement  = 2
    AccrueAmounts  <- MCAccrueAmounts
    MaxOwed        = 2
    MaxTx          = 1
    MaxSweeps      = 1
    MaxStops       = 0
    DepositAmounts <- MCDepositAmounts
    MaxDeposits    = 1
    ConnectCanFail = FALSE
    RepliesCanBeLost = FALSE

SPECIFICATION Spec

INVARIANT InboundCredited
