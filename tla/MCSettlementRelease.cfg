\* Spec 4.4: a failed settlement releases its reservation.  No crash, no
\* disconnect and no lost scan reply, so only the settle() failure paths
\* (the catch, and receipt.status false) can leave one open.
CONSTANTS
    NumAccounts    = 1
    Batch          = 1
    MinSettlement  = 2
    AccrueAmounts  <- MCAccrueAmounts
    MaxOwed        = 2
    MaxTx          = 2
    MaxSweeps      = 1
    MaxStops       = 0
    DepositAmounts <- MCDepositAmounts
    MaxDeposits    = 0
    ConnectCanFail = FALSE
    RepliesCanBeLost = FALSE

SPECIFICATION Spec

PROPERTY ReservationEventuallyClosed
