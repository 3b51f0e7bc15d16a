-------------------------- MODULE SettlementLedger --------------------------
(***************************************************************************)
(* What the settlement engine promises about the ledger and the chain,     *)
(* with no sweeps, cursors, tasks or receipts: the Reservation protocol of *)
(* spec sections 4.1 and 4.4.  Per peer, a balance accrues; a sweep opens  *)
(* a Reservation of the whole available balance once it reaches the        *)
(* minimum; at most one transfer on the chain discharges a Reservation;    *)
(* the ledger is debited only for a Reservation the chain has carried,     *)
(* and a Reservation the chain never carried may be released.              *)
(***************************************************************************)
EXTENDS Naturals

CONSTANTS
    Accounts,       \* the peers
    MinSettlement,  \* the settlement threshold
    AccrueAmounts   \* what one forwarded packet adds to a balance

VARIABLES
    balance,      \* balance[a]: what the ledger says we owe peer a
    reserved,     \* reserved[a]: its open Reservation, 0 when none
    paid,         \* paid[a]: what the chain has transferred to a in all
    transferred   \* transferred[a]: the chain carried the open Reservation

vars == <<balance, reserved, paid, transferred>>

Init ==
    /\ balance     = [a \in Accounts |-> 0]
    /\ reserved    = [a \in Accounts |-> 0]
    /\ paid        = [a \in Accounts |-> 0]
    /\ transferred = [a \in Accounts |-> FALSE]

\* The connector records that we owe peer a another x.
Accrue(a, x) ==
    /\ balance' = [balance EXCEPT ![a] = @ + x]
    /\ UNCHANGED <<reserved, paid, transferred>>

\* An account may be reserved when it has no open Reservation and its
\* balance reaches the minimum.
Reservable(a) == reserved[a] = 0 /\ balance[a] >= MinSettlement

\* One atomic scan reserves the whole balance of some reservable accounts.
Reserve(S) ==
    /\ S # {}
    /\ \A a \in S : Reservable(a)
    /\ reserved' = [a \in Accounts |-> IF a \in S THEN balance[a] ELSE reserved[a]]
    /\ UNCHANGED <<balance, paid, transferred>>

\* The chain transfers the open Reservation, once.
Transfer(a) ==
    /\ reserved[a] > 0
    /\ ~transferred[a]
    /\ paid'        = [paid EXCEPT ![a] = @ + reserved[a]]
    /\ transferred' = [transferred EXCEPT ![a] = TRUE]
    /\ UNCHANGED <<balance, reserved>>

\* confirmSettlement: a transferred Reservation is closed and debited.
Confirm(a) ==
    /\ transferred[a]
    /\ balance'     = [balance EXCEPT ![a] = @ - reserved[a]]
    /\ reserved'    = [reserved EXCEPT ![a] = 0]
    /\ transferred' = [transferred EXCEPT ![a] = FALSE]
    /\ UNCHANGED paid

\* releaseReservation: a Reservation the chain did not carry is closed.
Release(a) ==
    /\ reserved[a] > 0
    /\ ~transferred[a]
    /\ reserved' = [reserved EXCEPT ![a] = 0]
    /\ UNCHANGED <<balance, paid, transferred>>

Next ==
    \/ \E a \in Accounts, x \in AccrueAmounts : Accrue(a, x)
    \/ \E S \in SUBSET Accounts : Reserve(S)
    \/ \E a \in Accounts : Transfer(a) \/ Confirm(a) \/ Release(a)

SafetySpec == Init /\ [][Next]_vars

\* Spec 4.3: sweeps run on a timer and cover every account, so an account
\* that stays reservable is eventually reserved.
Liveness ==
    \A a \in Accounts : WF_vars(\E S \in SUBSET Accounts : a \in S /\ Reserve(S))

Spec == SafetySpec /\ Liveness

=============================================================================
