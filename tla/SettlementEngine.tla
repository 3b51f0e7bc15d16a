-------------------------- MODULE SettlementEngine --------------------------
(***************************************************************************)
(* The ETH settlement engine of settlement-engines/eth/src/index.ts        *)
(* together with the two collaborators whose state it changes:             *)
(*                                                                         *)
(*  - the Redis ledger store, reached through three Lua scripts loaded by  *)
(*    loadScripts (the scripts live outside src/, so their effect is       *)
(*    modelled from the spec, section 4.1);                                *)
(*  - the Ethereum chain, to which settle() submits transactions and from  *)
(*    which the 'logs' subscription delivers events.                       *)
(*                                                                         *)
(* The engine runs on one event loop; every await is a point where other   *)
(* tasks interleave, so each await boundary of the code is an action       *)
(* boundary here.  Sweeps (checkAccounts) are started by connect() and by  *)
(* every setInterval tick, whether or not the previous sweep finished, so  *)
(* several sweeps may be in flight at once.  Every entry a scan returns    *)
(* starts a settle() task that is never awaited.                           *)
(***************************************************************************)
EXTENDS Naturals, FiniteSets, Sequences, Bags, FiniteSetsExt, BagsExt

CONSTANTS
    NumAccounts,     \* accounts in the store, scanned in the order 1..NumAccounts
    Batch,           \* keys one SCAN step of the script covers
    MinSettlement,   \* this.minSettlementGwei
    AccrueAmounts,   \* amounts a forwarded ILP packet adds to what we owe a peer
    MaxOwed,         \* bound: total ever owed to one peer
    MaxTx,           \* bound: transactions ever submitted to the chain
    MaxSweeps,       \* bound: sweeps in flight at once
    MaxStops,        \* bound: crashes plus disconnects
    DepositAmounts,  \* amounts of inbound transfers
    MaxDeposits,     \* bound: inbound transfers observed
    ConnectCanFail,  \* connect() may reject (Redis unreachable, script load error)
    RepliesCanBeLost \* a script may run while its reply to the engine is lost

ASSUME NumAccounts \in Nat \ {0}
ASSUME Batch \in Nat \ {0}
ASSUME MinSettlement \in Nat \ {0}   \* a reservation of 0 would be no reservation
ASSUME AccrueAmounts \subseteq Nat \ {0}
ASSUME MaxSweeps \in Nat \ {0}
ASSUME ConnectCanFail \in BOOLEAN
ASSUME RepliesCanBeLost \in BOOLEAN

Accounts == 1..NumAccounts
Cursors  == 0..NumAccounts           \* "0" opens and closes a sweep

VARIABLES
    \* Redis ledger store (durable)
    balance,     \* balance[a]: what we owe peer a, in gwei
    reserved,    \* reserved[a]: open reservation of a, 0 when none
    \* Ethereum chain
    txs,         \* every transaction settle() submitted: [to, amt, st]
    deposits,    \* every inbound transfer to this.address: [from, amt]
    \* engine process (in memory)
    proc,        \* "down" | "up" | "stopping" (after disconnect()) | "failed"
    sweeps,      \* bag of cursors of the checkAccounts loops in flight
    workers,     \* settle() tasks in flight
    logs,        \* ids of deposits the subscription has yet to deliver
    \* history, for the properties
    owed,        \* owed[a]: total ever accrued to peer a
    confirmed,   \* confirmed[a]: total updateBalanceAfterSettlement debited
    handled,     \* ids of deposits handleTransaction was called with
    stops        \* crashes and disconnects so far

store  == <<balance, reserved>>
chain  == <<txs, deposits>>
engine == <<proc, sweeps, workers, logs>>
ghost  == <<owed, confirmed, handled, stops>>
vars   == <<store, chain, engine, ghost>>

TxStatus   == {"pending", "success", "reverted"}
WorkerPcs  == {"signing", "sending", "confirming"}
Worker     == [acct : Accounts, amt : MinSettlement..MaxOwed, tx : 0..MaxTx, pc : WorkerPcs]

-----------------------------------------------------------------------------
(***************************************************************************)
(* Ledger store scripts (spec section 4.1).  Each runs atomically inside   *)
(* Redis.                                                                  *)
(***************************************************************************)

\* The keys one call of get_accounts_that_need_settlement covers from cursor c.
ScanBatch(c) == {a \in Accounts : c < a /\ a <= c + Batch}

\* The cursor that call returns; 0 once the keyspace is exhausted.
NextCursor(c) == IF c + Batch >= NumAccounts THEN 0 ELSE c + Batch

\* An account is returned when it has no open reservation and its available
\* balance reaches the minimum.
NeedsSettlement(a) == reserved[a] = 0 /\ balance[a] >= MinSettlement

\* The accounts one scan returns and reserves.
Due(c) == {a \in ScanBatch(c) : NeedsSettlement(a)}

\* The scan opens a reservation of the whole available balance of each entry.
ReserveDue(c) ==
    reserved' = [a \in Accounts |-> IF a \in Due(c) THEN balance[a] ELSE reserved[a]]

\* update_balance_after_settlement: closes the reservation and debits the
\* amount; refuses (NoOpenReservation / AmountMismatch) when the open
\* reservation is not exactly this amount.
UpdateBalanceAfterSettlement(a, amt) ==
    IF reserved[a] = amt /\ amt > 0
    THEN /\ balance'   = [balance EXCEPT ![a] = @ - amt]
         /\ reserved'  = [reserved EXCEPT ![a] = 0]
         /\ confirmed' = [confirmed EXCEPT ![a] = @ + amt]
    ELSE UNCHANGED <<balance, reserved, confirmed>>

-----------------------------------------------------------------------------
(***************************************************************************)
(* Engine                                                                  *)
(***************************************************************************)

\* new EthSettlementEngine(config): nothing runs until connect().
Init ==
    /\ balance   = [a \in Accounts |-> 0]
    /\ reserved  = [a \in Accounts |-> 0]
    /\ txs       = <<>>
    /\ deposits  = <<>>
    /\ proc      = "down"
    /\ sweeps    = EmptyBag
    /\ workers   = {}
    /\ logs      = {}
    /\ owed      = [a \in Accounts |-> 0]
    /\ confirmed = [a \in Accounts |-> 0]
    /\ handled   = {}
    /\ stops     = 0

\* connect(): Redis ready, scripts loaded, 'logs' subscription opened, one
\* sweep started at once and the interval timer armed.
Connect ==
    /\ proc = "down"
    /\ proc'   = "up"
    /\ sweeps' = SetToBag({0})
    /\ UNCHANGED <<store, chain, workers, logs, ghost>>

\* connect() rejects: Redis emits 'error' before 'ready', or a script fails
\* to load.  cli.ts logs the error and never calls connect() again; the
\* process lives on with no timer and no subscription.
ConnectRejected ==
    /\ proc = "down"
    /\ ConnectCanFail
    /\ proc' = "failed"
    /\ UNCHANGED <<store, chain, sweeps, workers, logs, ghost>>

\* The process exits: every in-memory task, cursor and undelivered event is
\* lost; Redis and the chain keep their state.
ProcessExits ==
    /\ stops < MaxStops
    /\ proc'    = "down"
    /\ sweeps'  = EmptyBag
    /\ workers' = {}
    /\ logs'    = {}
    /\ stops'   = stops + 1

\* The setInterval callback: start another checkAccounts sweep.
Tick ==
    /\ proc = "up"
    /\ BagCardinality(sweeps) < MaxSweeps
    /\ sweeps' = BagAdd(sweeps, 0)
    /\ UNCHANGED <<store, chain, proc, workers, logs, ghost>>

\* A loop that stops after its first call ('if' in place of 'do ... while').
ContinueSweepOnce(c, next) == BagRemove(sweeps, c)

\* The do-while of checkAccounts: the sweep loops again with the returned
\* cursor unless it is '0'.
ContinueSweep(c, next) ==
    IF next = 0 THEN BagRemove(sweeps, c)
    ELSE BagAdd(BagRemove(sweeps, c), next)

\* An entry destructured in the wrong order ([amountToSettle, address,
\* account]): the account and the amount change places.
SettleSwapped(a, amt) == [acct |-> amt, amt |-> a, tx |-> 0, pc |-> "signing"]

\* The task settle(account, address, amount) starts for one scanned entry;
\* it runs synchronously up to the await on sendTransaction.
Settle(a, amt) == [acct |-> a, amt |-> amt, tx |-> 0, pc |-> "signing"]

\* scanAccounts(cursor): the script ran and its reply arrived; settle() is
\* called, without await, for every entry; the loop continues.
ScanReplied(c) ==
    /\ proc = "up"
    /\ c \in BagToSet(sweeps)
    /\ ReserveDue(c)
    /\ workers' = workers \cup {Settle(a, balance[a]) : a \in Due(c)}
    /\ sweeps'  = ContinueSweep(c, NextCursor(c))
    /\ UNCHANGED <<balance, chain, proc, logs, ghost>>

\* The script ran but the connection failed before its reply arrived: the
\* await rejects, checkAccounts' floating promise rejects, the sweep ends,
\* and nobody settles what the script reserved.  The rejection is
\* unhandled: Node before 15 warns and runs on, Node 15 and later exits.
ScanReplyLost(c) ==
    /\ proc = "up"
    /\ RepliesCanBeLost
    /\ c \in BagToSet(sweeps)
    /\ ReserveDue(c)
    /\ \/ /\ sweeps' = BagRemove(sweeps, c)
          /\ UNCHANGED <<proc, workers, logs, stops>>
       \/ ProcessExits
    /\ UNCHANGED <<balance, chain, owed, confirmed, handled>>

\* The call never reached the script (Redis unreachable, or the client quit
\* by disconnect()): the sweep ends; the next tick starts afresh at '0'.
ScanFailed(c) ==
    /\ c \in BagToSet(sweeps)
    /\ \/ /\ sweeps' = BagRemove(sweeps, c)
          /\ UNCHANGED <<proc, workers, logs, stops>>
       \/ ProcessExits
    /\ UNCHANGED <<store, chain, owed, confirmed, handled>>

\* A send of the account's current balance in place of the scanned amount.
SendTransactionCurrentBalance(w) ==
    /\ w \in workers
    /\ w.pc = "signing"
    /\ Len(txs) < MaxTx
    /\ txs' = Append(txs, [to |-> w.acct, amt |-> balance[w.acct], st |-> "pending"])
    /\ workers' = (workers \ {w}) \cup {[w EXCEPT !.tx = Len(txs) + 1, !.pc = "sending"]}
    /\ UNCHANGED <<store, deposits, proc, sweeps, logs, ghost>>

\* web3 signs with the wallet key and submits the transaction.
SendTransaction(w) ==
    /\ w \in workers
    /\ w.pc = "signing"
    /\ Len(txs) < MaxTx
    /\ txs' = Append(txs, [to |-> w.acct, amt |-> w.amt, st |-> "pending"])
    /\ workers' = (workers \ {w}) \cup {[w EXCEPT !.tx = Len(txs) + 1, !.pc = "sending"]}
    /\ UNCHANGED <<store, deposits, proc, sweeps, logs, ghost>>

\* sendTransaction rejects, before or after submission (signing error,
\* transport error, receipt timeout while the transaction is still pending):
\* the catch logs and returns.  The reservation stays open.
SendTransactionFails(w) ==
    /\ w \in workers
    /\ w.pc \in {"signing", "sending"}
    /\ workers' = workers \ {w}
    /\ UNCHANGED <<store, chain, proc, sweeps, logs, ghost>>

\* A check of 'if (receipt)' in place of 'if (receipt.status)'.
ReceiveReceiptIgnoringStatus(w) ==
    /\ w \in workers
    /\ w.pc = "sending"
    /\ txs[w.tx].st # "pending"
    /\ workers' = (workers \ {w}) \cup {[w EXCEPT !.pc = "confirming"]}
    /\ UNCHANGED <<store, chain, proc, sweeps, logs, ghost>>

\* The receipt arrives once the transaction is mined.  status true: go on to
\* updateBalanceAfterSettlement; status false: log and return, leaving the
\* reservation open.
ReceiveReceipt(w) ==
    /\ w \in workers
    /\ w.pc = "sending"
    /\ txs[w.tx].st # "pending"
    /\ workers' = IF txs[w.tx].st = "success"
                  THEN (workers \ {w}) \cup {[w EXCEPT !.pc = "confirming"]}
                  ELSE workers \ {w}
    /\ UNCHANGED <<store, chain, proc, sweeps, logs, ghost>>

\* await updateBalanceAfterSettlement(account, gwei): the script runs when
\* the client is still connected; a rejection (Redis down, client quit,
\* the script's refusal) is unhandled and ends the task, or the process.
UpdateBalance(w) ==
    /\ w \in workers
    /\ w.pc = "confirming"
    /\ \/ /\ proc = "up"
          /\ UpdateBalanceAfterSettlement(w.acct, w.amt)
          /\ workers' = workers \ {w}
          /\ UNCHANGED <<proc, sweeps, logs, stops>>
       \/ /\ workers' = workers \ {w}
          /\ UNCHANGED <<balance, reserved, confirmed, proc, sweeps, logs, stops>>
       \/ /\ ProcessExits
          /\ UNCHANGED <<balance, reserved, confirmed>>
    /\ UNCHANGED <<chain, owed, handled>>

\* disconnect(): clearInterval and quit Redis.  Tasks in flight go on, but
\* every Redis call they make from now on fails; the 'logs' subscription
\* stays open (clearSubscriptions is commented out), so the process lives on.
Disconnect ==
    /\ proc = "up"
    /\ stops < MaxStops
    /\ proc'  = "stopping"
    /\ stops' = stops + 1
    /\ UNCHANGED <<store, chain, sweeps, workers, logs, owed, confirmed, handled>>

\* The process is killed, or dies of a Redis 'error' event: connect()'s
\* once('error', reject) is the client's only error listener, the first
\* error after 'ready' consumes it, and the next is thrown.
Crash ==
    /\ proc # "down"
    /\ ProcessExits
    /\ UNCHANGED <<store, chain, owed, confirmed, handled>>

\* handleTransaction: the subscription's 'data' callback only logs the event.
HandleTransaction(i) ==
    /\ i \in logs
    /\ logs'    = logs \ {i}
    /\ handled' = handled \cup {i}
    /\ UNCHANGED <<store, chain, proc, sweeps, workers, owed, confirmed, stops>>

-----------------------------------------------------------------------------
(***************************************************************************)
(* Environment                                                             *)
(***************************************************************************)

\* The connector forwards a packet for peer a: Redis raises what we owe it.
Accrue(a, x) ==
    /\ owed[a] + x <= MaxOwed
    /\ balance' = [balance EXCEPT ![a] = @ + x]
    /\ owed'    = [owed EXCEPT ![a] = @ + x]
    /\ UNCHANGED <<reserved, chain, engine, confirmed, handled, stops>>

\* A block includes transaction i, which succeeds or reverts.
Mine(i) ==
    /\ txs[i].st = "pending"
    /\ \E st \in {"success", "reverted"} : txs' = [txs EXCEPT ![i].st = st]
    /\ UNCHANGED <<store, deposits, engine, ghost>>

\* Peer a pays this.address; a live subscription will deliver the event.
Deposit(a, x) ==
    /\ Len(deposits) < MaxDeposits
    /\ deposits' = Append(deposits, [from |-> a, amt |-> x])
    /\ logs' = IF proc \in {"up", "stopping"} THEN logs \cup {Len(deposits) + 1} ELSE logs
    /\ UNCHANGED <<store, txs, proc, sweeps, workers, ghost>>

\* One awaited call of getAccountsThatNeedSettlement, whatever its outcome.
ScanAccounts(c) == ScanReplied(c) \/ ScanReplyLost(c) \/ ScanFailed(c)

Next ==
    \/ Connect \/ ConnectRejected \/ Tick \/ Disconnect \/ Crash
    \/ \E c \in Cursors : ScanAccounts(c)
    \/ \E w \in workers :
          SendTransaction(w) \/ SendTransactionFails(w)
          \/ ReceiveReceipt(w) \/ UpdateBalance(w)
    \/ \E i \in logs : HandleTransaction(i)
    \/ \E a \in Accounts, x \in AccrueAmounts : Accrue(a, x)
    \/ \E i \in DOMAIN txs : Mine(i)
    \/ \E a \in Accounts, x \in DepositAmounts : Deposit(a, x)

(***************************************************************************)
(* Fairness.  cli.ts calls connect() once, at startup; nothing in the      *)
(* code restarts an engine that crashed or disconnected, so Connect is     *)
(* fair only before the first stop.  setInterval keeps                     *)
(* firing while the engine is up; every Redis call settles, and one is     *)
(* eventually answered (strong fairness: Redis may fail transiently, not   *)
(* for ever);                                                              *)
(* every web3 and Redis promise of a settle() task settles (web3 rejects   *)
(* after its block timeout).  Mining is not fair: a transaction may stay   *)
(* pending for ever.                                                       *)
(***************************************************************************)
Fairness ==
    /\ WF_vars(stops = 0 /\ Connect)
    /\ WF_vars(Tick)
    /\ \A c \in Cursors : WF_vars(ScanAccounts(c)) /\ SF_vars(ScanReplied(c))
    /\ \A a \in Accounts :
          WF_vars(\E w \in workers : /\ w.acct = a
                                     /\ \/ SendTransaction(w) \/ SendTransactionFails(w)
                                        \/ ReceiveReceipt(w) \/ UpdateBalance(w))

Spec == Init /\ [][Next]_vars /\ Fairness

-----------------------------------------------------------------------------
(***************************************************************************)
(* Properties                                                              *)
(***************************************************************************)

\* What the chain has transferred to peer a.
Paid(a) == MapThenSumSet(LAMBDA i : txs[i].amt,
                         {i \in DOMAIN txs : txs[i].to = a /\ txs[i].st = "success"})

\* What deposits handleTransaction saw from peer a add up to.
Received(a) == MapThenSumSet(LAMBDA i : deposits[i].amt,
                             {i \in handled : deposits[i].from = a})

TypeOK ==
    /\ balance \in [Accounts -> Nat]
    /\ reserved \in [Accounts -> Nat]
    /\ txs \in Seq([to : Accounts, amt : Nat, st : TxStatus])
    /\ deposits \in Seq([from : Accounts, amt : DepositAmounts])
    /\ proc \in {"down", "up", "stopping", "failed"}
    /\ IsABag(sweeps) /\ BagToSet(sweeps) \subseteq Cursors
    /\ workers \subseteq Worker
    /\ logs \subseteq DOMAIN deposits
    /\ owed \in [Accounts -> Nat] /\ confirmed \in [Accounts -> Nat]
    /\ handled \subseteq DOMAIN deposits
    /\ stops \in 0..MaxStops

\* The ledger is debited for a settlement only after the chain carried it,
\* and every transfer the chain carried is either debited or still covered
\* by the open reservation: across overlapping sweeps, late receipts,
\* timeouts and crashes the chain and the ledger never disagree by more than
\* the one reservation in flight.
PaymentsCovered ==
    \A a \in Accounts : confirmed[a] <= Paid(a) /\ Paid(a) <= confirmed[a] + reserved[a]

\* The engine has stopped for good: connect() rejected, or the process
\* crashed or was disconnected, and nothing in the code starts it again.
Stopped == proc = "failed" \/ stops > 0

\* A balance that reaches the minimum is eventually reserved for settlement
\* while the engine runs: every sweep's cursor loop covers every key and
\* ends, and the timer keeps sweeps coming.
DueAccountEventuallyReserved ==
    \A a \in Accounts : NeedsSettlement(a) ~> (reserved[a] > 0 \/ Stopped)

\* Spec section 7: store errors are transient and the next tick retries
\* them, so a balance that reaches the minimum is eventually reserved,
\* whatever error connect() met on the way.
StoreErrorsRetried ==
    \A a \in Accounts : NeedsSettlement(a) ~> reserved[a] > 0

\* Spec 4.4 step 4 and section 8 scenario 2: a settlement that fails is
\* released, so every reservation is eventually closed.
ReservationEventuallyClosed ==
    \A a \in Accounts : reserved[a] > 0 ~> reserved[a] = 0

\* Spec 4.5: every inbound transfer handleTransaction is called with is
\* credited to the peer's balance.
InboundCredited ==
    \A a \in Accounts : balance[a] = owed[a] + Received(a) - confirmed[a]


(***************************************************************************)
(* Refinement.  The ledger's own balance and Reservation are the abstract  *)
(* ones; the abstract payments are what the chain has carried; the open    *)
(* Reservation counts as transferred once the chain has paid more than the *)
(* ledger has debited.                                                     *)
(***************************************************************************)
Ledger == INSTANCE SettlementLedger
            WITH paid        <- [a \in Accounts |-> Paid(a)],
                 transferred <- [a \in Accounts |-> Paid(a) > confirmed[a]]

\* The engine, Redis and the chain together implement the Reservation
\* protocol: every step of sweeps, settle() tasks, receipts, crashes and
\* inbound events is an Accrue, Reserve, Transfer or Confirm of one
\* Reservation at a time, or changes nothing the protocol sees; and, in a
\* run where the engine never stops, an account that stays reservable is
\* eventually reserved.
LedgerSpec == Ledger!SafetySpec /\ ([]~Stopped => Ledger!Liveness)

=============================================================================
