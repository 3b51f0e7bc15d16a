# TLA+ models of the interledger-rs ETH settlement engine and its examples

This directory holds TLA+ models of the repository's code, checked with TLC.
Each module is translated from the source it names. The mapping from module
definitions to source lines is in `PROJECT.json` under `"map"`.

## 1. Inventory

### Components

| Component | Source | State it keeps | Operations |
|---|---|---|---|
| **LedgerStore client** | `index.ts` `loadScripts` (71-92), Lua scripts outside `src/` | In Redis: each peer's balance and open reservation | `getAccountsThatNeedSettlement(cursor, min)` (atomic scan + reserve); `updateBalanceAfterSettlement(account, gwei)` (confirm); `creditAccountForSettlement` (loaded, never called). There is no release operation. |
| **ReconciliationLoop** | `index.ts` `connect`, `checkAccounts`, `scanAccounts` (50-69, 106-126) | Interval timer; one cursor per running sweep | Start one sweep on connect and one on every tick; loop the scan until cursor `'0'`; call `settle()` for each entry without awaiting it |
| **SettlementWorker** | `index.ts` `settle` (128-150) | Account, amount, awaited promise | `sendTransaction`; on `receipt.status` true, `updateBalanceAfterSettlement`; on error or status false, log and return |
| **InboundCreditHandler** | `index.ts` subscription (61-64), `handleTransaction` (152-154) | none | Logs the event |
| **ChainClient** (web3) | `index.ts` | Transactions and deposits on chain | Submit a transaction, deliver its receipt, deliver `logs` events |
| **Engine lifecycle** | `index.ts` `constructor`, `connect`, `disconnect` (40-104) | Redis client, timer | Connect; disconnect (clears the timer and quits Redis while tasks are in flight) |
| **CLI configuration** | `cli.ts`, constructor | argv, config object, engine settings | Parse args (yargs defaults), build config, construct the engine |
| **Example bootstrap** | `example/utils.js` `setup` and helpers; `run_node_1.js`, `run_node_3.js` | Config file per node; Redis socket file; spawned Redis and node processes; accounts | `loadConfig`, `generateTestnetCredentials`, `launchRedis`, `runLocalTunnel`, `launchInterledger`, `createAccount` |
| **Example scripts** | `account_setup.js`, `rates_setup.js`, `pay.js`; `utils.addAccount`, `setRates`, `pay` | none of their own; they change the nodes' accounts and rates | Load three configs and add four accounts in a nested promise chain; set node 2's rate; send two payments |

### How they interact

All durable state (balances, reservations) lives in Redis. The engine changes
it only through atomic Lua scripts. Other writers change balances
concurrently; the connector is one of them (modelled as `Accrue`). The engine
runs on one Node.js event loop, and every `await` is an interleaving point:
- Sweeps are started by `connect()` and by every timer tick, whether or not
  an earlier sweep has finished.
- Each scanned entry starts a `settle()` task that is never awaited.
- Subscription callbacks run between any two of these steps.

The chain is a second external actor:
- A submitted transaction may be mined as success or reverted, or stay
  pending forever.
- web3 may reject `sendTransaction` (timeout, transport error) after the
  transaction was broadcast, and the transaction may still be mined later.

The example scripts run side by side "in different terminals". They share one
Redis unix socket and spawn Redis and node processes.

### What is hard

- **Overlapping sweeps.** Double settlement is prevented only by the
  scan-and-reserve script being atomic.
- **Lost Redis replies.** A script can run while its reply is lost.
- **Send outcome unknown.** A send can time out and then be mined late.
- **Crash or disconnect after a send.** If the process crashes or
  disconnects between a successful send and the confirm, the payment is made
  but never debited.
- **Failure paths never release.** Neither failure path of `settle()`
  releases its reservation.
- **Check-then-spawn on the Redis socket.** The setup scripts check for the
  socket file and then spawn Redis.
- **Persist-then-act.** The setup scripts write the config file before
  creating the base account.
- **Interrupted scripts.** `fs.writeFile` truncates before it writes, so an
  interrupted write leaves a torn config. A POST in flight may commit.
- **Promises nobody returns.** `account_setup.js` nests its calls without
  returning the inner promises. Its outer `.catch` sees none of their
  failures, and its exit status then depends on the Node version.

### What makes each component correct

- **Loop and workers.** The chain never pays a peer more than it owes. Each
  chain transfer is either debited in the ledger or still covered by the
  open reservation. Each due balance is eventually reserved.
- **Workers.** A failed settlement is released (spec 4.4).
- **Inbound handler.** Each inbound transfer is credited (spec 4.5).
- **CLI.** The engine uses the settings the command line gave.
- **Bootstrap.**
  - There is at most one Redis server.
  - A finished setup has created the node's base account, at most once
    across reruns.
- **Example scripts.**
  - Accounts are added in their nesting order.
  - `rates_setup.js` runs only after the accounts were set up.
  - `pay.js` pays once in each direction.
- **Abstractly.** The engine is one implementation of the Reservation
  protocol of spec 4.1 and 4.4 (`SettlementLedger`).

## 2. Modules and plan

Built in this order, most important behaviour first:

1. **`SettlementEngine`** (done). LedgerStore scripts (from spec 4.1), the
   ReconciliationLoop, SettlementWorkers, the InboundCreditHandler and the
   lifecycle, with the chain and the connector as environment actions.
   `MCSettlementEngine` instantiates it.
2. **`NodeSetup`** (done). `utils.setup` for several node scripts at once,
   with interrupts at any await (torn config writes, a committed POST) and
   reruns. `MCNodeSetup` instantiates it.
3. **`EngineConfig`** (done). `cli.ts` and the constructor's defaults.
   `MCEngineConfig` instantiates it.
4. **`SettlementLedger`** (done). The abstract Reservation protocol.
   `SettlementEngine` is shown to implement it through
   `INSTANCE SettlementLedger WITH` a refinement mapping.
5. **`ExampleScripts`** (done). `account_setup.js`, `rates_setup.js` and
   `pay.js` as the operator runs them.
6. **`ExampleDeployment`** (done). Composes `NodeSetup` with
   `ExampleScripts`: the operator scripts read the config files the node
   scripts write, and reach a node only while it is up.
   `MCExampleDeployment` bounds the reruns.
7. **Engine faults** (done). `connect()` rejecting, and unhandled
   rejections ending the process on Node 15 and later.
8. **Left undone, and why.**
   - A larger engine instance: three peers with `Batch = 2`, so that one
     scan reserves several accounts. With crashes, deposits and two sweeps
     it does not finish in 5 minutes. Without them (one accrual of 2, no
     deposit) it passes `PaymentsCovered` and
     `DueAccountEventuallyReserved` over 91,823 states. It is not kept as a
     run.
   - A liveness property for the example scripts, for example that
     `account_setup.js` eventually exits. It would hold only under
     fairness on the interledger nodes' answers. Those nodes are not in the
     repository, and `request` sets no timeout, so nothing in the code
     justifies that fairness.
   - A refinement of `NodeSetup` by an abstract "config, then node, then
     base account" protocol. `setup()` is a straight-line sequence, so the
     abstract protocol would restate `NodeSetup`'s guards and show nothing
     new.

## 3. Modules in detail

### SettlementEngine

**Variables:**
- **Store (Redis):** `balance` (what we owe each peer) and `reserved` (the
  open reservation, 0 when none).
- **Chain:** `txs`, the submitted transactions with status
  pending/success/reverted; `deposits`, the inbound transfers.
- **Engine memory:**
  - `proc`: down, up, or stopping after `disconnect()`.
  - `sweeps`: a bag of the cursors of running `checkAccounts` loops.
  - `workers`: the `settle()` tasks in flight, each with its await point
    (signing, sending or confirming).
  - `logs`: the subscription events not yet delivered.
- **History, used only by the properties:** `owed`, `confirmed`, `handled`,
  `stops`.

**Actions and the code they model:**
- **`Connect`:** `connect()`, including `loadScripts`. The process starts
  and one sweep starts immediately.
- **`ConnectRejected`:** Redis errors before `ready`, or a script fails to
  load. `cli.ts:43` only logs the rejection. The process stays alive with
  no timer (`proc = "failed"`) and is never connected again.
- **`ProcessExits`:** is not a step by itself. It is the branch of
  `ScanReplyLost`, `ScanFailed` and `UpdateBalance` in which the rejected
  promise is unhandled. `checkAccounts()` and `settle()` are floating
  promises, and on Node 15 and later an unhandled rejection ends the
  process, killing every task in flight. On older Node versions the process
  warns and goes on, which is the other branch. `Crash` is the same exit
  caused by a kill, or by a Redis `'error'` event that finds no listener.
  `connect()` attaches `once('error', reject)` (`index.ts:56`). The first
  error after `ready` consumes that listener, and the client throws the
  next one.
- **`Tick`:** the `setInterval` callback.
- **`ScanReplied`:** the script runs and its reply arrives. `scanAccounts`
  calls `settle()` for each entry and `ContinueSweep` applies the do-while.
- **`ScanReplyLost`:** the script ran but the await rejected, so the sweep
  ends with its reservations made. It is enabled only when the constant
  `RepliesCanBeLost` is TRUE (in `engine_safety`).
- **`ScanFailed`:** the call never reached Redis.
- **`SendTransaction` / `SendTransactionFails` / `ReceiveReceipt` /
  `UpdateBalance`:** the await points of `settle()`.
- **`Disconnect`:** `disconnect()`. The process does not end: the 'logs'
  subscription stays open (`clearSubscriptions` is commented out at
  `index.ts:100`), so a disconnected engine stays `"stopping"`. Nothing in
  `src/` calls `disconnect()`; the step stands for the code that embeds the
  engine.
- **`Crash`:** the process dies.
- **`HandleTransaction`:** the subscription callback.
- **Environment:**
  - `Accrue`: the connector raises a balance.
  - `Mine`: a block includes a transaction.
  - `Deposit`: a peer pays us.

The three Lua scripts are not in the repository. Their effect
(`ScanBatch`, `NextCursor`, `NeedsSettlement`, `Due`, `ReserveDue`,
`UpdateBalanceAfterSettlement`) follows spec 4.1. Each script is one atomic
step. SCAN is modelled as a fixed partition of the keys in `Batch`-sized
steps. Real SCAN may return a key twice, but a reserved key is skipped
anyway.

**Fairness, and why the code justifies it:**
- `WF(stops = 0 /\ Connect)`: `cli.ts` calls `connect()` once, at
  startup. Nothing in the code starts the engine again after a crash, a
  `disconnect()` or a rejected `connect()`. An operator may restart a
  crashed engine (`Connect` stays enabled), but the model does not assume
  one will. So the liveness properties of `engine_safety` are stated only
  while the engine has not stopped: `Stopped` is `proc = "failed"` or
  `stops > 0`. `engine_connect` checks the spec's unconditional claim,
  `StoreErrorsRetried`, and finds it violated. A stopped engine may do
  nothing more, so `engine_safety` sets `CHECK_DEADLOCK FALSE`.
- `WF(Tick)`: `setInterval` keeps firing while the engine is up.
- `WF(ScanAccounts(c))`: every Redis call settles.
- `SF(ScanReplied(c))`: Redis may fail transiently, but not for ever.
- WF on each account's worker steps: every web3 promise settles, because web3
  rejects after its block timeout.
- Mining is **not** fair: a transaction may stay pending forever.

### SettlementLedger and the refinement

`SettlementLedger` is what the engine promises, per peer, with no sweeps,
tasks or receipts:
- **Variables:** `balance`, `reserved`, `paid` (what the chain has
  transferred), and `transferred` (the chain carried the open reservation).
- **Actions:**
  - `Accrue`.
  - `Reserve(S)`: one atomic scan reserves the whole balance of some
    accounts that have no open reservation and reach the minimum.
  - `Transfer`: at most once per reservation.
  - `Confirm`: only after `Transfer`.
  - `Release`: only before `Transfer`.
- **Fairness:** weak fairness on reserving each account.

At the end of `SettlementEngine`, `Ledger == INSTANCE SettlementLedger WITH`
maps the store's `balance` and `reserved` to themselves. `paid` maps to
`Paid(a)`, the successful transactions to a. `transferred` maps to
`Paid(a) > confirmed[a]`. `LedgerSpec` is `Ledger!SafetySpec` together
with `[]~Stopped => Ledger!Liveness`. The abstract fairness is promised
only in runs where the engine never stops, since nothing restarts it. The
`engine_safety` run checks it as a `PROPERTY`, on the same instance as its
other properties.

Each detailed step maps to one abstract step or a stutter:
- `ScanReplied` and `ScanReplyLost` map to `Reserve`.
- `Mine` with success maps to `Transfer`.
- `UpdateBalance` that debits maps to `Confirm`.
- Everything else stutters.

`Release` is never taken: the code has no release, which is the
`engine_release` finding.

### NodeSetup

**Variables:**
- `pc[n]`: the await point of `setup()` in node n's script.
- `createAccounts[n]`: setup()'s local flag.
- `configFile[n]`: the config file is none, torn or written.
- `socket`: the Redis socket file exists.
- `redisSpawned`: redis-server processes spawned on that socket.
- `nodeLaunched` and `nodeUp`: node n's interledger process runs, and listens.
- `accounts[n]`: base accounts created on node n.
- `runs[n]`: runs of node n's script so far.

**Actions**, one per step of `setup()`:
- `LoadConfig`
- `GenerateTestnetCredentials`: the write succeeds, or the script calls
  `process.exit(1)`.
- `LaunchRedis`: check the socket file, then spawn.
- `RunLocalTunnel`: succeeds, or `setup()` rejects.
- `LaunchInterledger`: spawn the node, then a fixed 500 ms wait.
- `CreateAccount`

**External processes:**
- `RedisListens`: a spawned Redis creates the socket.
- `NodeStarts`: the node connects to Redis, or exits when there is no socket.
- `Interrupt`: the operator stops a script at any await. At
  `generateTestnetCredentials` the file may be left torn. At `createAccount`
  the POST may have committed.
- `Rerun`: the operator reruns an ended script.

The bootstrap is finite, so its cfgs set `CHECK_DEADLOCK FALSE`: the
scripts really do stop.

### ExampleScripts

**Variables:**
- `configOk[k]`: `node-config-k.json` loaded. `LoadConfigs` chooses it
  freely: on its own, the module does not know how the node scripts went.
  `ExampleDeployment` supplies the files.
- `phase`: the command the shell runs.
- `pc`: the await of the running script.
- `accounts[i]`: accounts the i-th `addAccount` created.
- `rates`.
- `payments`: the `<<from, to>>` pairs node 1 sent.
- `runs`.

**Actions:**
- `LoadConfigs`.
- `AddAccount(i)`: a null config throws. Otherwise the request is answered,
  refused, or committed with its answer lost. Only an answer lets the
  chain go on.
- `AccountSetupExits`: exit 0 after success. After an unhandled rejection the
  exit status is 0 or 1, because it depends on the Node version. `&&`
  decides whether `rates_setup.js` runs.
- `SetRates`.
- `PayScript`: two `Pay` calls, both 1 -> 3, as the code has them.
- `PayScriptEnds`.
- `Rerun`.

A payment can succeed only when all accounts and the rate exist (`Routed`,
from `pay.js`' ASSUMPTIONS). The interledger node is not in the repository.

### ExampleDeployment

This module composes the two example modules. `NodeSetup` and
`ExampleScripts` are instanced with renamed variables (`setupPc`,
`baseAccounts`, `scriptPc`, `scriptAccounts`, ...). Either a node script
steps (`NodeScriptStep`) or an operator script steps. The operator-script
actions conjoin their `ExampleScripts` action with what the other side
allows:
- `LoadConfigs`: `configOk[k]` holds only when node k's config file is
  `"written"`. A torn file fails `JSON.parse`, so `loadConfig` yields
  `null`.
- `AddAccount(i)`, `SetRates`, `PayScript`: a request commits only while its
  node (all three nodes, for a payment) is up.

`RunNodeScripts` is the set of node scripts there are:
- `{1, 2, 3}` as the headers prescribe (`deploy_configs`). Here
  `run_node_2.js` is `setup()` with node 2's constants.
- `{1, 3}` is what the repository has, because there is no
  `run_node_2.js`. Nothing writes `node-config-2.json`, so every load
  yields a null config for node 2 and `account_setup.js:87` throws. This is
  a missing file rather than an order of steps, so it is recorded as a
  hazard and not as a run.

`MCExampleDeployment` bounds the instance: only node 2's script is rerun
(`RerunScriptsBound`). That is enough for an interrupted write, a torn file
and its regeneration while the other scripts run. Node 2 is chosen because
both `account_setup.js` and `rates_setup.js` read its config, and every
node runs the same `setup()`. With any script rerunnable the instance has
40 million states.

### EngineConfig

**Variables:** `argv` (after yargs defaults), the `config` object built by
`cli.ts`, and the resulting `engine` settings.

**Actions:**
- `ParseArgs`: options are given or defaulted. A missing `--private_key`
  exits.
- `BuildConfig`
- `Construct`: `pollInterval` falls back on a falsy value and
  `minSettlementGwei` on an undefined field.

## 4. Runs

| Run | Expect | What it shows |
|---|---|---|
| `engine_safety` | pass (223,378 states, ~2 min) | See the list below. |
| `engine_release` | violation | A failed `settle()` leaves its reservation open forever (spec 4.4). Lost scan replies are turned off, so the trace goes through `settle()`: `sendTransaction` rejects after the broadcast and the transfer is mined later. |
| `engine_inbound` | violation | `handleTransaction` never credits the ledger (spec 4.5). |
| `setup_idempotent` | pass (15,084 states) | `AccountCreatedAtMostOnce`: reruns after any failure or interrupt, torn config writes included, never create a base account twice. |
| `setup_redis` | violation | Two scripts started together both spawn redis-server (`utils.js:127`). |
| `setup_account` | violation | The config is persisted before the base account is created (`utils.js:353`). A run that ends after the write (in TLC's trace, an interrupt before `launchRedis` returns; equally a tunnel failure or a `createAccount` sent before the node is up) makes the rerun end "done" without a base account. |
| `config_threshold` | violation | `--min_settlement_amount` is ignored and the engine uses 1000 gwei (`cli.ts:36`). |
| `scripts_order` | pass (1,402 states) | `AccountsAddedInOrder`: over reruns and failed or half-committed requests, no account exists more often than the one added before it. |
| `scripts_rates` | violation | `account_setup.js` fails at a null config, exits 0, and `&&` runs `rates_setup.js` (`account_setup.js:45`). |
| `scripts_pay` | violation | `pay.js` pays 1 -> 3 twice and never 3 -> 1 (`pay.js:52`). |
| `engine_connect` | violation | `StoreErrorsRetried` (spec 7): `connect()` rejects, `cli.ts:43` only logs it, and a due balance is never reserved. |
| `deploy_configs` | pass (2.3 million states, ~40 s) | `ConfigsLoadAfterSetup`: with the three node scripts the headers name, `account_setup.js` started once they are all done loads every config whole, whatever interrupts and reruns came before. |

`setup_idempotent` runs each of two scripts up to 3 times, enough for an
interrupted write, a regeneration and another run. `scripts_order` allows 2
runs, enough for a partial failure followed by a rerun.

`engine_safety` checks three properties besides `TypeOK`:
- `PaymentsCovered`: for each peer, confirmed ≤ paid on chain ≤ confirmed +
  open reservation.
- `DueAccountEventuallyReserved`: a balance that reaches the minimum is
  eventually reserved, unless the engine has stopped.
- `LedgerSpec`: the engine implements `SettlementLedger` (see section 3).

**Bounds of `engine_safety`:**

| Bound | Value | Why it is enough |
|---|---|---|
| Peers | 2 | — |
| `Batch` | 1 | A sweep takes two script calls, so the second peer is reached only through the cursor loop. |
| Minimum | 2 | With accruals of 1 or 2 up to 3 per peer, a balance crosses the minimum in one or in two steps, and grows while reserved. |
| Transactions | 3 | — |
| Concurrent sweeps | 2 | Needed for overlap. |
| Crash or disconnect | 1 | — |
| Deposit | 1 | — |

This covers each hazard's minimal scenario. Examples:
- A send times out and is mined late.
- Two sweeps race on one account.
- The process crashes between the receipt and the confirm.

Each property of a passing run has a mutant: a plausible bug in the mapped
code that TLC must catch (`PROJECT.json` `"mutants"`).

- **`ReceiveReceipt`:** checks `if (receipt)` instead of
  `if (receipt.status)`. This breaks `PaymentsCovered`.
- **`ContinueSweep`:** `if` instead of `do … while`. This breaks
  `DueAccountEventuallyReserved`.
- **`Settle`:** the entry is destructured in the wrong order, so the
  account and the amount change places. This breaks
  `TypeOK`.
- **`LoadConfig`:** the `createAccounts` reset is missing. This breaks
  `AccountCreatedAtMostOnce`.
- **`SendTransaction`:** sends the account's current balance instead of
  the scanned amount. This breaks `LedgerSpec`.
- **`AddAccount`:** the chain goes on after a failure
  (`AddAccountSettled`). This breaks `AccountsAddedInOrder`.
- **`AddAccount`:** a lost answer is retried (`AddAccountRetrying`). This
  breaks `TypeOK`.
- **`GenerateTestnetCredentials`:** the catch logs a failed write and does
  not call `process.exit(1)` (`GenerateTestnetCredentialsUnsaved`). This
  breaks `ConfigsLoadAfterSetup`: the script reaches "done" with no file.

## 5. Not modelled

- The Lua scripts' bodies. They are not in the repository, so they follow
  the spec.
- The wei/gwei conversions and `ETH_SCALE`. Amounts are one abstract unit.
  The scripts that apply the scale to the ledger are not in the repository,
  so there is nothing to check the conversion against.
- Gas and nonces. Every `settle()` sends from the same address, so
  concurrent tasks can collide on a nonce: one send is rejected, or a
  pending transaction is replaced and never mined. The model has both
  outcomes (`SendTransactionFails`, and `Mine` without fairness), but not
  the nonce that causes them. The nonce is chosen inside web3, whose
  version the repository does not pin.
- Which chain events produce `logs`. A plain ETH transfer emits none; this is
  recorded as a hazard.
- The interledger node, Redis and localtunnel internals. They are separate
  programs outside this repository. Only what the scripts observe of them
  is modelled: a socket file, a listening port, a committed or refused
  request.
- Redis durability. `utils.js:153` runs the example's Redis with
  `appendfsync everysec`, so a host crash can lose a second of writes. That
  Redis belongs to the example nodes. The engine connects to
  `redis://localhost:6379` by default, and nothing in the repository ties
  the two, so a rollback of the engine's store would be speculation.
- Message bodies, tokens, ports and log output of the example scripts.
