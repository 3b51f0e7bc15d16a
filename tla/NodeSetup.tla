----------------------------- MODULE NodeSetup -----------------------------
(***************************************************************************)
(* The example bootstrap of example/utils.js: utils.setup, as run by the   *)
(* run_node_N.js scripts, one script per node, "in different terminals",   *)
(* so the scripts of several nodes run at the same time.  They share one   *)
(* Redis unix socket (REDIS_UNIX_SOCKET) and each keeps a config file of   *)
(* its own.  An operator reruns a script that ended, failed or exited.     *)
(*                                                                         *)
(* setup(): loadConfig -> generateTestnetCredentials when none loaded ->   *)
(* launchRedis -> runLocalTunnel -> launchInterledger -> createAccount     *)
(* when the config was generated in this run.                              *)
(***************************************************************************)
EXTENDS Naturals, FiniteSets

CONSTANTS
    Nodes,     \* the run_node_N.js scripts (model values)
    MaxRuns    \* bound: runs of one script

VARIABLES
    pc,              \* pc[n]: the step setup() of node n awaits
    createAccounts,  \* createAccounts[n]: setup()'s local flag
    configFile,      \* configFile[n]: node n's config file, "none" | "torn" | "written"
    socket,          \* the Redis unix socket file exists
    redisSpawned,    \* redis-server processes spawned on that socket
    nodeLaunched,    \* nodeLaunched[n]: the interledger process of n runs
    nodeUp,          \* nodeUp[n]: it connected to Redis and listens on httpPort
    accounts,        \* accounts[n]: base accounts created on node n
    runs             \* runs[n]: runs of node n's script so far

vars == <<pc, createAccounts, configFile, socket, redisSpawned,
          nodeLaunched, nodeUp, accounts, runs>>

Steps == {"load", "generate", "redis", "tunnel", "launch", "account",
          "done", "failed", "exited"}

\* Where a script run ends: setup() resolved, rejected, or process.exit(1).
Ended == {"done", "failed", "exited"}

\* Every script has just been started; no file, socket or process exists.
Init ==
    /\ pc             = [n \in Nodes |-> "load"]
    /\ createAccounts = [n \in Nodes |-> FALSE]
    /\ configFile     = [n \in Nodes |-> "none"]
    /\ socket         = FALSE
    /\ redisSpawned   = 0
    /\ nodeLaunched   = [n \in Nodes |-> FALSE]
    /\ nodeUp         = [n \in Nodes |-> FALSE]
    /\ accounts       = [n \in Nodes |-> 0]
    /\ runs           = [n \in Nodes |-> 1]

Goto(n, step) == pc' = [pc EXCEPT ![n] = step]

-----------------------------------------------------------------------------

\* A loadConfig that leaves createAccounts set whatever it loaded.
LoadConfigAlwaysCreates(n) ==
    /\ pc[n] = "load"
    /\ Goto(n, IF configFile[n] = "written" THEN "redis" ELSE "generate")
    /\ createAccounts' = [createAccounts EXCEPT ![n] = TRUE]
    /\ UNCHANGED <<configFile, socket, redisSpawned, nodeLaunched, nodeUp, accounts, runs>>

\* loadConfig: a missing or unparsable file yields null; setup() clears
\* createAccounts and generates credentials only when nothing was loaded.
LoadConfig(n) ==
    /\ pc[n] = "load"
    /\ Goto(n, IF configFile[n] = "written" THEN "redis" ELSE "generate")
    /\ createAccounts' = [createAccounts EXCEPT ![n] = FALSE]
    /\ UNCHANGED <<configFile, socket, redisSpawned, nodeLaunched, nodeUp, accounts, runs>>

\* A generateTestnetCredentials whose catch only logs a failed write and
\* returns the credentials, which setup() goes on to use.
GenerateTestnetCredentialsUnsaved(n) ==
    /\ pc[n] = "generate"
    /\ \E saved \in BOOLEAN :
          configFile' = [configFile EXCEPT ![n] = IF saved THEN "written" ELSE @]
    /\ createAccounts' = [createAccounts EXCEPT ![n] = TRUE]
    /\ Goto(n, "redis")
    /\ UNCHANGED <<socket, redisSpawned, nodeLaunched, nodeUp, accounts, runs>>

\* generateTestnetCredentials writes the new config; a failed write ends the
\* script with process.exit(1).
GenerateTestnetCredentials(n) ==
    /\ pc[n] = "generate"
    /\ \/ /\ configFile'     = [configFile EXCEPT ![n] = "written"]
          /\ createAccounts' = [createAccounts EXCEPT ![n] = TRUE]
          /\ Goto(n, "redis")
       \/ /\ Goto(n, "exited")
          /\ UNCHANGED <<configFile, createAccounts>>
    /\ UNCHANGED <<socket, redisSpawned, nodeLaunched, nodeUp, accounts, runs>>

\* launchRedis: "running" means the socket file exists; otherwise spawn a
\* redis-server, which creates the socket only once it has started.
LaunchRedis(n) ==
    /\ pc[n] = "redis"
    /\ redisSpawned' = IF socket THEN redisSpawned ELSE redisSpawned + 1
    /\ Goto(n, "tunnel")
    /\ UNCHANGED <<createAccounts, configFile, socket, nodeLaunched, nodeUp, accounts, runs>>

\* A spawned redis-server binds the unix socket.
RedisListens ==
    /\ redisSpawned > 0
    /\ ~socket
    /\ socket' = TRUE
    /\ UNCHANGED <<pc, createAccounts, configFile, redisSpawned, nodeLaunched, nodeUp, accounts, runs>>

\* runLocalTunnel: localtunnel grants the subdomain, or setup() rejects and
\* run_node's catch logs the error.
RunLocalTunnel(n) ==
    /\ pc[n] = "tunnel"
    /\ \E ok \in BOOLEAN : Goto(n, IF ok THEN "launch" ELSE "failed")
    /\ UNCHANGED <<createAccounts, configFile, socket, redisSpawned, nodeLaunched, nodeUp, accounts, runs>>

\* launchInterledger spawns the node and resumes after a fixed 500 ms,
\* whether or not the node is up by then.
LaunchInterledger(n) ==
    /\ pc[n] = "launch"
    /\ nodeLaunched' = [nodeLaunched EXCEPT ![n] = TRUE]
    /\ Goto(n, "account")
    /\ UNCHANGED <<createAccounts, configFile, socket, redisSpawned, nodeUp, accounts, runs>>

\* The interledger node connects to Redis and serves HTTP; without the
\* Redis socket it exits.
NodeStarts(n) ==
    /\ nodeLaunched[n]
    /\ ~nodeUp[n]
    /\ IF socket
       THEN /\ nodeUp' = [nodeUp EXCEPT ![n] = TRUE]
            /\ UNCHANGED nodeLaunched
       ELSE /\ nodeLaunched' = [nodeLaunched EXCEPT ![n] = FALSE]
            /\ UNCHANGED nodeUp
    /\ UNCHANGED <<pc, createAccounts, configFile, socket, redisSpawned, accounts, runs>>

\* A createAccount whose success is not recorded, so the POST is sent again.
CreateAccountRetrying(n) ==
    /\ pc[n] = "account"
    /\ createAccounts[n]
    /\ nodeUp[n]
    /\ accounts' = [accounts EXCEPT ![n] = @ + 1]
    /\ UNCHANGED <<pc, createAccounts, configFile, socket, redisSpawned, nodeLaunched, nodeUp, runs>>

\* setup()'s last step: createAccount POSTs /accounts when this run
\* generated the config; a node not yet listening makes the request throw
\* and setup() reject.
CreateAccount(n) ==
    /\ pc[n] = "account"
    /\ IF createAccounts[n]
       THEN IF nodeUp[n]
            THEN /\ accounts' = [accounts EXCEPT ![n] = @ + 1]
                 /\ Goto(n, "done")
            ELSE /\ Goto(n, "failed")
                 /\ UNCHANGED accounts
       ELSE /\ Goto(n, "done")
            /\ UNCHANGED accounts
    /\ UNCHANGED <<createAccounts, configFile, socket, redisSpawned, nodeLaunched, nodeUp, runs>>

\* The operator interrupts the script (Ctrl-C) at whatever await it is at,
\* and with it the node it spawned.  fs.writeFile truncates the file before
\* it writes, so an interrupted write may leave a torn file; a POST
\* /accounts in flight may have committed on the node.
Interrupt(n) ==
    /\ pc[n] \notin Ended
    /\ Goto(n, "exited")
    /\ \E torn \in BOOLEAN, committed \in BOOLEAN :
          /\ configFile' = [configFile EXCEPT ![n] =
                              IF pc[n] = "generate" /\ torn THEN "torn" ELSE @]
          /\ accounts' = [accounts EXCEPT ![n] =
                              IF pc[n] = "account" /\ createAccounts[n] /\ nodeUp[n] /\ committed
                              THEN @ + 1 ELSE @]
    /\ nodeLaunched' = [nodeLaunched EXCEPT ![n] = FALSE]
    /\ nodeUp'       = [nodeUp EXCEPT ![n] = FALSE]
    /\ UNCHANGED <<createAccounts, socket, redisSpawned, runs>>

\* The operator stops the script (and with it the node it spawned) and runs
\* it again.  Redis, started by whichever script, keeps running.
Rerun(n) ==
    /\ pc[n] \in Ended
    /\ runs[n] < MaxRuns
    /\ Goto(n, "load")
    /\ nodeLaunched' = [nodeLaunched EXCEPT ![n] = FALSE]
    /\ nodeUp'       = [nodeUp EXCEPT ![n] = FALSE]
    /\ runs'         = [runs EXCEPT ![n] = @ + 1]
    /\ UNCHANGED <<createAccounts, configFile, socket, redisSpawned, accounts>>

Next ==
    \/ RedisListens
    \/ \E n \in Nodes :
          \/ LoadConfig(n) \/ GenerateTestnetCredentials(n) \/ LaunchRedis(n)
          \/ RunLocalTunnel(n) \/ LaunchInterledger(n) \/ NodeStarts(n)
          \/ CreateAccount(n) \/ Interrupt(n) \/ Rerun(n)

Spec == Init /\ [][Next]_vars

-----------------------------------------------------------------------------

TypeOK ==
    /\ pc \in [Nodes -> Steps]
    /\ createAccounts \in [Nodes -> BOOLEAN]
    /\ configFile \in [Nodes -> {"none", "torn", "written"}]
    /\ socket \in BOOLEAN
    /\ redisSpawned \in Nat
    /\ nodeLaunched \in [Nodes -> BOOLEAN] /\ nodeUp \in [Nodes -> BOOLEAN]
    /\ accounts \in [Nodes -> 0..MaxRuns]
    /\ runs \in [Nodes -> 1..MaxRuns]

\* However often a script is rerun, after a failure anywhere in setup(),
\* the node's base account is created at most once.
AccountCreatedAtMostOnce == \A n \in Nodes : accounts[n] <= 1

\* launchRedis' comment: it launches a local Redis "if one is not running",
\* so the scripts of all nodes together start at most one redis-server.
SingleRedisServer == redisSpawned <= 1

\* setup()'s comment: it loads or generates the config, ... "and finally
\* create[s] a base account": a run that ends well leaves one.
BaseAccountCreated == \A n \in Nodes : pc[n] = "done" => accounts[n] >= 1

=============================================================================
