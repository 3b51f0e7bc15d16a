--------------------------- MODULE ExampleDeployment ---------------------------
(***************************************************************************)
(* The example as its script headers tell an operator to run it:           *)
(*                                                                         *)
(*     $> node ./run_node_1.js        (each in a terminal of its own)      *)
(*     $> node ./run_node_2.js                                             *)
(*     $> node ./run_node_3.js                                             *)
(*     $> node ./account_setup.js && node ./rates_setup.js                 *)
(*     $> node ./pay.js                                                    *)
(*                                                                         *)
(* The node scripts (NodeSetup) and the operator scripts (ExampleScripts)  *)
(* run at the same time and meet in two places: account_setup.js and      *)
(* rates_setup.js read the config files the node scripts write, and every  *)
(* request the operator scripts send reaches a node only while the         *)
(* interledger process that node's script spawned is up.  RunNodeScripts   *)
(* are the node scripts there are to run.                                  *)
(***************************************************************************)
EXTENDS Naturals

CONSTANTS
    RunNodeScripts,  \* the k of the run_node_k.js scripts there are
    SetupRuns,       \* bound: runs of one node script
    ScriptRuns       \* bound: runs of the account_setup && rates_setup line

VARIABLES
    setupPc, createAccounts, configFile, socket, redisSpawned,
    nodeLaunched, nodeUp, baseAccounts, setupRuns,
    configOk, phase, scriptPc, scriptAccounts, rates, payments, scriptRuns

setupVars  == <<setupPc, createAccounts, configFile, socket, redisSpawned,
                nodeLaunched, nodeUp, baseAccounts, setupRuns>>
scriptVars == <<configOk, phase, scriptPc, scriptAccounts, rates, payments, scriptRuns>>
vars       == <<setupVars, scriptVars>>

Setup == INSTANCE NodeSetup
           WITH Nodes <- RunNodeScripts, MaxRuns <- SetupRuns,
                pc <- setupPc, accounts <- baseAccounts, runs <- setupRuns

Scripts == INSTANCE ExampleScripts
             WITH MaxRuns <- ScriptRuns,
                  pc <- scriptPc, accounts <- scriptAccounts, runs <- scriptRuns

\* node-config-k.json parses: a script of node k wrote it whole.
Written(k) == k \in RunNodeScripts /\ configFile[k] = "written"

\* The interledger node k answers on HTTP_PORT_k.
Up(k) == k \in RunNodeScripts /\ nodeUp[k]

Init == Setup!Init /\ Scripts!Init

-----------------------------------------------------------------------------

\* A step of one of the node scripts, or of the processes they spawned.
NodeScriptStep == Setup!Next /\ UNCHANGED scriptVars

\* account_setup.js reads the three config files as they are now.
LoadConfigs ==
    /\ Scripts!LoadConfigs
    /\ configOk' = [k \in Scripts!ConfigNodes |-> Written(k)]
    /\ UNCHANGED setupVars

\* A POST /accounts to a node that is not up is refused.
AddAccount(i) ==
    /\ Scripts!AddAccount(i)
    /\ Up(Scripts!Target[i]) \/ scriptAccounts' = scriptAccounts
    /\ UNCHANGED setupVars

\* The PUT /rates of rates_setup.js reaches node 2 only while it is up.
SetRates ==
    /\ Scripts!SetRates
    /\ Up(2) \/ rates' = rates
    /\ UNCHANGED setupVars

\* A payment from node 1 to node 3 goes through all three nodes.
PayScript ==
    /\ Scripts!PayScript
    /\ (\A k \in Scripts!ConfigNodes : Up(k)) \/ payments' = payments
    /\ UNCHANGED setupVars

\* The steps of the operator scripts that send no request.
ScriptStep ==
    /\ Scripts!AccountSetupExits \/ Scripts!PayScriptEnds \/ Scripts!Rerun
    /\ UNCHANGED setupVars

Next ==
    \/ NodeScriptStep \/ ScriptStep
    \/ LoadConfigs \/ SetRates \/ PayScript
    \/ \E i \in Scripts!Adds : AddAccount(i)

Spec == Init /\ [][Next]_vars

-----------------------------------------------------------------------------

\* Every node script there is has set its node up ("done").
NodeScriptsDone == \A n \in RunNodeScripts : setupPc[n] = "done"

\* account_setup.js' header: once the run_node scripts have set up their
\* nodes, account_setup.js loads the admin tokens of all three nodes from
\* their config files.  A step of loadConfig x 3 taken while every node
\* script is "done" finds every file whole, whatever reruns, interrupted
\* writes and regenerations came before.
ConfigsLoadAfterSetup ==
    [][ (scriptPc = "load" /\ scriptPc' = Scripts!AddPc[1] /\ NodeScriptsDone)
          => \A k \in Scripts!ConfigNodes : configOk'[k] ]_vars

=============================================================================
