---------------------------- MODULE ExampleScripts ----------------------------
(***************************************************************************)
(* The operator scripts of example/ that configure and exercise the three  *)
(* running nodes, as their headers say to run them:                        *)
(*                                                                         *)
(*     node ./account_setup.js && node ./rates_setup.js                    *)
(*     node ./pay.js                                                       *)
(*                                                                         *)
(* account_setup.js loads the three node configs and adds four accounts    *)
(* through a chain of nested promises whose inner promises are never       *)
(* returned, so only the outermost .catch is attached; rates_setup.js sets *)
(* the COIN_A/COIN_B rate on node 2; pay.js sends two payments.  The       *)
(* nodes are the environment: an HTTP request commits, is refused, or      *)
(* commits and then fails on the way back (timeout, reset).  The operator  *)
(* reruns the command line, up to MaxRuns times.                           *)
(***************************************************************************)
EXTENDS Naturals, Sequences, SequencesExt

CONSTANTS
    MaxRuns   \* bound: runs of the account_setup && rates_setup line

ConfigNodes == 1..3   \* node-config-1.json .. node-config-3.json
Adds        == 1..4   \* the four addAccount calls, in nesting order

\* account_setup.js: the node (HTTP_PORT_k, config_k) each addAccount
\* call targets: example.two on 1, example.one and example.three on 2,
\* example.two on 3.
Target == <<1, 2, 2, 3>>

\* The await of the i-th addAccount call.
AddPc == <<"add1", "add2", "add3", "add4">>

VARIABLES
    configOk,  \* configOk[k]: node-config-k.json exists and parses
    phase,     \* the command the operator's shell runs
    pc,        \* the await the running script is at
    accounts,  \* accounts[i]: accounts the i-th addAccount has created
    rates,     \* node 2 holds the COIN_A/COIN_B rate
    payments,  \* the payments node 1 has sent, as <<from, to>> node pairs
    runs       \* command lines run so far

vars == <<configOk, phase, pc, accounts, rates, payments, runs>>

Phases == {"accounts", "rates", "pay", "idle"}
Pcs    == {"load", "prepared", "rejected", "pay1", "pay2", "complete", "end",
           "add1", "add2", "add3", "add4"}

\* The operator starts the account_setup && rates_setup line; nothing is
\* loaded yet.
Init ==
    /\ configOk = [k \in ConfigNodes |-> FALSE]
    /\ phase    = "accounts"
    /\ pc       = "load"
    /\ accounts = [i \in Adds |-> 0]
    /\ rates    = FALSE
    /\ payments = <<>>
    /\ runs     = 1

\* How one HTTP request to a node can end: it commits and answers, it is
\* refused (node down, bad token, bad body), or it commits and the answer
\* is lost; request() rejects in the last two cases.
Outcomes == {"answered", "refused", "lost"}
Committed(o) == o # "refused"

-----------------------------------------------------------------------------
(* account_setup.js *)

\* loadConfig x 3: each resolves with the parsed file or, when it is
\* missing or torn, with null; it never rejects.  Whether each file is
\* there depends on how its run_node script went.
LoadConfigs ==
    /\ phase = "accounts" /\ pc = "load"
    /\ configOk' \in [ConfigNodes -> BOOLEAN]
    /\ pc' = AddPc[1]
    /\ UNCHANGED <<phase, accounts, rates, payments, runs>>

\* A chain that goes on to the next addAccount whatever became of this one.
AddAccountSettled(i) ==
    /\ phase = "accounts" /\ pc = AddPc[i]
    /\ IF ~configOk[Target[i]]
       THEN /\ pc' = "rejected"
            /\ UNCHANGED accounts
       ELSE \E o \in Outcomes :
              /\ accounts' = [accounts EXCEPT ![i] = IF Committed(o) THEN @ + 1 ELSE @]
              /\ pc' = IF i = 4 THEN "prepared" ELSE AddPc[i + 1]
    /\ UNCHANGED <<configOk, phase, rates, payments, runs>>

\* A request() wrapper that retries a POST whose answer was lost.
AddAccountRetrying(i) ==
    /\ phase = "accounts" /\ pc = AddPc[i]
    /\ IF ~configOk[Target[i]]
       THEN /\ pc' = "rejected"
            /\ UNCHANGED accounts
       ELSE \E o \in Outcomes :
              /\ accounts' = [accounts EXCEPT ![i] = IF Committed(o) THEN @ + 1 ELSE @]
              /\ pc' = CASE o = "lost"    -> AddPc[i]
                          [] o = "refused" -> "rejected"
                          [] OTHER         -> IF i = 4 THEN "prepared" ELSE AddPc[i + 1]
    /\ UNCHANGED <<configOk, phase, rates, payments, runs>>

\* The i-th nested callback: config_k.admin_auth_token on a null config
\* throws; otherwise utils.addAccount POSTs /accounts and the next callback
\* runs only when it resolved.  Either failure rejects a promise nobody
\* returned or caught.
AddAccount(i) ==
    /\ phase = "accounts" /\ pc = AddPc[i]
    /\ IF ~configOk[Target[i]]
       THEN /\ pc' = "rejected"
            /\ UNCHANGED accounts
       ELSE \E o \in Outcomes :
              /\ accounts' = [accounts EXCEPT ![i] = IF Committed(o) THEN @ + 1 ELSE @]
              /\ pc' = IF o # "answered" THEN "rejected"
                       ELSE IF i = 4 THEN "prepared" ELSE AddPc[i + 1]
    /\ UNCHANGED <<configOk, phase, rates, payments, runs>>

\* The exit status of account_setup.js: 0 after "All Accounts Prepared!";
\* after an unhandled rejection, 0 with a warning (Node before 15) or 1
\* (Node 15 and later).  The shell's && runs rates_setup.js on 0 only.
ExitStatuses(p) == IF p = "prepared" THEN {0} ELSE {0, 1}

AccountSetupExits ==
    /\ phase = "accounts" /\ pc \in {"prepared", "rejected"}
    /\ \E status \in ExitStatuses(pc) :
          phase' = IF status = 0 THEN "rates" ELSE "idle"
    /\ pc' = "end"
    /\ UNCHANGED <<configOk, accounts, rates, payments, runs>>

-----------------------------------------------------------------------------
(* rates_setup.js *)

\* loadConfig(node 2), then setRates PUTs /rates; a null config throws in
\* the .then and a failed request rejects; both reach a .catch.  The
\* operator then runs pay.js.
SetRates ==
    /\ phase = "rates"
    /\ IF configOk[2]
       THEN \E o \in Outcomes : rates' = (rates \/ Committed(o))
       ELSE UNCHANGED rates
    /\ phase' = "pay"
    /\ pc'    = "pay1"
    /\ UNCHANGED <<configOk, accounts, payments, runs>>

-----------------------------------------------------------------------------
(* pay.js *)

\* Node 1 can route a payment to node 3 only through the peer, child and
\* parent accounts and node 2's rate.
Routed == rates /\ \A i \in Adds : accounts[i] > 0

\* utils.pay(fromPort, toPort, amount) POSTs /pay to the node at fromPort,
\* which sends an SPSP payment to the node at toPort, or rejects.
Pay(from, to, next) ==
    \/ /\ Routed
       /\ payments' = Append(payments, <<from, to>>)
       /\ pc' = next
    \/ /\ pc' = "end"
       /\ UNCHANGED payments

\* pay.js: "Payment 1 -> 3", then in its .then "Payment 3 -> 1", sent as
\* pay(HTTP_PORT_1, HTTP_PORT_3) both times; a failure reaches a .catch.
PayScript ==
    /\ phase = "pay"
    /\ \/ pc = "pay1" /\ Pay(1, 3, "pay2")
       \/ pc = "pay2" /\ Pay(1, 3, "complete")
    /\ UNCHANGED <<configOk, phase, accounts, rates, runs>>

PayScriptEnds ==
    /\ phase = "pay" /\ pc \in {"complete", "end"}
    /\ phase' = "idle"
    /\ UNCHANGED <<configOk, pc, accounts, rates, payments, runs>>

\* The operator runs the account_setup && rates_setup line again.
Rerun ==
    /\ phase = "idle"
    /\ runs < MaxRuns
    /\ phase' = "accounts"
    /\ pc'    = "load"
    /\ runs'  = runs + 1
    /\ UNCHANGED <<configOk, accounts, rates, payments>>

Next ==
    \/ LoadConfigs \/ AccountSetupExits \/ SetRates
    \/ PayScript \/ PayScriptEnds \/ Rerun
    \/ \E i \in Adds : AddAccount(i)

Spec == Init /\ [][Next]_vars

-----------------------------------------------------------------------------

\* Every variable keeps its type; no addAccount creates more accounts than
\* there are runs.
TypeOK ==
    /\ configOk \in [ConfigNodes -> BOOLEAN]
    /\ phase \in Phases /\ pc \in Pcs
    /\ accounts \in [Adds -> 0..MaxRuns]
    /\ rates \in BOOLEAN
    /\ payments \in Seq(ConfigNodes \X ConfigNodes)
    /\ runs \in 1..MaxRuns

\* account_setup.js nests each addAccount in the .then of the one before,
\* so that node 3's Parent account is never added before node 2's Child
\* account, nor that before the peer accounts: over any number of reruns
\* and failed, refused or half-committed requests, an account never
\* exists more often than the one added before it.
AccountsAddedInOrder ==
    \A i \in 1..3 : accounts[i + 1] <= accounts[i]

\* pay.js' header and the "&&" of its instructions: rates_setup.js runs
\* once account_setup.js has set up the accounts, so node 2 has a rate
\* only when every account was added.
RatesOnlyAfterAccounts ==
    rates => \A i \in Adds : accounts[i] > 0

\* pay.js' header and log lines: a run that completes has sent one payment
\* 1 -> 3 and one payment 3 -> 1.
PaymentsBothWays ==
    pc = "complete" => <<3, 1>> \in ToSet(payments)

=============================================================================
