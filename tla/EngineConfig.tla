---------------------------- MODULE EngineConfig ----------------------------
(***************************************************************************)
(* How the settings of the ETH settlement engine are decided: cli.ts       *)
(* parses the command line with yargs (filling in its defaults), builds a  *)
(* config object, and the EthSettlementEngine constructor (index.ts)       *)
(* reads that object, falling back to its own defaults.  Configs are       *)
(* records; a field the code does not set is absent from the record's     *)
(* domain, as it is from the JavaScript object.                            *)
(***************************************************************************)
EXTENDS Naturals

CONSTANTS
    MinAmounts,  \* values --min_settlement_amount may be given (gwei)
    Intervals,   \* values --poll_interval may be given (ms)
    Absent       \* an option left off the command line

\* index.ts: DEFAULT_POLL_INTERVAL and DEFAULT_MIN_SETTLEMENT_GWEI.
DEFAULT_POLL_INTERVAL == 60000
DEFAULT_MIN_SETTLEMENT_GWEI == 1000

VARIABLES
    argv,    \* the options yargs returns
    config,  \* the object cli.ts passes to the constructor
    engine,  \* the engine's pollInterval and minSettlementGwei
    phase    \* "start" | "parsed" | "built" | "constructed" | "exited"

vars == <<argv, config, engine, phase>>

Init ==
    /\ argv = [min |-> Absent, poll |-> Absent, key |-> FALSE]
    /\ config = [x \in {} |-> Absent]
    /\ engine = [x \in {} |-> Absent]
    /\ phase = "start"

\* yargs: an option left off takes its declared default; a missing
\* --private_key (demandOption) makes yargs print usage and exit.
ParseArgs ==
    /\ phase = "start"
    /\ \E min \in MinAmounts \cup {Absent}, poll \in Intervals \cup {Absent},
          key \in BOOLEAN :
          /\ argv' = [min  |-> IF min = Absent THEN 1000000 ELSE min,
                      poll |-> IF poll = Absent THEN 60000 ELSE poll,
                      key  |-> key]
          /\ phase' = IF key THEN "parsed" ELSE "exited"
    /\ UNCHANGED <<config, engine>>

\* cli.ts builds the config object from argv.
BuildConfig ==
    /\ phase = "parsed"
    /\ config' = [minSettlementAmount |-> argv.min, pollInterval |-> argv.poll]
    /\ phase' = "built"
    /\ UNCHANGED <<argv, engine>>

\* The constructor: pollInterval falls back on a falsy value,
\* minSettlementGwei on an undefined field.
Construct ==
    /\ phase = "built"
    /\ engine' =
         [pollInterval |->
             IF "pollInterval" \in DOMAIN config /\ config.pollInterval # 0
             THEN config.pollInterval ELSE DEFAULT_POLL_INTERVAL,
          minSettlementGwei |->
             IF "minSettlementGwei" \in DOMAIN config
             THEN config.minSettlementGwei ELSE DEFAULT_MIN_SETTLEMENT_GWEI]
    /\ phase' = "constructed"
    /\ UNCHANGED <<argv, config>>

Next == ParseArgs \/ BuildConfig \/ Construct

Spec == Init /\ [][Next]_vars

\* cli.ts' option description: --min_settlement_amount is the "Minimum
\* amount, denominated in Gwei, to send in an ETH payment", so the engine
\* settles with the threshold the command line gave.
ThresholdFromCli ==
    phase = "constructed" => engine.minSettlementGwei = argv.min

=============================================================================
