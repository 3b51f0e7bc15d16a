------------------------- MODULE MCExampleDeployment -------------------------
(* The node scripts of the headers, with a bound on which one is rerun.    *)
EXTENDS ExampleDeployment

\* bound: only node 2's script is rerun (up to SetupRuns times), so that an
\* interrupted or failed run, a torn config and its regeneration happen
\* while the other node scripts run.  All node scripts run the same setup(),
\* and node 2's config is the one account_setup.js and rates_setup.js both
\* read.
RerunScript == 2

RerunScriptsBound ==
    \A n \in RunNodeScripts \ {RerunScript} : setupRuns[n] = 1

=============================================================================
