\* The three node scripts the headers name, with node 2's rerun at most once
\* (so that an interrupted run, a torn config and its regeneration fit),
\* and one account_setup && rates_setup line.  The example ends when every
\* script has ended.
CONSTANTS
    RunNodeScripts = {1, 2, 3}
    SetupRuns      = 2
    ScriptRuns     = 1

SPECIFICATION Spec

CONSTRAINT RerunScriptsBound

PROPERTY ConfigsLoadAfterSetup

CHECK_DEADLOCK FALSE
