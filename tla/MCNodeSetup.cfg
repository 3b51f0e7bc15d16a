\* Two node scripts, each run at most three times, so that an interrupted
\* write, a regeneration and a further run fit.  The bootstrap is finite: when
\* every script has ended and no rerun is left, nothing more happens.
CONSTANTS
    n1 = n1
    n3 = n3
    Nodes   <- MCNodes
    MaxRuns = 3

SYMMETRY Perms

SPECIFICATION Spec

INVARIANT TypeOK
INVARIANT AccountCreatedAtMostOnce

CHECK_DEADLOCK FALSE
