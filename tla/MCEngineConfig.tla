--------------------------- MODULE MCEngineConfig ---------------------------
EXTENDS EngineConfig

CONSTANTS NoOption

MCMinAmounts == {1000, 5000000}
MCIntervals  == {0, 1000}
=============================================================================
