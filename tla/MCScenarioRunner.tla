------------------------- MODULE MCScenarioRunner ----------------------------
EXTENDS ScenarioRunner
==============================================================================
