---------------------------- MODULE MCChaosRestart ---------------------------
EXTENDS ChaosRestart
==============================================================================
