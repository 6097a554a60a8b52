---------------------------- MODULE MCLocalDeploy ----------------------------
EXTENDS LocalDeploy
==============================================================================
