----------------------------- MODULE MCCfgSync -------------------------------
(* CfgSync with two or three containers.                                   *)
EXTENDS CfgSync

==============================================================================
