----------------------------- MODULE MCK8sDeploy -----------------------------
(* K8sDeploy for small topologies.                                         *)
EXTENDS K8sDeploy

=============================================================================
