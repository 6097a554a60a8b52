--------------------------- MODULE K8sDeployProofs ---------------------------
(***************************************************************************)
(* The safety properties of K8sDeploy for every number of validators and   *)
(* executors.  The invariant behind them says, per place in deploy, which  *)
(* roles have all their forwards in the vector that will be killed, and    *)
(* what is left of release and namespace at each step of the cleanup.      *)
(***************************************************************************)
EXTENDS K8sDeploy, TLAPS

Up   == Stage \cup {"running"}
Late == {"prometheus", "probe_prometheus", "forward_prometheus", "check_prometheus"} \cup Up

\* The role has its allocations, and its forwards are in the vector.
RoleDone(r) ==
  /\ allocated[r] = Count(r)
  /\ via[r] = "forward" => NodeEndpoints(r) \subseteq port_forwards

\* What wait_for_cluster_ready has done, per place in it.
WaitInv ==
  /\ pc \in {"prepare", "install"} =>
       /\ role = "validator" /\ port_forwards = {} /\ alive = {}
       /\ \A r \in Role \cup {"prometheus"} : via[r] = "nodeport"
  /\ pc # "forward" => group = {}
  /\ pc = "forward" => \A n \in Nat : group = First(role, n) => allocated[role] = n
  /\ pc = "deployments" => via[role] = "nodeport"
  /\ pc \in {"probe", "check"} => RoleDone(role)
  /\ pc \in Waiting /\ role = "validator" => via["executor"] = "nodeport"
  /\ pc \in Waiting \cup Up /\ role = "executor" => RoleDone("validator")
  /\ pc \in Late => role = "executor" /\ RoleDone("executor")
  /\ pc \in Waiting \ {"forward_prometheus", "check_prometheus"} => via["prometheus"] = "nodeport"
  /\ pc \in {"check_prometheus"} \cup Up =>
       (via["prometheus"] = "forward" => Prometheus \in port_forwards)
  /\ pc \in Waiting \cup Up => alive \subseteq port_forwards \cup group

\* The guard, and what it has reclaimed so far.
GuardInv ==
  /\ pc \in {"prepare", "install"} => guard = "none" /\ outcome = "clean"
  /\ pc \in Waiting \cup Up => /\ guard = "held" /\ outcome = "clean"
                               /\ release = "installed" /\ namespace = "present"
  /\ pc \in Cleaning => guard = "used" /\ "preserve" \notin env
  /\ pc \in {"delete", "delete_cli", "await"} /\ outcome = "clean" => release = "uninstalled"
  /\ pc = "await" /\ outcome = "clean" => namespace \in {"terminating", "deleted"}
  /\ ClusterReclaimed
  /\ ClusterPreserved

IInv == TypeOK /\ WaitInv /\ GuardInv

------------------------------------------------------------------------------
(* The endpoints of the first services of a role.                          *)

\* There are finitely many services of a role.
LEMMA CountIsNat == ASSUME NEW r \in Role PROVE Count(r) \in Nat
  BY TopologyAssumption DEF Count, Role

\* The endpoints of the first services tell how many services they are.
LEMMA FirstInjective ==
  ASSUME NEW r, NEW n \in Nat, NEW m \in Nat, First(r, n) = First(r, m)
  PROVE  n = m
  <1>1. ASSUME NEW a \in Nat, NEW b \in Nat, a < b PROVE First(r, a) # First(r, b)
    <2>1. <<r, b, "api">> \in First(r, b)
      BY <1>1 DEF First
    <2>2. <<r, b, "api">> \notin First(r, a)
      BY <1>1 DEF First
    <2> QED BY <2>1, <2>2
  <1> QED BY <1>1

\* One service more has two endpoints more.
LEMMA FirstGrows ==
  ASSUME NEW r \in Role, NEW n \in 1 .. Count(r)
  PROVE  /\ First(r, n) \subseteq Endpoint
         /\ First(r, n) = First(r, n - 1) \cup {<<r, n, "api">>, <<r, n, "testing">>}
         /\ <<r, n, "api">> \in Endpoint /\ <<r, n, "testing">> \in Endpoint
  <1>1. n \in Nat /\ Count(r) \in Nat /\ n <= Count(r)
    BY CountIsNat
  <1>2. First(r, n) \subseteq NodeEndpoints(r)
    BY <1>1 DEF First, NodeEndpoints
  <1>3. NodeEndpoints(r) \subseteq Endpoint
    BY DEF Endpoint, Node, Role
  <1>4. First(r, n) = First(r, n - 1) \cup {<<r, n, "api">>, <<r, n, "testing">>}
    <2>1. 1 .. n = (1 .. n - 1) \cup {n}
      BY <1>1
    <2> QED BY <2>1 DEF First
  <1> QED BY <1>2, <1>3, <1>4

\* The first zero services are none.
LEMMA FirstEmpty == ASSUME NEW r PROVE First(r, 0) = {}
  <1>1. 1 .. 0 = {}
    OBVIOUS
  <1> QED BY <1>1 DEF First

------------------------------------------------------------------------------
\* The initial states satisfy the inductive invariant.
LEMMA InitIInv == Init => IInv
  <1> SUFFICES ASSUME Init PROVE IInv
    OBVIOUS
  <1>1. TypeOK
    BY DEF Init, TypeOK, PC, Role
  <1>2. WaitInv
    BY DEF Init, WaitInv, Late, Up, Stage, Waiting, Over, Cleaning
  <1>3. GuardInv
    BY DEF Init, GuardInv, ClusterReclaimed, ClusterPreserved, Up, Stage, Waiting, Over, Cleaning
  <1> QED BY <1>1, <1>2, <1>3 DEF IInv

\* Every step keeps the inductive invariant.
LEMMA NextIInv == IInv /\ [Next]_vars => IInv'
  <1> SUFFICES ASSUME IInv, [Next]_vars PROVE IInv'
    OBVIOUS
  <1> USE CountIsNat
      DEF IInv, waitVars, clusterVars, cleanVars, Late, Up, Waiting, Stage, Cleaning, Over
  <1>1. CASE Prepare
    <2>1. TypeOK'
      BY <1>1 DEF Prepare, TypeOK, PC
    <2>2. WaitInv'
      BY <1>1 DEF Prepare, TypeOK, WaitInv, RoleDone
    <2>3. GuardInv'
      BY <1>1 DEF Prepare, TypeOK, GuardInv, ClusterReclaimed, ClusterPreserved
    <2> QED BY <2>1, <2>2, <2>3
  <1>2. CASE InstallStack
    <2>1. TypeOK'
      BY <1>2 DEF InstallStack, TypeOK, PC
    <2>2. WaitInv'
      <3>1. pc' \in {"deployments", "err"} /\ pc = "install"
        BY <1>2 DEF InstallStack
      <3> QED BY <1>2, <3>1 DEF InstallStack, TypeOK, WaitInv, RoleDone, Role
    <2>3. GuardInv'
      <3>1. CASE pc' = "deployments"
        <4>1. /\ release' = "installed" /\ namespace' = "present" /\ guard' = "held"
              /\ pc = "install" /\ UNCHANGED <<env, outcome>>
          BY <1>2, <3>1 DEF InstallStack
        <4>2. outcome = "clean"
          BY <4>1 DEF GuardInv
        <4> QED BY <3>1, <4>1, <4>2 DEF GuardInv, ClusterReclaimed, ClusterPreserved
      <3>2. CASE pc' = "err" /\ UNCHANGED guard
        BY <1>2, <3>2 DEF InstallStack, TypeOK, GuardInv, ClusterReclaimed, ClusterPreserved
      <3> QED BY <1>2, <3>1, <3>2 DEF InstallStack
    <2> QED BY <2>1, <2>2, <2>3
  <1>3. CASE DeploymentsReady
    <2>1. TypeOK'
      BY <1>3 DEF DeploymentsReady, TypeOK, PC
    <2>2. WaitInv'
      BY <1>3 DEF DeploymentsReady, TypeOK, WaitInv, RoleDone
    <2>3. GuardInv'
      BY <1>3 DEF DeploymentsReady, TypeOK, GuardInv, ClusterReclaimed, ClusterPreserved
    <2> QED BY <2>1, <2>2, <2>3
  <1>4. CASE DeploymentsFail
    <2>1. TypeOK'
      BY <1>4 DEF DeploymentsFail, Fail, CleanUp, TypeOK, PC
    <2>2. WaitInv'
      BY <1>4 DEF DeploymentsFail, Fail, CleanUp, TypeOK, WaitInv, RoleDone
    <2>3. GuardInv'
      BY <1>4 DEF DeploymentsFail, Fail, CleanUp, TypeOK, GuardInv, ClusterReclaimed,
                  ClusterPreserved
    <2> QED BY <2>1, <2>2, <2>3
  <1>5. CASE ProbeNodePorts
    <2>1. TypeOK'
      BY <1>5 DEF ProbeNodePorts, NextRole, TypeOK, PC, Role
    <2>2. WaitInv'
      <3> pc = "probe" /\ group = {} /\ group' = {} /\ RoleDone(role) /\ role \in Role
        BY <1>5 DEF ProbeNodePorts, WaitInv, TypeOK
      <3>1. CASE NextRole /\ UNCHANGED <<allocated, via>>
        BY <1>5, <3>1 DEF ProbeNodePorts, NextRole, TypeOK, WaitInv, RoleDone, Role
      <3>2. CASE pc' = "forward" /\ UNCHANGED role /\ allocated' = [allocated EXCEPT ![role] = 0]
                 /\ via' = [via EXCEPT ![role] = "forward"]
        <4>1. \A n \in Nat : group' = First(role', n) => allocated'[role'] = n
          BY <3>2, FirstEmpty, FirstInjective DEF TypeOK
        <4> QED BY <1>5, <3>2, <4>1 DEF ProbeNodePorts, TypeOK, WaitInv, RoleDone, Role
      <3> QED BY <1>5, <3>1, <3>2 DEF ProbeNodePorts
    <2>3. GuardInv'
      BY <1>5 DEF ProbeNodePorts, NextRole, TypeOK, GuardInv, ClusterReclaimed, ClusterPreserved
    <2> QED BY <2>1, <2>2, <2>3
  <1>6. ASSUME NEW n \in 1 .. Count(role), ForwardService(n) PROVE IInv'
    <2>1. TypeOK'
      <3>1. role \in Role
        BY DEF TypeOK
      <3>2. /\ First(role, n) \subseteq Endpoint
            /\ {<<role, n, "api">>, <<role, n, "testing">>} \subseteq Endpoint
        BY <1>6, <3>1, FirstGrows
      <3>3. group' \subseteq Endpoint /\ alive' \subseteq Endpoint
        BY <1>6, <3>2 DEF ForwardService, TypeOK
      <3>4. allocated' \in [Role -> Nat]
        BY <1>6 DEF ForwardService, TypeOK
      <3> QED BY <1>6, <3>3, <3>4 DEF ForwardService, TypeOK
    <2>2. WaitInv'
      <3> pc = "forward" /\ pc' = "forward" /\ role \in Role /\ role' = role
        BY <1>6 DEF ForwardService, TypeOK
      <3> n \in Nat /\ n - 1 \in Nat
        BY <1>6
      <3>1. allocated[role] = n - 1
        BY <1>6 DEF ForwardService, WaitInv
      <3>2. allocated'[role] = n
        BY <1>6, <3>1 DEF ForwardService, TypeOK
      <3>3. \A m \in Nat : group' = First(role', m) => allocated'[role'] = m
        BY <1>6, <3>2, FirstInjective DEF ForwardService
      <3>4. alive' \subseteq port_forwards' \cup group'
        <4>1. First(role, n) = First(role, n - 1) \cup {<<role, n, "api">>, <<role, n, "testing">>}
          BY <1>6, FirstGrows
        <4>2. alive \subseteq port_forwards \cup First(role, n - 1)
          BY <1>6 DEF ForwardService, WaitInv
        <4> QED BY <1>6, <4>1, <4>2 DEF ForwardService
      <3> QED BY <1>6, <3>3, <3>4 DEF ForwardService, TypeOK, WaitInv, RoleDone, Role
    <2>3. GuardInv'
      BY <1>6 DEF ForwardService, TypeOK, GuardInv, ClusterReclaimed, ClusterPreserved
    <2> QED BY <2>1, <2>2, <2>3
  <1>7. ASSUME NEW n \in 1 .. Count(role), ForwardServiceFails(n) PROVE IInv'
    <2>1. TypeOK'
      <3> role \in Role
        BY DEF TypeOK
      <3> QED BY <1>7, FirstGrows DEF ForwardServiceFails, Fail, CleanUp, TypeOK, PC
    <2>2. WaitInv'
      BY <1>7 DEF ForwardServiceFails, Fail, CleanUp, TypeOK, WaitInv, RoleDone
    <2>3. GuardInv'
      BY <1>7 DEF ForwardServiceFails, Fail, CleanUp, TypeOK, GuardInv, ClusterReclaimed,
                  ClusterPreserved
    <2> QED BY <2>1, <2>2, <2>3
  <1>8. CASE GroupForwarded
    <2>1. TypeOK'
      BY <1>8 DEF GroupForwarded, TypeOK, PC
    <2>2. WaitInv'
      <3> pc = "forward" /\ pc' = "check" /\ role \in Role /\ role' = role
        BY <1>8 DEF GroupForwarded, TypeOK
      <3>1. allocated'[role] = Count(role)
        BY <1>8 DEF GroupForwarded, WaitInv, NodeEndpoints
      <3>2. RoleDone(role)'
        BY <1>8, <3>1 DEF GroupForwarded, RoleDone
      <3> QED BY <1>8, <3>2 DEF GroupForwarded, TypeOK, WaitInv, RoleDone
    <2>3. GuardInv'
      BY <1>8 DEF GroupForwarded, TypeOK, GuardInv, ClusterReclaimed, ClusterPreserved
    <2> QED BY <2>1, <2>2, <2>3
  <1>9. CASE CheckForwards
    <2>1. TypeOK'
      BY <1>9 DEF CheckForwards, NextRole, TypeOK, PC, Role
    <2>2. WaitInv'
      <3> pc = "check" /\ group = {} /\ group' = {} /\ RoleDone(role) /\ role \in Role
        BY <1>9 DEF CheckForwards, WaitInv, TypeOK
      <3> QED BY <1>9 DEF CheckForwards, NextRole, TypeOK, WaitInv, RoleDone, Role
    <2>3. GuardInv'
      BY <1>9 DEF CheckForwards, NextRole, TypeOK, GuardInv, ClusterReclaimed, ClusterPreserved
    <2> QED BY <2>1, <2>2, <2>3
  <1>10. CASE CheckFails
    <2>1. TypeOK'
      BY <1>10 DEF CheckFails, Fail, CleanUp, KillPortForwards, TypeOK, PC
    <2>2. WaitInv'
      BY <1>10 DEF CheckFails, Fail, CleanUp, KillPortForwards, TypeOK, WaitInv, RoleDone
    <2>3. GuardInv'
      BY <1>10 DEF CheckFails, Fail, CleanUp, KillPortForwards, TypeOK, GuardInv,
                   ClusterReclaimed, ClusterPreserved
    <2> QED BY <2>1, <2>2, <2>3
  <1>11. CASE FindPrometheus
    <2>1. TypeOK'
      BY <1>11 DEF FindPrometheus, TypeOK, PC
    <2>2. WaitInv'
      BY <1>11 DEF FindPrometheus, TypeOK, WaitInv, RoleDone
    <2>3. GuardInv'
      BY <1>11 DEF FindPrometheus, TypeOK, GuardInv, ClusterReclaimed, ClusterPreserved
    <2> QED BY <2>1, <2>2, <2>3
  <1>12. CASE ProbePrometheus
    <2>1. TypeOK'
      BY <1>12 DEF ProbePrometheus, ClusterReady, TypeOK, PC
    <2>2. WaitInv'
      <3> /\ pc = "probe_prometheus" /\ role = "executor"
          /\ RoleDone("validator") /\ RoleDone("executor")
        BY <1>12 DEF ProbePrometheus, TypeOK, WaitInv, RoleDone
      <3>1. RoleDone("validator")' /\ RoleDone("executor")'
        BY <1>12 DEF ProbePrometheus, RoleDone, TypeOK, Role
      <3>2. CASE ClusterReady /\ UNCHANGED via
        BY <1>12, <3>1, <3>2 DEF ProbePrometheus, ClusterReady, TypeOK, WaitInv, RoleDone
      <3>3. CASE pc' = "forward_prometheus"
        BY <1>12, <3>1, <3>3 DEF ProbePrometheus, TypeOK, WaitInv, RoleDone
      <3> QED BY <1>12, <3>2, <3>3 DEF ProbePrometheus
    <2>3. GuardInv'
      BY <1>12 DEF ProbePrometheus, ClusterReady, TypeOK, GuardInv, ClusterReclaimed,
                   ClusterPreserved
    <2> QED BY <2>1, <2>2, <2>3
  <1>13. CASE ForwardPrometheus
    <2>1. TypeOK'
      BY <1>13 DEF ForwardPrometheus, TypeOK, PC, Endpoint
    <2>2. WaitInv'
      BY <1>13 DEF ForwardPrometheus, TypeOK, WaitInv, RoleDone
    <2>3. GuardInv'
      BY <1>13 DEF ForwardPrometheus, TypeOK, GuardInv, ClusterReclaimed, ClusterPreserved
    <2> QED BY <2>1, <2>2, <2>3
  <1>14. CASE CheckPrometheus
    <2>1. TypeOK'
      BY <1>14 DEF CheckPrometheus, ClusterReady, TypeOK, PC
    <2>2. WaitInv'
      BY <1>14 DEF CheckPrometheus, ClusterReady, TypeOK, WaitInv, RoleDone
    <2>3. GuardInv'
      BY <1>14 DEF CheckPrometheus, ClusterReady, TypeOK, GuardInv, ClusterReclaimed,
                   ClusterPreserved
    <2> QED BY <2>1, <2>2, <2>3
  <1>15. CASE EnsureReadiness
    <2>1. TypeOK'
      BY <1>15 DEF EnsureReadiness, TypeOK, PC
    <2>2. WaitInv'
      BY <1>15 DEF EnsureReadiness, TypeOK, WaitInv, RoleDone
    <2>3. GuardInv'
      BY <1>15 DEF EnsureReadiness, TypeOK, GuardInv, ClusterReclaimed, ClusterPreserved
    <2> QED BY <2>1, <2>2, <2>3
  <1>16. CASE ReadinessFails
    <2>1. TypeOK'
      BY <1>16 DEF ReadinessFails, TypeOK, PC
    <2>2. WaitInv'
      BY <1>16 DEF ReadinessFails, TypeOK, WaitInv, RoleDone
    <2>3. GuardInv'
      BY <1>16 DEF ReadinessFails, TypeOK, GuardInv, ClusterReclaimed, ClusterPreserved
    <2> QED BY <2>1, <2>2, <2>3
  <1>17. CASE BuildNodeClients
    <2>1. TypeOK'
      BY <1>17 DEF BuildNodeClients, TypeOK, PC
    <2>2. WaitInv'
      BY <1>17 DEF BuildNodeClients, TypeOK, WaitInv, RoleDone
    <2>3. GuardInv'
      BY <1>17 DEF BuildNodeClients, TypeOK, GuardInv, ClusterReclaimed, ClusterPreserved
    <2> QED BY <2>1, <2>2, <2>3
  <1>18. CASE MetricsHandle
    <2>1. TypeOK'
      BY <1>18 DEF MetricsHandle, TypeOK, PC
    <2>2. WaitInv'
      BY <1>18 DEF MetricsHandle, TypeOK, WaitInv, RoleDone
    <2>3. GuardInv'
      BY <1>18 DEF MetricsHandle, TypeOK, GuardInv, ClusterReclaimed, ClusterPreserved
    <2> QED BY <2>1, <2>2, <2>3
  <1>19. CASE SpawnBlockFeed
    <2>1. TypeOK'
      BY <1>19 DEF SpawnBlockFeed, TypeOK, PC
    <2>2. WaitInv'
      BY <1>19 DEF SpawnBlockFeed, TypeOK, WaitInv, RoleDone
    <2>3. GuardInv'
      BY <1>19 DEF SpawnBlockFeed, TypeOK, GuardInv, ClusterReclaimed, ClusterPreserved
    <2> QED BY <2>1, <2>2, <2>3
  <1>20. CASE StageFails
    <2>1. TypeOK'
      BY <1>20 DEF StageFails, Fail, CleanUp, KillPortForwards, TypeOK, PC
    <2>2. WaitInv'
      BY <1>20 DEF StageFails, Fail, CleanUp, KillPortForwards, TypeOK, WaitInv, RoleDone
    <2>3. GuardInv'
      BY <1>20 DEF StageFails, Fail, CleanUp, KillPortForwards, TypeOK, GuardInv,
                   ClusterReclaimed, ClusterPreserved
    <2> QED BY <2>1, <2>2, <2>3
  <1>21. CASE RunEnds
    <2>1. TypeOK'
      BY <1>21 DEF RunEnds, CleanUp, KillPortForwards, TypeOK, PC
    <2>2. WaitInv'
      BY <1>21 DEF RunEnds, CleanUp, KillPortForwards, TypeOK, WaitInv, RoleDone
    <2>3. GuardInv'
      BY <1>21 DEF RunEnds, CleanUp, KillPortForwards, TypeOK, GuardInv, ClusterReclaimed,
                   ClusterPreserved
    <2> QED BY <2>1, <2>2, <2>3
  <1>22. CASE UninstallRelease
    <2>1. TypeOK'
      BY <1>22 DEF UninstallRelease, TypeOK, PC
    <2>2. WaitInv'
      BY <1>22 DEF UninstallRelease, TypeOK, WaitInv, RoleDone
    <2>3. GuardInv'
      BY <1>22 DEF UninstallRelease, TypeOK, GuardInv, ClusterReclaimed, ClusterPreserved
    <2> QED BY <2>1, <2>2, <2>3
  <1>23. CASE DeleteNamespace
    <2>1. TypeOK'
      BY <1>23 DEF DeleteNamespace, TypeOK, PC
    <2>2. WaitInv'
      BY <1>23 DEF DeleteNamespace, TypeOK, WaitInv, RoleDone
    <2>3. GuardInv'
      BY <1>23 DEF DeleteNamespace, TypeOK, GuardInv, ClusterReclaimed, ClusterPreserved
    <2> QED BY <2>1, <2>2, <2>3
  <1>24. CASE DeleteNamespaceCli
    <2>1. TypeOK'
      BY <1>24 DEF DeleteNamespaceCli, Cleaned, TypeOK, PC
    <2>2. WaitInv'
      BY <1>24 DEF DeleteNamespaceCli, Cleaned, TypeOK, WaitInv, RoleDone
    <2>3. GuardInv'
      BY <1>24 DEF DeleteNamespaceCli, Cleaned, TypeOK, GuardInv, ClusterReclaimed,
                   ClusterPreserved
    <2> QED BY <2>1, <2>2, <2>3
  <1>25. CASE AwaitTermination
    <2>1. TypeOK'
      BY <1>25 DEF AwaitTermination, Cleaned, TypeOK, PC
    <2>2. WaitInv'
      BY <1>25 DEF AwaitTermination, Cleaned, TypeOK, WaitInv, RoleDone
    <2>3. GuardInv'
      BY <1>25 DEF AwaitTermination, Cleaned, TypeOK, GuardInv, ClusterReclaimed,
                   ClusterPreserved
    <2> QED BY <2>1, <2>2, <2>3
  <1>26. CASE CleanupTimesOut
    <2>1. TypeOK'
      BY <1>26 DEF CleanupTimesOut, Abandon, Cleaned, TypeOK, PC
    <2>2. WaitInv'
      BY <1>26 DEF CleanupTimesOut, Abandon, Cleaned, TypeOK, WaitInv, RoleDone
    <2>3. GuardInv'
      BY <1>26 DEF CleanupTimesOut, Abandon, Cleaned, TypeOK, GuardInv, ClusterReclaimed,
                   ClusterPreserved
    <2> QED BY <2>1, <2>2, <2>3
  <1>27. CASE NamespaceTerminates
    <2>1. TypeOK'
      BY <1>27 DEF NamespaceTerminates, TypeOK, PC
    <2>2. WaitInv'
      BY <1>27 DEF NamespaceTerminates, TypeOK, WaitInv, RoleDone
    <2>3. GuardInv'
      BY <1>27 DEF NamespaceTerminates, TypeOK, GuardInv, ClusterReclaimed, ClusterPreserved
    <2> QED BY <2>1, <2>2, <2>3
  <1>28. CASE UninstallEnds
    <2>1. TypeOK'
      BY <1>28 DEF UninstallEnds, TypeOK, PC
    <2>2. WaitInv'
      BY <1>28 DEF UninstallEnds, TypeOK, WaitInv, RoleDone
    <2>3. GuardInv'
      BY <1>28 DEF UninstallEnds, TypeOK, GuardInv, ClusterReclaimed, ClusterPreserved
    <2> QED BY <2>1, <2>2, <2>3
  <1>29. CASE ForwardExits
    <2>1. TypeOK'
      BY <1>29 DEF ForwardExits, TypeOK, PC
    <2>2. WaitInv'
      BY <1>29 DEF ForwardExits, TypeOK, WaitInv, RoleDone
    <2>3. GuardInv'
      BY <1>29 DEF ForwardExits, TypeOK, GuardInv, ClusterReclaimed, ClusterPreserved
    <2> QED BY <2>1, <2>2, <2>3
  <1>30. CASE UNCHANGED vars
    BY <1>30 DEF vars, TypeOK, WaitInv, GuardInv, RoleDone, ClusterReclaimed, ClusterPreserved
  <1> QED BY <1>1, <1>2, <1>3, <1>4, <1>5, <1>6, <1>7, <1>8, <1>9, <1>10, <1>11, <1>12, <1>13,
            <1>14, <1>15, <1>16, <1>17, <1>18, <1>19, <1>20, <1>21, <1>22, <1>23, <1>24,
            <1>25, <1>26, <1>27, <1>28, <1>29, <1>30 DEF Next, Deploy

\* The inductive invariant holds of every deployment.
LEMMA Invariant == Spec => []IInv
  BY InitIInv, NextIInv, PTL DEF Spec

------------------------------------------------------------------------------
(* deploy keeps its types for every topology.                              *)
THEOREM TypeCorrect == Spec => []TypeOK
  <1>1. IInv => TypeOK
    BY DEF IInv
  <1> QED BY Invariant, <1>1, PTL

(* From the moment the cluster is declared ready until the run ends the    *)
(* vector of the guard holds every forward that is used, and every process *)
(* that runs.                                                              *)
THEOREM ForwardsAreOwned == Spec => []ForwardsOwned
  <1>1. IInv => ForwardsOwned
    <2> SUFFICES ASSUME IInv, pc \in Up
                 PROVE  /\ \A r \in Role : RoleDone(r)
                        /\ via["prometheus"] = "forward" => Prometheus \in port_forwards
                        /\ alive \subseteq port_forwards
      BY DEF ForwardsOwned, RoleDone, Up
    <2>1. pc \in Late /\ pc # "forward"
      BY DEF Up, Late, Stage
    <2>2. RoleDone("validator") /\ RoleDone("executor")
      BY <2>1 DEF IInv, WaitInv
    <2>3. alive \subseteq port_forwards
      BY <2>1 DEF IInv, WaitInv
    <2>4. via["prometheus"] = "forward" => Prometheus \in port_forwards
      BY DEF IInv, WaitInv
    <2> QED BY <2>2, <2>3, <2>4 DEF Role
  <1> QED BY Invariant, <1>1, PTL

(* Whatever ends a run, or a deployment that got past the readiness        *)
(* checks, no kubectl process is left.                                     *)
THEOREM ForwardsEndWithRun == Spec => ForwardsEnd
  <1>1. IInv /\ [Next]_vars =>
          [(pc \in {"clients", "metrics", "feed", "running"} /\ pc' \in Cleaning \cup Over)
             => alive' = {}]_vars
    <2> SUFFICES ASSUME IInv, Next, pc \in {"clients", "metrics", "feed", "running"},
                        pc' \in Cleaning \cup Over
                 PROVE  alive' = {}
      BY DEF vars, Cleaning, Over
    <2>1. alive \subseteq port_forwards
      BY DEF IInv, WaitInv, Up, Stage
    <2>2. StageFails \/ RunEnds
      BY DEF Next, Deploy, Prepare, InstallStack, DeploymentsReady, DeploymentsFail, ProbeNodePorts,
             ForwardService, ForwardServiceFails, GroupForwarded, CheckForwards, CheckFails,
             FindPrometheus, ProbePrometheus, ForwardPrometheus, CheckPrometheus, EnsureReadiness,
             ReadinessFails, BuildNodeClients, MetricsHandle, SpawnBlockFeed, UninstallRelease,
             DeleteNamespace, DeleteNamespaceCli, AwaitTermination, CleanupTimesOut,
             NamespaceTerminates, UninstallEnds, ForwardExits, Cleaning, Over
    <2> QED BY <2>1, <2>2 DEF StageFails, RunEnds, KillPortForwards
  <1> QED BY Invariant, <1>1, PTL DEF Spec, ForwardsEnd

(* Every way out but the failed readiness check uses the guard.            *)
THEOREM GuardIsUsed == Spec => GuardUsed
  <1>1. IInv /\ IInv' /\ [Next]_vars =>
          [(pc' \in Over /\ guard # "none" /\ pc \notin Over \cup {"readiness"})
             => guard' = "used"]_vars
    <2> SUFFICES ASSUME IInv, Next, pc' \in Over, guard # "none", pc \notin Over \cup {"readiness"}
                 PROVE  guard' = "used"
      BY DEF vars
    <2> QED
      BY DEF IInv, GuardInv, Next, Deploy, Prepare, InstallStack, DeploymentsReady, DeploymentsFail,
             ProbeNodePorts, NextRole, ForwardService, ForwardServiceFails, GroupForwarded,
             CheckForwards, CheckFails, FindPrometheus, ProbePrometheus, ClusterReady,
             ForwardPrometheus, CheckPrometheus, EnsureReadiness, ReadinessFails, BuildNodeClients,
             MetricsHandle, SpawnBlockFeed, StageFails, RunEnds, Fail, CleanUp, UninstallRelease,
             DeleteNamespace, DeleteNamespaceCli, AwaitTermination, CleanupTimesOut, cleanVars,
             NamespaceTerminates, UninstallEnds, ForwardExits, Cleaning, Over
  <1> QED BY Invariant, <1>1, PTL DEF Spec, GuardUsed

(* A cleanup whose commands succeeded leaves neither release nor           *)
(* namespace.                                                              *)
THEOREM ClusterIsReclaimed == Spec => []ClusterReclaimed
  <1>1. IInv => ClusterReclaimed
    BY DEF IInv, GuardInv
  <1> QED BY Invariant, <1>1, PTL

(* With the preserve flag release and namespace stay.                      *)
THEOREM ClusterIsPreserved == Spec => []ClusterPreserved
  <1>1. IInv => ClusterPreserved
    BY DEF IInv, GuardInv
  <1> QED BY Invariant, <1>1, PTL

(* deploy and the run leave neither a forward nor an unused guard.         *)
THEOREM ExitsAreClean == Spec => CleanExits
  <1> QED BY ForwardsEndWithRun, GuardIsUsed DEF CleanExits

(* Release and namespace go when they should and stay when they should.    *)
THEOREM ClusterMeetsItsFate == Spec => []ClusterFate
  <1>1. ClusterReclaimed /\ ClusterPreserved => ClusterFate
    BY DEF ClusterFate
  <1> QED BY ClusterIsReclaimed, ClusterIsPreserved, <1>1, PTL

=============================================================================
