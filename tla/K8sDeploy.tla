------------------------------ MODULE K8sDeploy ------------------------------
(***************************************************************************)
(* K8sDeployer::deploy and the life of what it creates: a helm release in  *)
(* a namespace of its own, kubectl port-forward processes where node ports *)
(* cannot be reached, the block feed task, and the RunnerCleanup that is   *)
(* to remove release and namespace.                                        *)
(*                                                                         *)
(* A Child handle that is dropped leaves its process running: a forward    *)
(* ends only when kill_port_forwards is called on the vector it is in.     *)
(***************************************************************************)
EXTENDS Integers

CONSTANTS
  Validators,  \* number of validators
  Executors    \* number of executors

ASSUME TopologyAssumption == Validators \in Nat /\ Executors \in Nat

Role == {"validator", "executor"}

Count(r) == IF r = "validator" THEN Validators ELSE Executors

\* The HTTP endpoints of a role and the one of Prometheus; a forward is named
\* after the endpoint it leads to.
First(r, n)      == {r} \X (1 .. n) \X {"api", "testing"}
NodeEndpoints(r) == First(r, Count(r))
Prometheus       == <<"prometheus", 1, "http">>
Node             == NodeEndpoints("validator") \cup NodeEndpoints("executor")
Endpoint         == Node \cup {Prometheus}

\* K8S_RUNNER_PRESERVE, a node host that is not this machine, and the
\* deployer's readiness flag.
Flag == {"preserve", "node_host", "readiness_checks"}

VARIABLES
  pc,             \* where deploy is; then the run; then how it ended
  env,            \* the flags that are set
  role,           \* the role wait_for_cluster_ready works on
  allocated,      \* per role: length of its vector of port allocations
  via,            \* per role and for Prometheus: how its ports are reached
  group,          \* forwards in the vector of port_forward_group
  port_forwards,  \* forwards in the vector that is handed on
  alive,          \* kubectl processes that run
  release,        \* the helm release
  namespace,      \* its namespace
  guard,          \* the RunnerCleanup
  outcome,        \* whether a command of the cleanup failed or was given up
  retries,        \* times the cleanup may be run again, on a thread of its own
  feed            \* the block feed task

waitVars    == <<role, allocated, via, group>>
clusterVars == <<release, namespace>>
cleanVars   == <<guard, outcome, retries>>
vars == <<pc, env, waitVars, port_forwards, alive, clusterVars, cleanVars, feed>>

Waiting  == {"deployments", "probe", "forward", "check", "prometheus", "probe_prometheus",
             "forward_prometheus", "check_prometheus"}
Stage    == {"readiness", "clients", "metrics", "feed"}
Over     == {"err", "done"}
Cleaning == {"uninstall", "delete", "delete_cli", "await"}
PC       == {"prepare", "install", "running"} \cup Waiting \cup Stage \cup Cleaning \cup Over

Init ==
  /\ pc = "prepare"
  /\ env \in SUBSET Flag
  /\ role = "validator"
  /\ allocated = [r \in Role |-> 0]
  /\ via = [r \in Role \cup {"prometheus"} |-> "nodeport"]
  /\ group = {} /\ port_forwards = {} /\ alive = {}
  /\ release = "absent" /\ namespace = "absent"
  /\ guard = "none" /\ outcome = "clean" /\ retries = 0
  /\ feed = "none"

------------------------------------------------------------------------------
(* setup_cluster, up to the guard.                                         *)

\* ensure_supported_topology, the kube client and prepare_assets.
Prepare ==
  /\ pc = "prepare"
  /\ \/ Validators > 0 /\ Executors > 0 /\ pc' = "install"
     \/ pc' = "err"
  /\ UNCHANGED <<env, waitVars, port_forwards, alive, clusterVars, cleanVars, feed>>

\* "helm install --create-namespace --wait".  A failed installation leaves
\* what it created; the guard exists only after a successful one.
InstallStack ==
  /\ pc = "install"
  /\ \/ /\ pc' = "deployments"
        /\ release' = "installed" /\ namespace' = "present" /\ guard' = "held"
     \/ /\ pc' = "err"
        /\ release' \in {"absent", "partial"}
        /\ namespace' \in IF release' = "partial" THEN {"present"} ELSE {"absent", "present"}
        /\ UNCHANGED guard
  /\ UNCHANGED <<env, waitVars, port_forwards, alive, outcome, retries, feed>>

------------------------------------------------------------------------------
(* wait_for_cluster_ready.                                                 *)

\* RunnerCleanup::cleanup is called, and returns at once when the release is
\* to be preserved.
CleanUp(end) ==
  /\ pc' = IF "preserve" \in env THEN end ELSE "uninstall"
  /\ guard' = "used"

\* cleanup_pending and env.fail: the error is returned after the cleanup.
\* Inside a runtime that is on a thread from the start.
Fail ==
  /\ CleanUp("err")
  /\ UNCHANGED <<env, role, allocated, via, clusterVars, outcome, retries, feed>>

\* The deployments of a role become ready and their node ports are found.
DeploymentsReady ==
  /\ pc = "deployments"
  /\ pc' = "probe"
  /\ allocated' = [allocated EXCEPT ![role] = Count(role)]
  /\ UNCHANGED <<env, role, via, group, port_forwards, alive, clusterVars, cleanVars, feed>>

\* The ? of these two drops the vector of forwards without killing them.
DeploymentsFail ==
  /\ pc \in {"deployments", "prometheus"}
  /\ port_forwards' = {}
  /\ Fail
  /\ UNCHANGED <<group, alive>>

NextRole ==
  /\ pc' = IF role = "validator" THEN "deployments" ELSE "prometheus"
  /\ role' = "executor"

\* Mutant: the allocations of the node ports are not cleared.
ProbeNodePortsKeeps ==
  /\ pc = "probe"
  /\ \/ NextRole /\ UNCHANGED via
     \/ /\ pc' = "forward"
        /\ via' = [via EXCEPT ![role] = "forward"]
        /\ UNCHANGED role
  /\ UNCHANGED <<env, allocated, group, port_forwards, alive, clusterVars, cleanVars, feed>>

\* The node ports answer, or the allocations are cleared for forwards.
ProbeNodePorts ==
  /\ pc = "probe"
  /\ \/ NextRole /\ UNCHANGED <<allocated, via>>
     \/ /\ pc' = "forward"
        /\ allocated' = [allocated EXCEPT ![role] = 0]
        /\ via' = [via EXCEPT ![role] = "forward"]
        /\ UNCHANGED role
  /\ UNCHANGED <<env, group, port_forwards, alive, clusterVars, cleanVars, feed>>

\* port_forward_group at its n-th service: both forwards come up,
ForwardService(n) ==
  /\ pc = "forward" /\ group = First(role, n - 1)
  /\ allocated' = [allocated EXCEPT ![role] = @ + 1]
  /\ group' = First(role, n)
  /\ alive' = alive \cup {<<role, n, "api">>, <<role, n, "testing">>}
  /\ UNCHANGED <<pc, env, role, via, port_forwards, clusterVars, cleanVars, feed>>

\* or one of them does not.  The group's forwards are killed, and so are the
\* validators' when the executors fail; the service's own API forward, which
\* is in no vector yet, is not.
ForwardServiceFails(n) ==
  /\ pc = "forward" /\ group = First(role, n - 1)
  /\ \E orphan \in {{}, {<<role, n, "api">>}} :
       alive' = (alive \ (group \cup port_forwards)) \cup orphan
  /\ group' = {} /\ port_forwards' = {}
  /\ Fail

GroupForwarded ==
  /\ pc = "forward" /\ group = NodeEndpoints(role)
  /\ pc' = "check"
  /\ port_forwards' = port_forwards \cup group
  /\ group' = {}
  /\ UNCHANGED <<env, role, allocated, via, alive, clusterVars, cleanVars, feed>>

\* The API endpoints are probed through the forwards, on 127.0.0.1.
CheckForwards ==
  /\ pc = "check"
  /\ \A n \in 1 .. Count(role) : <<role, n, "api">> \in alive
  /\ NextRole
  /\ UNCHANGED <<env, allocated, via, group, port_forwards, alive, clusterVars, cleanVars, feed>>

KillPortForwards ==
  /\ alive' = alive \ port_forwards
  /\ port_forwards' = {}

CheckFails ==
  /\ pc \in {"check", "forward_prometheus", "check_prometheus"}
  /\ KillPortForwards
  /\ Fail
  /\ UNCHANGED group

FindPrometheus ==
  /\ pc = "prometheus"
  /\ pc' = "probe_prometheus"
  /\ UNCHANGED <<env, waitVars, port_forwards, alive, clusterVars, cleanVars, feed>>

\* A ClusterEnvironment takes over the guard and the forwards.
ClusterReady == pc' = IF "readiness_checks" \in env THEN "readiness" ELSE "clients"

ProbePrometheus ==
  /\ pc = "probe_prometheus"
  /\ \/ ClusterReady /\ UNCHANGED via
     \/ pc' = "forward_prometheus" /\ via' = [via EXCEPT !["prometheus"] = "forward"]
  /\ UNCHANGED <<env, role, allocated, group, port_forwards, alive, clusterVars, cleanVars, feed>>

ForwardPrometheus ==
  /\ pc = "forward_prometheus"
  /\ pc' = "check_prometheus"
  /\ alive' = alive \cup {Prometheus}
  /\ port_forwards' = port_forwards \cup {Prometheus}
  /\ UNCHANGED <<env, waitVars, clusterVars, cleanVars, feed>>

CheckPrometheus ==
  /\ pc = "check_prometheus"
  /\ Prometheus \in alive
  /\ ClusterReady
  /\ UNCHANGED <<env, waitVars, port_forwards, alive, clusterVars, cleanVars, feed>>

------------------------------------------------------------------------------
(* With a ClusterEnvironment.                                              *)

\* cluster_host_url: every URL has the node host, so an endpoint behind a
\* forward, which listens on 127.0.0.1, answers only if that is the host.
Answers(e) == via[e[1]] = "nodeport" \/ ("node_host" \notin env /\ e \in alive)

EnsureReadiness ==
  /\ pc = "readiness"
  /\ \A e \in Node : Answers(e)
  /\ pc' = "clients"
  /\ UNCHANGED <<env, waitVars, port_forwards, alive, clusterVars, cleanVars, feed>>

\* The ? drops the ClusterEnvironment, which has no Drop of its own.
ReadinessFails ==
  /\ pc = "readiness"
  /\ pc' = "err"
  /\ guard' = "dropped"
  /\ port_forwards' = {}
  /\ UNCHANGED <<env, waitVars, alive, clusterVars, outcome, retries, feed>>

BuildNodeClients ==
  /\ pc = "clients"
  /\ pc' = "metrics"
  /\ UNCHANGED <<env, waitVars, port_forwards, alive, clusterVars, cleanVars, feed>>

MetricsHandle ==
  /\ pc = "metrics"
  /\ pc' = "feed"
  /\ UNCHANGED <<env, waitVars, port_forwards, alive, clusterVars, cleanVars, feed>>

\* any_client answers the block feed.  The runner is returned, and its
\* K8sCleanupGuard owns guard, forwards and feed.
SpawnBlockFeed ==
  /\ pc = "feed"
  /\ \E e \in Node : e[3] = "api" /\ Answers(e)
  /\ pc' = "running"
  /\ feed' = "running"
  /\ UNCHANGED <<env, waitVars, port_forwards, alive, clusterVars, cleanVars>>

\* env.fail: the forwards are killed and the guard cleans up.
StageFails ==
  /\ pc \in {"clients", "metrics", "feed"}
  /\ KillPortForwards
  /\ Fail
  /\ UNCHANGED group

\* Mutant: the guard of the runner leaves the forwards to their handles.
RunEndsKeepsForwards ==
  /\ pc = "running"
  /\ feed' = "aborted"
  /\ port_forwards' = {}
  /\ CleanUp("done")
  /\ retries' \in {0, 1}
  /\ UNCHANGED <<env, waitVars, alive, clusterVars, outcome>>

\* K8sCleanupGuard::cleanup: feed, forwards, then the RunnerCleanup, which
\* outside a runtime blocks first and may fall back to a thread.
RunEnds ==
  /\ pc = "running"
  /\ feed' = "aborted"
  /\ KillPortForwards
  /\ CleanUp("done")
  /\ retries' \in {0, 1}
  /\ UNCHANGED <<env, waitVars, clusterVars, outcome>>

------------------------------------------------------------------------------
(* RunnerCleanup::cleanup.                                                 *)

Cleaned == IF feed = "none" THEN "err" ELSE "done"

\* A failure of "helm uninstall" is only logged.
UninstallRelease ==
  /\ pc = "uninstall"
  /\ pc' = "delete"
  /\ \/ release' = "uninstalled" /\ UNCHANGED outcome
     \/ outcome' = "failed" /\ UNCHANGED release
  /\ UNCHANGED <<env, waitVars, port_forwards, alive, namespace, guard, retries, feed>>

\* Mutant: no kubectl when the API refuses.
DeleteNamespaceApiOnly ==
  /\ pc = "delete"
  /\ \/ pc' = "await" /\ namespace \in {"present", "terminating"} /\ namespace' = "terminating"
     \/ pc' = Cleaned /\ UNCHANGED namespace
  /\ UNCHANGED <<env, waitVars, port_forwards, alive, release, cleanVars, feed>>

\* The API accepts the deletion.  When it does not, or its answer is late,
\* kubectl is tried instead.
DeleteNamespace ==
  /\ pc = "delete"
  /\ \/ pc' = "await" /\ namespace \in {"present", "terminating"} /\ namespace' = "terminating"
     \/ pc' = "delete_cli" /\ namespace' \in {namespace} \cup
                              (IF namespace = "present" THEN {"terminating"} ELSE {})
  /\ UNCHANGED <<env, waitVars, port_forwards, alive, release, cleanVars, feed>>

DeleteNamespaceCli ==
  /\ pc = "delete_cli"
  /\ \/ pc' = "await" /\ namespace' = "deleted" /\ UNCHANGED outcome
     \/ pc' = Cleaned /\ outcome' = "failed" /\ UNCHANGED namespace
  /\ UNCHANGED <<env, waitVars, port_forwards, alive, release, guard, retries, feed>>

\* The namespace is polled until it is gone, the poll fails, or the polls
\* are used up.
AwaitTermination ==
  /\ pc = "await"
  /\ pc' = Cleaned
  /\ UNCHANGED <<env, waitVars, port_forwards, alive, clusterVars, cleanVars, feed>>

\* What a command that is abandoned may still do.
Abandon ==
  /\ release' \in {release} \cup (IF pc = "uninstall" THEN {"leaving"} ELSE {})
  /\ namespace' \in {namespace} \cup
       (IF pc \in {"delete", "delete_cli"} /\ namespace = "present" THEN {"terminating"} ELSE {})

\* Mutant: every timeout starts another thread.
CleanupTimesOutForever ==
  /\ pc \in Cleaning
  /\ Abandon
  /\ pc' = "uninstall" /\ outcome' = "clean"
  /\ UNCHANGED <<env, waitVars, port_forwards, alive, guard, retries, feed>>

\* The whole cleanup has a time limit.  A blocking one that exceeds it is
\* started once more on a thread, whose own timeout ends the matter.
CleanupTimesOut ==
  /\ pc \in Cleaning
  /\ Abandon
  /\ IF retries > 0
     THEN pc' = "uninstall" /\ outcome' = "clean" /\ retries' = retries - 1
     ELSE pc' = Cleaned /\ outcome' = "failed" /\ UNCHANGED retries
  /\ UNCHANGED <<env, waitVars, port_forwards, alive, guard, feed>>

------------------------------------------------------------------------------
(* The cluster and the processes.                                          *)

\* A namespace is gone some time after its deletion was accepted.
NamespaceTerminates ==
  /\ namespace = "terminating"
  /\ namespace' = "deleted"
  /\ UNCHANGED <<pc, env, waitVars, port_forwards, alive, release, cleanVars, feed>>

\* An abandoned "helm uninstall" comes to its end.
UninstallEnds ==
  /\ release = "leaving"
  /\ release' \in {"installed", "uninstalled"}
  /\ UNCHANGED <<pc, env, waitVars, port_forwards, alive, namespace, cleanVars, feed>>

\* kubectl gives up a forward when its pod restarts.
ForwardExits ==
  /\ \E e \in alive : alive' = alive \ {e}
  /\ UNCHANGED <<pc, env, waitVars, port_forwards, clusterVars, cleanVars, feed>>

Deploy ==
  \/ Prepare \/ InstallStack
  \/ DeploymentsReady \/ DeploymentsFail \/ ProbeNodePorts
  \/ \E n \in 1 .. Count(role) : ForwardService(n) \/ ForwardServiceFails(n)
  \/ GroupForwarded \/ CheckForwards \/ CheckFails
  \/ FindPrometheus \/ ProbePrometheus \/ ForwardPrometheus \/ CheckPrometheus
  \/ EnsureReadiness \/ ReadinessFails
  \/ BuildNodeClients \/ MetricsHandle \/ SpawnBlockFeed \/ StageFails \/ RunEnds
  \/ UninstallRelease \/ DeleteNamespace \/ DeleteNamespaceCli \/ AwaitTermination
  \/ CleanupTimesOut

Next == Deploy \/ NamespaceTerminates \/ UninstallEnds \/ ForwardExits

Spec == Init /\ [][Next]_vars

\* Every command deploy waits for returns or is given up, and the run ends.
\* Nothing is assumed of the cluster: a namespace may terminate forever.
FairSpec == Spec /\ WF_vars(Deploy)

------------------------------------------------------------------------------
(* Type invariant of the deployer, its forwards and its cleanup.           *)
TypeOK ==
  /\ pc \in PC
  /\ env \subseteq Flag
  /\ role \in Role
  /\ allocated \in [Role -> Nat]
  /\ via \in [Role \cup {"prometheus"} -> {"nodeport", "forward"}]
  /\ group \subseteq Endpoint /\ port_forwards \subseteq Endpoint /\ alive \subseteq Endpoint
  /\ release \in {"absent", "partial", "installed", "leaving", "uninstalled"}
  /\ namespace \in {"absent", "present", "terminating", "deleted"}
  /\ guard \in {"none", "held", "used", "dropped"}
  /\ outcome \in {"clean", "failed"}
  /\ retries \in {0, 1}
  /\ feed \in {"none", "running", "aborted"}

(* When the cluster is declared ready, and until the run ends, there is    *)
(* one allocation per node, every endpoint that is reached through a       *)
(* forward has its process in the vector the guard kills, and no process   *)
(* runs that is not in it.                                                 *)
ForwardsOwned ==
  pc \in Stage \cup {"running"} =>
    /\ \A r \in Role : /\ allocated[r] = Count(r)
                       /\ via[r] = "forward" => NodeEndpoints(r) \subseteq port_forwards
    /\ via["prometheus"] = "forward" => Prometheus \in port_forwards
    /\ alive \subseteq port_forwards

(* No kubectl process outlives a run, or a deployment that failed after    *)
(* the readiness checks, preserved or not.                                 *)
ForwardsEnd ==
  [][(pc \in {"clients", "metrics", "feed", "running"} /\ pc' \in Cleaning \cup Over)
       => alive' = {}]_vars

(* Every way out of deploy or of the run that has a guard uses it, but for *)
(* the readiness checks.                                                   *)
GuardUsed ==
  [][(pc' \in Over /\ guard # "none" /\ pc \notin Over \cup {"readiness"})
       => guard' = "used"]_vars

(* No way out forgets the forwards or the guard.                           *)
CleanExits == ForwardsEnd /\ GuardUsed

(* A guard that was used, and whose commands did not fail, has removed the *)
(* release, and its namespace is gone or going.                            *)
ClusterReclaimed ==
  pc \in Over /\ guard = "used" /\ "preserve" \notin env /\ outcome = "clean" =>
    release = "uninstalled" /\ namespace \in {"terminating", "deleted"}

(* With the preserve flag release and namespace stay, after a failed       *)
(* deployment as after a run.                                              *)
ClusterPreserved ==
  pc \in Over /\ "preserve" \in env /\ guard # "none" =>
    release = "installed" /\ namespace = "present"

(* What becomes of the cluster, with the preserve flag or without it.      *)
ClusterFate == ClusterReclaimed /\ ClusterPreserved

(* deploy, the run and the cleanup come to an end, however often a command *)
(* of the cleanup hangs.                                                   *)
DeployEnds == <>(pc \in Over)

=============================================================================
