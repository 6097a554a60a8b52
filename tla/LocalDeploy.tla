----------------------------- MODULE LocalDeploy -----------------------------
(***************************************************************************)
(* The local deployer: nodes are child processes with a temporary          *)
(* directory each, spawned one after the other, then checked for network,  *)
(* membership and DA balancer readiness, and killed by the drop of the     *)
(* value that owns them.  A node being waited for is held by a NodeHandle, *)
(* whose drop does not kill; only the Validator or Executor made from it   *)
(* does.                                                                   *)
(*                                                                         *)
(* Nodes live on their own: they start, link up, may crash.  A check asks  *)
(* them one by one or all at once, and each answers about its own moment.  *)
(***************************************************************************)
EXTENDS Integers, FiniteSets

CONSTANTS
  Validators,  \* n_validators: nodes 1 .. Validators
  Executors,   \* n_executors: the nodes after them
  Task,        \* workload tasks that share the run context
  MaxCrashes   \* bound: node processes that end by themselves

ASSUME TopologyAssumption ==
  /\ {Validators, Executors, MaxCrashes} \subseteq Nat
  /\ Validators + Executors > 0
  /\ "runner" \notin Task

Node == 1 .. Validators + Executors

VARIABLES
  layout,            \* Libp2pNetworkLayout
  membership_check,  \* LocalDeployer::membership_check
  keep_logs,         \* NOMOS_TESTS_KEEP_LOGS
  stage,             \* where deploy, or the run after it, is
  spawning,          \* the node deploy waits for, 0 if none
  owned,             \* nodes owned by a Validator or an Executor
  proc, dir,         \* processes and directories
  links,             \* pairs of connected nodes
  da,                \* what each node's DA service has got to
  answers,           \* the answers collected by the current check
  timed,             \* its first round is over: the timeout runs
  owners,            \* who holds the run context, once there is one
  feed,              \* the block feed task
  crashes

confVars  == <<layout, membership_check, keep_logs>>
nodeVars  == <<proc, dir, links, da, crashes>>
checkVars == <<answers, timed>>
runVars   == <<owners, feed>>
vars == <<confVars, stage, spawning, owned, nodeVars, checkVars, runVars>>

------------------------------------------------------------------------------
(* Topology.                                                               *)

\* initial_peers_by_network_layout
initial_peers(i) ==
  IF i = 1 THEN {}
  ELSE CASE layout = "star"  -> {1}
         [] layout = "chain" -> {i - 1}
         [] layout = "full"  -> 1 .. i - 1

Pair(i, j) == {i, j}
LayoutLinks == UNION {{Pair(i, j) : j \in initial_peers(i)} : i \in Node}

n_peers(i) == Cardinality({j \in Node \ {i} : Pair(i, j) \in links})

\* find_expected_peer_counts: links count at both ends.
expected_peers(i) == Cardinality({j \in Node \ {i} : Pair(i, j) \in LayoutLinks})

------------------------------------------------------------------------------
Init ==
  /\ layout \in {"star", "chain", "full"}
  /\ membership_check \in BOOLEAN /\ keep_logs \in BOOLEAN
  /\ stage = "spawn" /\ spawning = 0 /\ owned = {}
  /\ proc = [i \in Node |-> "none"] /\ dir = [i \in Node |-> "none"]
  /\ links = {} /\ da = [i \in Node |-> "none"] /\ crashes = 0
  /\ answers = << >> /\ timed = FALSE
  /\ owners = {} /\ feed = "none"

Alive(i) == proc[i] \in {"started", "ready"}
Without(ls, gone) == {l \in ls : l \cap gone = {}}

\* should_persist_tempdir
should_persist_tempdir(panicking) == panicking \/ keep_logs

\* persist_tempdir for the nodes in keep; the TempDir of the others in gone is
\* dropped.  To persist a directory takes a fresh one to put in its place:
\* where there is none the error is ignored and the directory is lost.
SettleDirs(keep, gone) ==
  \E lost \in SUBSET keep :
    dir' = [i \in Node |-> CASE i \in lost               -> "lost"
                             [] i \in keep \ lost        -> "kept"
                             [] i \in gone \ keep        -> "removed"
                             [] i \notin keep \cup gone  -> dir[i]]

\* Mutant: an executor has no Drop of its own.
DropNodesForgetsExecutors(panicking, keep, gone) ==
  /\ proc' = [i \in Node |->
       IF i \in owned /\ Alive(i) /\ i <= Validators THEN "killed" ELSE proc[i]]
  /\ SettleDirs(keep, gone \cup owned)
  /\ links' = Without(links, owned)

\* Drop for Validator and Executor kills the process.  A node that is no such
\* value yet is in keep or gone: its process, if any, goes on.
DropNodes(panicking, keep, gone) ==
  /\ proc' = [i \in Node |-> IF i \in owned /\ Alive(i) THEN "killed" ELSE proc[i]]
  /\ SettleDirs(keep \cup (IF should_persist_tempdir(panicking) THEN owned ELSE {}),
                gone \cup owned)
  /\ links' = Without(links, owned)

\* deploy or the run is over: what owns the nodes is dropped.
End(how, panicking, keep, gone) ==
  /\ stage' = how
  /\ DropNodes(panicking, keep, gone)
  /\ owned' = {}
  /\ UNCHANGED <<confVars, spawning, da, crashes, checkVars>>

------------------------------------------------------------------------------
(* spawn_node, called for the validators and then for the executors.       *)

NextToSpawn(i) == stage = "spawn" /\ spawning = 0 /\ i \in Node /\ owned = 1 .. i - 1

SpawnNode(i) ==
  /\ NextToSpawn(i)
  /\ spawning' = i
  /\ proc' = [proc EXCEPT ![i] = "started"]
  /\ dir' = [dir EXCEPT ![i] = "there"]
  /\ UNCHANGED <<confVars, stage, owned, links, da, crashes, checkVars, runVars>>

\* There is no directory, no configuration file or no process for the node:
\* the expect panics, and a directory made for it is still a bare TempDir.
SpawnPanics(i) ==
  /\ NextToSpawn(i)
  /\ \E gone \in SUBSET {i} : End("panicked", TRUE, {}, gone)
  /\ UNCHANGED runVars

\* consensus_info is answered.
NodeReady(i) ==
  /\ stage = "spawn" /\ spawning = i /\ proc[i] = "ready"
  /\ spawning' = 0
  /\ owned' = owned \cup {i}
  /\ UNCHANGED <<confVars, stage, nodeVars, checkVars, runVars>>

\* Mutant: the directory of a node that is not ready is not kept.
SpawnTimeoutRemoves(i) ==
  /\ stage = "spawn" /\ spawning = i
  /\ End("panicked", TRUE, {}, {i})
  /\ UNCHANGED runVars

\* The 60 s are over: the directory is persisted for debugging, the handle is
\* dropped, and the caller's unwrap or expect panics.
SpawnTimeout(i) ==
  /\ stage = "spawn" /\ spawning = i
  /\ End("panicked", TRUE, {i}, {})
  /\ UNCHANGED runVars

\* The caller drops the future of deploy.  The TempDir of the node that is
\* waited for goes with its handle.
Cancel ==
  /\ stage \in {"spawn", "network", "membership", "balancer", "feed"}
  /\ End("cancelled", FALSE, {}, {spawning} \cap Node)
  /\ UNCHANGED runVars

\* Nodes that are up, and there is more than one: wait_network_ready.
Spawned ==
  /\ stage = "spawn" /\ owned = Node
  /\ stage' = IF Cardinality(Node) > 1 THEN "network"
              ELSE IF membership_check THEN "membership" ELSE "feed"
  /\ UNCHANGED <<confVars, spawning, owned, nodeVars, checkVars, runVars>>

------------------------------------------------------------------------------
(* ReadinessCheck::wait.                                                   *)

Checking == stage \in {"network", "membership", "balancer"}

\* What node i answers to the current check.
ReadyAnswer(i) ==
  CASE stage = "network"    -> n_peers(i) >= expected_peers(i)
    [] stage = "membership" -> da[i] # "none"
    [] stage = "balancer"   -> da[i] = "connected"

\* join_all asks all nodes at once; the balancer check asks one by one.
MayAsk(i) == stage = "balancer" => 1 .. i - 1 \subseteq DOMAIN answers

\* A failed membership request counts as not ready.
Collect(i, ok) ==
  /\ Checking /\ i \notin DOMAIN answers /\ MayAsk(i)
  /\ ok => Alive(i)
  /\ ok \/ stage = "membership"
  /\ answers' = [j \in DOMAIN answers \cup {i} |->
                   IF j = i THEN ok /\ ReadyAnswer(i) ELSE answers[j]]
  /\ UNCHANGED <<confVars, stage, spawning, owned, nodeVars, timed, runVars>>

\* A failed request of the other two is unwrapped.
CollectPanics(i) ==
  /\ stage \in {"network", "balancer"} /\ i \notin DOMAIN answers /\ MayAsk(i)
  /\ End("panicked", TRUE, {}, {})
  /\ UNCHANGED runVars

Collected == Checking /\ DOMAIN answers = Node

\* Mutant: one node that is ready is enough.
IsReadyAny == \E i \in Node : answers[i]

IsReady == \A i \in Node : answers[i]

\* The round showed all nodes ready: on to the next check.
CheckPasses ==
  /\ Collected /\ IsReady
  /\ stage' = CASE stage = "network"    -> IF membership_check THEN "membership" ELSE "feed"
                [] stage = "membership" -> "balancer"
                [] stage = "balancer"   -> "feed"
  /\ answers' = << >> /\ timed' = FALSE
  /\ UNCHANGED <<confVars, spawning, owned, nodeVars, runVars>>

CheckAgain ==
  /\ Collected /\ ~IsReady
  /\ answers' = << >> /\ timed' = TRUE
  /\ UNCHANGED <<confVars, stage, spawning, owned, nodeVars, runVars>>

\* Mutant: the limit is on the first round, not on those that follow.
CheckTimeoutFirstRound ==
  /\ Checking /\ ~timed /\ ~(Collected /\ IsReady)
  /\ End("failed", FALSE, {}, {})
  /\ UNCHANGED runVars

\* The time limit strikes in a later round or between two.
CheckTimeout ==
  /\ Checking /\ timed /\ ~(Collected /\ IsReady)
  /\ End("failed", FALSE, {}, {})
  /\ UNCHANGED runVars

------------------------------------------------------------------------------
(* The run.                                                                *)

\* spawn_block_feed_with asks some validator.
StartFeed(i) ==
  /\ stage = "feed" /\ i \in 1 .. Validators /\ Alive(i)
  /\ stage' = "running"
  /\ feed' = "running" /\ owners' = {"runner"} \cup Task
  /\ UNCHANGED <<confVars, spawning, owned, nodeVars, checkVars>>

FeedFails ==
  /\ stage = "feed"
  /\ End("failed", FALSE, {}, {})
  /\ UNCHANGED runVars

\* The runner, or the handle it became, goes: its Drop aborts the feed, then
\* its fields are dropped.
ReleaseRunner ==
  /\ stage = "running" /\ "runner" \in owners
  /\ owners' = owners \ {"runner"}
  /\ feed' = "aborted"

ReleaseTask(t) ==
  /\ stage = "running" /\ t \in owners \cap Task
  /\ owners' = owners \ {t}
  /\ UNCHANGED feed

\* The topology is dropped with the last owner of the context, on a thread
\* that may be panicking.
Release(panicking) ==
  /\ ReleaseRunner \/ \E t \in Task : ReleaseTask(t)
  /\ \/ owners' = {} /\ End("ended", panicking, {}, {})
     \/ owners' # {} /\ UNCHANGED <<confVars, stage, spawning, owned, nodeVars, checkVars>>

------------------------------------------------------------------------------
(* The nodes.                                                              *)

Starts(i) ==
  /\ proc[i] = "started"
  /\ proc' = [proc EXCEPT ![i] = "ready"]
  /\ UNCHANGED <<confVars, stage, spawning, owned, dir, links, da, crashes, checkVars, runVars>>

\* A node dials its initial peers, and peers of its peers once it knows them.
Connect(i, j) ==
  /\ i # j /\ proc[i] = "ready" /\ proc[j] = "ready" /\ Pair(i, j) \notin links
  /\ \/ j \in initial_peers(i)
     \/ \E k \in Node : {Pair(i, k), Pair(k, j)} \subseteq links
  /\ links' = links \cup {Pair(i, j)}
  /\ UNCHANGED <<confVars, stage, spawning, owned, proc, dir, da, crashes, checkVars, runVars>>

DaProgress(i) ==
  /\ proc[i] = "ready" /\ da[i] # "connected"
  /\ da' = [da EXCEPT ![i] = IF @ = "none" THEN "assigned" ELSE "connected"]
  /\ UNCHANGED <<confVars, stage, spawning, owned, proc, dir, links, crashes, checkVars, runVars>>

Crash(i) ==
  /\ Alive(i) /\ crashes < MaxCrashes
  /\ proc' = [proc EXCEPT ![i] = "exited"]
  /\ links' = Without(links, {i})
  /\ crashes' = crashes + 1
  /\ UNCHANGED <<confVars, stage, spawning, owned, dir, da, checkVars, runVars>>

------------------------------------------------------------------------------
DeployStep ==
  \/ \E i \in Node : SpawnNode(i) \/ NodeReady(i) \/ StartFeed(i)
       \/ CollectPanics(i) \/ \E ok \in BOOLEAN : Collect(i, ok)
  \/ Spawned \/ CheckPasses \/ CheckAgain

Next ==
  \/ DeployStep \/ \E i \in Node : SpawnPanics(i) \/ SpawnTimeout(i)
  \/ CheckTimeout \/ FeedFails \/ Cancel
  \/ \E panicking \in BOOLEAN : Release(panicking)
  \/ \E i \in Node : Starts(i) \/ DaProgress(i) \/ Crash(i) \/ \E j \in Node : Connect(i, j)

Spec == Init /\ [][Next]_vars

\* deploy is polled, requests are answered or refused (a check's first round
\* is under no time limit), and time limits strike.  Nodes need not become ready.
FairSpec ==
  /\ Spec
  /\ WF_vars(DeployStep) /\ WF_vars(FeedFails)
  /\ SF_vars(CheckTimeout) /\ \A i \in Node : WF_vars(SpawnTimeout(i))

------------------------------------------------------------------------------
(* Properties.                                                             *)

Over == stage \in {"panicked", "failed", "cancelled", "ended"}

\* Type invariant of the deployer, its checks and the nodes.
TypeOK ==
  /\ layout \in {"star", "chain", "full"} /\ {membership_check, keep_logs} \subseteq BOOLEAN
  /\ Over \/ stage \in {"spawn", "network", "membership", "balancer", "feed", "running"}
  /\ spawning \in 0 .. Validators + Executors /\ owned \subseteq Node
  /\ proc \in [Node -> {"none", "started", "ready", "killed", "exited"}]
  /\ dir \in [Node -> {"none", "there", "kept", "lost", "removed"}]
  /\ links \subseteq {Pair(i, j) : i \in Node, j \in Node}
  /\ da \in [Node -> {"none", "assigned", "connected"}]
  /\ DOMAIN answers \subseteq Node /\ \A i \in DOMAIN answers : answers[i] \in BOOLEAN
  /\ timed \in BOOLEAN
  /\ owners \subseteq {"runner"} \cup Task /\ feed \in {"none", "running", "aborted"}
  /\ crashes \in 0 .. MaxCrashes

\* Whatever ends deploy or the run, every node process is dead, but for the
\* one node deploy was still waiting for.
OnlyAwaitedNodeLeaks == Over => \A i \in Node : Alive(i) => i = spawning

\* A process never loses its directory while it lives, unless deploy was
\* waiting for that process, and was cancelled or gave up and could not
\* persist the directory.
NoDirRemovedUnderProcess ==
  \A i \in Node : Alive(i) /\ dir[i] \in {"lost", "removed"} =>
    i = spawning /\ stage = IF dir[i] = "lost" THEN "panicked" ELSE "cancelled"

\* A panic leaves the directory of every process it had started behind for
\* debugging, and so does the flag for all nodes that had become ready: such
\* a directory is asked to be persisted, and lost only where that fails.
\* A node that could not be started leaves nothing, flag or not.
LogsKept ==
  /\ stage = "panicked" => \A i \in Node : dir[i] = "removed" => proc[i] = "none"
  /\ keep_logs => \A i \in Node : dir[i] = "removed" =>
       proc[i] = "none" \/ (stage = "cancelled" /\ i = spawning)

\* Past the network check every node has as many peers as the layout gives
\* it, and past the others its DA assignments and connections, although the
\* answers are from different moments; crashes aside.  The check counts peers
\* and does not look at who they are: the links of the layout itself are all
\* up in a star, in a full mesh and in a chain of fewer than six nodes; a
\* longer chain may pass in two halves, each of them meshed.
ReadyMeansReady ==
  crashes = 0 =>
    /\ stage \in {"membership", "balancer", "feed", "running"} =>
         /\ \A i \in Node : n_peers(i) >= expected_peers(i)
         /\ layout # "chain" \/ Validators + Executors < 6 => LayoutLinks \subseteq links
    /\ stage \in {"feed", "running"} /\ membership_check => \A i \in Node : da[i] = "connected"

\* The feed is told to stop before the nodes it polls are killed.
FeedStopsFirst == feed = "running" => owned = Node /\ \A i \in Node : proc[i] # "killed"

\* Nothing survives its owners by accident: when deploy or the run is over
\* the node it waited for is the only process left, and a feed never polls
\* nodes that the drop of the topology has already killed.
NodesReclaimed == OnlyAwaitedNodeLeaks /\ FeedStopsFirst

\* The directories follow their processes: in place while the process lives,
\* and kept for debugging after a panic or when the flag asks for it; and none
\* is left to chance once deploy or the run is over.
DirsKept ==
  NoDirRemovedUnderProcess /\ LogsKept /\ (Over => \A i \in Node : dir[i] # "there")

\* deploy returns, fails or panics: it does not wait for nodes forever.
DeployEnds == <>(Over \/ stage = "running")
==============================================================================
