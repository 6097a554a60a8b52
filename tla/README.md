# TLA+ models of the Nomos testing framework

The repository is a framework for end-to-end tests of Nomos networks. A
*scenario* describes a topology, workloads and expectations; a *deployer* (local
processes, docker compose, Kubernetes) brings the network up; a *runner* drives
the workloads for a while and then asks the expectations for a verdict. What is
hard in it is not the data but the ownership of long-lived things (containers,
processes, tasks, channels, guards) on many error paths, and the tasks that run
beside each other; and numbers, keys and plans that are computed twice, in
different places, and must agree. That is what these modules model.

Paths below are relative to `testing-framework/` unless they start with `book/`,
`examples/` or `scripts/`.

## 1. Inventory

| Component | State it keeps | Operations | Interacts with |
|---|---|---|---|
| **Block feed** `core/src/scenario/runtime/block_feed.rs` | scanner (`seen`, the walk's cursor and stack), `BlockStats`, a broadcast channel of 1024 records, the task's join handle | `spawn_block_feed`, `catch_up`, `ingest`, `run`, `subscribe`, `cleanup` | polls a node's HTTP API; read by expectations and workloads; aborted by the cleanup guard |
| **cfgsync** `tools/cfgsync`, `assets/stack/scripts/run_nomos.sh` | `ConfigRepo`: map of waiting hosts with reply channels, `n_hosts`, a timeout | `register`, `run`, the HTTP handlers; the client's request and the script's retries | started by the compose and k8s deployers; asked by every node container on each start |
| **Scenario runner** `core/src/scenario/runtime/{runner,context}.rs` | a `JoinSet` of workload tasks, timers, captured expectations, the cleanup guard | `run`, `prepare_expectations`, `run_workloads`, `drive_until_timer`, `drain_workloads`, `run_expectations`, `into_run_handle`, two `Drop`s | gets context and guard from a deployer; hands the guard to the caller in a `RunHandle` |
| **Compose deployer** `runners/compose` | workspace directory, port reservation, cfgsync container, compose project, feed task, `StackEnvironment`, `RunnerCleanup` | `deploy`: bring-up attempts, stages, `fail`; `cleanup` and `Drop` | docker commands with time limits |
| **k8s deployer** `runners/k8s` | helm release, namespace, `kubectl port-forward` children, `ClusterEnvironment`, `RunnerCleanup` | `deploy`: install, wait, probe, forward, stages, `fail`; `cleanup` with two time limits | helm, kubectl, the kube API |
| **Local deployer, node processes** `runners/local`, `core/src/nodes`, `core/src/topology/deployment.rs` | child processes, temporary directories, the owners of both | spawn, wait, readiness, kill on drop | node binaries, readiness checks, feed |
| **Readiness checks** `core/src/topology/readiness` | the answers of one round, a timeout | `collect`, `is_ready`, `wait` | node HTTP API |
| **Transaction workload and inclusion expectation** `workflows/src/workloads/transaction` | submission plan, counter of observed inclusions | `start`, `submit`, `start_capture`, `evaluate` | feed, node clients, accounts prepared by the builder |
| **DA workload and expectation** `workflows/src/workloads/da` | channel flows with their receivers, captured inscriptions and blobs, block count | `run_channel_flow`, `publish_blob`, two capture tasks, `evaluate` | feed, executor clients |
| **Chaos workload** `workflows/src/workloads/chaos.rs` | cooldown per target | `pick_target`, restart | node control, docker |
| **Consensus liveness** `workflows/src/expectations` | samples of heights | `evaluate` | node clients |
| **Scenario builder, topology configuration** `core/src/scenario/definition.rs`, `core/src/topology`, `workflows/src/builder` | the builders' fields: counts, wallet, workloads, expectations, duration | the builder calls, `build` | node configuration generation, the workloads' `init` |
| **Node configuration generation** `configs/src/topology`, `tools/cfgsync/src/config` | none: pure functions, run in the test process and again in the cfgsync server | ledger, declarations, membership, hosts, peers | builder, cfgsync |
| API client, metrics client; examples, scripts | none | HTTP requests; entry points | everything |

What makes each modelled part correct, and what makes that hard:

* **Block feed.** Readers get every block once, parents first, whatever forks,
  node restarts and failed requests do to the walk, which remembers a block only
  with its record; statistics never lag behind records; the task ends when it is
  aborted.
  Hard: the walk runs backwards over several requests, each of which may fail,
  while the tip moves.
* **cfgsync.** All nodes run on one genesis made of all hosts. Hard: containers
  restart, move and reconnect while the hosts gather, and a timeout races the
  last announcement.
* **Runner.** Expectations see a quiet system, no failure is lost, the guard is
  used exactly once on every path. Hard: aborts are requests, tasks may still
  finish or fail before they land, and the run's own future may be dropped.
* **Deployers.** Whatever was created is removed, in order, or kept when asked,
  and a network that passed its checks is really up. Hard: any step fails or
  panics, commands that time out go on by themselves, some values are reclaimed
  by explicit calls and others by `Drop`, and the answers of a check are from
  different moments.
* **Workloads and expectations.** A verdict says what it claims about the chain.
  Hard: they learn of the chain from a lossy channel that shows every fork,
  their requests may be accepted though they failed, and plan and target are
  computed apart from each other.
* **Chaos and liveness.** One node is disturbed at a time, and the verdict on the
  network is fair to nodes that were asked at different times. Hard: a restart
  outlives the command, the workload and the run.
* **Builder and configuration.** Genesis locks the right outputs, the workload's
  inputs exist, and what the cfgsync server generates is what the test process
  assumes. Hard: output indices are guessed ahead of the transaction that
  creates them, parameters go stale when counts change, and the server sees its
  hosts in any order.

`PROJECT.json` lists the hazards, each at the line where it bites.

## 2. Modules and code

| Module | Models | Proofs |
|---|---|---|
| `BlockStream` | abstract specification: what the feed promises its readers | |
| `BlockFeed` | the feed, its scanner and its receivers | `BlockFeedProofs` |
| `CfgSync` | the rendezvous of containers and repo | `CfgSyncProofs` |
| `ScenarioRunner` | `Runner::run`, its tasks, the guard | `ScenarioRunnerProofs` |
| `ComposeDeploy` | `ComposeDeployer::deploy` and cleanup | `ComposeDeployProofs` |
| `K8sDeploy` | `K8sDeployer::deploy` and cleanup | `K8sDeployProofs` |
| `LocalDeploy` | `LocalDeployer::deploy`, the readiness checks, the node processes | `LocalDeployProofs` |
| `TxWorkload` | the transaction workload and its expectation, over `BlockStream` | `TxWorkloadProofs` |
| `DaWorkload` | the DA workload and its expectation, over `BlockStream` | `DaWorkloadProofs` |
| `ChaosRestart` | the chaos workload, docker's restarts, the liveness expectation | `ScenarioRunnerProofs`, second half |
| `NodeConfigs` | pure: ledger, declarations, membership, hosts, peers | `CfgSyncProofs`, second half |
| `ScenarioBuild` | the builder calls, `build`, and the cfgsync server's second generation | `CfgSyncProofs`, second half |

`MC*` modules and `.cfg` files are the TLC instances. A definition whose comment
starts with "Mutant" is a plausible mistake in the definition after it; it is
used only to show that a property would notice.

**BlockFeed.** `pc` is the await or the step at which the scanner task is;
`cursor`, `remaining_height` and `stack` are the locals of `catch_up`; `seen`,
`total_transactions` and `ingested` are the scanner's set, the statistics and
the history of the channel. One action is what the task does between two awaits:
`ConsensusInfo`, `StorageBlock` (both through `LoopHead`, the head of the walk),
`RequestFails`, `PollAgain`, `Respawn` (the compose deployer's retry). `ingest`
is two actions, `RecordBlock` and `SendRecord`, because another thread can look
in between. `Subscribe`, `Recv`, `Lagged`, `Unsubscribe` are tokio's broadcast
receivers as the code uses them, each a position in the feed; `TipMoves` is the node. Blocks are reduced to a
header, its parent and a transaction count.

**CfgSync.** A host is a container and an address. `Announce` is the handler's
`register`; `WaitForHosts`, `TimeoutElapses`, `SendConfigs`, `ValidationPanics`
and `SendTimeouts` are `ConfigRepo::run`, split where it releases its lock. The
script's states and attempts are those of `run_nomos.sh`; `RestartOnFailure` is
the compose file's restart policy and `Restart` node control or a replaced pod.
A configuration is the set of hosts it was made for.

**ScenarioRunner.** `pc` follows `run`; `task`, `workloads` and `aborted` are
the tasks, the `JoinSet` and the abort requests. `EndRun` is every return or
unwinding: it uses the guard and drops the `JoinSet`. `RunDropped` cancels the
run's future, or lets an expectation panic, at any point.

**ComposeDeploy.** `pc` follows `deploy`; `cfgsync`, `handle`, `stack` hold, per
bring-up attempt, the cfgsync container, its handle and the compose project.
`owned` are the attempts that became a `StackEnvironment`. A command that timed
out leaves its object "late" or "falling"; `LateUp`, `LateDown` and `LateRun`
decide later what became of it. The `Stage` values are the steps that need a
running stack, and `StageFails` is `environment.fail`. One stage does not go
through it: the error of `metrics_handle_from_port` is returned with a bare `?`
(`MetricsFails`), which drops the environment and leaves the stack up. It takes
a Prometheus client that cannot be made, for the node clients have already used
the same host.

**K8sDeploy.** `role`, `allocated`, `via`, `group` are the locals of the wait
orchestrator (allocations and how the ports are reached), `port_forwards` the
vector that is handed on, `alive` the kubectl processes that run. Dropping a
`Child` does not kill it, so `alive` and `port_forwards` can differ. `guard`,
`outcome`, `retries` follow `RunnerCleanup` through its time limits.

In the deployers `"running"` stands for the whole run; that it ends is
`EverythingEnds` of `ScenarioRunner`.

**LocalDeploy.** A node that deploy waits for (`spawning`) is held by a
`NodeHandle`, whose drop removes the directory and does not kill; `owned` nodes
belong to a `Validator` or `Executor`, whose drop kills and keeps the directory
on a panic or when the flag asks for it. `DropNodes` is that drop, `End` every
way out. Before there is a `NodeHandle`, a directory, configuration file or
process that cannot be made panics (`SpawnPanics`), and the directory is a bare
`TempDir`. `SettleDirs` is `persist_tempdir`, which may fail: its error is
ignored, and the directory is `"lost"`. A check is rounds of `Collect` (one answer each, refused requests
panic where the code unwraps), `CheckPasses`, `CheckAgain` and, once its first
round is over, `CheckTimeout`. Nodes start, dial, get on with their DA
connections and crash by themselves. `owners` are the runner and the tasks that
share its context; the topology goes with the last of them.

**TxWorkload, DaWorkload.** The feed is `BlockStream`, instantiated, and
`Publish` chooses what a block holds among what was accepted and is not below it
already (DA operations only above their parents). Receivers have a position, a
capacity and a count of what they lost. `SubmitErr` and `PublishErr` may leave
the request accepted; `RunEnds` aborts at any await, with requests under way.
`tally`, `skipped` and `from` are history. In `TxWorkload` the plan is computed
by `apply_user_limit` for the workload and by `tracked` for the expectation, as
in the code; in `DaWorkload` an operation is a channel and a number.

**ChaosRestart.** Time is a clock; timers never fire early. `docker` is the set
of restart commands at work, which goes on when the command's time limit ends
the workload or the runner aborts it (`RestartAlone`). The evaluation asks the
nodes in turn (`SampleOk`, `SampleErr` with its retries) while the chain grows.
A request has no time limit, and neither has the evaluation: a node that is not
down may never answer (`SampleHangs`), and the evaluation stays there.

**ScenarioBuild, NodeConfigs.** One action per builder call; `phase` is the
builder the caller holds, so calls come in the orders the types allow. A failed
assertion ends in `"panicked"`. `Build` generates the descriptors (`scenario`)
and initialises the workloads (`prepared`: the accounts each transaction
workload will spend from); `Serve` is `create_node_configs` with the hosts
in any order and ports that may repeat. A key is the prefix and the 14 bytes of
the id it is derived from, so that ids can share keys. Sorting (`Sorted`) and
`filter_map` (`Kept`) are defined by the positions of the elements, which is
what the proofs reason about.

## 3. Runs

| Run | Shows |
|---|---|
| `block_feed` | over a tree with a fork: `StatsCoverFeed`, `SeenIsPublished` (nothing is remembered that a failed walk did not publish), `BatchReachesItsTip`; refinement of `BlockStream` (`StreamSpec`: every block once, parents first); liveness `Progress` (it catches up again and again, an abort ends it, receivers drain) |
| `cfgsync` | `OneGenesisForAll`, `PanicNeedsMove`; liveness `ClientsServed` |
| `runner` | `HonestVerdict` (quiet evaluation, no failure lost), `CleanupOnce`, `NoDetachedWorkload`; liveness `EverythingEnds` |
| `compose` | `ServerRemoved`, `StackFate` (reclaimed, or preserved when asked), `TeardownOrder`, both on every way out but the error of the metrics handle; liveness `DeployEnds` |
| `k8s` | `ForwardsOwned`, `ClusterFate`, `CleanExits` (forwards end, the guard is used); liveness `DeployEnds` |
| `local` | `NodesReclaimed` (only the node deploy waited for can be left), `DirsKept` (no living node but that one loses its directory; panics and the flag keep those of all started processes that can be persisted), `ReadyMeansReady` (past the network check every node has its number of peers, and the links of the layout are up, long chains excepted; past the DA check every node is connected); liveness `DeployEnds` |
| `tx` | `OnlyTrackedSubmitted`, `CountsWhatItRead`, `ShortfallIsReal`, `SatisfiedIsIncluded` |
| `da` | `FlowsFollowChain` (what a flow can miss, and no blob before its parent), `CaptureIsExact`, `FinishedIsEnough`; liveness `Delivered` |
| `chaos` | `RestartsApart` (spacing and one at a time), `OkMeansLive` (as long as the chain is not higher than expected), `InStepPasses`; liveness `Judged` (unless a request hangs) |
| `build` | `GenesisSound`, `InputsExist`, `RemoteAgrees`, `PlansAgree` |

Several properties are conjunctions of named parts; the parts have a comment
each in their module. `TypeOK` is proved, not run.

Two runs end in a counterexample, each a disagreement between the code and a
line of the repository (quoted in `PROJECT.json`):

| Run | Property | What happens |
|---|---|---|
| `cfgsync_restart` | `RestartedNodeReturns` | a node restarted through node control asks the ended repo for its configuration and hangs |
| `tx_forks` | `SatisfiedDespiteForks` | a transaction in two competing blocks counts twice, and the expectation passes with less than half of the plan included |

### What the code does not promise

Met while modelling; the models have these behaviours, and the properties are
stated so as not to claim otherwise.

* cfgsync: after the repo answered `Timeout` it is gone; the retry of
  `run_nomos.sh` registers with it and waits without a limit. The server
  generates peers for the default (star) layout whatever layout the descriptors
  have, and its KMS lacks the wallet keys.
* Runner: workloads that all return early end the run before its configured
  duration.
* Compose: containers of a `docker compose up` that failed or timed out belong
  to nobody; every attempt uses the same cfgsync port, so they may even register
  with the next attempt's server; `StackFate` is about the stacks that came up.
  With the preserve flag the drop of `RunnerCleanup` still removes the cfgsync
  container. `orchestrator.rs:74` returns the error of the metrics handle
  without `environment.fail`: the cfgsync server is stopped and the workspace
  deleted, with the preserve flag too, while the stack stays up.
* k8s: a failed readiness check drops the guard unused, so release, namespace
  and forwards stay; a failed `helm install` comes before there is a guard; the
  first forward of a service is orphaned when the second fails. Forwarded ports
  are probed on 127.0.0.1 and used on the node host.
* Local: a node whose readiness wait timed out is not killed, and a cancelled
  deploy removes its directory under it. A node that could not be started leaves
  no directory, although the thread panics and whatever the flag says, and a
  directory that cannot be persisted is removed. The first round of a check is
  under no time limit. The network check compares numbers of
  peers, not identities: a chain of six or more nodes can pass in two halves that
  are not connected, each of them meshed by discovery (nodes 1 to 3 and 4 to 6,
  say). That this needs six nodes, and a chain, is proved.
* Transactions: a lagged capture undercounts and may report a false shortfall.
* DA: an inscription that is in a block before the flow subscribes is missed,
  and so is whatever a lagging flow waits for; the flow then waits until the run
  ends. Blobs can be short after a finished workload if the chain makes over a
  quarter more blocks than the metrics expect.
* Chaos: the wait in `pick_target` makes the cooldown of one target hold up all.
  One validator and no executors leave no targets. Liveness: `clamp` panics for
  a lag allowance above 5. A node that takes a request and never answers keeps
  the evaluation, and the run, from ending.
* Liveness, against its documentation: `consensus_liveness.rs:13` says that the
  expectation "Checks that every node reaches near the highest observed height
  within an allowance", and line 138 speaks of blocks "behind the leader". Where
  the chain is higher than the expected blocks, `report` compares with those:
  with 7 expected, nodes at 70 and 6 pass. `OkMeansLive` claims the documented
  bound for a chain no higher than expected, where it holds, and leaves the
  other case out; the two states are both within the bounds of `chaos`.
* Builder: `with_node_counts` leaves parameters derived from the old counts (the
  number of subnetworks stays 2 above two nodes); duplicate custom wallet keys
  would share an output; ids that agree in 14 bytes share leader keys.

### Bounds

* `block_feed`: five blocks (a common block, a branch of three and one of two),
  one receiver, capacity 2 for 1024 so that lag happens, two spawn attempts for
  five, two failed requests, one restart that takes the tip back. Failures can
  hit both attempts, or a walk and its repetition; a fork switch, a restart and
  an abort can hit any point of a batch. One receiver is enough: receivers do
  not affect each other or the scanner.
* `cfgsync`: three containers, `n_hosts` 3, two attempts for thirty, three
  faults, one move per container: restarts of all three, or a move plus a
  reconnection on each side of the decision. Counterexample runs use two
  containers.
* `runner`: three workloads and two expectations cover one task failing while a
  second is being aborted and a third has ended.
* `compose`: the real bound of three attempts, all eight combinations of flags.
* `k8s`: two validators and two executors, so that the second service of a
  role, and the second role, can fail with forwards of the first in place; all
  eight combinations of flags.
* `local`: two validators and an executor in each of the three layouts (star and
  chain differ from three nodes on), one crash at any point, one task that
  outlives the runner.
* `tx`: three accounts, limits below, at and above the plan, two clients, a tree
  with a fork, capacity 2 for three blocks so that the capture can lag. The run
  lasts two slots; with `active_slot_coeff` 90% the plan is rounded.
* `da`: one channel with two blobs, two rounds over two executors. A second
  channel is beyond TLC; flows share nothing but the feed and the mempool.
* `chaos`: all topologies of up to two validators and one executor, eight units
  of time for delays of one or two and a cooldown of two: three restarts fit.
  Heights are chosen below, around and far above the thresholds; a lag
  allowance of 6 is above the maximum.
* `build`: programs of five calls, up to four nodes, ids of which two share
  their keys, ports that repeat. Five calls are a topology, a wallet, a
  duration, a flow and one option of it.

Deadlock is not checked: all systems come to a proper end, and the liveness
properties say which ends are allowed.

### Fairness

* `BlockFeed`: weak fairness of the scanner's steps (the tokio runtime polls a
  ready task; requests complete or fail) and of each receiver's `recv` loop.
  Failures, restarts and cleanup are not fair.
* `CfgSync`: weak fairness of the repo's steps, of its timer and of each
  script. Restarts and lost connections are not fair.
* `ScenarioRunner`: weak fairness of the runner's steps, its timers, of aborts
  reaching an await, of the end of the feed and the capture tasks. A workload
  need not end and a handle need not be dropped. An abort lands only if the
  workload awaits; a workload that spins without awaiting is outside the model.
* `ComposeDeploy`, `K8sDeploy`: weak fairness of `Deploy` as a whole: each step
  waits for a command that returns or has a time limit. Two docker commands have
  none (`docker compose logs` and `docker rm`; a hazard): that they return is
  assumed. The effects of abandoned commands are not fair.
* `LocalDeploy`: weak fairness of deploy's steps (requests are answered or
  refused, also those of a first round, which has no time limit) and of the time limit of each spawn; strong fairness of the check's
  timeout, which races the rounds and is polled with each. Nodes need not start.
* `DaWorkload`: weak fairness of each flow's reading. The nodes promise nothing.
* `ChaosRestart`: time passes, the runner's timer fires, requests that do not
  hang are answered or fail. Neither docker nor a node has to do anything:
  `SampleHangs` is always possible, not fair, and `Judged` says what follows
  where it does not happen.
* `TxWorkload` and `ScenarioBuild` have safety properties only.

## 4. Theorems

All are proved with TLAPS from the named assumptions of the modules
(`ChainAssumption`: heights are those of a tree; `BoundAssumption`;
`CfgSyncAssumption`: no more containers than `n_hosts`; `ScenarioAssumption`;
`AttemptsAssumption`; `TopologyAssumption`; `TreeAssumption`;
`WorkloadAssumption`; `DelayAssumption`, `HeightAssumption`; `BuildAssumption`:
the arguments of the builder calls are numbers, ids are ordered by their rank,
and the bound on nodes admits the largest predefined topology), for every value
of the constants. Where a proof needs an
induction over a number, a sum for instance, it takes the least counterexample
(`LeastNat`, from the well-foundedness of `<`): the library's induction theorems
have an operator as a parameter, which the backends cannot instantiate.

**BlockFeedProofs**: `TypeCorrect`, `PublishesParentsFirst`, `SeenCorrect`,
`BatchComplete`, `ImplementsStream`, `StatsCover`.
`ParentsFirstOnce` is not inductive: it says
nothing about the blocks that are fetched and not yet published. `IInv` adds
that the stack is a chain of new blocks told apart by their heights
(`StackInv`), that the cursor is the parent of its last block and at the height
the scanner believes (`WalkInv`, so the walk stops at genesis and not before),
that the block on top rests on a published one (`PublishInv`), and that nothing
has been published by an attempt that may be given up (`SpawnInv`). The
refinement then maps `SendRecord` to `Publish` and every other step to a
stutter; `Respawn` empties a channel that is already empty. The statistics have
an invariant of their own (`StatsInv`: between `RecordBlock` and `SendRecord` they are ahead of the feed by
the block on top of the stack, and by nothing else anywhere).

**CfgSyncProofs**: `TypeCorrect`, `OneGenesis`, `PanicIsAMove`. `IInv` adds that
nodes run only after the single answer (`AnswerInv`), and that registered
addresses are present or past ones (`HostInv`). The panic theorem counts: hosts
with current addresses inject into containers, of which there are at most
`n_hosts`, so one too many has an old address.

**ScenarioRunnerProofs**: `TypeCorrect`, `VerdictIsHonest` (from
`EvaluationIsQuiet` and `NoFailureIsLost`), `GuardUsedOnce`,
`WorkloadsEndWithRun`. `IInv` adds that live tasks are in the
`JoinSet` and joined ones did not fail (`JoinInv`), who owns an unused guard
(`GuardInv`), and how far the two passes over the expectations are (`PassInv`).

**ComposeDeployProofs**: `TypeCorrect`, `ServersAreRemoved` (from `RemovedOnce`
and `ServersAccountedFor`), `StackMeetsItsFate` (from `StackComesDown` and
`PreservedStackStays`), `TornDownInOrder`. `IInv` adds that
future attempts are untouched (`FutureInv`), how a handle relates to its
container (`HandleInv`) and to the place in `deploy` (`AttemptInv`), that only
the last attempt is ever owned (`OwnedInv`), and what is up in each phase
(`StackInv`). The two theorems about the stack name the dropped environment of
the metrics handle as their exception, and say that no feed exists then.

**K8sDeployProofs**: `TypeCorrect`, `ForwardsAreOwned`, `ExitsAreClean` (from
`ForwardsEndWithRun` and `GuardIsUsed`), `ClusterMeetsItsFate` (from
`ClusterIsReclaimed` and `ClusterIsPreserved`). `IInv` adds what the
roles already waited for have allocated and forwarded (`WaitInv`; inside a group
the forwards are exactly those of the first n services, hence `FirstInjective`
and `FirstGrows`), and the state of guard and cluster in each phase
(`GuardInv`).

**LocalDeployProofs**: `TypeCorrect`, `NodesAreReclaimed`, `DirsAreKept`,
`ReadyIsReady`. `IInv` adds who owns a living process in each phase (`OwnerInv`: a `Validator` or
`Executor`, or it is the one waited for), that a directory has the same owner
(`DirInv`), that nodes not yet spawned have no process (`SpawnInv`), and that the
feed runs only under a runner (`FeedInv`). All ways out share the lemma `EndInv`
about the drop of the nodes, which takes the directories no `Validator` or
`Executor` owns as a parameter (`Unowned`). `ReadyIsReady` rests on
`ReadyInv`, which holds until a crash or the end: an answer that was enough stays
enough, because links only go with a process (`AnswerInv`, `PassedInv`), and in a
chain a link between two nodes means that the chain is connected between them
(`ChainInv`, the reason why discovery cannot bridge a gap). From numbers to names it is a count: in a star and in a
mesh the right number of peers leaves no choice; in a chain a missing link would
leave two halves of at least three nodes each.

**TxWorkloadProofs**: `TypeCorrect`, `SubmissionsTracked`, `CaptureCounts`,
`NoFalseAlarm`, `SatisfiedMeansIncluded`. `IInv` adds that a submission under way
has an account left in the plan (`PlanInv`), that blocks stand on published ones and
hold what was accepted (`TreeInv`, `LedgerInv`), that the history `tally` adds up
the contents of the blocks, and so is at least the number of transactions in
them, and equal to it when no two blocks share one (`TallyInv`), that nothing is
sent before the capture subscribed that it would miss (`BeforeCapture`), and that
a verdict is about the count as it is (`VerdictInv`).

**DaWorkloadProofs**: `TypeCorrect`, `FlowsFollow`, `CaptureExact`,
`FinishedCaptured`, `FinishedEnough`. `FlowsFollowChain` speaks of flows that
wait; to be inductive it must also hold while a flow publishes or backs off
(`UnreadInv`), which needs that nothing is sent ahead of its flow (`SentInv`) and
that a flow has read every operation it is past (`ReadInv`). `FinishedEnough`
adds up: done flows have read their target of blobs, each at a position the
capture has read too; the targets together are the plan; and the plan is short
of four fifths of what was counted only if that is over a quarter more.

**Chaos and liveness**, in the second half of `ScenarioRunnerProofs`, which
extends `ChaosRestart` too (whose state and specification have names of their
own for that reason): `ChaosRestartsApart`, `LivenessSound`, `LivenessFair`. `ChaosInv` has the targets
a topology gives (`TopologyInv`), how the clock relates to the last restart and
the cooldowns (`SpacingInv`), that a restart docker works at is the one awaited
or belongs to a workload that has ended (`DockerInv`), and how samples, failures
and heights relate while the nodes are asked (`SampleInv`) and afterwards
(`ReportInv`).

**Building a scenario**, in the second half of `CfgSyncProofs`, which extends
`ScenarioBuild` too: `GenesisIsSound`, `InputsAreThere`, `RemoteIsBuilt`,
`PlansFit`, for programs of any number of calls. The invariants speak of a
scenario that is built or served and say nothing of the calls before, so
`BuildInv` adds what the calls keep: the topology is within the bound and its
wallet splits the funds asked for (`TopologyInv`), every transaction workload
has an expectation equal to it and chaos workloads passed the assertions of
their builder (`PartsInv`), and scenario and remote configuration are functions
of that topology (`DoneInv`, with `BuiltInv` and `ServedInv`). What is left is
about the pure functions, in lemmas of their own:

* in a strict total order on positions every place is taken exactly once
  (`PlacesTaken`), so a sort is a permutation (`PeersSorted`, `HostsSorted`: the
  server recovers the order of the descriptors from any order of announcement);
* the ledger is the nodes' notes followed by the wallet, so the note a
  declaration locks is one of its own node, and no two lock the same
  (`NoteOfNode`, `LedgerFacts`, `DeclarationsLock`), although ids may share keys;
* the accounts of a wallet have distinct keys, so an account's output is the
  only one of its key, at the same index in both ledgers (`WalletFacts`,
  `OutputOfAccount`, `InputFacts`);
* the sum over the accounts has a closed form: the share of each and one more
  for the first of them, as many as the remainder (`LedgerPays`);
* the sorted nodes are dealt to the subnetworks round robin, and there are at
  least as many subnetworks as nodes, so that no node is left out
  (`DaConfigsCover`).

Only model-checked: the liveness properties, which need fairness and `ENABLED`,
for which the prover has no support. Every invariant and every action property
of a passing run, and the refinement, is also a theorem.

## 5. What is not modelled

* The node API client and the metrics client: HTTP requests and their decoding.
  The models have their answers, failures and lost replies.
* Examples, scripts and images: entry points and build scripts, except for
  `run_nomos.sh`.
* The contents of rendered files: compose files, chart values, node
  configuration files (`configs/src/nodes`), tracing, time, API and KMS
  settings. They carry data without a decision.
* The HTTP readiness checks of the remote deployers are steps that succeed or
  fail in `ComposeDeploy` and `K8sDeploy`; the checks themselves are in
  `LocalDeploy`.
* Custom wallets (`WalletConfig::new`).
* Payloads and their encodings, signatures, wording of errors and logs, and
  durations, except in `ChaosRestart`: elsewhere a timer may fire at any time.

## 6. What is left

* The composition of the compose retry with `CfgSync`: nodes of an abandoned
  attempt registering with the next attempt's server on the same port.
