---------------------------- MODULE ScenarioBuild ----------------------------
(***************************************************************************)
(* Writing a scenario: the calls of TopologyConfigurator, Builder and the  *)
(* workload builders in any order the types allow, build(), which          *)
(* generates the descriptors and initialises the workloads from them, and  *)
(* then the cfgsync server of a remote deployment, which generates the     *)
(* nodes' configurations anew from what the descriptors say.               *)
(*                                                                         *)
(* Every assert!, expect and panic! of these calls ends in phase           *)
(* "panicked".  Durations are in seconds, coefficients in percent.         *)
(***************************************************************************)
EXTENDS NodeConfigs

CONSTANTS
  Counts,      \* arguments of validators(), executors() and their variants
  IdLists,     \* arguments of with_ids()
  PortCounts,  \* lengths of the lists given to with_da_ports(), with_blend_ports()
  Users, Funds,\* arguments of wallets() and initialize_wallet()
  Rates,       \* arguments of the rate functions
  Durations,   \* arguments of with_run_duration()
  Percents,    \* arguments of headroom_percent()
  Delays,      \* arguments of the chaos delays
  Ports,       \* what get_available_udp_port() returns, repeats included
  Slot,        \* the slot time
  None,        \* Option::None, and what is not there yet
  MaxCalls     \* bound: builder calls before build()

MaxNodes == Len(RandomIds)  \* bound: nodes of a topology

ASSUME BuildAssumption ==
  /\ Counts \cup PortCounts \cup Users \cup Funds \cup Rates \cup Durations \cup Delays
       \cup Percents \subseteq Nat
  /\ Slot \in Nat \ {0} /\ MaxCalls \in Nat
  /\ PeerRank \in [DOMAIN PeerRank -> Nat]
  /\ IdLists \cup {RandomIds} \subseteq Seq(DOMAIN PeerRank)
  /\ MaxNodes >= 3  \* the nodes of the largest topology of NewBuilder

MIN_EXPECTATION_BLOCKS == 2
MIN_EXPECTATION_FALLBACK_SECS == 10
DEFAULT_FUNDS_PER_WALLET == 100
ActiveSlotCoeff == 90  \* ConsensusParams::default_for_participants

VARIABLES
  phase,         \* which builder the caller holds, or how the calls ended
  topology,      \* TopologyBuilder: configuration, ids and ports
  configurator,  \* TopologyConfigurator: counts and network_star
  flow,          \* the open workload builder
  workloads, expectations,
  duration, capabilities,
  funds,         \* history: the funds the wallet was asked to split
  scenario,      \* the descriptors
  prepared,      \* the accounts each transaction workload will spend from
  remote,        \* the configurations of the cfgsync server
  calls          \* counter of the bound

scenarioVars == <<phase, topology, configurator, flow, workloads, expectations, duration,
                  capabilities, funds, scenario, prepared, remote, calls>>

------------------------------------------------------------------------------
(* The topology.                                                           *)

\* TopologyConfig with its consensus_params.n_participants in `participants`.
Config(v, e, participants, da) ==
  [n_validators |-> v, n_executors |-> e, participants |-> participants, da |-> da,
   wallet |-> << >>, ids |-> None, da_ports |-> None, blend_ports |-> None]

empty == Config(0, 0, 1, DefaultDa)
two_validators == Config(2, 0, 2, DefaultDa)
validator_and_executor ==
  Config(1, 1, 2, [subnetwork_size |-> 2, dispersal_factor |-> 2, num_subnets |-> 2])
with_node_numbers(v, e) == Config(v, e, v + e, da_params_for(v + e))
validators_and_executor(v, num_subnets, dispersal_factor) ==
  Config(v, 1, v + 1, [subnetwork_size |-> num_subnets, num_subnets |-> num_subnets,
                       dispersal_factor |-> dispersal_factor])

ScenarioInit ==
  /\ phase = "topology" /\ topology = empty
  /\ configurator = [validators |-> 0, executors |-> 0]
  /\ flow = None
  /\ workloads = << >> /\ expectations = << >>
  /\ duration = 0 /\ capabilities = None
  /\ funds = 0
  /\ scenario = None /\ prepared = None /\ remote = None
  /\ calls = 0

\* A call of the builder held in phase p, which leaves all but `changed`.
Calls(p) == phase = p /\ calls < MaxCalls /\ calls' = calls + 1

topoVars == <<topology, configurator, funds>>
partVars == <<flow, workloads, expectations, duration, capabilities>>
doneVars == <<scenario, prepared, remote>>

\* A failed assertion.
Panic == phase' = "panicked" /\ UNCHANGED <<topoVars, partVars, doneVars>>

\* TopologyConfigurator::validators and executors
SetCounts ==
  /\ Calls("topology")
  /\ \E n \in Counts, role \in {"validators", "executors"} :
       configurator' = [configurator EXCEPT ![role] = n]
  /\ configurator'.validators + configurator'.executors <= MaxNodes
  /\ UNCHANGED <<phase, topology, funds, partVars, doneVars>>

\* TopologyConfigurator::apply.  The layout, also network_star(), is only
\* used where LocalDeploy uses it.
ApplyTopology ==
  /\ Calls("topology")
  /\ LET v == configurator.validators
         e == configurator.executors
     IN  IF v + e = 0 THEN Panic
         ELSE /\ phase' = "builder" /\ topology' = with_node_numbers(v, e)
              /\ UNCHANGED <<configurator, funds, partVars, doneVars>>

\* Builder::new with another TopologyConfig.
NewBuilder ==
  /\ Calls("topology")
  /\ phase' = "builder"
  /\ topology' \in {empty, two_validators, validator_and_executor,
                    validators_and_executor(1, 1, 1), validators_and_executor(2, 3, 2)}
  /\ UNCHANGED <<configurator, funds, partVars, doneVars>>

\* map_topology with with_validator_count, with_executor_count or
\* with_node_counts: the parameters stay those of the earlier counts.
MapCounts ==
  /\ Calls("builder")
  /\ \E v \in Counts \cup {topology.n_validators}, e \in Counts \cup {topology.n_executors} :
       /\ v + e <= MaxNodes
       /\ topology' = [topology EXCEPT !.n_validators = v, !.n_executors = e]
  /\ UNCHANGED <<phase, configurator, funds, partVars, doneVars>>

MapIds ==
  /\ Calls("builder")
  /\ \/ \E ids \in IdLists : topology' = [topology EXCEPT !.ids = ids]
     \/ \E n \in PortCounts, list \in {"da_ports", "blend_ports"} :
          topology' = [topology EXCEPT ![list] = n]
  /\ UNCHANGED <<phase, configurator, funds, partVars, doneVars>>

------------------------------------------------------------------------------
(* Wallets, duration, capabilities, expectations.                          *)

\* with_wallet_config(WalletConfig::uniform(total, users))
Seed(total, users) ==
  IF users = 0 \/ total < users THEN Panic
  ELSE /\ topology' = [topology EXCEPT !.wallet = uniform(total, users)]
       /\ funds' = total
       /\ UNCHANGED <<phase, configurator, partVars, doneVars>>

wallets ==
  /\ Calls("builder")
  /\ \E users \in Users : Seed(DEFAULT_FUNDS_PER_WALLET * users, users)

initialize_wallet ==
  /\ Calls("builder")
  /\ \E total \in Funds, users \in Users : Seed(total, users)

with_run_duration ==
  /\ Calls("builder")
  /\ duration' \in Durations
  /\ UNCHANGED <<phase, topoVars, flow, workloads, expectations, capabilities, doneVars>>

\* with_capabilities moves everything else over.
enable_node_control ==
  /\ Calls("builder") /\ capabilities = None
  /\ capabilities' = "node_control"
  /\ UNCHANGED <<phase, topoVars, flow, workloads, expectations, duration, doneVars>>

expect_consensus_liveness ==
  /\ Calls("builder")
  /\ expectations' = Append(expectations, [kind |-> "liveness"])
  /\ UNCHANGED <<phase, topoVars, flow, workloads, duration, capabilities, doneVars>>

------------------------------------------------------------------------------
(* The workload builders.                                                  *)

DefaultTx == [kind |-> "tx", rate |-> 1, users |-> None]
DefaultDaFlow == [kind |-> "da", channel_rate |-> 1, blob_rate |-> 1, headroom_percent |-> 20]
DefaultChaos == [kind |-> "chaos", min_delay |-> 10, max_delay |-> 30,
                 target_cooldown |-> 60, groups |-> {"validators", "executors"}]

\* transactions(), da(), chaos().restart(): the last only with node control.
OpenFlow ==
  /\ Calls("builder")
  /\ phase' = "flow"
  /\ flow' \in {DefaultTx, DefaultDaFlow}
               \cup (IF capabilities = "node_control" THEN {DefaultChaos} ELSE {})
  /\ UNCHANGED <<topoVars, workloads, expectations, duration, capabilities, doneVars>>

\* A setter of the open builder, which panics when its value is zero.
SetFlow(kind, field, values) ==
  /\ Calls("flow") /\ flow.kind = kind
  /\ \E x \in values :
       IF x = 0 THEN Panic
       ELSE /\ flow' = [flow EXCEPT ![field] = x]
            /\ UNCHANGED <<phase, topoVars, workloads, expectations, duration,
                           capabilities, doneVars>>

SetRate == SetFlow("tx", "rate", Rates)
SetUsers == SetFlow("tx", "users", Users)
SetDaRate == \E field \in {"channel_rate", "blob_rate"} : SetFlow("da", field, Rates)
SetDelay ==
  \E field \in {"min_delay", "max_delay", "target_cooldown"} :
    SetFlow("chaos", field, Delays)

\* headroom_percent takes any value.
SetHeadroom ==
  /\ Calls("flow") /\ flow.kind = "da"
  /\ \E percent \in Percents : flow' = [flow EXCEPT !.headroom_percent = percent]
  /\ UNCHANGED <<phase, topoVars, workloads, expectations, duration, capabilities, doneVars>>

\* include_validators, include_executors
SetGroups ==
  /\ Calls("flow") /\ flow.kind = "chaos"
  /\ \E group \in {"validators", "executors"}, enabled \in BOOLEAN :
       flow' = [flow EXCEPT !.groups = IF enabled THEN @ \cup {group} ELSE @ \ {group}]
  /\ UNCHANGED <<phase, topoVars, workloads, expectations, duration, capabilities, doneVars>>

\* Mutant: the expectation is not told of the limit.
expectations_ofUnlimited(w) ==
  CASE w.kind = "tx" -> <<[w EXCEPT !.users = None]>>
    [] w.kind = "da" -> <<w>>
    [] w.kind = "chaos" -> << >>

\* Workload::expectations: made from the workload's settings, chaos has none.
expectations_of(w) == IF w.kind = "chaos" THEN << >> ELSE <<w>>

with_workload(w) ==
  /\ phase' = "builder" /\ flow' = None
  /\ expectations' = expectations \o expectations_of(w)
  /\ workloads' = Append(workloads, w)
  /\ UNCHANGED <<topoVars, duration, capabilities, doneVars>>

ApplyTransactions == Calls("flow") /\ flow.kind = "tx" /\ with_workload(flow)
ApplyDa == Calls("flow") /\ flow.kind = "da" /\ with_workload(flow)

ApplyChaos ==
  /\ Calls("flow") /\ flow.kind = "chaos"
  /\ IF /\ flow.min_delay <= flow.max_delay
        /\ flow.target_cooldown >= flow.min_delay
        /\ flow.groups # {}
     THEN with_workload(flow) ELSE Panic

------------------------------------------------------------------------------
(* build().                                                                *)

\* GeneratedTopology::nodes: the validators, then the executors.
Nodes(t) ==
  [i \in 1 .. t.n_validators + t.n_executors |->
     IF i <= t.n_validators THEN [role |-> "validator", index |-> i - 1]
     ELSE [role |-> "executor", index |-> i - 1 - t.n_validators]]

\* resolve_ids and resolve_ports: given lists must have one entry per node.
Resolved(t) ==
  LET n_participants == t.n_validators + t.n_executors
  IN  /\ n_participants > 0
      /\ t.ids # None => Len(t.ids) = n_participants
      /\ {t.da_ports, t.blend_ports} \subseteq {None, n_participants}

\* GeneratedTopology::slot_duration looks at the validators only.
slot_duration(t) == IF t.n_validators > 0 THEN Slot ELSE None

\* TopologyBuilder::build
Generate(t) ==
  LET ids == IF t.ids # None THEN t.ids
             ELSE SubSeq(RandomIds, 1, t.n_validators + t.n_executors)
  IN  [nodes |-> Nodes(t), ids |-> ids, wallet |-> t.wallet, da |-> t.da,
       participants |-> t.participants, slot |-> slot_duration(t),
       ledger |-> create_consensus_configs(ids, t.wallet),
       declarations |-> create_genesis_tx_with_declarations(
         create_providers(ids, [i \in 1 .. Len(ids) |-> "loopback"])),
       membership |-> create_da_configs(ids, t.da)]

\* At least the time for a few blocks.
enforce_min_duration(t, requested) ==
  Max({requested,
       IF slot_duration(t) = None THEN MIN_EXPECTATION_FALLBACK_SECS
       ELSE slot_duration(t) * MIN_EXPECTATION_BLOCKS})

limited(users, available) == IF users = None THEN available ELSE Min({users, available})

\* The transaction workload's accounts that have a genesis output.
wallet_inputs(g, w) ==
  LET utxo_map == wallet_utxo_map(g.ledger)
      matched == Kept(g.wallet, {i \in DOMAIN g.wallet : g.wallet[i].key \in DOMAIN utxo_map})
      Input(a) == [key |-> a.key, value |-> a.value, output_index |-> utxo_map[a.key]]
  IN  [i \in 1 .. limited(w.users, Len(matched)) |-> Input(matched[i])]

\* The transaction workload's init fails without accounts.
init_ok(g, w) == w.kind = "tx" => g.wallet # << >> /\ wallet_inputs(g, w) # << >>

\* No workload and no expectation fails to initialise.
initialize_components(g) == \A i \in DOMAIN workloads : init_ok(g, workloads[i])

\* The run's duration replaces the requested one.
Build ==
  /\ phase = "builder"
  /\ IF ~Resolved(topology) \/ ~initialize_components(Generate(topology)) THEN Panic
     ELSE /\ phase' = "built"
          /\ scenario' = Generate(topology)
          /\ duration' = enforce_min_duration(topology, duration)
          /\ prepared' = [i \in {j \in DOMAIN workloads : workloads[j].kind = "tx"} |->
                            wallet_inputs(Generate(topology), workloads[i])]
          /\ UNCHANGED <<topoVars, flow, workloads, expectations, capabilities, remote>>
  /\ UNCHANGED calls

------------------------------------------------------------------------------
(* The cfgsync server of a remote deployment.                              *)

\* Mutant: the template's wallet, which is empty, stays.
apply_topology_overridesNoWallet ==
  [n_hosts |-> Len(scenario.nodes), wallet |-> << >>, ids |-> scenario.ids,
   subnetwork_size |-> scenario.da.subnetwork_size,
   dispersal_factor |-> scenario.da.dispersal_factor,
   num_subnets |-> scenario.da.num_subnets]

\* What the descriptors put in the server's configuration file.
apply_topology_overrides ==
  [n_hosts |-> Len(scenario.nodes), wallet |-> scenario.wallet, ids |-> scenario.ids,
   subnetwork_size |-> scenario.da.subnetwork_size,
   dispersal_factor |-> scenario.da.dispersal_factor,
   num_subnets |-> scenario.da.num_subnets]

to_da_params(cfg) ==
  [subnetwork_size |-> cfg.subnetwork_size, dispersal_factor |-> cfg.dispersal_factor,
   num_subnets |-> cfg.num_subnets]

\* The counts of hosts and ids; those of the ports hold by the way
\* apply_topology_overrides fills them in, one for each node.
validate_inputs(cfg, hosts) == Len(hosts) = cfg.n_hosts /\ Len(cfg.ids) = cfg.n_hosts

\* create_node_configs for sorted hosts and the ports the system handed out.
create_node_configs(cfg, hosts, ports) ==
  [hosts |-> hosts, ids |-> cfg.ids, da |-> to_da_params(cfg),
   ledger |-> create_consensus_configs(cfg.ids, cfg.wallet),
   declarations |-> create_genesis_tx_with_declarations(create_providers(cfg.ids, hosts)),
   membership |-> create_da_configs(cfg.ids, to_da_params(cfg)),
   initial_peers |-> rewrite_initial_peers(ports, hosts)]

\* The hosts come in any order from the repo's map, and are sorted.
Serve ==
  /\ phase = "built"
  /\ \E hosts \in {sort_hosts(announced) : announced \in SetToSeqs(ToSet(scenario.nodes))} :
       IF ~validate_inputs(apply_topology_overrides, hosts) THEN Panic
       ELSE /\ phase' = "served"
            /\ \E ports \in [1 .. Len(hosts) -> Ports] :
                 remote' = create_node_configs(apply_topology_overrides, hosts, ports)
            /\ UNCHANGED <<topoVars, partVars, scenario, prepared>>
  /\ UNCHANGED calls

ScenarioNext ==
  \/ SetCounts \/ ApplyTopology \/ NewBuilder \/ MapCounts \/ MapIds
  \/ wallets \/ initialize_wallet \/ with_run_duration
  \/ enable_node_control \/ expect_consensus_liveness
  \/ OpenFlow \/ SetRate \/ SetUsers \/ SetDaRate \/ SetHeadroom \/ SetDelay \/ SetGroups
  \/ ApplyTransactions \/ ApplyDa \/ ApplyChaos
  \/ Build \/ Serve

ScenarioSpec == ScenarioInit /\ [][ScenarioNext]_scenarioVars

------------------------------------------------------------------------------
(* Properties.                                                             *)

\* Generated: the configurations in the test process, and those the nodes have.
Generations == {scenario, remote} \ {None}

\* create_utxos_for_leader_and_services guesses the output index a note will
\* have, and create_genesis_tx_with_declarations locks by it: every node
\* declares both services, each on an output of the genesis ledger that pays
\* the key it signs with, and no output is locked twice, even when ids share
\* the bytes that keys are derived from.
NotesLocked ==
  \A g \in Generations :
    /\ \A k \in DOMAIN g.declarations :
         LET d == g.declarations[k]
         IN  /\ d.locked + 1 \in DOMAIN g.ledger
             /\ g.ledger[d.locked + 1] = [key |-> d.signer, value |-> 1]
             /\ d.signer = <<d.service_type, Head14(d.provider_id)>>
    /\ \A j, k \in DOMAIN g.declarations :
         g.declarations[j].locked = g.declarations[k].locked => j = k
    /\ {<<g.declarations[k].provider_id, g.declarations[k].service_type>> :
           k \in DOMAIN g.declarations} = ToSet(g.ids) \X {"da", "bn"}

\* WalletConfig::uniform splits exactly the funds it is asked to, at least one
\* token each, and the genesis ledger pays all of them.
FundsConserved ==
  \A g \in Generations :
    LET Paid(k) == g.ledger[k].key[1] = "wl"
        sum[k \in 0 .. Len(g.ledger)] ==
          IF k = 0 THEN 0 ELSE sum[k - 1] + IF Paid(k) THEN g.ledger[k].value ELSE 0
    IN  /\ sum[Len(g.ledger)] = funds
        /\ \A k \in DOMAIN g.ledger : Paid(k) => g.ledger[k].value > 0

\* The outputs that the transaction workload prepared to spend, from the
\* descriptors of the test process, exist in the ledger the remote nodes
\* start from, pay the account that will sign, and are spent once.
InputsExist ==
  \A g \in Generations : \A w \in DOMAIN prepared :
    LET inputs == prepared[w]
    IN  /\ g.ledger = scenario.ledger
        /\ \A i \in DOMAIN inputs :
             g.ledger[inputs[i].output_index + 1] =
               [key |-> inputs[i].key, value |-> inputs[i].value]
        /\ \A i, j \in DOMAIN inputs :
             inputs[i].output_index = inputs[j].output_index => i = j

\* create_da_configs leaves no subnetwork that blobs are dispersed to without
\* a member and no node without a subnetwork, whatever the parameters and
\* however the counts were changed after they were chosen.
MembershipCovers ==
  \A g \in Generations :
    /\ 0 .. g.da.num_subnets - 1 \subseteq DOMAIN g.membership
    /\ \A subnet \in DOMAIN g.membership : g.membership[subnet] # {}
    /\ UNION {g.membership[subnet] : subnet \in DOMAIN g.membership} = ToSet(g.ids)

\* The genesis of both generations is sound: its notes are locked once by
\* the nodes that own them, its tokens are the requested funds, and its DA
\* membership covers all nodes and subnetworks.
GenesisSound == NotesLocked /\ FundsConserved /\ MembershipCovers

\* Whatever the order in which hosts announced themselves, the cfgsync server
\* gives each node the identity and the membership that the descriptors of
\* the test process have for it, and declares its services at its own address.
IdentitiesAgree ==
  remote # None =>
    /\ remote.ids = scenario.ids
    /\ remote.hosts = scenario.nodes
    /\ remote.membership = scenario.membership
    /\ \A k \in DOMAIN remote.declarations : \E i \in DOMAIN scenario.nodes :
         /\ remote.declarations[k].provider_id = scenario.ids[i]
         /\ remote.declarations[k].locator = scenario.nodes[i]

\* A scenario that was built passes the validation of the cfgsync server.
BuiltIsServed == phase = "panicked" => scenario = None

\* The peers that rewrite_initial_peers leaves connect all nodes to the first,
\* even when the operating system handed out a port twice.
RemoteConnected ==
  remote # None =>
    \A i \in DOMAIN remote.hosts :
      remote.initial_peers[i] = IF i = 1 THEN {} ELSE {remote.hosts[1]}

\* The remote deployment is the one that was built: the cfgsync server
\* accepts it, gives each node its own identity, and connects them.
RemoteAgrees == BuiltIsServed /\ IdentitiesAgree /\ RemoteConnected

\* submission_plan for a run of the built duration.
submission_plan(rate, available) ==
  LET block == IF scenario.slot = None THEN duration * 100
               ELSE scenario.slot * ActiveSlotCoeff
  IN  Min({(duration * 100 * rate) \div block, available})

\* Every transaction workload of a built scenario has something to submit,
\* and one of the expectations waits for exactly the accounts it will pay.
TransactionPlansAgree ==
  scenario # None =>
    \A w \in DOMAIN prepared :
      LET inputs == prepared[w]
          planned == submission_plan(workloads[w].rate, Len(inputs))
          Tracked(x) == {scenario.wallet[i].key : i \in
            1 .. submission_plan(x.rate, limited(x.users, Len(scenario.wallet)))}
      IN  /\ planned > 0
          /\ \E k \in DOMAIN expectations :
               /\ expectations[k].kind = "tx"
               /\ Tracked(expectations[k]) = {inputs[i].key : i \in 1 .. planned}

\* An attached chaos workload meets what ChaosRestart assumes of its delays.
ChaosFits ==
  \A i \in DOMAIN workloads :
    LET w == workloads[i]
    IN  w.kind = "chaos" =>
          /\ 0 < w.min_delay /\ w.min_delay <= w.max_delay
          /\ w.min_delay <= w.target_cooldown
          /\ w.groups # {}

\* Workloads and expectations fit each other and what their own models
\* assume, in whatever order the builder's calls were made.
PlansAgree == TransactionPlansAgree /\ ChaosFits
==============================================================================
