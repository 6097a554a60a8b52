----------------------------- MODULE NodeConfigs -----------------------------
(***************************************************************************)
(* What the framework generates for a topology: the genesis ledger, the    *)
(* service declarations, the DA membership and the initial peers, as       *)
(* functions of the node ids, the parameters and the wallet.  They run     *)
(* twice for a remote scenario: in the test process, whose descriptors the *)
(* workloads use, and in the cfgsync server, whose result the nodes use.   *)
(*                                                                         *)
(* A node id stands for 32 random bytes: its head is the 14 bytes the key  *)
(* derivation reads, its tail the rest, so two ids may share their keys.   *)
(***************************************************************************)
EXTENDS Integers, Sequences, FiniteSets, SequencesExt, FiniteSetsExt

CONSTANTS
  RandomIds,   \* what thread_rng() fills, one id per node
  PeerRank     \* the order of the ids' PeerIds, which are hashes

Head14(id) == id[1]

\* A stable sort by a set of pairs of positions, the first of which comes
\* before the second: place n goes to the element that n - 1 others precede.
Sorted(s, before) ==
  LET Ahead(i) == {j \in DOMAIN s : <<j, i>> \in before \/ (j < i /\ <<i, j>> \notin before)}
  IN  [n \in DOMAIN s |-> s[CHOOSE i \in DOMAIN s : Cardinality(Ahead(i)) = n - 1]]

\* The elements of s at the given positions, in their order.
Kept(s, positions) ==
  [n \in 1 .. Cardinality(positions) |->
     s[CHOOSE i \in positions : Cardinality({j \in positions : j < i}) = n - 1]]

------------------------------------------------------------------------------
(* Wallet accounts and the genesis ledger.                                 *)

\* WalletConfig::uniform: the first accounts get one token of the remainder each.
uniform(total_funds, users) ==
  [i \in 1 .. users |->
     [key |-> <<"wl", i>>,
      value |-> total_funds \div users + (IF i <= total_funds % users THEN 1 ELSE 0)]]

\* Three notes for each id: for its leader, its DA and its Blend service.
create_utxos_for_leader_and_services(ids) ==
  [k \in 1 .. 3 * Len(ids) |->
     LET id == ids[(k - 1) \div 3 + 1]
     IN  CASE k % 3 = 1 -> [key |-> <<"ld", Head14(id)>>, value |-> 1000]
           [] k % 3 = 2 -> [key |-> <<"da", Head14(id)>>, value |-> 1]
           [] k % 3 = 0 -> [key |-> <<"bn", Head14(id)>>, value |-> 1]]

\* The outputs of the genesis ledger transaction; its hash is a function of them.
create_consensus_configs(ids, wallet) ==
  create_utxos_for_leader_and_services(ids) \o wallet

\* Mutant: the leader's note is not counted.
service_noteUncounted(ids, service, i) ==
  [key |-> <<service, Head14(ids[i])>>,
   output_index |-> 2 * (i - 1) + (IF service = "da" THEN 0 ELSE 1)]

\* The ServiceNote of node i, with the output index it will have.
service_note(ids, service, i) ==
  [key |-> <<service, Head14(ids[i])>>,
   output_index |-> 3 * (i - 1) + (IF service = "da" THEN 1 ELSE 2)]

\* The providers of the genesis: DA, then Blend, each at its node's address.
create_providers(ids, address) ==
  LET Of(service) == [i \in 1 .. Len(ids) |->
        [service_type |-> service, provider_id |-> ids[i], locator |-> address[i],
         note |-> service_note(ids, service, i)]]
  IN  Of("da") \o Of("bn")

\* The SDPDeclare operations, each locking the output of its provider's note,
\* which with the ledger's hash is its id, and signed by the note's key.
create_genesis_tx_with_declarations(providers) ==
  [k \in DOMAIN providers |->
     [service_type |-> providers[k].service_type, provider_id |-> providers[k].provider_id,
      locator |-> providers[k].locator, locked |-> providers[k].note.output_index,
      signer |-> providers[k].note.key]]

\* The output index of each key of the ledger; of several, the last.
wallet_utxo_map(ledger) ==
  [key \in {ledger[k].key : k \in DOMAIN ledger} |->
     Max({k \in DOMAIN ledger : ledger[k].key = key}) - 1]

------------------------------------------------------------------------------
(* DA parameters and membership.                                           *)

\* DaParams::default
DefaultDa == [subnetwork_size |-> 2, dispersal_factor |-> 1, num_subnets |-> 2]

\* TopologyConfig::with_node_numbers
da_params_for(participants) ==
  IF participants <= 1
  THEN [subnetwork_size |-> 1, dispersal_factor |-> 1, num_subnets |-> 1]
  ELSE LET dispersal == Min({participants, Max({DefaultDa.dispersal_factor, 2})})
           size == Max({DefaultDa.subnetwork_size, dispersal})
       IN  [subnetwork_size |-> size, dispersal_factor |-> dispersal, num_subnets |-> size]

effective_subnetwork_size(ids, da) == Max({da.subnetwork_size, Len(ids), 1})

\* Each subnetwork takes the next dispersal_factor peers of the cycle.
create_da_configs(ids, da) ==
  LET sorted_peers == Sorted(ids, {p \in (DOMAIN ids) \X (DOMAIN ids) :
                                     PeerRank[ids[p[1]]] < PeerRank[ids[p[2]]]})
      dispersal == Max({da.dispersal_factor, 1})
      Peer(n) == sorted_peers[(n % Len(sorted_peers)) + 1]
  IN  [subnet \in 0 .. effective_subnetwork_size(ids, da) - 1 |->
         {Peer(subnet * dispersal + k) : k \in 0 .. dispersal - 1}]

------------------------------------------------------------------------------
(* cfgsync: the hosts' order and the peers they dial.                      *)

\* Mutant: the number in the identifier decides before the kind.
sort_hostsByIndex(hosts) ==
  LET Before(a, b) == \/ a.index < b.index
                      \/ a.index = b.index /\ a.role = "validator" /\ b.role = "executor"
  IN  Sorted(hosts, {p \in (DOMAIN hosts) \X (DOMAIN hosts) : Before(hosts[p[1]], hosts[p[2]])})

\* Validators first, each group by the number in its identifier.
sort_hosts(hosts) ==
  LET Before(a, b) == \/ a.role = "validator" /\ b.role = "executor"
                      \/ a.role = b.role /\ a.index < b.index
  IN  Sorted(hosts, {p \in (DOMAIN hosts) \X (DOMAIN hosts) : Before(hosts[p[1]], hosts[p[2]])})

\* Star, the layout of NetworkParams::default: all dial the first node.
star_initial_peers(ports) ==
  [i \in DOMAIN ports |-> IF i = 1 THEN << >> ELSE <<ports[1]>>]

\* The first node with that port, if any.
find_matching_host(port, original_ports) ==
  LET matches == {i \in DOMAIN original_ports : original_ports[i] = port}
  IN  IF matches = {} THEN {} ELSE {Min(matches)}

\* Addresses on the cfgsync host become addresses of the announced hosts.
rewrite_initial_peers(original_ports, hosts) ==
  LET templates == star_initial_peers(original_ports)
      Found(i) == UNION {find_matching_host(port, original_ports) : port \in ToSet(templates[i])}
  IN  [i \in DOMAIN hosts |-> {hosts[j] : j \in Found(i) \ {i}}]

==============================================================================
