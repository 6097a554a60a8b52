---------------------------- MODULE CfgSyncProofs ----------------------------
(***************************************************************************)
(* Proofs about the cfgsync rendezvous, for every set of containers and    *)
(* every number of restarts and address changes: its type invariant, that  *)
(* all running nodes share one view of the network, and that the repo      *)
(* panics on its host count only after an address changed.                 *)
(*                                                                         *)
(* The second part is about ScenarioBuild, what the server's configuration *)
(* is made from: for all topologies, ids, wallets, workloads and any       *)
(* number of builder calls, the genesis is sound, the server generates the *)
(* one that was built, and inputs, plans and expectations fit it.          *)
(***************************************************************************)
EXTENDS CfgSync, ScenarioBuild, FiniteSetTheorems, WellFoundedInduction, TLAPS

\* A script that may still fail has an attempt left.
AttemptInv ==
  \A c \in Client : script[c] \in {"announce", "awaiting", "sleep"} =>
                      attempt[c] < max_attempts

\* Registered hosts carry an address their container has or had.
HostInv ==
  /\ IsFiniteSet(waiting_hosts)
  /\ \A h \in waiting_hosts : h[2] <= addr[h[1]]
  /\ repo = "all_hosts" => Cardinality(waiting_hosts) >= n_hosts

\* Nodes run only on the one answer the repo gives.
AnswerInv == Running # {} => repo = "configured"

\* The inductive invariant.
IInv ==
  /\ TypeOK /\ AttemptInv /\ HostInv /\ AnswerInv
  /\ OneGenesisForAll /\ PanicNeedsMove

\* The initial states satisfy it.
LEMMA InitInv == Init => IInv
<1> SUFFICES ASSUME Init PROVE IInv
  OBVIOUS
<1>1. TypeOK /\ AttemptInv
  BY CfgSyncAssumption DEF Init, TypeOK, AttemptInv
<1>2. HostInv
  BY FS_EmptySet DEF Init, HostInv
<1>3. AnswerInv /\ OneGenesisForAll /\ PanicNeedsMove
  BY DEF Init, AnswerInv, OneGenesisForAll, PanicNeedsMove, Running
<1> QED
  BY <1>1, <1>2, <1>3 DEF IInv

\* Failing scripts, none of them running a node, stay within their attempts.
LEMMA ClientFailsStep ==
  ASSUME IInv, NEW C \in SUBSET Client, ClientFails(C),
         \A c \in C : script[c] \in {"announce", "awaiting"}
  PROVE  /\ script' \in [Client -> {"announce", "awaiting", "sleep", "exited", "node"}]
         /\ attempt' \in [Client -> 0 .. max_attempts]
         /\ AttemptInv'
         /\ Running' = Running
<1>1. ASSUME NEW c \in Client
      PROVE  /\ attempt'[c] \in 0 .. max_attempts
             /\ script'[c] \in {"announce", "awaiting", "sleep", "exited", "node"}
             /\ script'[c] \in {"announce", "awaiting", "sleep"} =>
                  attempt'[c] < max_attempts
             /\ script'[c] = "node" <=> script[c] = "node"
  <2>1. CASE c \in C
    BY <2>1, CfgSyncAssumption DEF ClientFails, IInv, TypeOK, AttemptInv
  <2>2. CASE c \notin C
    BY <2>2 DEF ClientFails, IInv, TypeOK, AttemptInv
  <2> QED
    BY <2>1, <2>2
<1> QED
  BY <1>1 DEF ClientFails, AttemptInv, Running

\* A step that leaves running nodes, addresses and configurations alone
\* disturbs neither their common view nor the reason of a panic.
LEMMA NodesUndisturbed ==
  ASSUME IInv, Running' = Running, UNCHANGED <<addr, config>>,
         Running # {} => repo' = repo,
         \/ waiting_hosts' = waiting_hosts /\ (repo' = "panicked" => repo = "panicked")
         \/ repo' # "panicked"
  PROVE  AnswerInv' /\ OneGenesisForAll' /\ PanicNeedsMove'
<1>1. AnswerInv'
  BY DEF IInv, AnswerInv
<1>2. OneGenesisForAll'
  BY DEF IInv, OneGenesisForAll, HostOf
<1>3. PanicNeedsMove'
  BY DEF IInv, PanicNeedsMove
<1> QED
  BY <1>1, <1>2, <1>3

\* The steps of a container's script.
LEMMA ScriptStepInv ==
  ASSUME IInv, NEW c \in Client,
         ScriptStep(c) \/ ConnectionLost(c)
  PROVE  IInv'
<1>1. CASE Announce(c)
  <2>1. TypeOK' /\ AttemptInv'
    BY <1>1 DEF Announce, HostOf, Host, IInv, TypeOK, AttemptInv
  <2>2. HostInv'
    <3> DEFINE more == waiting_hosts \cup {HostOf(c)}
    <3>1. IsFiniteSet(waiting_hosts) /\ Cardinality(waiting_hosts) \in Nat
      BY FS_CardinalityType DEF IInv, HostInv
    <3>2. /\ IsFiniteSet(more)
          /\ Cardinality(more) = IF HostOf(c) \in waiting_hosts
                                   THEN Cardinality(waiting_hosts)
                                   ELSE Cardinality(waiting_hosts) + 1
      BY <3>1, FS_AddElement
    <3>3. n_hosts \in Nat /\ waiting_hosts' = more /\ UNCHANGED <<repo, addr>>
      BY <1>1, CfgSyncAssumption DEF Announce
    <3>4. addr[c] \in Nat
      BY CfgSyncAssumption DEF IInv, TypeOK
    <3>5. \A h \in more : h[2] <= addr[h[1]]
      BY <3>4 DEF IInv, HostInv, HostOf
    <3> HIDE DEF more
    <3> QED
      BY <3>1, <3>2, <3>3, <3>5 DEF IInv, HostInv
  <2>3. Running' = Running
    BY <1>1 DEF Announce, Running, IInv, TypeOK
  <2> QED
    BY <1>1, <2>1, <2>2, <2>3, NodesUndisturbed DEF Announce, IInv
<1>2. CASE AnnounceRefused(c) \/ ConnectionLost(c)
  <2>1. /\ ClientFails({c}) /\ script[c] \in {"announce", "awaiting"}
        /\ UNCHANGED <<repo, waiting_hosts, addr, config>>
        /\ faults' \in 0 .. MaxFaults
    BY <1>2, CfgSyncAssumption DEF AnnounceRefused, ConnectionLost, IInv, TypeOK
  <2>2. /\ script' \in [Client -> {"announce", "awaiting", "sleep", "exited", "node"}]
        /\ attempt' \in [Client -> 0 .. max_attempts]
        /\ AttemptInv' /\ Running' = Running
    BY <2>1, ClientFailsStep
  <2>3. TypeOK' /\ HostInv'
    BY <2>1, <2>2 DEF IInv, TypeOK, HostInv
  <2> QED
    BY <2>1, <2>2, <2>3, NodesUndisturbed DEF IInv
<1>3. CASE RetryAfterSleep(c) \/ RestartOnFailure(c)
  <2>1. UNCHANGED <<repo, waiting_hosts, addr, config, faults>>
    BY <1>3 DEF RetryAfterSleep, RestartOnFailure
  <2>2. TypeOK' /\ AttemptInv' /\ HostInv'
    BY <1>3, CfgSyncAssumption
       DEF RetryAfterSleep, RestartOnFailure, IInv, TypeOK, AttemptInv, HostInv
  <2>3. Running' = Running
    BY <1>3 DEF RetryAfterSleep, RestartOnFailure, Running, IInv, TypeOK
  <2> QED
    BY <2>1, <2>2, <2>3, NodesUndisturbed DEF IInv
<1> QED
  BY <1>1, <1>2, <1>3 DEF ScriptStep

\* A restarted container no longer runs, and can only move to a new address.
LEMMA RestartStep ==
  ASSUME IInv, NEW c \in Client, Restart(c)
  PROVE  IInv'
<1>1. /\ UNCHANGED <<repo, waiting_hosts>>
      /\ addr' \in [Client -> 0 .. MaxMoves]
      /\ \A d \in Client : addr'[d] >= addr[d] /\ addr[d] \in Nat /\ addr'[d] \in Nat
      /\ \A d \in Client \ {c} : addr'[d] = addr[d] /\ config'[d] = config[d]
  <2>1. addr \in [Client -> 0 .. MaxMoves] /\ config \in [Client -> SUBSET Host]
        /\ MaxMoves \in Nat
    BY CfgSyncAssumption DEF IInv, TypeOK
  <2>2. CASE UNCHANGED addr
    BY <2>1, <2>2 DEF Restart
  <2>3. CASE addr[c] < MaxMoves /\ addr' = [addr EXCEPT ![c] = @ + 1]
    <3>1. addr[c] + 1 \in 0 .. MaxMoves
      BY <2>1, <2>3
    <3> QED
      BY <2>1, <2>3, <3>1 DEF Restart
  <2> QED
    BY <2>2, <2>3 DEF Restart
<1>2. TypeOK' /\ AttemptInv'
  <2>1. max_attempts \in Nat \ {0} /\ faults' \in 0 .. MaxFaults
    BY CfgSyncAssumption DEF Restart, IInv, TypeOK
  <2>2. /\ script' = [script EXCEPT ![c] = "announce"]
        /\ attempt' = [attempt EXCEPT ![c] = 0]
        /\ config' = [config EXCEPT ![c] = {}]
    BY DEF Restart
  <2>3. TypeOK'
    BY <1>1, <2>1, <2>2 DEF IInv, TypeOK
  <2>4. AttemptInv'
    BY <2>1, <2>2 DEF IInv, TypeOK, AttemptInv
  <2> QED
    BY <2>3, <2>4
<1>3. \A h \in waiting_hosts : h[1] \in Client /\ h[2] \in Nat
  BY CfgSyncAssumption DEF IInv, TypeOK, Host
<1>4. HostInv'
  BY <1>1, <1>3 DEF IInv, HostInv
<1>5. Running' = Running \ {c}
  BY DEF Restart, Running, IInv, TypeOK
<1>6. AnswerInv' /\ OneGenesisForAll'
  BY <1>1, <1>5 DEF IInv, AnswerInv, OneGenesisForAll, HostOf, Running
<1>7. PanicNeedsMove'
  BY <1>1, <1>3 DEF IInv, HostInv, PanicNeedsMove
<1> QED
  BY <1>2, <1>4, <1>6, <1>7 DEF IInv

\* More hosts than containers: one of them has moved since it registered.
LEMMA TooManyHosts ==
  ASSUME IInv, Cardinality(waiting_hosts) > n_hosts
  PROVE  \E h \in waiting_hosts : h[2] # addr[h[1]]
<1> SUFFICES ASSUME \A h \in waiting_hosts : h[2] = addr[h[1]]
             PROVE  FALSE
  OBVIOUS
<1> DEFINE f == [h \in waiting_hosts |-> h[1]]
<1>1. \A h \in waiting_hosts : h \in Host /\ h[1] \in Client /\ h = <<h[1], h[2]>>
  BY DEF IInv, TypeOK, Host
<1>2. f \in [waiting_hosts -> Client]
  BY <1>1
<1>3. \A h, k \in waiting_hosts : f[h] = f[k] => h = k
  BY <1>1
<1>4. f \in Injection(waiting_hosts, Client)
  BY <1>2, <1>3 DEF Injection, IsInjective
<1>5. IsFiniteSet(Client) /\ Cardinality(Client) <= n_hosts /\ n_hosts \in Nat
  BY CfgSyncAssumption
<1>6. Cardinality(waiting_hosts) <= Cardinality(Client)
  BY <1>4, <1>5, FS_Injection
<1>7. Cardinality(waiting_hosts) \in Nat /\ Cardinality(Client) \in Nat
  BY <1>5, FS_CardinalityType DEF IInv, HostInv
<1> QED
  BY <1>5, <1>6, <1>7

\* The steps of the repo.
LEMMA RepoStepInv ==
  ASSUME IInv, RepoStep \/ TimeoutElapses
  PROVE  IInv'
<1>1. CASE ServerStarts \/ WaitForHosts \/ TimeoutElapses
  <2>1. /\ UNCHANGED <<waiting_hosts, script, attempt, addr, config, faults>>
        /\ repo \in {"down", "waiting"}
        /\ repo' \in {"waiting", "all_hosts", "timed_out"}
        /\ repo' = "all_hosts" => Cardinality(waiting_hosts) >= n_hosts
    BY <1>1 DEF ServerStarts, WaitForHosts, TimeoutElapses
  <2>2. TypeOK' /\ AttemptInv' /\ HostInv' /\ Running' = Running
    BY <2>1 DEF IInv, TypeOK, AttemptInv, HostInv, Running
  <2>3. Running = {}
    BY <2>1 DEF IInv, AnswerInv
  <2> QED
    BY <2>1, <2>2, <2>3, NodesUndisturbed DEF IInv
<1>2. CASE SendConfigs
  <2>1. Running = {}
    BY <1>2 DEF SendConfigs, IInv, AnswerInv
  <2>2. Running' = Answered
    BY <1>2, <2>1 DEF SendConfigs, Running, Answered, IInv, TypeOK
  <2>3. /\ \A c \in Answered : config'[c] = waiting_hosts /\ HostOf(c) \in waiting_hosts
        /\ Cardinality(waiting_hosts) = n_hosts /\ addr' = addr
    BY <1>2 DEF SendConfigs, ValidInputs, CreateNodeConfigs, Answered, IInv, TypeOK
  <2>4. OneGenesisForAll'
    BY <2>2, <2>3 DEF OneGenesisForAll, HostOf
  <2>5. TypeOK' /\ AttemptInv'
    BY <1>2 DEF SendConfigs, CreateNodeConfigs, Answered, IInv, TypeOK, AttemptInv
  <2>6. HostInv' /\ AnswerInv' /\ PanicNeedsMove'
    BY <1>2, FS_EmptySet DEF SendConfigs, HostInv, AnswerInv, PanicNeedsMove
  <2> QED
    BY <2>4, <2>5, <2>6 DEF IInv
<1>3. CASE ValidationPanics
  <2>1. Cardinality(waiting_hosts) > n_hosts
    BY <1>3, FS_CardinalityType, CfgSyncAssumption DEF ValidationPanics, ValidInputs, IInv, HostInv
  <2>2. PanicNeedsMove'
    BY <1>3, <2>1, TooManyHosts DEF ValidationPanics, PanicNeedsMove
  <2>3. Running = {} /\ Running' = {}
    BY <1>3 DEF ValidationPanics, IInv, AnswerInv, Running
  <2>4. AnswerInv' /\ OneGenesisForAll'
    BY <2>3 DEF AnswerInv, OneGenesisForAll
  <2>5. TypeOK' /\ AttemptInv' /\ HostInv'
    BY <1>3 DEF ValidationPanics, IInv, TypeOK, AttemptInv, HostInv
  <2> QED
    BY <2>2, <2>4, <2>5 DEF IInv
<1>4. CASE SendTimeouts
  <2>1. /\ ClientFails(Answered) /\ Answered \in SUBSET Client
        /\ \A c \in Answered : script[c] \in {"announce", "awaiting"}
        /\ repo' = "expired" /\ waiting_hosts' = {}
        /\ UNCHANGED <<addr, config, faults>>
    BY <1>4 DEF SendTimeouts, Answered
  <2>2. /\ script' \in [Client -> {"announce", "awaiting", "sleep", "exited", "node"}]
        /\ attempt' \in [Client -> 0 .. max_attempts]
        /\ AttemptInv' /\ Running' = Running
    BY <2>1, ClientFailsStep
  <2>3. TypeOK' /\ HostInv'
    BY <2>1, <2>2, FS_EmptySet DEF IInv, TypeOK, HostInv
  <2>4. Running = {}
    BY <1>4 DEF SendTimeouts, IInv, AnswerInv
  <2> QED
    BY <2>1, <2>2, <2>3, <2>4, NodesUndisturbed DEF IInv
<1> QED
  BY <1>1, <1>2, <1>3, <1>4 DEF RepoStep

\* Every step preserves the inductive invariant.
LEMMA NextInv == IInv /\ [Next]_vars => IInv'
<1> SUFFICES ASSUME IInv, [Next]_vars PROVE IInv'
  OBVIOUS
<1>1. CASE RepoStep \/ TimeoutElapses
  BY <1>1, RepoStepInv
<1>2. CASE \E c \in Client : ScriptStep(c) \/ ConnectionLost(c)
  BY <1>2, ScriptStepInv
<1>3. CASE \E c \in Client : Restart(c)
  BY <1>3, RestartStep
<1>4. CASE UNCHANGED vars
  BY <1>4 DEF vars, IInv, TypeOK, AttemptInv, HostInv, AnswerInv,
     OneGenesisForAll, PanicNeedsMove, Running, HostOf
<1> QED
  BY <1>1, <1>2, <1>3, <1>4 DEF Next

\* The inductive invariant holds throughout.
LEMMA Invariance == Spec => []IInv
  BY InitInv, NextInv, PTL DEF Spec

\* The variables of the rendezvous always have their types.
THEOREM TypeCorrect == Spec => []TypeOK
<1>1. IInv => TypeOK
  BY DEF IInv
<1> QED
  BY <1>1, Invariance, PTL

\* All running nodes were configured from the same n_hosts hosts, each under
\* the address it has, whatever restarts, moves and lost connections happen.
THEOREM OneGenesis == Spec => []OneGenesisForAll
<1>1. IInv => OneGenesisForAll
  BY DEF IInv
<1> QED
  BY <1>1, Invariance, PTL

\* The host count is wrong only after an announced address was lost.
THEOREM PanicIsAMove == Spec => []PanicNeedsMove
<1>1. IInv => PanicNeedsMove
  BY DEF IInv
<1> QED
  BY <1>1, Invariance, PTL

------------------------------------------------------------------------------
(* Facts about numbers, sets and sorting.                                  *)

\* A non-empty set of natural numbers has a least one.
LEMMA LeastNat ==
  ASSUME NEW S \in SUBSET Nat, S # {}
  PROVE  \E x \in S : \A y \in S : x <= y
<1> DEFINE R == {p \in Nat \X Nat : p[1] < p[2]}
<1>1. R = OpToRel(<, Nat)
  BY DEF OpToRel
<1>2. IsWellFoundedOn(R, Nat)
  BY <1>1, NatLessThanWellFounded
<1> HIDE DEF R
<1>3. PICK x \in S : \A y \in S : ~ (<<y, x>> \in R)
  BY <1>2, WFMin
<1>4. \A y \in S : ~ (y < x)
  BY <1>3 DEF R
<1> QED
  BY <1>4

\* The greater and the smaller of two numbers.
LEMMA OfTwo ==
  ASSUME NEW a \in Nat, NEW b \in Nat
  PROVE  /\ Max({a, b}) \in {a, b} /\ Max({a, b}) >= a /\ Max({a, b}) >= b
         /\ Min({a, b}) \in {a, b} /\ Min({a, b}) <= a /\ Min({a, b}) <= b
<1>1. \E x \in {a, b} : \A y \in {a, b} : x >= y
  <2>1. CASE a >= b
    BY <2>1
  <2>2. CASE b >= a
    BY <2>2
  <2> QED
    BY <2>1, <2>2
<1>2. \E x \in {a, b} : \A y \in {a, b} : x =< y
  <2>1. CASE a >= b
    BY <2>1
  <2>2. CASE b >= a
    BY <2>2
  <2> QED
    BY <2>1, <2>2
<1>3. Max({a, b}) \in {a, b} /\ \A y \in {a, b} : Max({a, b}) >= y
  BY <1>1 DEF Max
<1>4. Min({a, b}) \in {a, b} /\ \A y \in {a, b} : Min({a, b}) =< y
  BY <1>2 DEF Min
<1> QED
  BY <1>3, <1>4

\* The effective size of the subnetworks counts the nodes.
LEMMA EffectiveSize ==
  ASSUME NEW a \in Nat, NEW b \in Nat
  PROVE  Max({a, b, 1}) \in Nat /\ Max({a, b, 1}) >= a /\ Max({a, b, 1}) >= b /\ Max({a, b, 1}) >= 1
<1>1. \E x \in {a, b, 1} : \A y \in {a, b, 1} : x >= y
  <2>1. CASE a >= b /\ a >= 1
    BY <2>1
  <2>2. CASE b >= a /\ b >= 1
    BY <2>2
  <2>3. CASE a = 0 /\ b = 0
    BY <2>3
  <2> QED
    BY <2>1, <2>2, <2>3
<1>2. Max({a, b, 1}) \in {a, b, 1} /\ \A y \in {a, b, 1} : Max({a, b, 1}) >= y
  BY <1>1 DEF Max
<1> QED
  BY <1>2

\* In a strict total order on n positions, some position has m - 1 others
\* ahead of it, for each m up to n.
LEMMA PlacesTaken ==
  ASSUME NEW n \in Nat, NEW ahead \in [1 .. n -> SUBSET (1 .. n)],
         \A i \in 1 .. n : i \notin ahead[i],
         \A i, j \in 1 .. n : j \in ahead[i] => ahead[j] \subseteq ahead[i],
         \A i, j \in 1 .. n : i = j \/ i \in ahead[j] \/ j \in ahead[i]
  PROVE  \A m \in 1 .. n : \E i \in 1 .. n : Cardinality(ahead[i]) = m - 1
<1> DEFINE place == [i \in 1 .. n |-> Cardinality(ahead[i]) + 1]
<1>1. IsFiniteSet(1 .. n) /\ Cardinality(1 .. n) = n
  BY FS_Interval
<1>2. ASSUME NEW i \in 1 .. n
      PROVE  /\ IsFiniteSet(ahead[i]) /\ Cardinality(ahead[i]) \in Nat
             /\ Cardinality(ahead[i]) < n
  <2>1. ahead[i] \in SUBSET (1 .. n) /\ ahead[i] # 1 .. n
    OBVIOUS
  <2>2. IsFiniteSet(ahead[i]) /\ Cardinality(ahead[i]) <= n /\ Cardinality(ahead[i]) # n
    BY <1>1, <2>1, FS_Subset
  <2>3. Cardinality(ahead[i]) \in Nat
    BY <2>2, FS_CardinalityType
  <2> QED
    BY <2>2, <2>3
<1>3. place \in [1 .. n -> 1 .. n]
  BY <1>2
<1>4. ASSUME NEW i \in 1 .. n, NEW j \in 1 .. n, i \in ahead[j]
      PROVE  place[i] # place[j]
  <2>1. ahead[i] \in SUBSET ahead[j] /\ ahead[i] # ahead[j]
    BY <1>4
  <2>2. Cardinality(ahead[i]) # Cardinality(ahead[j])
    BY <1>2, <2>1, FS_Subset
  <2> QED
    BY <1>2, <2>2
<1>5. place \in Injection(1 .. n, 1 .. n)
  <2>1. \A i, j \in 1 .. n : place[i] = place[j] => i = j
    BY <1>4
  <2> HIDE DEF place
  <2> QED
    BY <1>3, <2>1 DEF Injection, IsInjective
<1> HIDE DEF place
<1>6. place \in Surjection(1 .. n, 1 .. n)
  BY <1>1, <1>5, FS_Injection
<1>7. SUFFICES ASSUME NEW m \in 1 .. n PROVE \E i \in 1 .. n : Cardinality(ahead[i]) = m - 1
  OBVIOUS
<1>8. PICK i \in 1 .. n : place[i] = m
  BY <1>6 DEF Surjection
<1> QED
  BY <1>2, <1>8 DEF place

\* The order of the peers.
PeersBefore(ids) ==
  {p \in (DOMAIN ids) \X (DOMAIN ids) : PeerRank[ids[p[1]]] < PeerRank[ids[p[2]]]}

\* Sorting the peers loses none and adds none.
LEMMA PeersSorted ==
  ASSUME NEW ids \in Seq(DOMAIN PeerRank)
  PROVE  /\ Sorted(ids, PeersBefore(ids)) \in Seq(ToSet(ids))
         /\ Len(Sorted(ids, PeersBefore(ids))) = Len(ids)
         /\ \A x \in ToSet(ids) : \E m \in 1 .. Len(ids) : Sorted(ids, PeersBefore(ids))[m] = x
<1> DEFINE n == Len(ids)
           before == PeersBefore(ids)
           rank == [i \in 1 .. n |-> PeerRank[ids[i]]]
           Ahead(i) == {j \in DOMAIN ids : \/ <<j, i>> \in before
                                           \/ j < i /\ <<i, j>> \notin before}
           ahead == [i \in 1 .. n |-> Ahead(i)]
           Spot(m) == CHOOSE i \in DOMAIN ids : Cardinality(Ahead(i)) = m - 1
<1>1. n \in Nat /\ DOMAIN ids = 1 .. n /\ rank \in [1 .. n -> Nat]
  BY BuildAssumption
<1>2. \A i, j \in 1 .. n : <<j, i>> \in before <=> rank[j] < rank[i]
  BY <1>1 DEF PeersBefore
<1> HIDE DEF before, rank
<1>3. \A i, j \in 1 .. n : j \in ahead[i] <=> (rank[j] < rank[i] \/ (j < i /\ rank[j] = rank[i]))
  <2> SUFFICES ASSUME NEW i \in 1 .. n, NEW j \in 1 .. n
               PROVE  j \in ahead[i] <=> (rank[j] < rank[i] \/ (j < i /\ rank[j] = rank[i]))
    OBVIOUS
  <2>1. rank[i] \in Nat /\ rank[j] \in Nat
    BY <1>1
  <2>2. j \in ahead[i] <=> (rank[j] < rank[i] \/ (j < i /\ ~ (rank[i] < rank[j])))
    BY <1>1, <1>2
  <2> QED
    BY <2>1, <2>2
<1>4. \A m \in 1 .. n : \E i \in 1 .. n : Cardinality(ahead[i]) = m - 1
  <2>1. ahead \in [1 .. n -> SUBSET (1 .. n)]
    OBVIOUS
  <2> HIDE DEF ahead
  <2>2. \A i \in 1 .. n : i \notin ahead[i]
    BY <1>1, <1>3
  <2>3. \A i, j \in 1 .. n : j \in ahead[i] => ahead[j] \subseteq ahead[i]
    <3> SUFFICES ASSUME NEW i \in 1 .. n, NEW j \in 1 .. n, j \in ahead[i],
                        NEW k \in ahead[j]
                 PROVE  k \in ahead[i]
      OBVIOUS
    <3>1. k \in 1 .. n
      BY <2>1
    <3>2. rank[i] \in Nat /\ rank[j] \in Nat /\ rank[k] \in Nat
      BY <1>1, <3>1
    <3>3. /\ rank[j] < rank[i] \/ (j < i /\ rank[j] = rank[i])
          /\ rank[k] < rank[j] \/ (k < j /\ rank[k] = rank[j])
      BY <1>3, <3>1
    <3>4. rank[k] < rank[i] \/ (k < i /\ rank[k] = rank[i])
      BY <1>1, <3>1, <3>2, <3>3
    <3> QED
      BY <1>3, <3>1, <3>4
  <2>4. \A i, j \in 1 .. n : i = j \/ i \in ahead[j] \/ j \in ahead[i]
    BY <1>1, <1>3
  <2> QED
    BY <1>1, <2>1, <2>2, <2>3, <2>4, PlacesTaken
<1>5. Sorted(ids, before) = [m \in 1 .. n |-> ids[Spot(m)]]
  BY <1>1 DEF Sorted
<1>6. \A m \in 1 .. n : Spot(m) \in 1 .. n /\ Cardinality(ahead[Spot(m)]) = m - 1
  <2> SUFFICES ASSUME NEW m \in 1 .. n
               PROVE  Spot(m) \in 1 .. n /\ Cardinality(ahead[Spot(m)]) = m - 1
    OBVIOUS
  <2>1. \E i \in DOMAIN ids : Cardinality(Ahead(i)) = m - 1
    BY <1>1, <1>4
  <2>2. Spot(m) \in DOMAIN ids /\ Cardinality(Ahead(Spot(m))) = m - 1
    BY <2>1
  <2> HIDE DEF Spot, Ahead
  <2> QED
    BY <1>1, <2>2
<1> HIDE DEF Spot, Ahead, ahead
<1>7. ASSUME NEW x \in ToSet(ids)
      PROVE  \E m \in 1 .. n : ids[Spot(m)] = x
  <2>1. PICK i \in 1 .. n : ids[i] = x
    BY <1>1 DEF ToSet
  <2> DEFINE f == [m \in 1 .. n |-> Spot(m)]
  <2>2. f \in Injection(1 .. n, 1 .. n)
    <3>1. \A m, k \in 1 .. n : Spot(m) = Spot(k) => m = k
      <4> SUFFICES ASSUME NEW m \in 1 .. n, NEW k \in 1 .. n, Spot(m) = Spot(k) PROVE m = k
        OBVIOUS
      <4>1. m - 1 = k - 1
        BY <1>6
      <4> QED
        BY <1>1, <4>1
    <3>2. f \in [1 .. n -> 1 .. n] /\ \A m \in 1 .. n : f[m] = Spot(m)
      BY <1>6
    <3> HIDE DEF f
    <3> QED
      BY <3>1, <3>2 DEF Injection, IsInjective
  <2>3. f \in Surjection(1 .. n, 1 .. n)
    BY <1>1, <2>2, FS_Injection, FS_Interval
  <2>4. PICK m \in 1 .. n : Spot(m) = i
    BY <2>3 DEF Surjection
  <2> QED
    BY <2>1, <2>4
<1>8. \A m \in 1 .. n : ids[Spot(m)] \in ToSet(ids)
  BY <1>1, <1>6 DEF ToSet
<1> DEFINE sp == [m \in 1 .. n |-> ids[Spot(m)]]
<1>9. sp \in Seq(ToSet(ids)) /\ Len(sp) = n
  BY <1>1, <1>8
<1> QED
  BY <1>5, <1>7, <1>9 DEF before

------------------------------------------------------------------------------
(* The DA membership.                                                      *)

\* Quotients are rounded down.
LEMMA Quotient ==
  ASSUME NEW x \in Nat, NEW m \in Nat \ {0}
  PROVE  /\ x \div m \in Nat /\ x % m \in 0 .. m - 1
         /\ x = (x \div m) * m + (x % m)
         /\ x \div m <= x
<1> DEFINE q == x \div m
           r == x % m
<1>1. q \in Int /\ r \in 0 .. m - 1 /\ x = m * q + r
  OBVIOUS
<1> HIDE DEF q, r
<1>2. m * q \in Int /\ m * q = q * m
  BY <1>1
<1>3. q \in Nat
  <2>1. CASE q <= -1
    <3>1. m * q <= m * (-1)
      BY <1>1, <2>1
    <3> QED
      BY <1>1, <1>2, <3>1
  <2> QED
    BY <1>1, <2>1
<1>4. q <= m * q
  BY <1>1, <1>3
<1>5. q <= x
  BY <1>1, <1>2, <1>3, <1>4
<1> QED
  BY <1>1, <1>2, <1>3, <1>5 DEF q, r

\* Parameters under which blobs go to subnetworks that exist.
DaParams ==
  {da \in [subnetwork_size : Nat, dispersal_factor : Nat, num_subnets : Nat] :
     da.num_subnets <= da.subnetwork_size}

\* The DA membership has a member for each subnetwork and a subnetwork for
\* each node.
Covers(membership, ids, da) ==
  /\ 0 .. da.num_subnets - 1 \subseteq DOMAIN membership
  /\ \A subnet \in DOMAIN membership : membership[subnet] # {}
  /\ UNION {membership[subnet] : subnet \in DOMAIN membership} = ToSet(ids)

\* create_da_configs makes such a membership.
LEMMA DaConfigsCover ==
  ASSUME NEW ids \in Seq(DOMAIN PeerRank), Len(ids) > 0, NEW da \in DaParams
  PROVE  Covers(create_da_configs(ids, da), ids, da)
<1> DEFINE n == Len(ids)
           sorted_peers == Sorted(ids, PeersBefore(ids))
           dispersal == Max({da.dispersal_factor, 1})
           size == effective_subnetwork_size(ids, da)
           Peer(k) == sorted_peers[(k % Len(sorted_peers)) + 1]
           members == [subnet \in 0 .. size - 1 |->
                         {Peer(subnet * dispersal + k) : k \in 0 .. dispersal - 1}]
<1>1. create_da_configs(ids, da) = members
  BY DEF create_da_configs, PeersBefore
<1>2. n \in Nat \ {0} /\ dispersal \in Nat \ {0}
  BY OfTwo DEF DaParams
<1>3. size \in Nat /\ size >= n /\ size >= da.num_subnets /\ da.num_subnets \in Nat
  <2>1. da.subnetwork_size \in Nat /\ da.num_subnets \in Nat /\ da.num_subnets <= da.subnetwork_size
    BY DEF DaParams
  <2>2. size \in Nat /\ size >= n /\ size >= da.subnetwork_size
    BY <1>2, <2>1, EffectiveSize DEF effective_subnetwork_size
  <2> HIDE DEF size
  <2> QED
    BY <1>2, <2>1, <2>2
<1>4. /\ Len(sorted_peers) = n
      /\ \A m \in 1 .. n : sorted_peers[m] \in ToSet(ids)
      /\ \A x \in ToSet(ids) : \E m \in 1 .. n : sorted_peers[m] = x
  BY PeersSorted
<1> HIDE DEF n, sorted_peers, dispersal, size
<1>5. ASSUME NEW k \in Nat PROVE Peer(k) \in ToSet(ids)
  <2>1. (k % n) + 1 \in 1 .. n
    BY <1>2
  <2> QED
    BY <1>4, <2>1
<1>6. ASSUME NEW subnet \in 0 .. size - 1, NEW k \in 0 .. dispersal - 1
      PROVE  subnet * dispersal + k \in Nat
  BY <1>2, <1>3
<1>7. ASSUME NEW x \in ToSet(ids)
      PROVE  \E subnet \in 0 .. size - 1, k \in 0 .. dispersal - 1 :
               Peer(subnet * dispersal + k) = x
  <2>1. PICK m \in 1 .. n : sorted_peers[m] = x
    BY <1>4
  <2> DEFINE q == (m - 1) \div dispersal
             r == (m - 1) % dispersal
  <2>2. m - 1 \in Nat /\ m - 1 < n /\ (m - 1) % n = m - 1
    BY <1>2
  <2>3. q \in Nat /\ r \in 0 .. dispersal - 1 /\ q * dispersal + r = m - 1 /\ q <= m - 1
    BY <1>2, <2>2, Quotient
  <2> HIDE DEF q, r
  <2>4. q \in 0 .. size - 1
    BY <1>2, <1>3, <2>2, <2>3
  <2>5. Peer(q * dispersal + r) = x
    BY <1>2, <1>4, <2>1, <2>2, <2>3
  <2> QED
    BY <2>3, <2>4, <2>5
<1> HIDE DEF Peer
<1>8. 0 .. da.num_subnets - 1 \subseteq DOMAIN members /\ DOMAIN members = 0 .. size - 1
  BY <1>3
<1>9. \A subnet \in DOMAIN members : members[subnet] # {}
  <2>1. 0 \in 0 .. dispersal - 1
    BY <1>2
  <2> QED
    BY <2>1
<1>10. UNION {members[subnet] : subnet \in DOMAIN members} = ToSet(ids)
  <2>1. \A subnet \in 0 .. size - 1 : members[subnet] \subseteq ToSet(ids)
    BY <1>5, <1>6
  <2>2. \A x \in ToSet(ids) : \E subnet \in 0 .. size - 1 : x \in members[subnet]
    BY <1>7
  <2> HIDE DEF members
  <2> QED
    BY <1>8, <2>1, <2>2
<1> QED
  BY <1>1, <1>8, <1>9, <1>10 DEF Covers

------------------------------------------------------------------------------
(* The genesis ledger and its declarations.                                *)

\* Joining two sequences.
LEMMA Joined ==
  ASSUME NEW m \in Nat, NEW n \in Nat, NEW s, NEW t, NEW S, NEW T,
         s \in [1 .. m -> S], t \in [1 .. n -> T]
  PROVE  /\ s \o t \in Seq(S \cup T)
         /\ Len(s \o t) = m + n /\ DOMAIN (s \o t) = 1 .. m + n
         /\ \A i \in 1 .. m : (s \o t)[i] = s[i]
         /\ \A i \in 1 .. n : (s \o t)[m + i] = t[i]
<1>1. s \in Seq(S \cup T) /\ t \in Seq(S \cup T) /\ Len(s) = m /\ Len(t) = n
  OBVIOUS
<1> QED
  BY <1>1

\* The service notes of node i.
LEMMA NodeNotes ==
  ASSUME NEW ids \in Seq(DOMAIN PeerRank), NEW i \in 1 .. Len(ids)
  PROVE  /\ create_utxos_for_leader_and_services(ids)[3 * (i - 1) + 2] =
              [key |-> <<"da", Head14(ids[i])>>, value |-> 1]
         /\ create_utxos_for_leader_and_services(ids)[3 * (i - 1) + 3] =
              [key |-> <<"bn", Head14(ids[i])>>, value |-> 1]
<1> DEFINE da == 3 * (i - 1) + 2
           bn == 3 * (i - 1) + 3
<1>1. /\ da \in 1 .. 3 * Len(ids) /\ i = (da - 1) \div 3 + 1 /\ da % 3 = 2
      /\ bn \in 1 .. 3 * Len(ids) /\ i = (bn - 1) \div 3 + 1 /\ bn % 3 = 0
  OBVIOUS
<1> HIDE DEF da, bn
<1>2. create_utxos_for_leader_and_services(ids)[da] =
        [key |-> <<"da", Head14(ids[i])>>, value |-> 1]
  BY <1>1 DEF create_utxos_for_leader_and_services
<1>3. create_utxos_for_leader_and_services(ids)[bn] =
        [key |-> <<"bn", Head14(ids[i])>>, value |-> 1]
  BY <1>1 DEF create_utxos_for_leader_and_services
<1> QED
  BY <1>2, <1>3 DEF da, bn

\* It is a note of some node.
LEMMA NoteOfNode ==
  ASSUME NEW ids \in Seq(DOMAIN PeerRank), NEW k \in 1 .. 3 * Len(ids)
  PROVE  create_utxos_for_leader_and_services(ids)[k] \in
           [key : {"ld", "da", "bn"} \X {Head14(ids[i]) : i \in 1 .. Len(ids)}, value : {1, 1000}]
<1> DEFINE i == (k - 1) \div 3 + 1
<1>1. i \in 1 .. Len(ids) /\ k % 3 \in 0 .. 2
  OBVIOUS
<1>2. create_utxos_for_leader_and_services(ids)[k] \in
        {[key |-> <<"ld", Head14(ids[i])>>, value |-> 1000],
         [key |-> <<"da", Head14(ids[i])>>, value |-> 1],
         [key |-> <<"bn", Head14(ids[i])>>, value |-> 1]}
  <2>1. CASE k % 3 = 1
    BY <2>1 DEF create_utxos_for_leader_and_services
  <2>2. CASE k % 3 = 2
    BY <2>2 DEF create_utxos_for_leader_and_services
  <2>3. CASE k % 3 = 0
    BY <2>3 DEF create_utxos_for_leader_and_services
  <2> QED
    BY <1>1, <2>1, <2>2, <2>3
<1> HIDE DEF i
<1> QED
  BY <1>1, <1>2

\* An account of a wallet: its key is its own, and it has tokens.
Account == [key : {"wl"} \X Nat, value : Nat \ {0}]

\* The ledger lists the nodes' notes, then the accounts.
LEMMA LedgerFacts ==
  ASSUME NEW ids \in Seq(DOMAIN PeerRank), NEW wallet \in Seq(Account)
  PROVE  LET ledger == create_consensus_configs(ids, wallet)
             n == Len(ids)
         IN  /\ Len(ledger) = 3 * n + Len(wallet) /\ DOMAIN ledger = 1 .. 3 * n + Len(wallet)
             /\ \A i \in 1 .. n :
                  /\ ledger[3 * (i - 1) + 2] = [key |-> <<"da", Head14(ids[i])>>, value |-> 1]
                  /\ ledger[3 * (i - 1) + 3] = [key |-> <<"bn", Head14(ids[i])>>, value |-> 1]
             /\ \A k \in 1 .. 3 * n : ledger[k].key[1] # "wl"
             /\ \A i \in 1 .. Len(wallet) : ledger[3 * n + i] = wallet[i]
<1> DEFINE utxos == create_utxos_for_leader_and_services(ids)
           ledger == create_consensus_configs(ids, wallet)
           n == Len(ids)
           Note == [key : {"ld", "da", "bn"} \X {Head14(ids[i]) : i \in 1 .. n}, value : {1, 1000}]
<1>1. n \in Nat /\ 3 * n \in Nat /\ Len(wallet) \in Nat /\ wallet \in [1 .. Len(wallet) -> Account]
  OBVIOUS
<1>2. utxos \in [1 .. 3 * n -> Note]
  <2>1. utxos = [k \in 1 .. 3 * n |-> utxos[k]]
    BY DEF create_utxos_for_leader_and_services
  <2>2. \A k \in 1 .. 3 * n : utxos[k] \in Note
    BY NoteOfNode
  <2> HIDE DEF utxos, Note
  <2> QED
    BY <2>1, <2>2
<1>3. ledger = utxos \o wallet
  BY DEF create_consensus_configs
<1> HIDE DEF utxos, ledger, Note
<1> DEFINE m == 3 * n
           w == Len(wallet)
<1>4. m \in Nat /\ w \in Nat /\ utxos \in [1 .. m -> Note] /\ wallet \in [1 .. w -> Account]
  BY <1>1, <1>2
<1> HIDE DEF m, w
<1>5. /\ Len(ledger) = m + w /\ DOMAIN ledger = 1 .. m + w
      /\ \A k \in 1 .. m : ledger[k] = utxos[k]
      /\ \A i \in 1 .. w : ledger[m + i] = wallet[i]
  <2>1. /\ Len(utxos \o wallet) = m + w /\ DOMAIN (utxos \o wallet) = 1 .. m + w
        /\ \A i \in 1 .. m : (utxos \o wallet)[i] = utxos[i]
        /\ \A i \in 1 .. w : (utxos \o wallet)[m + i] = wallet[i]
    BY <1>4, Joined
  <2> QED
    BY <1>3, <2>1
<1>6. \A k \in 1 .. m : ledger[k].key[1] # "wl"
  <2> SUFFICES ASSUME NEW k \in 1 .. m PROVE ledger[k].key[1] # "wl"
    OBVIOUS
  <2>1. ledger[k] \in Note
    BY <1>4, <1>5
  <2>2. ledger[k].key \in {"ld", "da", "bn"} \X {Head14(ids[i]) : i \in 1 .. n}
    BY <2>1 DEF Note
  <2>3. ledger[k].key[1] \in {"ld", "da", "bn"}
    BY <2>2
  <2> QED
    BY <2>3
<1>7. ASSUME NEW i \in 1 .. n
      PROVE  /\ ledger[3 * (i - 1) + 2] = [key |-> <<"da", Head14(ids[i])>>, value |-> 1]
             /\ ledger[3 * (i - 1) + 3] = [key |-> <<"bn", Head14(ids[i])>>, value |-> 1]
  <2>1. 3 * (i - 1) + 2 \in 1 .. m /\ 3 * (i - 1) + 3 \in 1 .. m
    BY <1>1 DEF m
  <2>2. /\ ledger[3 * (i - 1) + 2] = utxos[3 * (i - 1) + 2]
        /\ ledger[3 * (i - 1) + 3] = utxos[3 * (i - 1) + 3]
    BY <1>5, <2>1
  <2> QED
    BY <2>2, NodeNotes DEF utxos
<1> QED
  BY <1>5, <1>6, <1>7 DEF ledger, m, w

\* The declaration of a service of node i.
Declared(ids, address, service, i) ==
  [service_type |-> service, provider_id |-> ids[i], locator |-> address[i],
   locked |-> 3 * (i - 1) + (IF service = "da" THEN 1 ELSE 2),
   signer |-> <<service, Head14(ids[i])>>]

\* The declarations are those of the DA services, then those of Blend.
LEMMA DeclarationFacts ==
  ASSUME NEW ids \in Seq(DOMAIN PeerRank), NEW address
  PROVE  LET declarations == create_genesis_tx_with_declarations(create_providers(ids, address))
             n == Len(ids)
         IN  /\ DOMAIN declarations = 1 .. n + n
             /\ \A i \in 1 .. n : /\ declarations[i] = Declared(ids, address, "da", i)
                                  /\ declarations[n + i] = Declared(ids, address, "bn", i)
<1> DEFINE n == Len(ids)
           Provider(service, i) ==
             [service_type |-> service, provider_id |-> ids[i], locator |-> address[i],
              note |-> service_note(ids, service, i)]
           s == [i \in 1 .. n |-> Provider("da", i)]
           t == [i \in 1 .. n |-> Provider("bn", i)]
           providers == create_providers(ids, address)
<1>1. n \in Nat
  OBVIOUS
<1>2. providers = s \o t
  BY DEF create_providers
<1> DEFINE S == {Provider("da", i) : i \in 1 .. n}
           T == {Provider("bn", i) : i \in 1 .. n}
<1>3. s \in [1 .. n -> S] /\ t \in [1 .. n -> T]
  OBVIOUS
<1>4. /\ \A i \in 1 .. n : s[i] = Provider("da", i)
      /\ \A i \in 1 .. n : t[i] = Provider("bn", i)
  OBVIOUS
<1> HIDE DEF n, s, t, S, T, providers, Provider
<1>5. /\ DOMAIN (s \o t) = 1 .. n + n
      /\ \A i \in 1 .. n : (s \o t)[i] = s[i]
      /\ \A i \in 1 .. n : (s \o t)[n + i] = t[i]
  BY <1>1, <1>3, Joined
<1>6. /\ DOMAIN providers = 1 .. n + n
      /\ \A i \in 1 .. n : /\ providers[i] = Provider("da", i)
                           /\ providers[n + i] = Provider("bn", i)
  BY <1>2, <1>4, <1>5
<1> DEFINE declarations == create_genesis_tx_with_declarations(providers)
           Declare(p) == [service_type |-> p.service_type, provider_id |-> p.provider_id,
                          locator |-> p.locator, locked |-> p.note.output_index,
                          signer |-> p.note.key]
<1>7. /\ DOMAIN declarations = 1 .. n + n
      /\ \A k \in 1 .. n + n : declarations[k] = Declare(providers[k])
  BY <1>6 DEF create_genesis_tx_with_declarations
<1>8. \A i \in 1 .. n : /\ Declare(Provider("da", i)) = Declared(ids, address, "da", i)
                        /\ Declare(Provider("bn", i)) = Declared(ids, address, "bn", i)
  BY DEF Provider, Declared, service_note
<1> HIDE DEF declarations, Declare
<1>9. \A i \in 1 .. n : i \in 1 .. n + n /\ n + i \in 1 .. n + n
  BY <1>1
<1>10. \A i \in 1 .. n : /\ declarations[i] = Declared(ids, address, "da", i)
                         /\ declarations[n + i] = Declared(ids, address, "bn", i)
  BY <1>6, <1>7, <1>8, <1>9
<1> QED
  BY <1>7, <1>10 DEF declarations, providers, n

\* What NotesLocked says of one generation.
LockedIn(ledger, declarations, ids) ==
  /\ \A k \in DOMAIN declarations :
       LET d == declarations[k]
       IN  /\ d.locked + 1 \in DOMAIN ledger
           /\ ledger[d.locked + 1] = [key |-> d.signer, value |-> 1]
           /\ d.signer = <<d.service_type, Head14(d.provider_id)>>
  /\ \A j, k \in DOMAIN declarations :
       declarations[j].locked = declarations[k].locked => j = k
  /\ {<<declarations[k].provider_id, declarations[k].service_type>> :
         k \in DOMAIN declarations} = ToSet(ids) \X {"da", "bn"}

\* The declarations lock the notes of their own nodes.
LEMMA DeclarationsLock ==
  ASSUME NEW ids \in Seq(DOMAIN PeerRank), NEW wallet \in Seq(Account), NEW address
  PROVE  LockedIn(create_consensus_configs(ids, wallet),
                  create_genesis_tx_with_declarations(create_providers(ids, address)), ids)
<1> DEFINE ledger == create_consensus_configs(ids, wallet)
           declarations == create_genesis_tx_with_declarations(create_providers(ids, address))
           n == Len(ids)
           m == 3 * n + Len(wallet)
<1>1. n \in Nat /\ Len(wallet) \in Nat /\ m \in Nat /\ m >= 3 * n /\ DOMAIN ids = 1 .. n
  OBVIOUS
<1>2. /\ DOMAIN ledger = 1 .. m
      /\ \A i \in 1 .. n :
           /\ ledger[3 * (i - 1) + 2] = [key |-> <<"da", Head14(ids[i])>>, value |-> 1]
           /\ ledger[3 * (i - 1) + 3] = [key |-> <<"bn", Head14(ids[i])>>, value |-> 1]
  BY LedgerFacts
<1>3. /\ DOMAIN declarations = 1 .. n + n
      /\ \A i \in 1 .. n : /\ declarations[i] = Declared(ids, address, "da", i)
                           /\ declarations[n + i] = Declared(ids, address, "bn", i)
  BY DeclarationFacts
<1> HIDE DEF ledger, declarations, n, m
<1>4. \A k \in 1 .. n + n : \E i \in 1 .. n : k = i \/ k = n + i
  <2> SUFFICES ASSUME NEW k \in 1 .. n + n PROVE \E i \in 1 .. n : k = i \/ k = n + i
    OBVIOUS
  <2>1. CASE k <= n
    <3>1. k \in 1 .. n
      BY <1>1, <2>1
    <3> QED
      BY <3>1
  <2>2. CASE k > n
    <3>1. k - n \in 1 .. n /\ k = n + (k - n)
      BY <1>1, <2>2
    <3> QED
      BY <3>1
  <2> QED
    BY <1>1, <2>1, <2>2
<1>5. ASSUME NEW i \in 1 .. n
      PROVE  /\ declarations[i].locked = 3 * (i - 1) + 1
             /\ declarations[i].signer = <<"da", Head14(ids[i])>>
             /\ declarations[i].service_type = "da"
             /\ declarations[i].provider_id = ids[i]
             /\ declarations[n + i].locked = 3 * (i - 1) + 2
             /\ declarations[n + i].signer = <<"bn", Head14(ids[i])>>
             /\ declarations[n + i].service_type = "bn"
             /\ declarations[n + i].provider_id = ids[i]
  <2>1. /\ declarations[i] = Declared(ids, address, "da", i)
        /\ declarations[n + i] = Declared(ids, address, "bn", i)
    BY <1>3
  <2>2. /\ Declared(ids, address, "da", i).locked = 3 * (i - 1) + 1
        /\ Declared(ids, address, "bn", i).locked = 3 * (i - 1) + 2
    BY DEF Declared
  <2>3. /\ Declared(ids, address, "da", i).signer = <<"da", Head14(ids[i])>>
        /\ Declared(ids, address, "bn", i).signer = <<"bn", Head14(ids[i])>>
        /\ Declared(ids, address, "da", i).service_type = "da"
        /\ Declared(ids, address, "bn", i).service_type = "bn"
        /\ Declared(ids, address, "da", i).provider_id = ids[i]
        /\ Declared(ids, address, "bn", i).provider_id = ids[i]
    BY DEF Declared
  <2> QED
    BY <2>1, <2>2, <2>3
<1>6. ASSUME NEW k \in DOMAIN declarations
      PROVE  /\ declarations[k].locked + 1 \in DOMAIN ledger
             /\ ledger[declarations[k].locked + 1] = [key |-> declarations[k].signer, value |-> 1]
             /\ declarations[k].signer =
                  <<declarations[k].service_type, Head14(declarations[k].provider_id)>>
  <2>1. PICK i \in 1 .. n : k = i \/ k = n + i
    BY <1>3, <1>4
  <2>2. /\ (3 * (i - 1) + 1) + 1 = 3 * (i - 1) + 2 /\ 3 * (i - 1) + 2 \in 1 .. m
        /\ (3 * (i - 1) + 2) + 1 = 3 * (i - 1) + 3 /\ 3 * (i - 1) + 3 \in 1 .. m
    BY <1>1
  <2>3. CASE k = i
    <3>1. declarations[k].locked + 1 = 3 * (i - 1) + 2
      BY <1>5, <2>2, <2>3
    <3>2. ledger[3 * (i - 1) + 2] = [key |-> declarations[k].signer, value |-> 1]
      <4>1. declarations[k].signer = <<"da", Head14(ids[i])>>
        BY <1>5, <2>3
      <4>2. ledger[3 * (i - 1) + 2] = [key |-> <<"da", Head14(ids[i])>>, value |-> 1]
        BY <1>2
      <4> QED
        BY <4>1, <4>2
    <3>3. declarations[k].signer =
            <<declarations[k].service_type, Head14(declarations[k].provider_id)>>
      BY <1>5, <2>3 DEF Head14
    <3> QED
      BY <1>2, <2>2, <3>1, <3>2, <3>3
  <2>4. CASE k = n + i
    <3>1. declarations[k].locked + 1 = 3 * (i - 1) + 3
      BY <1>5, <2>2, <2>4
    <3>2. ledger[3 * (i - 1) + 3] = [key |-> declarations[k].signer, value |-> 1]
      <4>1. declarations[k].signer = <<"bn", Head14(ids[i])>>
        BY <1>5, <2>4
      <4>2. ledger[3 * (i - 1) + 3] = [key |-> <<"bn", Head14(ids[i])>>, value |-> 1]
        BY <1>2
      <4> QED
        BY <4>1, <4>2
    <3>3. declarations[k].signer =
            <<declarations[k].service_type, Head14(declarations[k].provider_id)>>
      BY <1>5, <2>4 DEF Head14
    <3> QED
      BY <1>2, <2>2, <3>1, <3>2, <3>3
  <2> QED
    BY <2>1, <2>3, <2>4
<1>7. ASSUME NEW j \in DOMAIN declarations, NEW k \in DOMAIN declarations,
             declarations[j].locked = declarations[k].locked
      PROVE  j = k
  <2>1. PICK a \in 1 .. n : j = a \/ j = n + a
    BY <1>3, <1>4
  <2>2. PICK b \in 1 .. n : k = b \/ k = n + b
    BY <1>3, <1>4
  <2>3. CASE j = a /\ k = b
    <3>1. 3 * (a - 1) + 1 = 3 * (b - 1) + 1
      BY <1>5, <1>7, <2>3
    <3> QED
      BY <1>1, <2>3, <3>1
  <2>4. CASE j = n + a /\ k = n + b
    <3>1. 3 * (a - 1) + 2 = 3 * (b - 1) + 2
      BY <1>5, <1>7, <2>4
    <3> QED
      BY <1>1, <2>4, <3>1
  <2>5. CASE j = a /\ k = n + b
    <3>1. 3 * (a - 1) + 1 = 3 * (b - 1) + 2
      BY <1>5, <1>7, <2>5
    <3> QED
      BY <1>1, <3>1
  <2>6. CASE j = n + a /\ k = b
    <3>1. 3 * (a - 1) + 2 = 3 * (b - 1) + 1
      BY <1>5, <1>7, <2>6
    <3> QED
      BY <1>1, <3>1
  <2> QED
    BY <2>1, <2>2, <2>3, <2>4, <2>5, <2>6
<1> DEFINE Pairs == {<<declarations[k].provider_id, declarations[k].service_type>> :
                       k \in DOMAIN declarations}
<1>8. Pairs \subseteq ToSet(ids) \X {"da", "bn"}
  <2> SUFFICES ASSUME NEW k \in DOMAIN declarations
               PROVE  /\ declarations[k].provider_id \in ToSet(ids)
                      /\ declarations[k].service_type \in {"da", "bn"}
    OBVIOUS
  <2>1. PICK i \in 1 .. n : k = i \/ k = n + i
    BY <1>3, <1>4
  <2>2. declarations[k].provider_id = ids[i] /\ declarations[k].service_type \in {"da", "bn"}
    BY <1>5, <2>1
  <2> QED
    BY <1>1, <2>2 DEF ToSet
<1>9. ToSet(ids) \X {"da", "bn"} \subseteq Pairs
  <2> SUFFICES ASSUME NEW x \in ToSet(ids) PROVE <<x, "da">> \in Pairs /\ <<x, "bn">> \in Pairs
    OBVIOUS
  <2>1. PICK i \in 1 .. n : x = ids[i]
    BY <1>1 DEF ToSet
  <2>2. i \in DOMAIN declarations /\ n + i \in DOMAIN declarations
    BY <1>1, <1>3
  <2> QED
    BY <1>5, <2>1, <2>2
<1> QED
  BY <1>6, <1>7, <1>8, <1>9 DEF LockedIn, ledger, declarations

------------------------------------------------------------------------------
(* Wallets and the inputs of the transaction workload.                     *)

\* The wallet is empty, or splits the funds among some users.
WalletOf(total, wallet) ==
  \/ total = 0 /\ wallet = << >>
  \/ \E users \in Nat \ {0} : /\ total \in Nat /\ users <= total
                              /\ wallet = uniform(total, users)

\* Each account has q tokens, the first r of them one more.
Split(total, wallet, q, r) ==
  /\ total = Len(wallet) * q + r /\ r <= Len(wallet)
  /\ \A i \in 1 .. Len(wallet) : wallet[i].value = q + (IF i <= r THEN 1 ELSE 0)

\* Everybody has a key of their own and at least one token, and what the
\* division leaves goes to the first accounts.
LEMMA WalletFacts ==
  ASSUME NEW total, NEW wallet, WalletOf(total, wallet)
  PROVE  /\ wallet \in Seq(Account)
         /\ \A i \in 1 .. Len(wallet) : wallet[i].key = <<"wl", i>>
         /\ \E q, r \in Nat : Split(total, wallet, q, r)
<1>1. CASE total = 0 /\ wallet = << >>
  <2>1. 0 = 0 * 0 + 0 /\ 0 \in Nat /\ 0 <= 0
    OBVIOUS
  <2>2. Len(wallet) = 0 /\ 1 .. 0 = {} /\ wallet \in Seq(Account)
    BY <1>1
  <2>3. Split(total, wallet, 0, 0)
    BY <1>1, <2>1, <2>2 DEF Split
  <2> QED
    BY <2>2, <2>3
<1>2. ASSUME NEW users \in Nat \ {0}, total \in Nat, users <= total, wallet = uniform(total, users)
      PROVE  /\ wallet \in Seq(Account)
             /\ \A i \in 1 .. Len(wallet) : wallet[i].key = <<"wl", i>>
             /\ \E q, r \in Nat : Split(total, wallet, q, r)
  <2> DEFINE q == total \div users
             r == total % users
             Entry(i) == [key |-> <<"wl", i>>, value |-> q + (IF i <= r THEN 1 ELSE 0)]
  <2>1. q \in Nat /\ r \in 0 .. users - 1 /\ total = q * users + r
    BY <1>2, Quotient
  <2>2. wallet = [i \in 1 .. users |-> Entry(i)]
    BY <1>2 DEF uniform
  <2> HIDE DEF q, r
  <2>3. q # 0
    <3> SUFFICES ASSUME q = 0 PROVE FALSE
      OBVIOUS
    <3>1. q * users = 0
      OBVIOUS
    <3> QED
      BY <1>2, <2>1, <3>1
  <2>4. \A i \in 1 .. users : Entry(i) \in Account
    <3> SUFFICES ASSUME NEW i \in 1 .. users PROVE Entry(i) \in Account
      OBVIOUS
    <3>1. q + (IF i <= r THEN 1 ELSE 0) \in Nat \ {0}
      BY <2>1, <2>3
    <3>2. <<"wl", i>> \in {"wl"} \X Nat
      OBVIOUS
    <3> QED
      BY <3>1, <3>2 DEF Account
  <2>5. /\ \A i \in 1 .. users : wallet[i].key = <<"wl", i>>
        /\ \A i \in 1 .. users : wallet[i].value = q + (IF i <= r THEN 1 ELSE 0)
    BY <2>2
  <2> HIDE DEF Entry
  <2>6. wallet \in Seq(Account) /\ Len(wallet) = users
    BY <2>2, <2>4
  <2>7. total = users * q + r /\ r \in Nat /\ r <= users
    BY <2>1
  <2>8. Split(total, wallet, q, r)
    BY <2>5, <2>6, <2>7 DEF Split
  <2> QED
    BY <2>1, <2>5, <2>6, <2>7, <2>8
<1> QED
  BY <1>1, <1>2 DEF WalletOf

\* What FundsConserved says of one ledger.
FundsIn(ledger, total) ==
  LET Paid(k) == ledger[k].key[1] = "wl"
      sum[k \in 0 .. Len(ledger)] ==
        IF k = 0 THEN 0 ELSE sum[k - 1] + IF Paid(k) THEN ledger[k].value ELSE 0
  IN  /\ sum[Len(ledger)] = total
      /\ \A k \in DOMAIN ledger : Paid(k) => ledger[k].value > 0

\* The tokens of the accounts' outputs are the funds.
LEMMA LedgerPays ==
  ASSUME NEW ids \in Seq(DOMAIN PeerRank), NEW total, NEW wallet, WalletOf(total, wallet)
  PROVE  FundsIn(create_consensus_configs(ids, wallet), total)
<1> DEFINE ledger == create_consensus_configs(ids, wallet)
           m == 3 * Len(ids)
           w == Len(wallet)
           L == Len(ledger)
           Paid(k) == ledger[k].key[1] = "wl"
           Pays(k) == IF Paid(k) THEN ledger[k].value ELSE 0
<1>1. wallet \in Seq(Account) /\ \A i \in 1 .. w : wallet[i].key = <<"wl", i>>
  BY WalletFacts
<1>2. PICK q \in Nat, r \in Nat : Split(total, wallet, q, r)
  BY WalletFacts
<1>0. /\ total = w * q + r /\ r <= w
      /\ \A i \in 1 .. w : wallet[i].value = q + (IF i <= r THEN 1 ELSE 0)
  BY <1>2 DEF Split
<1>3. /\ m \in Nat /\ w \in Nat
      /\ L = m + w /\ DOMAIN ledger = 1 .. m + w
      /\ \A k \in 1 .. m : ledger[k].key[1] # "wl"
      /\ \A i \in 1 .. w : ledger[m + i] = wallet[i]
  <2>1. Len(ids) \in Nat /\ m \in Nat /\ w \in Nat
    BY <1>1
  <2>2. /\ L = m + w /\ DOMAIN ledger = 1 .. m + w
        /\ \A k \in 1 .. m : ledger[k].key[1] # "wl"
        /\ \A i \in 1 .. w : ledger[m + i] = wallet[i]
    BY <1>1, LedgerFacts, Zenon
  <2> QED
    BY <2>1, <2>2
<1> HIDE DEF ledger, m, w, L
<1>4. ASSUME NEW k \in 1 .. m PROVE ~ Paid(k) /\ Pays(k) = 0
  BY <1>3
<1>5. ASSUME NEW k \in 1 .. L, k > m
      PROVE  /\ Paid(k) /\ Pays(k) = q + (IF k - m <= r THEN 1 ELSE 0)
             /\ ledger[k].value \in Nat \ {0}
  <2>1. k - m \in 1 .. w /\ m + (k - m) = k
    BY <1>3, <1>5
  <2>2. ledger[k] = wallet[k - m]
    BY <1>3, <2>1
  <2>3. wallet[k - m] \in Account /\ wallet[k - m].key = <<"wl", k - m>>
    BY <1>1, <2>1 DEF w
  <2> QED
    BY <1>0, <2>1, <2>2, <2>3 DEF Account
<1>6. \A k \in DOMAIN ledger : Paid(k) => ledger[k].value > 0
  <2> SUFFICES ASSUME NEW k \in 1 .. L, Paid(k) PROVE ledger[k].value > 0
    BY <1>3
  <2>1. k > m
    BY <1>3, <1>4
  <2> QED
    BY <1>5, <2>1
<1> DEFINE H(k) == IF k <= m THEN 0 ELSE (k - m) * q + (IF k - m <= r THEN k - m ELSE r)
           Rec(f) == f = [k \in 0 .. L |-> IF k = 0 THEN 0 ELSE f[k - 1] + Pays(k)]
           sum == CHOOSE f : Rec(f)
<1>7. ASSUME NEW k \in 1 .. L PROVE H(k) = H(k - 1) + Pays(k)
  <2>1. CASE k <= m
    <3>1. Pays(k) = 0
      BY <1>3, <1>4, <2>1
    <3> HIDE DEF Pays
    <3> QED
      BY <1>3, <2>1, <3>1
  <2>2. CASE k > m
    <3>1. Pays(k) = q + (IF k - m <= r THEN 1 ELSE 0)
      BY <1>5, <2>2
    <3> DEFINE d == k - m
    <3>2. d \in Nat /\ d >= 1 /\ k = m + d /\ (k - 1) - m = d - 1
      BY <1>3, <2>2
    <3> HIDE DEF d, Pays
    <3>3. d * q = (d - 1) * q + q /\ d * q \in Nat /\ (d - 1) * q \in Nat
      BY <3>2
    <3>4. H(k) = d * q + (IF d <= r THEN d ELSE r)
      BY <1>3, <2>2, <3>2 DEF d
    <3>5. H(k - 1) = (d - 1) * q + (IF d - 1 <= r THEN d - 1 ELSE r)
      <4>1. CASE d = 1
        <5>1. k - 1 <= m /\ (d - 1) * q = 0
          BY <1>3, <3>2, <4>1
        <5> QED
          BY <4>1, <5>1
      <4>2. CASE d > 1
        <5>1. ~ (k - 1 <= m)
          BY <1>3, <3>2, <4>2
        <5> QED
          BY <3>2, <5>1
      <4> QED
        BY <3>2, <4>1, <4>2
    <3>6. Pays(k) = q + (IF d <= r THEN 1 ELSE 0)
      BY <3>1 DEF d
    <3> HIDE DEF H
    <3> QED
      BY <3>2, <3>3, <3>4, <3>5, <3>6
  <2> QED
    BY <1>3, <2>1, <2>2
<1>8. H(0) = 0 /\ H(L) = total
  <2>1. H(0) = 0
    BY <1>3
  <2>2. CASE w = 0
    <3>1. w * q = 0
      BY <2>2
    <3> QED
      BY <1>0, <1>3, <2>1, <2>2, <3>1
  <2>3. CASE w > 0
    <3>1. ~ (L <= m) /\ L - m = w
      BY <1>3, <2>3
    <3>2. H(L) = w * q + (IF w <= r THEN w ELSE r)
      BY <3>1
    <3> HIDE DEF H
    <3> QED
      BY <1>0, <1>3, <2>1, <3>2
  <2> HIDE DEF H
  <2> QED
    BY <1>3, <2>1, <2>2, <2>3
<1> HIDE DEF H, Pays
<1>9. Rec([k \in 0 .. L |-> H(k)])
  <2>1. \A k \in 0 .. L : k # 0 => k \in 1 .. L /\ k - 1 \in 0 .. L
    BY <1>3
  <2> QED
    BY <1>7, <1>8, <2>1
<1>10. Rec(sum)
  <2>1. \E f : Rec(f)
    BY <1>9
  <2> QED
    BY <2>1
<1> HIDE DEF sum
<1>11. \A k \in 0 .. L : sum[k] = H(k)
  <2> DEFINE S == {k \in 0 .. L : sum[k] # H(k)}
  <2>1. SUFFICES ASSUME S # {} PROVE FALSE
    OBVIOUS
  <2>2. S \in SUBSET Nat
    BY <1>3
  <2>3. PICK k \in S : \A j \in S : k <= j
    BY <2>1, <2>2, LeastNat
  <2>4. k \in 0 .. L /\ sum[k] # H(k)
    BY <2>3
  <2>5. k # 0
    BY <1>8, <1>10, <2>4
  <2>6. k \in 1 .. L /\ k - 1 \in 0 .. L /\ ~ (k <= k - 1)
    BY <1>3, <2>4, <2>5
  <2>7. sum[k - 1] = H(k - 1)
    BY <2>3, <2>6
  <2>8. sum[k] = sum[k - 1] + Pays(k)
    BY <1>10, <2>4, <2>5
  <2> QED
    BY <1>7, <2>4, <2>6, <2>7, <2>8
<1>12. sum[L] = total
  <2>1. L \in 0 .. L
    BY <1>3
  <2> QED
    BY <1>8, <1>11, <2>1
<1>13. FundsIn(ledger, total) <=>
         /\ sum[L] = total
         /\ \A k \in DOMAIN ledger : Paid(k) => ledger[k].value > 0
  BY DEF FundsIn, sum, L, Pays
<1> QED
  BY <1>6, <1>12, <1>13 DEF ledger

\* Keeping all positions keeps the sequence.
LEMMA KeptAll ==
  ASSUME NEW S, NEW s \in Seq(S)
  PROVE  Kept(s, 1 .. Len(s)) = s
<1> DEFINE n == Len(s)
           P == 1 .. n
           Spot(m) == CHOOSE i \in P : Cardinality({j \in P : j < i}) = m - 1
<1>1. n \in Nat /\ s = [m \in 1 .. n |-> s[m]]
  OBVIOUS
<1>2. Cardinality(P) = n
  BY <1>1, FS_Interval
<1>3. ASSUME NEW i \in P PROVE Cardinality({j \in P : j < i}) = i - 1
  <2>1. {j \in P : j < i} = 1 .. i - 1
    BY <1>1
  <2>2. Cardinality(1 .. i - 1) = i - 1
    BY <1>1, FS_Interval
  <2> QED
    BY <2>1, <2>2
<1>4. ASSUME NEW m \in P PROVE Spot(m) = m
  <2>1. \E i \in P : Cardinality({j \in P : j < i}) = m - 1
    BY <1>3
  <2>2. Spot(m) \in P /\ Cardinality({j \in P : j < Spot(m)}) = m - 1
    BY <2>1
  <2> HIDE DEF Spot
  <2>3. Spot(m) - 1 = m - 1
    BY <1>3, <2>2
  <2> QED
    BY <1>1, <2>2, <2>3
<1>5. Kept(s, P) = [m \in 1 .. Cardinality(P) |-> s[Spot(m)]]
  BY DEF Kept
<1> HIDE DEF Spot
<1> QED
  BY <1>1, <1>2, <1>4, <1>5

\* A limit leaves some of what there is.
LEMMA LimitFacts ==
  ASSUME NEW users \in Nat \cup {None}, NEW available \in Nat
  PROVE  /\ limited(users, available) \in 0 .. available
         /\ (users = None \/ users # 0) /\ available # 0 => limited(users, available) # 0
<1>1. CASE users = None
  BY <1>1 DEF limited
<1>2. CASE users # None
  <2>1. users \in Nat /\ limited(users, available) = Min({users, available})
    BY <1>2 DEF limited
  <2>2. /\ Min({users, available}) \in {users, available}
        /\ Min({users, available}) <= users /\ Min({users, available}) <= available
    BY <2>1, OfTwo
  <2> DEFINE least == Min({users, available})
  <2> HIDE DEF least
  <2> QED
    BY <1>2, <2>1, <2>2 DEF least
<1> QED
  BY <1>1, <1>2

\* The workload finds the output of each account by its key.
LEMMA OutputOfAccount ==
  ASSUME NEW ids \in Seq(DOMAIN PeerRank), NEW total, NEW wallet, WalletOf(total, wallet),
         NEW i \in 1 .. Len(wallet)
  PROVE  LET ledger == create_consensus_configs(ids, wallet)
         IN  /\ wallet[i].key \in DOMAIN wallet_utxo_map(ledger)
             /\ wallet_utxo_map(ledger)[wallet[i].key] = 3 * Len(ids) + i - 1
<1> DEFINE ledger == create_consensus_configs(ids, wallet)
           m == 3 * Len(ids)
           w == Len(wallet)
           key == wallet[i].key
           Same == {k \in DOMAIN ledger : ledger[k].key = key}
<1>1. wallet \in Seq(Account) /\ \A j \in 1 .. w : wallet[j].key = <<"wl", j>>
  BY WalletFacts
<1>2. /\ DOMAIN ledger = 1 .. m + w
      /\ \A k \in 1 .. m : ledger[k].key[1] # "wl"
      /\ \A j \in 1 .. w : ledger[m + j] = wallet[j]
  BY <1>1, LedgerFacts, Zenon
<1>3. m \in Nat /\ w \in Nat /\ key = <<"wl", i>>
  BY <1>1
<1>4. /\ key \in DOMAIN wallet_utxo_map(ledger) <=> key \in {ledger[k].key : k \in DOMAIN ledger}
      /\ key \in {ledger[k].key : k \in DOMAIN ledger} =>
           wallet_utxo_map(ledger)[key] = Max(Same) - 1
  BY DEF wallet_utxo_map
<1> HIDE DEF ledger, m, w, key
<1>5. ASSUME NEW k \in Same PROVE k = m + i
  <2>1. k \in 1 .. m + w /\ ledger[k].key = <<"wl", i>>
    BY <1>2, <1>3
  <2>2. ~ (k \in 1 .. m)
    BY <1>2, <2>1
  <2>3. k - m \in 1 .. w /\ m + (k - m) = k
    BY <1>3, <2>1, <2>2
  <2>4. ledger[k].key = <<"wl", k - m>>
    BY <1>1, <1>2, <2>3
  <2>5. k - m = i
    BY <2>1, <2>4
  <2> QED
    BY <2>3, <2>5
<1>6. m + i \in DOMAIN ledger /\ ledger[m + i].key = key
  <2>1. m + i \in 1 .. m + w /\ i \in 1 .. w
    BY <1>3 DEF w
  <2> QED
    BY <1>2, <2>1 DEF key
<1>7. Same = {m + i}
  BY <1>5, <1>6
<1> HIDE DEF Same
<1>8. Max({m + i}) = m + i
  <2>1. m + i \in Nat
    BY <1>3
  <2> DEFINE x == m + i
  <2> HIDE DEF x
  <2>2. x \in Nat => Max({x}) = x
    BY DEF Max
  <2> QED
    BY <2>1, <2>2 DEF x
<1>9. key \in {ledger[k].key : k \in DOMAIN ledger}
  BY <1>6
<1>10. wallet_utxo_map(ledger)[key] = m + i - 1
  <2>1. wallet_utxo_map(ledger)[key] = Max(Same) - 1
    BY <1>4, <1>9
  <2>2. Max(Same) = m + i
    BY <1>7, <1>8, Zenon
  <2>3. (m + i) - 1 = m + i - 1
    BY <1>3
  <2> QED
    BY <2>1, <2>2, <2>3, Zenon
<1> QED
  BY <1>4, <1>9, <1>10, Zenon DEF ledger, key, m

\* The prepared input of account i.
Spends(ids, account, i) ==
  [key |-> account.key, value |-> account.value, output_index |-> 3 * Len(ids) + i - 1]

\* The prepared inputs of the first n accounts.
Prepares(ids, wallet, n) == [i \in 1 .. n |-> Spends(ids, wallet[i], i)]

\* A workload prepares the outputs of the first accounts, as many as its
\* limit allows.
LEMMA InputFacts ==
  ASSUME NEW ids \in Seq(DOMAIN PeerRank), NEW total, NEW wallet, WalletOf(total, wallet),
         NEW g, g.ledger = create_consensus_configs(ids, wallet), g.wallet = wallet,
         NEW x, x.users \in Nat \cup {None}
  PROVE  wallet_inputs(g, x) = Prepares(ids, wallet, limited(x.users, Len(wallet)))
<1> DEFINE utxo_map == wallet_utxo_map(g.ledger)
           found == {i \in DOMAIN g.wallet : g.wallet[i].key \in DOMAIN utxo_map}
           matched == Kept(g.wallet, found)
           Input(a) == [key |-> a.key, value |-> a.value, output_index |-> utxo_map[a.key]]
           w == Len(wallet)
           n == limited(x.users, w)
<1>1. wallet \in Seq(Account) /\ w \in Nat /\ DOMAIN wallet = 1 .. w
  BY WalletFacts
<1>2. \A i \in 1 .. w : /\ wallet[i].key \in DOMAIN utxo_map
                        /\ utxo_map[wallet[i].key] = 3 * Len(ids) + i - 1
  BY OutputOfAccount
<1>3. wallet_inputs(g, x) = [i \in 1 .. limited(x.users, Len(matched)) |-> Input(matched[i])]
  BY DEF wallet_inputs
<1> HIDE DEF utxo_map
<1>4. found = 1 .. w
  BY <1>1, <1>2
<1> HIDE DEF found
<1>5. matched = wallet
  BY <1>1, <1>4, KeptAll
<1> HIDE DEF matched
<1>6. n \in 0 .. w
  BY <1>1, LimitFacts
<1>7. \A i \in 1 .. w : Input(wallet[i]) = Spends(ids, wallet[i], i)
  BY <1>2 DEF Spends
<1> HIDE DEF Input
<1>8. wallet_inputs(g, x) = [i \in 1 .. n |-> Input(wallet[i])]
  BY <1>3, <1>5
<1> HIDE DEF n
<1>9. \A i \in 1 .. n : i \in 1 .. w
  BY <1>1, <1>6
<1> QED
  BY <1>7, <1>8, <1>9 DEF n, Prepares

------------------------------------------------------------------------------
(* The hosts of a remote deployment, durations and plans.                  *)

\* There are n numbers from 1 to n.
LEMMA UpTo ==
  \A n \in Nat : IsFiniteSet(1 .. n) /\ Cardinality(1 .. n) = n
  BY FS_Interval

\* The nodes of a topology: each once, in the order of sort_hosts.
LEMMA NodeFacts ==
  ASSUME NEW t, t.n_validators \in Nat, t.n_executors \in Nat
  PROVE  LET n == t.n_validators + t.n_executors
             Before(a, b) == \/ a.role = "validator" /\ b.role = "executor"
                             \/ a.role = b.role /\ a.index < b.index
         IN  /\ n \in Nat /\ DOMAIN Nodes(t) = 1 .. n /\ Len(Nodes(t)) = n
             /\ Nodes(t) = [i \in 1 .. n |-> Nodes(t)[i]]
             /\ \A i, j \in 1 .. n : Before(Nodes(t)[i], Nodes(t)[j]) <=> i < j
             /\ \A i, j \in 1 .. n : Nodes(t)[i] = Nodes(t)[j] => i = j
<1> DEFINE v == t.n_validators
           n == v + t.n_executors
           N == Nodes(t)
           Before(a, b) == \/ a.role = "validator" /\ b.role = "executor"
                           \/ a.role = b.role /\ a.index < b.index
<1>1. /\ n \in Nat /\ v \in Nat /\ DOMAIN N = 1 .. n /\ Len(N) = n
      /\ N = [i \in 1 .. n |-> N[i]]
  BY DEF Nodes
<1>2. \A i \in 1 .. n : /\ i <= v => N[i].role = "validator" /\ N[i].index = i - 1
                        /\ i > v => N[i].role = "executor" /\ N[i].index = i - 1 - v
  <2> SUFFICES ASSUME NEW i \in 1 .. n
               PROVE  /\ i <= v => N[i].role = "validator" /\ N[i].index = i - 1
                      /\ i > v => N[i].role = "executor" /\ N[i].index = i - 1 - v
    OBVIOUS
  <2>1. N[i] = IF i <= v THEN [role |-> "validator", index |-> i - 1]
               ELSE [role |-> "executor", index |-> i - 1 - v]
    BY DEF Nodes
  <2>2. i > v <=> ~ (i <= v)
    BY <1>1
  <2> HIDE DEF N
  <2>3. CASE i <= v
    <3>1. N[i] = [role |-> "validator", index |-> i - 1]
      BY <2>1, <2>3
    <3> QED
      BY <2>2, <2>3, <3>1
  <2>4. CASE i > v
    <3>1. N[i] = [role |-> "executor", index |-> i - 1 - v]
      BY <2>1, <2>2, <2>4
    <3> QED
      BY <2>2, <2>4, <3>1
  <2> QED
    BY <1>1, <2>3, <2>4
<1> HIDE DEF N, n, v
<1>3. ASSUME NEW i \in 1 .. n, NEW j \in 1 .. n PROVE Before(N[i], N[j]) <=> i < j
  <2>1. CASE i <= v /\ j <= v
    BY <1>1, <1>2, <2>1
  <2>2. CASE i <= v /\ j > v
    BY <1>1, <1>2, <2>2
  <2>3. CASE i > v /\ j <= v
    BY <1>1, <1>2, <2>3
  <2>4. CASE i > v /\ j > v
    BY <1>1, <1>2, <2>4
  <2> QED
    BY <1>1, <2>1, <2>2, <2>3, <2>4
<1>4. ASSUME NEW i \in 1 .. n, NEW j \in 1 .. n, N[i] = N[j] PROVE i = j
  <2>1. (i <= v /\ j <= v) \/ (i > v /\ j > v)
    BY <1>1, <1>2, <1>4
  <2>2. N[i].index = N[j].index
    BY <1>4
  <2> QED
    BY <1>1, <1>2, <2>1, <2>2
<1> QED
  BY <1>1, <1>3, <1>4 DEF N, n, v

\* Whatever the order in which the hosts were announced, they are sorted
\* into the order of the descriptors.
LEMMA HostsSorted ==
  ASSUME NEW t, t.n_validators \in Nat, t.n_executors \in Nat,
         NEW announced \in SetToSeqs(ToSet(Nodes(t)))
  PROVE  sort_hosts(announced) = Nodes(t)
<1> DEFINE n == t.n_validators + t.n_executors
           N == Nodes(t)
           H == ToSet(N)
           a == announced
           Before(x, y) == \/ x.role = "validator" /\ y.role = "executor"
                           \/ x.role = y.role /\ x.index < y.index
           before == {p \in (DOMAIN a) \X (DOMAIN a) : Before(a[p[1]], a[p[2]])}
           Ahead(i) == {j \in DOMAIN a : <<j, i>> \in before \/ (j < i /\ <<i, j>> \notin before)}
           Spot(m) == CHOOSE i \in DOMAIN a : Cardinality(Ahead(i)) = m - 1
           f == [i \in 1 .. n |-> CHOOSE k \in 1 .. n : N[k] = a[i]]
<1>1. /\ n \in Nat /\ DOMAIN N = 1 .. n
      /\ N = [i \in 1 .. n |-> N[i]]
      /\ \A i, j \in 1 .. n : Before(N[i], N[j]) <=> i < j
      /\ \A i, j \in 1 .. n : N[i] = N[j] => i = j
  BY NodeFacts, Zenon
<1>2. sort_hosts(a) = [m \in DOMAIN a |-> a[Spot(m)]]
  BY DEF sort_hosts, Sorted
<1> HIDE DEF n, N
<1>3. IsFiniteSet(1 .. n) /\ Cardinality(1 .. n) = n
  BY <1>1, UpTo
<1>4. Cardinality(H) = n
  <2>1. N \in Bijection(1 .. n, H)
    BY <1>1 DEF ToSet, Bijection, Injection, Surjection, IsInjective
  <2>2. ExistsBijection(1 .. n, H)
    BY <2>1 DEF ExistsBijection
  <2> HIDE DEF H
  <2> QED
    BY <1>3, <2>2, FS_Bijection
<1>5. a \in [1 .. n -> H] /\ \A i, j \in 1 .. n : i # j => a[i] # a[j]
  BY <1>4 DEF SetToSeqs, N
<1>6. ASSUME NEW i \in 1 .. n PROVE f[i] \in 1 .. n /\ N[f[i]] = a[i]
  <2>1. \E k \in 1 .. n : N[k] = a[i]
    BY <1>1, <1>5 DEF ToSet
  <2> QED
    BY <2>1
<1>7. \A i, j \in 1 .. n : f[i] = f[j] => i = j
  BY <1>5, <1>6
<1> HIDE DEF f, H, a
<1>8. \A i, j \in 1 .. n : <<i, j>> \in before <=> f[i] < f[j]
  <2> SUFFICES ASSUME NEW i \in 1 .. n, NEW j \in 1 .. n
               PROVE  <<i, j>> \in before <=> f[i] < f[j]
    OBVIOUS
  <2>1. <<i, j>> \in before <=> Before(a[i], a[j])
    BY <1>5
  <2>2. Before(a[i], a[j]) <=> Before(N[f[i]], N[f[j]])
    BY <1>6
  <2> HIDE DEF before, Before
  <2> QED
    BY <1>1, <1>6, <2>1, <2>2
<1> HIDE DEF before
<1>9. \A i \in 1 .. n : Ahead(i) = {j \in 1 .. n : f[j] < f[i]}
  <2> SUFFICES ASSUME NEW i \in 1 .. n, NEW j \in 1 .. n
               PROVE  (<<j, i>> \in before \/ (j < i /\ <<i, j>> \notin before)) <=> f[j] < f[i]
    BY <1>5
  <2>1. f[i] \in 1 .. n /\ f[j] \in 1 .. n
    BY <1>6
  <2>2. j < i => f[i] # f[j]
    BY <1>1, <1>7
  <2> QED
    BY <1>1, <1>8, <2>1, <2>2
<1>10. f \in Bijection(1 .. n, 1 .. n)
  <2>1. f \in [1 .. n -> 1 .. n]
    BY <1>6 DEF f
  <2>2. f \in Injection(1 .. n, 1 .. n)
    BY <1>7, <2>1 DEF Injection, IsInjective
  <2>3. f \in Surjection(1 .. n, 1 .. n)
    BY <1>3, <2>2, FS_Injection
  <2> QED
    BY <2>2, <2>3 DEF Bijection
<1>11. ASSUME NEW i \in 1 .. n PROVE Cardinality(Ahead(i)) = f[i] - 1
  <2> DEFINE S == {j \in 1 .. n : f[j] < f[i]}
             T == 1 .. f[i] - 1
             h == [j \in S |-> f[j]]
  <2>1. f[i] \in 1 .. n /\ f[i] - 1 \in Nat
    BY <1>1, <1>6
  <2>2. h \in [S -> T] /\ \A j, k \in S : h[j] = h[k] => j = k
    <3>1. n \in Nat /\ \A j \in S : j \in 1 .. n /\ f[j] \in 1 .. n /\ f[j] < f[i]
      BY <1>1, <1>6
    <3>2. \A j \in S : f[j] \in T
      BY <2>1, <3>1
    <3> HIDE DEF T
    <3> QED
      BY <1>7, <3>2
  <2>3. \A k \in T : \E j \in S : h[j] = k
    <3> SUFFICES ASSUME NEW k \in T PROVE \E j \in S : h[j] = k
      OBVIOUS
    <3>1. k \in 1 .. n /\ k < f[i]
      BY <1>1, <2>1
    <3>2. PICK j \in 1 .. n : f[j] = k
      BY <1>10, <3>1 DEF Bijection, Surjection
    <3> QED
      BY <3>1, <3>2
  <2>4. S \in SUBSET (1 .. n)
    OBVIOUS
  <2> HIDE DEF S, T, h
  <2>5. h \in Bijection(S, T)
    BY <2>2, <2>3 DEF Bijection, Injection, Surjection, IsInjective
  <2>6. ExistsBijection(S, T)
    BY <2>5 DEF ExistsBijection
  <2>7. Cardinality(T) = Cardinality(S)
    BY <1>3, <2>4, <2>6, FS_Subset, FS_Bijection
  <2>8. Cardinality(T) = f[i] - 1
    BY <2>1, FS_Interval DEF T
  <2> QED
    BY <1>9, <2>7, <2>8 DEF S
<1>12. ASSUME NEW m \in 1 .. n PROVE a[Spot(m)] = N[m]
  <2>1. PICK k \in 1 .. n : f[k] = m
    BY <1>10 DEF Bijection, Surjection
  <2>2. \E i \in DOMAIN a : Cardinality(Ahead(i)) = m - 1
    BY <1>5, <1>11, <2>1
  <2>3. Spot(m) \in DOMAIN a /\ Cardinality(Ahead(Spot(m))) = m - 1
    BY <2>2
  <2> HIDE DEF Spot, Ahead
  <2>4. f[Spot(m)] - 1 = m - 1 /\ f[Spot(m)] \in 1 .. n /\ Spot(m) \in 1 .. n
    BY <1>5, <1>6, <1>11, <2>3
  <2>5. f[Spot(m)] = m
    BY <1>1, <2>4
  <2> QED
    BY <1>6, <2>4, <2>5
<1> HIDE DEF Spot
<1>13. sort_hosts(a) = [m \in 1 .. n |-> N[m]]
  BY <1>2, <1>5, <1>12
<1> QED
  BY <1>1, <1>13 DEF N, a

\* All dial the first host, which dials nobody.
DialFirst(peers, hosts) ==
  \A i \in DOMAIN hosts : peers[i] = IF i = 1 THEN {} ELSE {hosts[1]}

\* They do whatever ports the operating system handed out.
LEMMA PeersRewritten ==
  ASSUME NEW n \in Nat, NEW ports \in [1 .. n -> Ports], NEW hosts, DOMAIN hosts = 1 .. n
  PROVE  DialFirst(rewrite_initial_peers(ports, hosts), hosts)
<1> SUFFICES ASSUME NEW i \in 1 .. n
             PROVE  rewrite_initial_peers(ports, hosts)[i] = IF i = 1 THEN {} ELSE {hosts[1]}
  BY DEF DialFirst
<1> DEFINE templates == star_initial_peers(ports)
           Found == UNION {find_matching_host(port, ports) : port \in ToSet(templates[i])}
           same == {j \in DOMAIN ports : ports[j] = ports[1]}
<1>1. rewrite_initial_peers(ports, hosts)[i] = {hosts[j] : j \in Found \ {i}}
  BY DEF rewrite_initial_peers
<1>2. 1 \in 1 .. n /\ 1 \in same
  OBVIOUS
<1>3. Min(same) = 1
  <2>1. \A j \in same : j \in Nat /\ 1 <= j
    OBVIOUS
  <2> HIDE DEF same
  <2>2. \A x \in same : (\A y \in same : x =< y) => x = 1
    BY <1>2, <2>1
  <2>3. \E x \in same : \A y \in same : x =< y
    BY <1>2, <2>1
  <2>4. Min(same) \in same /\ \A y \in same : Min(same) =< y
    BY <2>3 DEF Min
  <2> QED
    BY <2>2, <2>4
<1>4. find_matching_host(ports[1], ports) = {1}
  BY <1>2, <1>3 DEF find_matching_host
<1>5. CASE i = 1
  <2>1. templates[i] = << >>
    BY <1>5 DEF star_initial_peers
  <2>2. ToSet(templates[i]) = {}
    BY <2>1 DEF ToSet
  <2> HIDE DEF templates
  <2>3. Found = {}
    BY <2>2
  <2> HIDE DEF Found
  <2> QED
    BY <1>1, <1>5, <2>3
<1>6. CASE i # 1
  <2>1. templates[i] = <<ports[1]>>
    BY <1>6 DEF star_initial_peers
  <2>2. ToSet(templates[i]) = {ports[1]}
    BY <2>1 DEF ToSet
  <2> HIDE DEF templates
  <2>3. Found = {1}
    BY <1>4, <2>2
  <2> HIDE DEF Found
  <2> QED
    BY <1>1, <1>6, <2>3
<1> QED
  BY <1>5, <1>6

\* The run takes at least two slots or ten seconds.
LEMMA DurationFacts ==
  ASSUME NEW t, NEW requested \in Nat, NEW d, d = enforce_min_duration(t, requested)
  PROVE  /\ d \in Nat \ {0}
         /\ slot_duration(t) # None => slot_duration(t) = Slot /\ d >= 2 * Slot
<1> DEFINE least == IF slot_duration(t) = None THEN MIN_EXPECTATION_FALLBACK_SECS
                    ELSE slot_duration(t) * MIN_EXPECTATION_BLOCKS
<1>1. slot_duration(t) # None => slot_duration(t) = Slot
  BY DEF slot_duration
<1>2. /\ least \in Nat \ {0}
      /\ slot_duration(t) # None => least = 2 * Slot
  BY <1>1, BuildAssumption DEF MIN_EXPECTATION_FALLBACK_SECS, MIN_EXPECTATION_BLOCKS
<1>3. d = Max({requested, least})
  BY DEF enforce_min_duration
<1> HIDE DEF least
<1>4. d \in {requested, least} /\ d >= least
  BY <1>2, <1>3, OfTwo
<1> QED
  BY <1>1, <1>2, <1>4

\* A quotient of a greater number by a smaller one is positive.
LEMMA PositiveQuotient ==
  ASSUME NEW x \in Nat, NEW m \in Nat \ {0}, m <= x
  PROVE  x \div m \in Nat \ {0}
<1> DEFINE q == x \div m
<1>1. q \in Nat /\ x % m \in 0 .. m - 1 /\ x = q * m + (x % m)
  BY Quotient
<1>2. q # 0
  <2> SUFFICES ASSUME q = 0 PROVE FALSE
    OBVIOUS
  <2>1. q * m = 0
    OBVIOUS
  <2> HIDE DEF q
  <2> QED
    BY <1>1, <2>1
<1> QED
  BY <1>1, <1>2

\* A plan never exceeds the accounts, and is empty only when they are.
LEMMA SubmissionFacts ==
  ASSUME duration \in Nat \ {0},
         scenario.slot # None => scenario.slot = Slot /\ duration >= 2 * Slot,
         NEW rate \in Nat \ {0}, NEW available \in Nat
  PROVE  /\ submission_plan(rate, available) \in 0 .. available
         /\ available # 0 => submission_plan(rate, available) # 0
<1> DEFINE block == IF scenario.slot = None THEN duration * 100 ELSE scenario.slot * ActiveSlotCoeff
           time == duration * 100 * rate
           blocks == time \div block
<1>1. time \in Nat /\ duration * 100 <= time
  OBVIOUS
<1>2. block \in Nat \ {0} /\ block <= duration * 100
  <2>1. CASE scenario.slot = None
    BY <2>1
  <2>2. CASE scenario.slot # None
    <3>1. block = Slot * 90 /\ duration >= 2 * Slot /\ Slot \in Nat \ {0}
      BY <2>2, BuildAssumption DEF ActiveSlotCoeff
    <3> HIDE DEF block
    <3> QED
      BY <3>1
  <2> QED
    BY <2>1, <2>2
<1>3. submission_plan(rate, available) = Min({blocks, available})
  BY DEF submission_plan
<1> HIDE DEF block, time
<1>4. block <= time
  BY <1>1, <1>2
<1>5. blocks \in Nat \ {0}
  BY <1>1, <1>2, <1>4, PositiveQuotient
<1> HIDE DEF blocks
<1>6. Min({blocks, available}) \in {blocks, available} /\ Min({blocks, available}) <= available
  BY <1>5, OfTwo
<1> DEFINE least == Min({blocks, available})
<1> HIDE DEF least
<1> QED
  BY <1>3, <1>5, <1>6 DEF least

------------------------------------------------------------------------------
(* The invariant of the builders and its steps.                            *)

\* The workload builders, with every field set to what its setters allow.
TxFlow == [kind : {"tx"}, rate : Nat \ {0}, users : (Nat \ {0}) \cup {None}]
DaFlow == [kind : {"da"}, channel_rate : Nat, blob_rate : Nat, headroom_percent : Nat]
ChaosFlow ==
  [kind : {"chaos"}, min_delay : Nat \ {0}, max_delay : Nat, target_cooldown : Nat,
   groups : SUBSET {"validators", "executors"}]

\* Those that ChaosRestartBuilder::apply accepts.
FitChaos ==
  {w \in ChaosFlow : /\ w.min_delay <= w.max_delay /\ w.min_delay <= w.target_cooldown
                     /\ w.groups # {}}

\* TopologyBuilder: counts, parameters, wallet, given ids and ports.
Topology ==
  [n_validators : Nat, n_executors : Nat, participants : Nat, da : DaParams,
   wallet : Seq(Account), ids : Seq(DOMAIN PeerRank) \cup {None},
   da_ports : Nat \cup {None}, blend_ports : Nat \cup {None}]

\* The topology stays within the bound, and its wallet splits the funds.
TopologyInv ==
  /\ topology \in Topology /\ topology.n_validators + topology.n_executors <= MaxNodes
  /\ configurator \in [validators : Nat, executors : Nat]
  /\ configurator.validators + configurator.executors <= MaxNodes
  /\ WalletOf(funds, topology.wallet)
  /\ phase = "topology" => funds = 0

\* The workloads, each transaction workload with an expectation of its own.
PartsInv ==
  /\ phase = "flow" => flow \in TxFlow \cup DaFlow \cup ChaosFlow
  /\ workloads \in Seq(TxFlow \cup DaFlow \cup FitChaos)
  /\ expectations \in Seq(TxFlow \cup DaFlow \cup {[kind |-> "liveness"]})
  /\ \A i \in DOMAIN workloads : workloads[i].kind = "tx" =>
       \E k \in DOMAIN expectations : expectations[k] = workloads[i]
  /\ duration \in Nat

\* What build() and the cfgsync server made of the topology.
BuiltInv ==
  /\ Resolved(topology) /\ scenario = Generate(topology)
  /\ initialize_components(scenario)
  /\ duration # 0 /\ (scenario.slot # None => scenario.slot = Slot /\ duration >= 2 * Slot)
  /\ prepared = [i \in {j \in DOMAIN workloads : workloads[j].kind = "tx"} |->
                   wallet_inputs(scenario, workloads[i])]

\* The cfgsync server has configured the hosts, in the order of the nodes.
ServedInv ==
  \E ports \in [1 .. Len(scenario.nodes) -> Ports] :
    remote = create_node_configs(apply_topology_overrides, scenario.nodes, ports)

\* How far the scenario is.
DoneInv ==
  /\ phase \notin {"built", "served"} => scenario = None
  /\ phase \in {"built", "served"} => BuiltInv
  /\ phase # "served" => remote = None
  /\ phase = "served" => ServedInv

\* The inductive invariant.
BuildInv == TopologyInv /\ PartsInv /\ DoneInv

\* The parameters of with_node_numbers.
LEMMA ParamsFit ==
  ASSUME NEW n \in Nat
  PROVE  da_params_for(n) \in DaParams
<1> DEFINE dispersal == Min({n, Max({DefaultDa.dispersal_factor, 2})})
           size == Max({DefaultDa.subnetwork_size, dispersal})
<1>1. Max({1, 2}) \in Nat
  BY OfTwo
<1>2. DefaultDa.dispersal_factor = 1 /\ DefaultDa.subnetwork_size = 2
  BY DEF DefaultDa
<1>3. dispersal \in Nat
  BY <1>1, <1>2, OfTwo
<1> HIDE DEF dispersal
<1>4. size \in Nat
  BY <1>2, <1>3, OfTwo
<1> HIDE DEF size
<1>5. CASE n <= 1
  BY <1>5 DEF da_params_for, DaParams
<1>6. CASE ~ (n <= 1)
  <2>1. da_params_for(n) =
          [subnetwork_size |-> size, dispersal_factor |-> dispersal, num_subnets |-> size]
    BY <1>6 DEF da_params_for, dispersal, size
  <2> QED
    BY <1>3, <1>4, <2>1 DEF DaParams
<1> QED
  BY <1>5, <1>6

\* A new TopologyConfig has no wallet.
LEMMA ConfigFacts ==
  ASSUME NEW v \in Nat, NEW e \in Nat, NEW n \in Nat, NEW da \in DaParams, v + e <= MaxNodes
  PROVE  /\ Config(v, e, n, da) \in Topology
         /\ Config(v, e, n, da).n_validators + Config(v, e, n, da).n_executors <= MaxNodes
         /\ WalletOf(0, Config(v, e, n, da).wallet)
<1>1. << >> \in Seq(Account)
  OBVIOUS
<1> QED
  BY <1>1 DEF Config, Topology, WalletOf

\* The predefined topologies are among them.
LEMMA PredefinedFacts ==
  ASSUME NEW t \in {empty, two_validators, validator_and_executor,
                    validators_and_executor(1, 1, 1), validators_and_executor(2, 3, 2)}
  PROVE  t \in Topology /\ t.n_validators + t.n_executors <= MaxNodes /\ WalletOf(0, t.wallet)
<1>1. MaxNodes \in Nat /\ MaxNodes >= 3
  <2>1. RandomIds \in Seq(DOMAIN PeerRank) /\ MaxNodes >= 3
    BY BuildAssumption
  <2> QED
    BY <2>1 DEF MaxNodes
<1>2. /\ DefaultDa \in DaParams
      /\ [subnetwork_size |-> 2, dispersal_factor |-> 2, num_subnets |-> 2] \in DaParams
      /\ [subnetwork_size |-> 1, num_subnets |-> 1, dispersal_factor |-> 1] \in DaParams
      /\ [subnetwork_size |-> 3, num_subnets |-> 3, dispersal_factor |-> 2] \in DaParams
  BY DEF DefaultDa, DaParams
<1>3. CASE t = empty
  <2>1. t = Config(0, 0, 1, DefaultDa)
    BY <1>3 DEF empty
  <2> QED
    BY <1>1, <1>2, <2>1, ConfigFacts
<1>4. CASE t = two_validators
  <2>1. t = Config(2, 0, 2, DefaultDa)
    BY <1>4 DEF two_validators
  <2> QED
    BY <1>1, <1>2, <2>1, ConfigFacts
<1>5. CASE t = validator_and_executor
  <2>1. t = Config(1, 1, 2, [subnetwork_size |-> 2, dispersal_factor |-> 2, num_subnets |-> 2])
    BY <1>5 DEF validator_and_executor
  <2> QED
    BY <1>1, <1>2, <2>1, ConfigFacts
<1>6. CASE t = validators_and_executor(1, 1, 1)
  <2>1. t = Config(1, 1, 2, [subnetwork_size |-> 1, num_subnets |-> 1, dispersal_factor |-> 1])
    BY <1>6 DEF validators_and_executor
  <2> QED
    BY <1>1, <1>2, <2>1, ConfigFacts
<1>7. CASE t = validators_and_executor(2, 3, 2)
  <2>1. t = Config(2, 1, 3, [subnetwork_size |-> 3, num_subnets |-> 3, dispersal_factor |-> 2])
    BY <1>7 DEF validators_and_executor
  <2> QED
    BY <1>1, <1>2, <2>1, ConfigFacts
<1> QED
  BY <1>3, <1>4, <1>5, <1>6, <1>7

\* The initial state satisfies the invariant.
LEMMA BuildInit == ScenarioInit => BuildInv
<1> SUFFICES ASSUME ScenarioInit PROVE BuildInv
  OBVIOUS
<1>1. TopologyInv
  <2>1. MaxNodes \in Nat
    <3>1. RandomIds \in Seq(DOMAIN PeerRank)
      BY BuildAssumption
    <3> QED
      BY <3>1 DEF MaxNodes
  <2>2. /\ empty \in Topology /\ empty.n_validators + empty.n_executors <= MaxNodes
        /\ WalletOf(0, empty.wallet)
    BY PredefinedFacts
  <2> QED
    BY <2>1, <2>2 DEF ScenarioInit, TopologyInv
<1>2. PartsInv
  BY DEF ScenarioInit, PartsInv
<1>3. DoneInv
  BY DEF ScenarioInit, DoneInv
<1> QED
  BY <1>1, <1>2, <1>3 DEF BuildInv

\* Steps of the topology's builder and of map_topology leave the parts as
\* they are.
LEMMA TopologyStep ==
  ASSUME BuildInv, SetCounts \/ ApplyTopology \/ NewBuilder \/ MapCounts \/ MapIds
  PROVE  BuildInv'
<1> USE DEF topoVars, partVars, doneVars
<1>0. MaxNodes \in Nat
  <2>1. RandomIds \in Seq(DOMAIN PeerRank)
    BY BuildAssumption
  <2> QED
    BY <2>1 DEF MaxNodes
<1>1. TopologyInv /\ PartsInv /\ DoneInv
  BY DEF BuildInv
<1>2. phase \in {"topology", "builder"} /\ phase' \in {"topology", "builder", "panicked"}
  BY DEF SetCounts, ApplyTopology, NewBuilder, MapCounts, MapIds, Calls, Panic
<1>3. UNCHANGED <<partVars, doneVars>>
  BY DEF SetCounts, ApplyTopology, NewBuilder, MapCounts, MapIds, Panic
<1>4. PartsInv' /\ DoneInv'
  BY <1>1, <1>2, <1>3 DEF PartsInv, DoneInv
<1>5. TopologyInv'
  <2>1. CASE SetCounts
    <3>1. PICK n \in Counts, role \in {"validators", "executors"} :
            configurator' = [configurator EXCEPT ![role] = n]
      BY <2>1 DEF SetCounts
    <3>2. n \in Nat
      BY BuildAssumption
    <3>3. configurator' \in [validators : Nat, executors : Nat]
      BY <1>1, <3>1, <3>2 DEF TopologyInv
    <3> QED
      BY <1>1, <2>1, <3>3 DEF TopologyInv, SetCounts
  <2>2. CASE ApplyTopology
    <3> DEFINE v == configurator.validators
               e == configurator.executors
    <3>1. v \in Nat /\ e \in Nat /\ v + e <= MaxNodes /\ v + e \in Nat
      BY <1>1 DEF TopologyInv
    <3>2. CASE v + e = 0
      <4>1. UNCHANGED topoVars /\ phase' = "panicked"
        BY <2>2, <3>2 DEF ApplyTopology, Panic
      <4> QED
        BY <1>1, <4>1 DEF TopologyInv
    <3>3. CASE v + e # 0
      <4>1. topology' = Config(v, e, v + e, da_params_for(v + e)) /\ phase = "topology"
            /\ phase' = "builder" /\ UNCHANGED <<configurator, funds>>
        BY <2>2, <3>3 DEF ApplyTopology, with_node_numbers, Calls
      <4>2. /\ topology' \in Topology /\ (topology.n_validators + topology.n_executors)' <= MaxNodes
            /\ WalletOf(0, topology'.wallet)
        BY <3>1, <4>1, ConfigFacts, ParamsFit
      <4> QED
        BY <1>1, <4>1, <4>2 DEF TopologyInv
    <3> QED
      BY <3>2, <3>3
  <2>3. CASE NewBuilder
    <3>1. topology' \in Topology /\ (topology.n_validators + topology.n_executors)' <= MaxNodes
          /\ WalletOf(0, topology'.wallet)
      BY <2>3, PredefinedFacts DEF NewBuilder
    <3> QED
      BY <1>1, <2>3, <3>1 DEF TopologyInv, NewBuilder, Calls
  <2>4. CASE MapCounts
    <3>1. PICK v \in Counts \cup {topology.n_validators}, e \in Counts \cup {topology.n_executors} :
            /\ v + e <= MaxNodes
            /\ topology' = [topology EXCEPT !.n_validators = v, !.n_executors = e]
      BY <2>4 DEF MapCounts
    <3>2. v \in Nat /\ e \in Nat /\ topology \in Topology
      BY <1>1, BuildAssumption DEF TopologyInv, Topology
    <3>3. topology' \in Topology /\ (topology.n_validators + topology.n_executors)' <= MaxNodes
          /\ topology'.wallet = topology.wallet
      BY <3>1, <3>2 DEF Topology
    <3> QED
      BY <1>1, <2>4, <3>3 DEF TopologyInv, MapCounts
  <2>5. CASE MapIds
    <3>1. topology \in Topology /\ topology.n_validators + topology.n_executors <= MaxNodes
      BY <1>1 DEF TopologyInv
    <3>2. topology' \in Topology /\ (topology.n_validators + topology.n_executors)' <= MaxNodes
          /\ topology'.wallet = topology.wallet
      <4>1. ASSUME NEW ids \in IdLists, topology' = [topology EXCEPT !.ids = ids]
            PROVE  /\ topology' \in Topology /\ topology'.wallet = topology.wallet
                   /\ (topology.n_validators + topology.n_executors)' <= MaxNodes
        <5>1. ids \in Seq(DOMAIN PeerRank)
          BY BuildAssumption
        <5> QED
          BY <3>1, <4>1, <5>1 DEF Topology
      <4>2. ASSUME NEW n \in PortCounts, NEW list \in {"da_ports", "blend_ports"},
                   topology' = [topology EXCEPT ![list] = n]
            PROVE  /\ topology' \in Topology /\ topology'.wallet = topology.wallet
                   /\ (topology.n_validators + topology.n_executors)' <= MaxNodes
        <5>1. n \in Nat
          BY BuildAssumption
        <5> QED
          BY <3>1, <4>2, <5>1 DEF Topology
      <4> QED
        BY <2>5, <4>1, <4>2 DEF MapIds
    <3> QED
      BY <1>1, <2>5, <3>2 DEF TopologyInv, MapIds
  <2> QED
    BY <2>1, <2>2, <2>3, <2>4, <2>5
<1> QED
  BY <1>4, <1>5 DEF BuildInv

\* A failed assertion before build() keeps the invariant.
LEMMA PanicKeeps ==
  ASSUME BuildInv, phase \notin {"built", "served"}, Panic
  PROVE  BuildInv'
  BY DEF BuildInv, TopologyInv, PartsInv, DoneInv, Panic, topoVars, partVars, doneVars

\* Seeding the wallet splits the funds, or panics.
LEMMA SeedStep ==
  ASSUME BuildInv, phase = "builder", NEW total \in Nat, NEW users \in Nat, Seed(total, users)
  PROVE  BuildInv'
<1>1. CASE users = 0 \/ total < users
  BY <1>1, PanicKeeps DEF Seed
<1>2. CASE ~ (users = 0 \/ total < users)
  <2>1. /\ topology' = [topology EXCEPT !.wallet = uniform(total, users)] /\ funds' = total
        /\ UNCHANGED <<phase, configurator, partVars, doneVars>>
    BY <1>2 DEF Seed
  <2>2. users \in Nat \ {0} /\ users <= total
    BY <1>2
  <2>3. WalletOf(total, uniform(total, users))
    BY <2>2 DEF WalletOf
  <2>4. uniform(total, users) \in Seq(Account)
    BY <2>3, WalletFacts
  <2>5. TopologyInv
    BY DEF BuildInv
  <2>6. /\ topology' \in Topology /\ topology'.wallet = uniform(total, users)
        /\ (topology.n_validators + topology.n_executors)' <= MaxNodes
    BY <2>1, <2>4, <2>5 DEF TopologyInv, Topology
  <2>7. TopologyInv'
    BY <2>1, <2>3, <2>5, <2>6 DEF TopologyInv
  <2>8. PartsInv' /\ DoneInv'
    BY <2>1 DEF BuildInv, PartsInv, DoneInv, partVars, doneVars
  <2> QED
    BY <2>7, <2>8 DEF BuildInv
<1> QED
  BY <1>1, <1>2

\* The builder's calls other than the flows.
LEMMA BuilderStep ==
  ASSUME BuildInv,
         wallets \/ initialize_wallet \/ with_run_duration
           \/ enable_node_control \/ expect_consensus_liveness
  PROVE  BuildInv'
<1>1. phase = "builder"
  BY DEF wallets, initialize_wallet, with_run_duration, enable_node_control,
         expect_consensus_liveness, Calls
<1>2. CASE wallets
  <2>1. PICK users \in Users : Seed(DEFAULT_FUNDS_PER_WALLET * users, users)
    BY <1>2 DEF wallets
  <2>2. users \in Nat /\ DEFAULT_FUNDS_PER_WALLET * users \in Nat
    <3>1. users \in Nat
      BY BuildAssumption
    <3> QED
      BY <3>1 DEF DEFAULT_FUNDS_PER_WALLET
  <2> QED
    BY <1>1, <2>1, <2>2, SeedStep
<1>3. CASE initialize_wallet
  <2>1. PICK total \in Funds, users \in Users : Seed(total, users)
    BY <1>3 DEF initialize_wallet
  <2>2. total \in Nat /\ users \in Nat
    BY BuildAssumption
  <2> QED
    BY <1>1, <2>1, <2>2, SeedStep
<1>4. CASE with_run_duration
  <2>1. duration' \in Nat
    BY <1>4, BuildAssumption DEF with_run_duration
  <2>2. UNCHANGED <<phase, topoVars, flow, workloads, expectations, doneVars>>
    BY <1>4 DEF with_run_duration
  <2> QED
    BY <1>1, <2>1, <2>2
    DEF BuildInv, TopologyInv, PartsInv, DoneInv, topoVars, doneVars
<1>5. CASE enable_node_control
  <2>1. UNCHANGED <<phase, topoVars, flow, workloads, expectations, duration, doneVars>>
    BY <1>5 DEF enable_node_control
  <2> QED
    BY <1>1, <2>1
    DEF BuildInv, TopologyInv, PartsInv, DoneInv, topoVars, doneVars
<1>6. CASE expect_consensus_liveness
  <2> DEFINE E == TxFlow \cup DaFlow \cup {[kind |-> "liveness"]}
             x == [kind |-> "liveness"]
  <2>1. /\ expectations' = Append(expectations, x)
        /\ UNCHANGED <<phase, topoVars, flow, workloads, duration, doneVars>>
    BY <1>6 DEF expect_consensus_liveness
  <2>2. PartsInv /\ TopologyInv /\ DoneInv
    BY DEF BuildInv
  <2>3. expectations \in Seq(E) /\ x \in E
    BY <2>2 DEF PartsInv
  <2> HIDE DEF E, x
  <2>4. /\ expectations' \in Seq(E)
        /\ \A k \in DOMAIN expectations :
             k \in DOMAIN expectations' /\ expectations'[k] = expectations[k]
    BY <2>1, <2>3
  <2>5. PartsInv'
    BY <2>1, <2>2, <2>4 DEF PartsInv, E
  <2>6. TopologyInv' /\ DoneInv'
    BY <1>1, <2>1, <2>2 DEF TopologyInv, DoneInv, topoVars, doneVars
  <2> QED
    BY <2>5, <2>6 DEF BuildInv
<1> QED
  BY <1>2, <1>3, <1>4, <1>5, <1>6

\* A step that only changes the open flow, to another one.
LEMMA FlowChanged ==
  ASSUME BuildInv, phase \in {"builder", "flow"}, phase' = "flow",
         flow' \in TxFlow \cup DaFlow \cup ChaosFlow,
         UNCHANGED <<topoVars, workloads, expectations, duration, capabilities, doneVars>>
  PROVE  BuildInv'
  BY DEF BuildInv, TopologyInv, PartsInv, DoneInv, topoVars, doneVars

\* A setter with a value other than zero gives a flow of the same kind.
LEMMA SetFlowStep ==
  ASSUME BuildInv, NEW kind, NEW field, NEW values, SetFlow(kind, field, values),
         \A x \in values \ {0} : [flow EXCEPT ![field] = x] \in TxFlow \cup DaFlow \cup ChaosFlow
  PROVE  BuildInv'
<1>1. phase = "flow"
  BY DEF SetFlow, Calls
<1>2. PICK x \in values :
        IF x = 0 THEN Panic
        ELSE /\ flow' = [flow EXCEPT ![field] = x]
             /\ UNCHANGED <<phase, topoVars, workloads, expectations, duration,
                            capabilities, doneVars>>
  BY DEF SetFlow
<1>3. CASE x = 0
  BY <1>1, <1>2, <1>3, PanicKeeps
<1>4. CASE x # 0
  BY <1>1, <1>2, <1>4, FlowChanged
<1> QED
  BY <1>3, <1>4

\* The flow builders' calls up to apply().
LEMMA FlowStep ==
  ASSUME BuildInv,
         OpenFlow \/ SetRate \/ SetUsers \/ SetDaRate \/ SetHeadroom \/ SetDelay \/ SetGroups
  PROVE  BuildInv'
<1>1. phase = "flow" => flow \in TxFlow \cup DaFlow \cup ChaosFlow
  BY DEF BuildInv, PartsInv
<1>2. CASE OpenFlow
  <2>1. DefaultTx \in TxFlow /\ DefaultDaFlow \in DaFlow /\ DefaultChaos \in ChaosFlow
    BY DEF DefaultTx, DefaultDaFlow, DefaultChaos, TxFlow, DaFlow, ChaosFlow
  <2>2. /\ phase = "builder" /\ phase' = "flow"
        /\ flow' \in {DefaultTx, DefaultDaFlow, DefaultChaos}
        /\ UNCHANGED <<topoVars, workloads, expectations, duration, capabilities, doneVars>>
    BY <1>2 DEF OpenFlow, Calls
  <2> QED
    BY <2>1, <2>2, FlowChanged
<1>3. CASE SetRate \/ SetUsers
  <2>1. phase = "flow" /\ flow.kind = "tx"
    BY <1>3 DEF SetRate, SetUsers, SetFlow, Calls
  <2>2. flow \in TxFlow
    BY <1>1, <2>1 DEF DaFlow, ChaosFlow
  <2>3. CASE SetRate
    <3>1. \A x \in Rates \ {0} : [flow EXCEPT !["rate"] = x] \in TxFlow
      BY <2>2, BuildAssumption DEF TxFlow
    <3> QED
      BY <2>3, <3>1, SetFlowStep DEF SetRate
  <2>4. CASE SetUsers
    <3>1. \A x \in Users \ {0} : [flow EXCEPT !["users"] = x] \in TxFlow
      BY <2>2, BuildAssumption DEF TxFlow
    <3> QED
      BY <2>4, <3>1, SetFlowStep DEF SetUsers
  <2> QED
    BY <1>3, <2>3, <2>4
<1>4. CASE SetDaRate
  <2>1. PICK field \in {"channel_rate", "blob_rate"} : SetFlow("da", field, Rates)
    BY <1>4 DEF SetDaRate
  <2>2. flow \in DaFlow
    BY <1>1, <2>1 DEF SetFlow, Calls, TxFlow, ChaosFlow
  <2>3. \A x \in Rates \ {0} : [flow EXCEPT ![field] = x] \in DaFlow
    BY <2>2, BuildAssumption DEF DaFlow
  <2> QED
    BY <2>1, <2>3, SetFlowStep
<1>5. CASE SetDelay
  <2>1. PICK field \in {"min_delay", "max_delay", "target_cooldown"} :
          SetFlow("chaos", field, Delays)
    BY <1>5 DEF SetDelay
  <2>2. flow \in ChaosFlow
    BY <1>1, <2>1 DEF SetFlow, Calls, TxFlow, DaFlow
  <2>3. \A x \in Delays \ {0} : [flow EXCEPT ![field] = x] \in ChaosFlow
    BY <2>2, BuildAssumption DEF ChaosFlow
  <2> QED
    BY <2>1, <2>3, SetFlowStep
<1>6. CASE SetHeadroom
  <2>1. phase = "flow" /\ flow.kind = "da"
    BY <1>6 DEF SetHeadroom, Calls
  <2>2. flow \in DaFlow
    BY <1>1, <2>1 DEF TxFlow, ChaosFlow
  <2>3. flow' \in DaFlow
    BY <1>6, <2>2, BuildAssumption DEF SetHeadroom, DaFlow
  <2> QED
    BY <1>6, <2>1, <2>3, FlowChanged DEF SetHeadroom
<1>7. CASE SetGroups
  <2>1. phase = "flow" /\ flow.kind = "chaos"
    BY <1>7 DEF SetGroups, Calls
  <2>2. flow \in ChaosFlow
    BY <1>1, <2>1 DEF TxFlow, DaFlow
  <2>3. PICK group \in {"validators", "executors"}, enabled \in BOOLEAN :
          flow' = [flow EXCEPT !.groups = IF enabled THEN @ \cup {group} ELSE @ \ {group}]
    BY <1>7 DEF SetGroups
  <2>4. flow' \in ChaosFlow
    BY <2>2, <2>3 DEF ChaosFlow
  <2> QED
    BY <1>7, <2>1, <2>4, FlowChanged DEF SetGroups
<1> QED
  BY <1>2, <1>3, <1>4, <1>5, <1>6, <1>7

\* apply() attaches the workload with its expectations.
LEMMA ApplyStep ==
  ASSUME BuildInv, ApplyTransactions \/ ApplyDa \/ ApplyChaos
  PROVE  BuildInv'
<1> DEFINE W == TxFlow \cup DaFlow \cup FitChaos
           E == TxFlow \cup DaFlow \cup {[kind |-> "liveness"]}
<1>1. phase = "flow" /\ flow \in TxFlow \cup DaFlow \cup ChaosFlow
  BY DEF BuildInv, PartsInv, ApplyTransactions, ApplyDa, ApplyChaos, Calls
<1>2. Panic \/ (with_workload(flow) /\ flow \in W)
  <2>1. CASE ApplyTransactions
    BY <1>1, <2>1 DEF ApplyTransactions, DaFlow, ChaosFlow
  <2>2. CASE ApplyDa
    BY <1>1, <2>2 DEF ApplyDa, TxFlow, ChaosFlow
  <2>3. CASE ApplyChaos
    <3>1. flow \in ChaosFlow
      BY <1>1, <2>3 DEF ApplyChaos, TxFlow, DaFlow
    <3>2. CASE /\ flow.min_delay <= flow.max_delay
               /\ flow.target_cooldown >= flow.min_delay
               /\ flow.groups # {}
      <4>1. flow \in FitChaos
        BY <3>1, <3>2 DEF FitChaos, ChaosFlow
      <4> QED
        BY <2>3, <3>2, <4>1 DEF ApplyChaos
    <3>3. CASE ~ (/\ flow.min_delay <= flow.max_delay
                  /\ flow.target_cooldown >= flow.min_delay
                  /\ flow.groups # {})
      BY <2>3, <3>3 DEF ApplyChaos
    <3> QED
      BY <3>2, <3>3
  <2> QED
    BY <2>1, <2>2, <2>3
<1>3. CASE Panic
  BY <1>1, <1>3, PanicKeeps
<1>4. CASE with_workload(flow) /\ flow \in W
  <2>1. /\ phase' = "builder"
        /\ expectations' = expectations \o expectations_of(flow)
        /\ workloads' = Append(workloads, flow)
        /\ UNCHANGED <<topoVars, duration, capabilities, doneVars>>
    BY <1>4 DEF with_workload
  <2>2. TopologyInv /\ PartsInv /\ DoneInv
    BY DEF BuildInv
  <2>3. workloads \in Seq(W) /\ expectations \in Seq(E)
    BY <2>2 DEF PartsInv
  <2>4. /\ expectations_of(flow) \in Seq(E)
        /\ flow.kind = "tx" => expectations_of(flow) = <<flow>>
    <3>1. CASE flow.kind = "chaos"
      BY <3>1 DEF expectations_of
    <3>2. CASE flow.kind # "chaos"
      <4>1. flow \in E
        BY <1>4, <3>2 DEF FitChaos, ChaosFlow
      <4>2. expectations_of(flow) = <<flow>>
        BY <3>2 DEF expectations_of
      <4> HIDE DEF E
      <4> QED
        BY <4>1, <4>2
    <3> QED
      BY <3>1, <3>2
  <2> DEFINE m == Len(expectations)
             n == Len(workloads)
  <2> HIDE DEF E, W
  <2>5. /\ expectations' \in Seq(E) /\ m \in Nat /\ DOMAIN expectations = 1 .. m
        /\ \A k \in 1 .. m : k \in DOMAIN expectations' /\ expectations'[k] = expectations[k]
    BY <2>1, <2>3, <2>4
  <2>6. flow.kind = "tx" => m + 1 \in DOMAIN expectations' /\ expectations'[m + 1] = flow
    <3> SUFFICES ASSUME flow.kind = "tx"
                 PROVE  m + 1 \in DOMAIN expectations' /\ expectations'[m + 1] = flow
      OBVIOUS
    <3>1. expectations' = expectations \o <<flow>> /\ <<flow>> \in Seq(E)
      BY <2>1, <2>4
    <3> QED
      BY <2>3, <3>1
  <2>7. /\ workloads' \in Seq(W) /\ n \in Nat /\ DOMAIN workloads = 1 .. n
        /\ DOMAIN workloads' = 1 .. n + 1 /\ workloads'[n + 1] = flow
        /\ \A i \in 1 .. n : workloads'[i] = workloads[i]
    BY <1>4, <2>1, <2>3
  <2>8. \A i \in DOMAIN workloads' : workloads'[i].kind = "tx" =>
          \E k \in DOMAIN expectations' : expectations'[k] = workloads'[i]
    <3> SUFFICES ASSUME NEW i \in 1 .. n + 1, workloads'[i].kind = "tx"
                 PROVE  \E k \in DOMAIN expectations' : expectations'[k] = workloads'[i]
      BY <2>7
    <3>1. CASE i = n + 1
      BY <2>6, <2>7, <3>1
    <3>2. CASE i # n + 1
      <4>1. i \in 1 .. n
        BY <2>7, <3>2
      <4>2. workloads'[i] = workloads[i] /\ i \in DOMAIN workloads
        BY <2>7, <4>1
      <4>3. PICK k \in DOMAIN expectations : expectations[k] = workloads[i]
        BY <2>2, <4>2 DEF PartsInv
      <4> QED
        BY <2>5, <4>2, <4>3
    <3> QED
      BY <3>1, <3>2
  <2>9. PartsInv'
    BY <2>1, <2>2, <2>5, <2>7, <2>8 DEF PartsInv, E, W
  <2>10. TopologyInv' /\ DoneInv'
    BY <1>1, <2>1, <2>2 DEF TopologyInv, DoneInv, topoVars, doneVars
  <2> QED
    BY <2>9, <2>10 DEF BuildInv
<1> QED
  BY <1>2, <1>3, <1>4

\* What build() resolves: an id for each node.
LEMMA GeneratedFacts ==
  ASSUME TopologyInv, Resolved(topology)
  PROVE  LET g == Generate(topology)
             n == topology.n_validators + topology.n_executors
         IN  /\ n \in Nat \ {0} /\ Len(g.nodes) = n /\ DOMAIN g.nodes = 1 .. n
             /\ g.nodes = Nodes(topology)
             /\ g.ids \in Seq(DOMAIN PeerRank) /\ Len(g.ids) = n
             /\ g.wallet = topology.wallet /\ g.da = topology.da
             /\ g.slot = slot_duration(topology)
             /\ g.ledger = create_consensus_configs(g.ids, g.wallet)
             /\ \E address : g.declarations =
                  create_genesis_tx_with_declarations(create_providers(g.ids, address))
             /\ g.membership = create_da_configs(g.ids, g.da)
<1> DEFINE n == topology.n_validators + topology.n_executors
           ids == IF topology.ids # None THEN topology.ids ELSE SubSeq(RandomIds, 1, n)
           address == [i \in 1 .. Len(ids) |-> "loopback"]
           g == Generate(topology)
<1>1. topology.n_validators \in Nat /\ topology.n_executors \in Nat /\ n <= MaxNodes
      /\ topology.ids \in Seq(DOMAIN PeerRank) \cup {None}
  BY DEF TopologyInv, Topology
<1>2. n \in Nat \ {0}
  BY <1>1 DEF Resolved
<1>3. Len(Nodes(topology)) = n /\ DOMAIN Nodes(topology) = 1 .. n
  BY <1>1, NodeFacts
<1>4. ids \in Seq(DOMAIN PeerRank) /\ Len(ids) = n
  <2>1. CASE topology.ids # None
    BY <1>1, <2>1 DEF Resolved
  <2>2. CASE topology.ids = None
    <3>1. RandomIds \in Seq(DOMAIN PeerRank) /\ n <= Len(RandomIds)
      BY <1>1, BuildAssumption DEF MaxNodes
    <3>2. SubSeq(RandomIds, 1, n) \in Seq(DOMAIN PeerRank) /\ Len(SubSeq(RandomIds, 1, n)) = n
      <4> HIDE DEF n
      <4> QED
        BY <1>2, <3>1
    <3> QED
      BY <2>2, <3>2
  <2> QED
    BY <2>1, <2>2
<1>5. /\ g.nodes = Nodes(topology) /\ g.ids = ids /\ g.wallet = topology.wallet
      /\ g.da = topology.da /\ g.slot = slot_duration(topology)
      /\ g.ledger = create_consensus_configs(ids, topology.wallet)
      /\ g.declarations = create_genesis_tx_with_declarations(create_providers(ids, address))
      /\ g.membership = create_da_configs(ids, topology.da)
  BY DEF Generate
<1> HIDE DEF g, ids, address
<1> QED
  BY <1>2, <1>3, <1>4, <1>5, Zenon DEF g, n

\* build() panics, or makes the scenario of the topology.
LEMMA BuildStep ==
  ASSUME BuildInv, Build
  PROVE  BuildInv'
<1>1. phase = "builder" /\ TopologyInv /\ PartsInv /\ DoneInv
  BY DEF Build, BuildInv
<1> DEFINE failed == ~Resolved(topology) \/ ~initialize_components(Generate(topology))
<1>2. CASE failed
  <2>1. Panic
    BY <1>2 DEF Build
  <2> QED
    BY <1>1, <2>1, PanicKeeps
<1>3. CASE ~ failed
  <2>1. /\ phase' = "built"
        /\ scenario' = Generate(topology)
        /\ duration' = enforce_min_duration(topology, duration)
        /\ prepared' = [i \in {j \in DOMAIN workloads : workloads[j].kind = "tx"} |->
                          wallet_inputs(Generate(topology), workloads[i])]
        /\ UNCHANGED <<topology, configurator, funds, flow, workloads, expectations,
                       capabilities, remote>>
    BY <1>3 DEF Build, topoVars
  <2>2. /\ Resolved(topology)' /\ initialize_components(scenario)'
    <3>1. Resolved(topology)'
      BY <1>3, <2>1 DEF Resolved
    <3>2. initialize_components(scenario)'
      BY <1>3, <2>1 DEF initialize_components
    <3> QED
      BY <3>1, <3>2
  <2>3. /\ duration' \in Nat \ {0}
        /\ slot_duration(topology) # None => slot_duration(topology) = Slot /\ duration' >= 2 * Slot
    BY <1>1, <2>1, DurationFacts DEF PartsInv
  <2>4. Generate(topology).slot = slot_duration(topology)
    BY DEF Generate
  <2>5. scenario' = Generate(topology)' /\ Generate(topology)' = Generate(topology)
    BY <2>1
  <2>6. BuiltInv'
    BY <2>1, <2>2, <2>3, <2>4, <2>5 DEF BuiltInv
  <2>7. DoneInv'
    BY <1>1, <2>1, <2>6 DEF DoneInv
  <2>8. TopologyInv' /\ PartsInv'
    BY <1>1, <2>1, <2>3 DEF TopologyInv, PartsInv
  <2> QED
    BY <2>7, <2>8 DEF BuildInv
<1> QED
  BY <1>2, <1>3

\* The cfgsync server accepts the scenario, with the hosts in its order.
LEMMA ServeStep ==
  ASSUME BuildInv, Serve
  PROVE  BuildInv'
<1>1. phase = "built" /\ TopologyInv /\ PartsInv /\ DoneInv /\ BuiltInv
  BY DEF Serve, BuildInv, DoneInv
<1>2. PICK announced \in SetToSeqs(ToSet(scenario.nodes)) :
        LET hosts == sort_hosts(announced)
        IN  IF ~validate_inputs(apply_topology_overrides, hosts) THEN Panic
            ELSE /\ phase' = "served"
                 /\ \E ports \in [1 .. Len(hosts) -> Ports] :
                      remote' = create_node_configs(apply_topology_overrides, hosts, ports)
                 /\ UNCHANGED <<topoVars, partVars, scenario, prepared>>
  BY DEF Serve
<1>3. /\ scenario.nodes = Nodes(topology) /\ Len(scenario.ids) = Len(scenario.nodes)
      /\ topology.n_validators \in Nat /\ topology.n_executors \in Nat
  BY <1>1, GeneratedFacts DEF BuiltInv, TopologyInv, Topology
<1>4. sort_hosts(announced) = scenario.nodes
  BY <1>2, <1>3, HostsSorted
<1>5. validate_inputs(apply_topology_overrides, scenario.nodes)
  BY <1>3 DEF validate_inputs, apply_topology_overrides
<1>6. /\ phase' = "served" /\ ServedInv'
      /\ UNCHANGED <<topoVars, partVars, scenario, prepared>>
  BY <1>2, <1>4, <1>5 DEF ServedInv, apply_topology_overrides
<1>7. BuiltInv'
  <2>1. /\ Resolved(topology)' /\ Generate(topology)' = Generate(topology)
        /\ initialize_components(scenario)'
    BY <1>1, <1>6 DEF BuiltInv, Resolved, initialize_components, topoVars, partVars
  <2> QED
    BY <1>1, <1>6, <2>1 DEF BuiltInv, topoVars, partVars
<1>8. DoneInv'
  BY <1>6, <1>7 DEF DoneInv
<1>9. TopologyInv' /\ PartsInv'
  BY <1>1, <1>6 DEF TopologyInv, PartsInv, topoVars, partVars
<1> QED
  BY <1>8, <1>9 DEF BuildInv

\* The invariant is inductive.
LEMMA BuildNext == BuildInv /\ [ScenarioNext]_scenarioVars => BuildInv'
<1> SUFFICES ASSUME BuildInv, [ScenarioNext]_scenarioVars PROVE BuildInv'
  OBVIOUS
<1>1. CASE SetCounts \/ ApplyTopology \/ NewBuilder \/ MapCounts \/ MapIds
  BY <1>1, TopologyStep
<1>2. CASE wallets \/ initialize_wallet \/ with_run_duration
             \/ enable_node_control \/ expect_consensus_liveness
  BY <1>2, BuilderStep
<1>3. CASE OpenFlow \/ SetRate \/ SetUsers \/ SetDaRate \/ SetHeadroom \/ SetDelay \/ SetGroups
  BY <1>3, FlowStep
<1>4. CASE ApplyTransactions \/ ApplyDa \/ ApplyChaos
  BY <1>4, ApplyStep
<1>5. CASE Build
  BY <1>5, BuildStep
<1>6. CASE Serve
  BY <1>6, ServeStep
<1>7. CASE UNCHANGED scenarioVars
  <2>1. TopologyInv' /\ PartsInv'
    BY <1>7 DEF BuildInv, TopologyInv, PartsInv, scenarioVars
  <2>2. BuiltInv => BuiltInv'
    BY <1>7 DEF BuiltInv, Resolved, initialize_components, scenarioVars
  <2>3. ServedInv => ServedInv'
    BY <1>7 DEF ServedInv, apply_topology_overrides, scenarioVars
  <2>4. DoneInv'
    BY <1>7, <2>2, <2>3 DEF BuildInv, DoneInv, scenarioVars
  <2> QED
    BY <2>1, <2>4 DEF BuildInv
<1> QED
  BY <1>1, <1>2, <1>3, <1>4, <1>5, <1>6, <1>7 DEF ScenarioNext

\* In every run of the builder, BuildInv holds.
LEMMA BuildInvariance == ScenarioSpec => []BuildInv
  BY BuildInit, BuildNext, PTL DEF ScenarioSpec

------------------------------------------------------------------------------
(* What follows from it.                                                   *)

\* What both generations have in common.
Generated(g) ==
  /\ g.ids = scenario.ids /\ g.da = scenario.da
  /\ g.ledger = scenario.ledger /\ g.membership = scenario.membership
  /\ \E address : g.declarations =
       create_genesis_tx_with_declarations(create_providers(scenario.ids, address))

\* The cfgsync server generates from what the descriptors say.
LEMMA RemoteFacts ==
  ASSUME BuildInv, phase = "served"
  PROVE  /\ Generated(remote)
         /\ remote.hosts = scenario.nodes
         /\ remote.declarations =
              create_genesis_tx_with_declarations(create_providers(scenario.ids, scenario.nodes))
         /\ \E ports \in [1 .. Len(scenario.nodes) -> Ports] :
              remote.initial_peers = rewrite_initial_peers(ports, scenario.nodes)
<1> DEFINE cfg == apply_topology_overrides
<1>1. TopologyInv /\ BuiltInv /\ ServedInv
  BY DEF BuildInv, DoneInv
<1>2. /\ scenario.da \in DaParams
      /\ scenario.ledger = create_consensus_configs(scenario.ids, scenario.wallet)
      /\ scenario.membership = create_da_configs(scenario.ids, scenario.da)
  <2>1. topology.da \in DaParams
    BY <1>1 DEF TopologyInv, Topology
  <2> QED
    BY <1>1, <2>1, GeneratedFacts DEF BuiltInv
<1>3. cfg.ids = scenario.ids /\ cfg.wallet = scenario.wallet
  BY DEF apply_topology_overrides
<1>4. to_da_params(cfg) = scenario.da
  BY <1>2 DEF to_da_params, apply_topology_overrides, DaParams
<1> HIDE DEF cfg
<1>5. PICK ports \in [1 .. Len(scenario.nodes) -> Ports] :
        remote = create_node_configs(cfg, scenario.nodes, ports)
  BY <1>1 DEF ServedInv, cfg
<1>6. /\ remote.hosts = scenario.nodes /\ remote.ids = cfg.ids /\ remote.da = to_da_params(cfg)
      /\ remote.ledger = create_consensus_configs(cfg.ids, cfg.wallet)
      /\ remote.declarations =
           create_genesis_tx_with_declarations(create_providers(cfg.ids, scenario.nodes))
      /\ remote.membership = create_da_configs(cfg.ids, to_da_params(cfg))
      /\ remote.initial_peers = rewrite_initial_peers(ports, scenario.nodes)
  BY <1>5 DEF create_node_configs
<1>7. remote.ledger = scenario.ledger /\ remote.membership = scenario.membership
  BY <1>2, <1>3, <1>4, <1>6
<1>8. remote.declarations =
        create_genesis_tx_with_declarations(create_providers(scenario.ids, scenario.nodes))
  BY <1>3, <1>6
<1> QED
  BY <1>3, <1>4, <1>5, <1>6, <1>7, <1>8 DEF Generated

\* Every generation is the one of the topology.
LEMMA GenerationsFacts ==
  ASSUME BuildInv, NEW g \in Generations
  PROVE  phase \in {"built", "served"} /\ Generated(g)
<1>1. TopologyInv /\ DoneInv
  BY DEF BuildInv
<1>2. CASE g = scenario
  <2>1. phase \in {"built", "served"} /\ BuiltInv
    BY <1>1, <1>2 DEF DoneInv, Generations
  <2>2. Generated(scenario)
    <3>1. \E address : scenario.declarations =
            create_genesis_tx_with_declarations(create_providers(scenario.ids, address))
      BY <1>1, <2>1, GeneratedFacts DEF BuiltInv
    <3> QED
      BY <3>1 DEF Generated
  <2> QED
    BY <1>2, <2>1, <2>2
<1>3. CASE g = remote
  <2>1. phase = "served"
    BY <1>1, <1>3 DEF DoneInv, Generations
  <2> QED
    BY <1>3, <2>1, RemoteFacts
<1> QED
  BY <1>2, <1>3 DEF Generations

\* The state of a built scenario.
LEMMA ScenarioFacts ==
  ASSUME BuildInv, phase \in {"built", "served"}
  PROVE  /\ scenario.ids \in Seq(DOMAIN PeerRank) /\ Len(scenario.ids) > 0
         /\ scenario.da \in DaParams
         /\ WalletOf(funds, scenario.wallet) /\ scenario.wallet \in Seq(Account)
         /\ scenario.ledger = create_consensus_configs(scenario.ids, scenario.wallet)
         /\ scenario.membership = create_da_configs(scenario.ids, scenario.da)
<1>1. TopologyInv /\ BuiltInv
  BY DEF BuildInv, DoneInv
<1>2. /\ topology.da \in DaParams /\ topology.wallet \in Seq(Account)
      /\ WalletOf(funds, topology.wallet)
  BY <1>1 DEF TopologyInv, Topology
<1> DEFINE n == topology.n_validators + topology.n_executors
<1>3. /\ n \in Nat \ {0} /\ Len(scenario.ids) = n
      /\ scenario.ids \in Seq(DOMAIN PeerRank)
      /\ scenario.wallet = topology.wallet /\ scenario.da = topology.da
      /\ scenario.ledger = create_consensus_configs(scenario.ids, scenario.wallet)
      /\ scenario.membership = create_da_configs(scenario.ids, scenario.da)
  BY <1>1, GeneratedFacts DEF BuiltInv
<1>4. Len(scenario.ids) > 0
  BY <1>3
<1> QED
  BY <1>2, <1>3, <1>4

\* GenesisSound follows.
LEMMA SoundHere == BuildInv => GenesisSound
<1> SUFFICES ASSUME BuildInv, NEW g \in Generations
             PROVE  /\ LockedIn(g.ledger, g.declarations, g.ids)
                    /\ FundsIn(g.ledger, funds)
                    /\ Covers(g.membership, g.ids, g.da)
  BY DEF GenesisSound, NotesLocked, FundsConserved, MembershipCovers, LockedIn, FundsIn, Covers
<1>1. phase \in {"built", "served"} /\ Generated(g)
  BY GenerationsFacts
<1>2. /\ scenario.ids \in Seq(DOMAIN PeerRank) /\ Len(scenario.ids) > 0
      /\ scenario.da \in DaParams
      /\ WalletOf(funds, scenario.wallet) /\ scenario.wallet \in Seq(Account)
      /\ g.ledger = create_consensus_configs(scenario.ids, scenario.wallet)
      /\ g.membership = create_da_configs(scenario.ids, scenario.da)
      /\ g.ids = scenario.ids /\ g.da = scenario.da
  BY <1>1, ScenarioFacts DEF Generated
<1>3. PICK address : g.declarations =
        create_genesis_tx_with_declarations(create_providers(scenario.ids, address))
  BY <1>1 DEF Generated
<1>4. LockedIn(g.ledger, g.declarations, g.ids)
  <2>1. LockedIn(create_consensus_configs(scenario.ids, scenario.wallet),
                 create_genesis_tx_with_declarations(create_providers(scenario.ids, address)),
                 scenario.ids)
    BY <1>2, DeclarationsLock
  <2> QED
    BY <1>2, <1>3, <2>1
<1>5. FundsIn(g.ledger, funds)
  BY <1>2, LedgerPays
<1>6. Covers(g.membership, g.ids, g.da)
  BY <1>2, DaConfigsCover
<1> QED
  BY <1>4, <1>5, <1>6

\* RemoteAgrees follows.
LEMMA AgreesHere == BuildInv => RemoteAgrees
<1> SUFFICES ASSUME BuildInv PROVE RemoteAgrees
  OBVIOUS
<1>1. TopologyInv /\ DoneInv
  BY DEF BuildInv
<1>2. BuiltIsServed
  BY <1>1 DEF DoneInv, BuiltIsServed
<1>3. CASE remote = None
  BY <1>2, <1>3 DEF RemoteAgrees, IdentitiesAgree, RemoteConnected
<1>4. CASE remote # None
  <2> DEFINE n == Len(scenario.nodes)
  <2>1. phase = "served" /\ BuiltInv
    BY <1>1, <1>4 DEF DoneInv
  <2>2. n \in Nat /\ DOMAIN scenario.nodes = 1 .. n /\ Len(scenario.ids) = n
        /\ scenario.ids \in Seq(DOMAIN PeerRank)
    BY <1>1, <2>1, GeneratedFacts DEF BuiltInv
  <2>3. /\ Generated(remote) /\ remote.hosts = scenario.nodes
        /\ remote.declarations =
             create_genesis_tx_with_declarations(create_providers(scenario.ids, scenario.nodes))
    BY <2>1, RemoteFacts
  <2>4. PICK ports \in [1 .. Len(scenario.nodes) -> Ports] :
          remote.initial_peers = rewrite_initial_peers(ports, scenario.nodes)
    BY <2>1, RemoteFacts
  <2>5. RemoteConnected
    <3>1. n \in Nat /\ ports \in [1 .. n -> Ports] /\ DOMAIN scenario.nodes = 1 .. n
      BY <2>2
    <3> HIDE DEF n
    <3>2. DialFirst(rewrite_initial_peers(ports, scenario.nodes), scenario.nodes)
      BY <3>1, PeersRewritten
    <3>3. DialFirst(remote.initial_peers, remote.hosts)
      BY <2>3, <2>4, <3>2
    <3> QED
      BY <3>3 DEF RemoteConnected, DialFirst
  <2> HIDE DEF n
  <2>6. \A k \in DOMAIN remote.declarations : \E i \in DOMAIN scenario.nodes :
          /\ remote.declarations[k].provider_id = scenario.ids[i]
          /\ remote.declarations[k].locator = scenario.nodes[i]
    <3> DEFINE ds == remote.declarations
    <3>1. /\ DOMAIN ds = 1 .. n + n
          /\ \A i \in 1 .. n : /\ ds[i] = Declared(scenario.ids, scenario.nodes, "da", i)
                               /\ ds[n + i] = Declared(scenario.ids, scenario.nodes, "bn", i)
      <4>1. LET declarations == create_genesis_tx_with_declarations(
                                  create_providers(scenario.ids, scenario.nodes))
                m == Len(scenario.ids)
            IN  /\ DOMAIN declarations = 1 .. m + m
                /\ \A i \in 1 .. m :
                     /\ declarations[i] = Declared(scenario.ids, scenario.nodes, "da", i)
                     /\ declarations[m + i] = Declared(scenario.ids, scenario.nodes, "bn", i)
        BY <2>2, DeclarationFacts
      <4> QED
        BY <2>2, <2>3, <4>1
    <3> HIDE DEF ds
    <3>2. \A i \in 1 .. n :
            /\ ds[i].provider_id = scenario.ids[i] /\ ds[i].locator = scenario.nodes[i]
            /\ ds[n + i].provider_id = scenario.ids[i] /\ ds[n + i].locator = scenario.nodes[i]
      <4> SUFFICES ASSUME NEW i \in 1 .. n
                   PROVE  /\ ds[i].provider_id = scenario.ids[i]
                          /\ ds[i].locator = scenario.nodes[i]
                          /\ ds[n + i].provider_id = scenario.ids[i]
                          /\ ds[n + i].locator = scenario.nodes[i]
        OBVIOUS
      <4>1. \A service \in {"da", "bn"} :
              /\ Declared(scenario.ids, scenario.nodes, service, i).provider_id = scenario.ids[i]
              /\ Declared(scenario.ids, scenario.nodes, service, i).locator = scenario.nodes[i]
        BY DEF Declared
      <4>2. /\ ds[i] = Declared(scenario.ids, scenario.nodes, "da", i)
            /\ ds[n + i] = Declared(scenario.ids, scenario.nodes, "bn", i)
        BY <3>1
      <4> QED
        BY <4>1, <4>2
    <3> SUFFICES ASSUME NEW k \in 1 .. n + n
                 PROVE  \E i \in 1 .. n : /\ ds[k].provider_id = scenario.ids[i]
                                          /\ ds[k].locator = scenario.nodes[i]
      BY <2>2, <3>1 DEF ds
    <3>3. CASE k <= n
      <4>1. k \in 1 .. n
        BY <2>2, <3>3
      <4> QED
        BY <3>2, <4>1
    <3>4. CASE ~ (k <= n)
      <4>1. k - n \in 1 .. n /\ k = n + (k - n)
        BY <2>2, <3>4
      <4> QED
        BY <3>2, <4>1
    <3> QED
      BY <3>3, <3>4
  <2>7. IdentitiesAgree
    BY <2>3, <2>6 DEF IdentitiesAgree, Generated
  <2> QED
    BY <1>2, <2>5, <2>7 DEF RemoteAgrees
<1> QED
  BY <1>3, <1>4

\* The inputs that a transaction workload prepared are the outputs of the
\* first accounts.
LEMMA PreparedFacts ==
  ASSUME BuildInv, phase \in {"built", "served"}, NEW w \in DOMAIN prepared
  PROVE  LET n == limited(workloads[w].users, Len(scenario.wallet))
         IN  /\ w \in DOMAIN workloads /\ workloads[w] \in TxFlow
             /\ prepared[w] = [i \in 1 .. n |-> Spends(scenario.ids, scenario.wallet[i], i)]
             /\ n \in 0 .. Len(scenario.wallet) /\ n # 0
<1> DEFINE n == limited(workloads[w].users, Len(scenario.wallet))
<1>1. PartsInv /\ BuiltInv
  BY DEF BuildInv, DoneInv
<1>2. /\ w \in DOMAIN workloads /\ workloads[w].kind = "tx"
      /\ prepared[w] = wallet_inputs(scenario, workloads[w])
  BY <1>1 DEF BuiltInv
<1>3. workloads[w] \in TxFlow
  <2>1. workloads[w] \in TxFlow \cup DaFlow \cup FitChaos
    BY <1>1, <1>2 DEF PartsInv
  <2> QED
    BY <1>2, <2>1 DEF DaFlow, FitChaos, ChaosFlow
<1>4. /\ workloads[w].users \in Nat \cup {None}
      /\ (workloads[w].users = None \/ workloads[w].users # 0)
  BY <1>3 DEF TxFlow
<1>5. /\ scenario.ids \in Seq(DOMAIN PeerRank) /\ WalletOf(funds, scenario.wallet)
      /\ scenario.wallet \in Seq(Account)
      /\ scenario.ledger = create_consensus_configs(scenario.ids, scenario.wallet)
  BY ScenarioFacts
<1>6. wallet_inputs(scenario, workloads[w]) =
        Prepares(scenario.ids, scenario.wallet, n)
  BY <1>4, <1>5, InputFacts
<1>7. scenario.wallet # << >>
  BY <1>1, <1>2 DEF BuiltInv, initialize_components, init_ok
<1>8. Len(scenario.wallet) \in Nat /\ Len(scenario.wallet) # 0
  BY <1>5, <1>7
<1>9. n \in 0 .. Len(scenario.wallet) /\ n # 0
  BY <1>4, <1>8, LimitFacts
<1> QED
  BY <1>2, <1>3, <1>6, <1>9 DEF Prepares

\* InputsExist follows.
LEMMA InputsHere == BuildInv => InputsExist
<1> SUFFICES ASSUME BuildInv, NEW g \in Generations, NEW w \in DOMAIN prepared
             PROVE  /\ g.ledger = scenario.ledger
                    /\ \A i \in DOMAIN prepared[w] :
                         g.ledger[prepared[w][i].output_index + 1] =
                           [key |-> prepared[w][i].key, value |-> prepared[w][i].value]
                    /\ \A i, j \in DOMAIN prepared[w] :
                         prepared[w][i].output_index = prepared[w][j].output_index => i = j
  BY DEF InputsExist
<1> DEFINE n == limited(workloads[w].users, Len(scenario.wallet))
           wallet == scenario.wallet
           m == 3 * Len(scenario.ids)
           inputs == prepared[w]
<1>1. phase \in {"built", "served"} /\ g.ledger = scenario.ledger
  BY GenerationsFacts DEF Generated
<1>2. /\ inputs = [i \in 1 .. n |-> Spends(scenario.ids, wallet[i], i)]
      /\ n \in 0 .. Len(wallet)
  BY <1>1, PreparedFacts
<1>3. /\ scenario.ids \in Seq(DOMAIN PeerRank) /\ wallet \in Seq(Account)
      /\ scenario.ledger = create_consensus_configs(scenario.ids, wallet)
  BY <1>1, ScenarioFacts
<1>4. \A i \in 1 .. Len(wallet) : scenario.ledger[m + i] = wallet[i]
  BY <1>3, LedgerFacts
<1>5. m \in Nat /\ Len(wallet) \in Nat
  BY <1>3
<1>6. /\ DOMAIN inputs = 1 .. n
      /\ \A i \in 1 .. n : /\ inputs[i].output_index = m + i - 1
                           /\ inputs[i].key = wallet[i].key /\ inputs[i].value = wallet[i].value
  BY <1>2 DEF Spends
<1>7. \A i \in 1 .. n : i \in 1 .. Len(wallet) /\ i \in Nat
  <2> HIDE DEF n
  <2> QED
    BY <1>2, <1>5
<1> HIDE DEF n, m, inputs, wallet
<1>8. ASSUME NEW i \in 1 .. n
      PROVE  g.ledger[inputs[i].output_index + 1] =
               [key |-> inputs[i].key, value |-> inputs[i].value]
  <2>1. inputs[i].output_index + 1 = m + i
    BY <1>5, <1>6, <1>7
  <2>2. wallet[i] \in Account
    BY <1>3, <1>7
  <2>3. wallet[i] = [key |-> wallet[i].key, value |-> wallet[i].value]
    BY <2>2 DEF Account
  <2>4. g.ledger[m + i] = wallet[i]
    BY <1>1, <1>4, <1>7
  <2> QED
    BY <1>6, <2>1, <2>3, <2>4
<1>9. ASSUME NEW i \in 1 .. n, NEW j \in 1 .. n, inputs[i].output_index = inputs[j].output_index
      PROVE  i = j
  <2>1. m + i - 1 = m + j - 1
    BY <1>6, <1>9
  <2> QED
    BY <1>5, <1>7, <2>1
<1> QED
  BY <1>1, <1>6, <1>8, <1>9 DEF inputs

\* PlansAgree follows.
LEMMA PlansHere == BuildInv => PlansAgree
<1> SUFFICES ASSUME BuildInv PROVE TransactionPlansAgree /\ ChaosFits
  BY DEF PlansAgree
<1>1. PartsInv /\ DoneInv
  BY DEF BuildInv
<1>2. ChaosFits
  <2> SUFFICES ASSUME NEW i \in DOMAIN workloads, workloads[i].kind = "chaos"
               PROVE  /\ 0 < workloads[i].min_delay
                      /\ workloads[i].min_delay <= workloads[i].max_delay
                      /\ workloads[i].min_delay <= workloads[i].target_cooldown
                      /\ workloads[i].groups # {}
    BY DEF ChaosFits
  <2>1. workloads[i] \in TxFlow \cup DaFlow \cup FitChaos
    BY <1>1 DEF PartsInv
  <2>2. workloads[i] \in FitChaos
    BY <2>1 DEF TxFlow, DaFlow
  <2> QED
    BY <2>2 DEF FitChaos, ChaosFlow
<1>3. TransactionPlansAgree
  <2> DEFINE Wanted(w) == submission_plan(workloads[w].rate, Len(prepared[w]))
             Tracked(x) == {scenario.wallet[i].key : i \in
               1 .. submission_plan(x.rate, limited(x.users, Len(scenario.wallet)))}
  <2> SUFFICES ASSUME scenario # None, NEW w \in DOMAIN prepared
               PROVE  /\ Wanted(w) > 0
                      /\ \E k \in DOMAIN expectations :
                           /\ expectations[k].kind = "tx"
                           /\ Tracked(expectations[k]) = {prepared[w][i].key : i \in 1 .. Wanted(w)}
    BY DEF TransactionPlansAgree
  <2> DEFINE x == workloads[w]
             n == limited(x.users, Len(scenario.wallet))
             planned == submission_plan(x.rate, n)
  <2>1. phase \in {"built", "served"} /\ BuiltInv
    BY <1>1 DEF DoneInv
  <2>2. /\ w \in DOMAIN workloads /\ x \in TxFlow
        /\ prepared[w] = [i \in 1 .. n |-> Spends(scenario.ids, scenario.wallet[i], i)]
        /\ n \in 0 .. Len(scenario.wallet) /\ n # 0
    BY <2>1, PreparedFacts
  <2>3. x.rate \in Nat \ {0} /\ x.kind = "tx"
    BY <2>2 DEF TxFlow
  <2> HIDE DEF n
  <2>4. n \in Nat /\ Len(prepared[w]) = n
    BY <2>2
  <2>5. planned \in 0 .. n /\ planned # 0
    <3>1. /\ duration \in Nat \ {0}
          /\ scenario.slot # None => scenario.slot = Slot /\ duration >= 2 * Slot
      BY <1>1, <2>1 DEF PartsInv, BuiltInv
    <3>2. ASSUME NEW rate \in Nat \ {0}, NEW available \in Nat
          PROVE  /\ submission_plan(rate, available) \in 0 .. available
                 /\ available # 0 => submission_plan(rate, available) # 0
      BY <3>1, SubmissionFacts
    <3> HIDE DEF x
    <3> QED
      BY <2>2, <2>3, <2>4, <3>2
  <2>6. Wanted(w) = planned
    BY <2>4
  <2>7. PICK k \in DOMAIN expectations : expectations[k] = x
    BY <1>1, <2>2, <2>3 DEF PartsInv
  <2>8. Tracked(x) = {scenario.wallet[i].key : i \in 1 .. planned}
    BY DEF n
  <2> HIDE DEF planned
  <2>9. \A i \in 1 .. planned : prepared[w][i].key = scenario.wallet[i].key
    <3>1. \A i \in 1 .. planned : i \in 1 .. n
      BY <2>4, <2>5
    <3> QED
      BY <2>2, <3>1 DEF Spends
  <2>10. {scenario.wallet[i].key : i \in 1 .. planned} = {prepared[w][i].key : i \in 1 .. planned}
    BY <2>9
  <2>11. planned > 0
    BY <2>4, <2>5
  <2> HIDE DEF Wanted, Tracked, x
  <2>12. expectations[k].kind = "tx" /\ Tracked(expectations[k]) = Tracked(x)
    BY <2>3, <2>7
  <2> QED
    BY <2>6, <2>8, <2>10, <2>11, <2>12
<1> QED
  BY <1>2, <1>3

\* The genesis that the descriptors and the cfgsync server generate is sound
\* for all topologies, ids, wallets and parameters the builders accept: each
\* service locks an output of its own node once, the accounts' outputs are
\* the funds asked for, and the DA membership leaves out no node and no
\* subnetwork.
THEOREM GenesisIsSound == ScenarioSpec => []GenesisSound
  BY BuildInvariance, SoundHere, PTL

\* The outputs that transaction workloads prepare in the test process are
\* those the remote nodes' ledger has for their accounts, once each.
THEOREM InputsAreThere == ScenarioSpec => []InputsExist
  BY BuildInvariance, InputsHere, PTL

\* The cfgsync server accepts what build() made and gives every host, in
\* whatever order they announced themselves, the identity of the descriptors
\* and the first host as its peer.
THEOREM RemoteIsBuilt == ScenarioSpec => []RemoteAgrees
  BY BuildInvariance, AgreesHere, PTL

\* Whatever the calls and their order, a built scenario's transaction
\* workloads have something to submit that an expectation waits for, and its
\* chaos workloads meet the assumptions of their own model.
THEOREM PlansFit == ScenarioSpec => []PlansAgree
  BY BuildInvariance, PlansHere, PTL
==============================================================================
