-------------------------- MODULE LocalDeployProofs --------------------------
(***************************************************************************)
(* What the local deployer leaves behind, for every topology and every     *)
(* number of crashes.  The invariant behind it follows the owners: a       *)
(* living process belongs to a Validator or an Executor, or is the one     *)
(* that deploy waits for, and so does every directory.                     *)
(*                                                                         *)
(* And what its readiness checks are worth: answers collected at different *)
(* moments stay true because links and DA services only get better while   *)
(* no node crashes, and counting peers is as good as naming them in every  *)
(* layout but the chain of six nodes or more.                              *)
(***************************************************************************)
EXTENDS LocalDeploy, FiniteSetTheorems, TLAPS

\* Who owns the processes.
OwnerInv ==
  /\ \A i \in Node : Alive(i) => i \in owned \/ i = spawning
  /\ \A i \in Node : proc[i] = "killed" => Over
  /\ Over => owned = {}
  /\ stage = "spawn" => spawning \notin owned
  /\ ~Over /\ stage # "spawn" => spawning = 0 /\ owned = Node

\* Where the directories are.
DirInv ==
  /\ ~Over => \A i \in Node : \/ dir[i] = "none"
                              \/ dir[i] = "there" /\ (i \in owned \/ i = spawning)
  /\ Over => \A i \in Node : dir[i] # "there"
  /\ NoDirRemovedUnderProcess
  /\ LogsKept

\* The feed runs as long as the runner holds the context.
FeedInv == feed = "running" => stage = "running" /\ "runner" \in owners

\* Nodes are spawned in order: those after the last have left no trace.
SpawnInv ==
  stage = "spawn" => \A i \in Node \ owned : i # spawning => proc[i] = "none"

IInv == TypeOK /\ OwnerInv /\ DirInv /\ FeedInv /\ SpawnInv

\* The initial states satisfy the inductive invariant.
LEMMA InitInv == Init => IInv
  <1> SUFFICES ASSUME Init PROVE IInv
    OBVIOUS
  <1> USE DEF Init, Node
  <1>1. TypeOK
    <2>1. {membership_check, keep_logs} \subseteq BOOLEAN /\ timed \in BOOLEAN
      OBVIOUS
    <2>2. DOMAIN answers = {}
      OBVIOUS
    <2>3. spawning \in 0 .. Validators + Executors /\ crashes \in 0 .. MaxCrashes
      BY TopologyAssumption
    <2> QED BY <2>1, <2>2, <2>3 DEF TypeOK
  <1>2. OwnerInv
    BY DEF OwnerInv, Over, Alive
  <1>3. DirInv
    BY DEF DirInv, NoDirRemovedUnderProcess, LogsKept, Over, Alive
  <1>4. FeedInv /\ SpawnInv
    BY DEF FeedInv, SpawnInv
  <1> QED BY <1>1, <1>2, <1>3, <1>4 DEF IInv

\* The directories that no Validator or Executor owns: the one of the node
\* that is waited for, and one made for a node that could not be started.
Unowned(how, keep, gone) ==
  /\ \A i \in keep : i = spawning /\ how = "panicked"
  /\ \A i \in gone : \/ i = spawning /\ how = "cancelled"
                     \/ proc[i] = "none" /\ how = "panicked"
  /\ spawning \in Node => spawning \in keep \cup gone

(* Whatever drops the nodes: those that are owned die and their directories *)
(* meet their fate; the one that is waited for is left.                     *)
LEMMA EndInv ==
  ASSUME IInv, ~Over,
         NEW how \in {"panicked", "failed", "cancelled", "ended"},
         NEW panicking \in BOOLEAN, NEW keep, NEW gone,
         how = "panicked" => panicking,
         Unowned(how, keep, gone),
         End(how, panicking, keep, gone),
         owners' \subseteq {"runner"} \cup Task, feed' \in {"none", "running", "aborted"},
         feed' # "running"
  PROVE  IInv'
  <1> USE DEF IInv, Unowned
  <1>1. Over' /\ stage' = how
    BY DEF End, Over
  <1> DEFINE asked == keep \cup (IF should_persist_tempdir(panicking) THEN owned ELSE {})
             all   == gone \cup owned
  <1>a. PICK lost \in SUBSET asked :
          dir' = [i \in Node |-> CASE i \in lost               -> "lost"
                                   [] i \in asked \ lost       -> "kept"
                                   [] i \in all \ asked        -> "removed"
                                   [] i \notin asked \cup all  -> dir[i]]
    BY DEF End, DropNodes, SettleDirs
  <1>2. /\ \A i \in Node : proc'[i] = IF i \in owned /\ Alive(i) THEN "killed" ELSE proc[i]
        /\ \A i \in Node : /\ i \in asked => dir'[i] \in {"lost", "kept"}
                           /\ i \in all \ asked => dir'[i] = "removed"
                           /\ i \notin asked \cup all => dir'[i] = dir[i]
        /\ proc' \in [Node -> {"none", "started", "ready", "killed", "exited"}]
        /\ dir' \in [Node -> {"none", "there", "kept", "lost", "removed"}]
    BY <1>a DEF End, DropNodes, TypeOK
  <1> HIDE DEF asked, all
  <1>3. TypeOK'
    BY <1>1, <1>2 DEF TypeOK, End, DropNodes, Without, confVars, checkVars
  <1>4. OwnerInv'
    BY <1>1, <1>2 DEF OwnerInv, End, Alive, Over
  <1>5. DirInv'
    <2>1. \A i \in Node : Alive(i)' => i = spawning /\ i = spawning'
      BY <1>2 DEF OwnerInv, End, Alive
    <2>2. NoDirRemovedUnderProcess'
      BY <1>1, <1>2, <2>1
      DEF NoDirRemovedUnderProcess, End, asked, all, Alive, OwnerInv, DirInv, Over
    <2>3. LogsKept'
      BY <1>1, <1>2 DEF LogsKept, DirInv, End, should_persist_tempdir, confVars, TypeOK, asked, all
    <2>4. \A i \in Node : dir'[i] # "there"
      BY <1>2 DEF DirInv, asked, all
    <2> QED BY <1>1, <2>2, <2>3, <2>4 DEF DirInv
  <1>6. FeedInv' /\ SpawnInv'
    BY <1>1 DEF FeedInv, SpawnInv, Over
  <1> QED BY <1>3, <1>4, <1>5, <1>6

(* The steps of deploy that end nothing.                                   *)
LEMMA DeployInv ==
  ASSUME IInv,
         \/ \E i \in Node : SpawnNode(i) \/ NodeReady(i) \/ StartFeed(i)
              \/ \E ok \in BOOLEAN : Collect(i, ok)
         \/ Spawned \/ CheckPasses \/ CheckAgain
  PROVE  IInv'
  <1> USE DEF IInv, confVars, nodeVars, checkVars, runVars
  <1>1. ASSUME NEW i \in Node, SpawnNode(i) PROVE IInv'
    <2> USE <1>1 DEF SpawnNode, NextToSpawn
    <2>1. TypeOK' BY DEF TypeOK, Over, Node
    <2>2. OwnerInv' BY TopologyAssumption DEF OwnerInv, TypeOK, Over, Alive, Node
    <2>3. DirInv'
      <3>1. ~Over /\ ~Over' /\ spawning \notin Node
        BY TopologyAssumption DEF Over, Node
      <3>2. \A j \in Node : dir'[j] = IF j = i THEN "there" ELSE dir[j]
        BY DEF TypeOK
      <3>3. \A j \in Node : \/ dir'[j] = "none"
                            \/ dir'[j] = "there" /\ (j \in owned' \/ j = spawning')
        BY <3>1, <3>2 DEF DirInv
      <3> QED BY <3>1, <3>3 DEF DirInv, NoDirRemovedUnderProcess, LogsKept
    <2>4. FeedInv' BY DEF FeedInv
    <2>5. SpawnInv' BY TopologyAssumption DEF SpawnInv, TypeOK, Node
    <2> QED BY <2>1, <2>2, <2>3, <2>4, <2>5
  <1>2. ASSUME NEW i \in Node, NodeReady(i) PROVE IInv'
    <2> USE <1>2 DEF NodeReady
    <2>1. TypeOK' BY TopologyAssumption DEF TypeOK, Over, Node
    <2>2. OwnerInv' BY DEF OwnerInv, TypeOK, Over, Alive, Node
    <2>3. DirInv' BY DEF DirInv, NoDirRemovedUnderProcess, LogsKept, TypeOK, Over, Alive
    <2>4. FeedInv' BY DEF FeedInv
    <2>5. SpawnInv' BY DEF SpawnInv, TypeOK, Alive
    <2> QED BY <2>1, <2>2, <2>3, <2>4, <2>5
  <1>3. ASSUME NEW i \in Node, StartFeed(i) PROVE IInv'
    <2> USE <1>3 DEF StartFeed
    <2>1. TypeOK' BY DEF TypeOK, Over
    <2>2. OwnerInv' BY DEF OwnerInv, Over, Alive
    <2>3. DirInv' BY DEF DirInv, NoDirRemovedUnderProcess, LogsKept, Over, Alive
    <2>4. FeedInv' BY DEF FeedInv
    <2>5. SpawnInv' BY DEF SpawnInv, TypeOK, Alive
    <2> QED BY <2>1, <2>2, <2>3, <2>4, <2>5
  <1>4. ASSUME NEW i \in Node, NEW ok \in BOOLEAN, Collect(i, ok) PROVE IInv'
    <2> USE <1>4 DEF Collect
    <2>1. TypeOK'
      <3>1. DOMAIN answers' = DOMAIN answers \cup {i}
        OBVIOUS
      <3> DEFINE answer == ok /\ ReadyAnswer(i)
      <3>a. answer \in BOOLEAN
        OBVIOUS
      <3> HIDE DEF answer
      <3>b. answers' = [j \in DOMAIN answers \cup {i} |-> IF j = i THEN answer ELSE answers[j]]
        BY DEF answer
      <3>2. \A j \in DOMAIN answers' : answers'[j] \in BOOLEAN
        BY <3>a, <3>b DEF TypeOK
      <3> QED BY <3>1, <3>2 DEF TypeOK, Over
    <2>2. OwnerInv' BY DEF OwnerInv, Over, Alive
    <2>3. DirInv' BY DEF DirInv, NoDirRemovedUnderProcess, LogsKept, Over, Alive
    <2>4. FeedInv' BY DEF FeedInv
    <2>5. SpawnInv' BY DEF SpawnInv, TypeOK, Alive
    <2> QED BY <2>1, <2>2, <2>3, <2>4, <2>5
  <1>5. ASSUME Spawned PROVE IInv'
    <2> USE <1>5 DEF Spawned
    <2>1. TypeOK' BY DEF TypeOK, Over
    <2>2. OwnerInv' BY DEF OwnerInv, TypeOK, Over, Alive, Node
    <2>3. DirInv' BY DEF DirInv, NoDirRemovedUnderProcess, LogsKept, Over, Alive
    <2>4. FeedInv' BY DEF FeedInv
    <2>5. SpawnInv' BY DEF SpawnInv, TypeOK, Alive
    <2> QED BY <2>1, <2>2, <2>3, <2>4, <2>5
  <1>6. ASSUME CheckPasses PROVE IInv'
    <2>1. /\ Checking /\ stage' \in {"membership", "balancer", "feed"}
          /\ answers' = << >> /\ timed' = FALSE
          /\ UNCHANGED <<confVars, spawning, owned, nodeVars, runVars>>
      BY <1>6 DEF CheckPasses, Collected, Checking
    <2>2. DOMAIN answers' = {}
      BY <2>1
    <2>3. TypeOK'
      <3>1. (DOMAIN answers \subseteq Node /\ \A i \in DOMAIN answers : answers[i] \in BOOLEAN)'
        BY <2>2
      <3>2. timed' \in BOOLEAN /\ stage' \in {"membership", "balancer", "feed"}
        BY <2>1
      <3>3. UNCHANGED <<confVars, spawning, owned, nodeVars, runVars>>
        BY <2>1
      <3> QED BY <3>1, <3>2, <3>3 DEF TypeOK
    <2>4. OwnerInv' BY <2>1 DEF OwnerInv, Over, Alive, Checking
    <2>5. DirInv' BY <2>1 DEF DirInv, NoDirRemovedUnderProcess, LogsKept, Over, Alive, Checking
    <2>6. FeedInv' /\ SpawnInv' BY <2>1 DEF FeedInv, SpawnInv, Checking
    <2> QED BY <2>3, <2>4, <2>5, <2>6
  <1>7. ASSUME CheckAgain PROVE IInv'
    <2> USE <1>7 DEF CheckAgain
    <2>1. TypeOK' BY DEF TypeOK, Over
    <2>2. OwnerInv' BY DEF OwnerInv, Over, Alive
    <2>3. DirInv' BY DEF DirInv, NoDirRemovedUnderProcess, LogsKept, Over, Alive
    <2>4. FeedInv' BY DEF FeedInv
    <2>5. SpawnInv' BY DEF SpawnInv, TypeOK, Alive
    <2> QED BY <2>1, <2>2, <2>3, <2>4, <2>5
  <1> QED BY <1>1, <1>2, <1>3, <1>4, <1>5, <1>6, <1>7

(* Every way out of deploy.                                                *)
LEMMA FailInv ==
  ASSUME IInv,
         \/ \E i \in Node : SpawnPanics(i) \/ SpawnTimeout(i) \/ CollectPanics(i)
         \/ CheckTimeout \/ FeedFails \/ Cancel
  PROVE  IInv'
  <1> USE DEF runVars
  <1>1. ~Over /\ stage # "running"
    BY DEF SpawnPanics, NextToSpawn, SpawnTimeout, CollectPanics, CheckTimeout, FeedFails,
           Cancel, Checking, Over
  <1>2. feed' = feed /\ owners' = owners
    BY DEF SpawnPanics, SpawnTimeout, CollectPanics, CheckTimeout, FeedFails, Cancel
  <1>3. feed' # "running"
    BY <1>1, <1>2 DEF IInv, FeedInv
  <1>4. owners' \subseteq {"runner"} \cup Task /\ feed' \in {"none", "running", "aborted"}
    BY <1>2 DEF IInv, TypeOK
  <1>5. ASSUME NEW i \in Node, SpawnPanics(i) PROVE IInv'
    <2>1. PICK gone \in SUBSET {i} : End("panicked", TRUE, {}, gone)
      BY <1>5 DEF SpawnPanics
    <2>2. spawning = 0 /\ proc[i] = "none" /\ spawning \notin Node
      BY <1>5, TopologyAssumption
      DEF SpawnPanics, NextToSpawn, IInv, SpawnInv, Node
    <2>3. Unowned("panicked", {}, gone)
      BY <2>1, <2>2 DEF Unowned
    <2> QED BY <1>1, <1>3, <1>4, <2>1, <2>3, EndInv
  <1>6. ASSUME NEW i \in Node, SpawnTimeout(i) PROVE IInv'
    <2>1. End("panicked", TRUE, {i}, {}) /\ spawning = i
      BY <1>6 DEF SpawnTimeout
    <2>2. Unowned("panicked", {i}, {})
      BY <2>1 DEF Unowned
    <2> QED BY <1>1, <1>3, <1>4, <2>1, <2>2, EndInv
  <1>7. CASE Cancel
    <2>1. End("cancelled", FALSE, {}, {spawning} \cap Node)
      BY <1>7 DEF Cancel
    <2>2. Unowned("cancelled", {}, {spawning} \cap Node)
      BY DEF Unowned
    <2> QED BY <1>1, <1>3, <1>4, <2>1, <2>2, EndInv
  <1>8. CASE CheckTimeout \/ FeedFails \/ \E i \in Node : CollectPanics(i)
    <2>1. End("panicked", TRUE, {}, {}) \/ End("failed", FALSE, {}, {})
      BY <1>8 DEF CollectPanics, CheckTimeout, FeedFails
    <2>2. stage # "spawn"
      BY <1>8 DEF CollectPanics, CheckTimeout, FeedFails, Checking
    <2>3. spawning \notin Node
      BY <1>1, <2>2, TopologyAssumption DEF IInv, OwnerInv, Node
    <2>4. Unowned("panicked", {}, {}) /\ Unowned("failed", {}, {})
      BY <2>3 DEF Unowned
    <2> QED BY <1>1, <1>3, <1>4, <2>1, <2>4, EndInv
  <1> QED BY <1>5, <1>6, <1>7, <1>8

(* The owners of the run's context let go of it, one after the other.      *)
LEMMA ReleaseInv ==
  ASSUME IInv, NEW panicking \in BOOLEAN, Release(panicking)
  PROVE  IInv'
  <1> USE DEF IInv
  <1>1. /\ stage = "running" /\ ~Over
        /\ owners' \subseteq owners /\ feed' \in {feed, "aborted"}
        /\ feed' = "running" => "runner" \in owners'
    BY TopologyAssumption DEF Release, ReleaseRunner, ReleaseTask, Over, FeedInv
  <1>2. CASE owners' = {} /\ End("ended", panicking, {}, {})
    <2>1. owners' \subseteq {"runner"} \cup Task /\ feed' \in {"none", "running", "aborted"}
      BY <1>1 DEF TypeOK
    <2>2. feed' # "running"
      BY <1>1, <1>2
    <2>3. Unowned("ended", {}, {})
      BY <1>1, TopologyAssumption DEF Unowned, OwnerInv, Node
    <2> QED BY <1>1, <1>2, <2>1, <2>2, <2>3, EndInv
  <1>3. CASE UNCHANGED <<confVars, stage, spawning, owned, nodeVars, checkVars>>
    <2> USE <1>1, <1>3 DEF confVars, nodeVars, checkVars
    <2>1. TypeOK' BY DEF TypeOK, Over
    <2>2. OwnerInv' BY DEF OwnerInv, Over, Alive
    <2>3. DirInv' BY DEF DirInv, NoDirRemovedUnderProcess, LogsKept, Over, Alive
    <2>4. FeedInv' BY DEF FeedInv
    <2>5. SpawnInv' BY DEF SpawnInv, TypeOK, Alive
    <2> QED BY <2>1, <2>2, <2>3, <2>4, <2>5
  <1> QED BY <1>2, <1>3 DEF Release

(* What the nodes do by themselves.                                        *)
LEMMA NodeInv ==
  ASSUME IInv, NEW i \in Node,
         Starts(i) \/ DaProgress(i) \/ Crash(i) \/ \E j \in Node : Connect(i, j)
  PROVE  IInv'
  <1> USE DEF IInv, confVars, checkVars, runVars
  <1>1. CASE Starts(i)
    <2> USE <1>1 DEF Starts
    <2>1. TypeOK' BY DEF TypeOK, Over
    <2>2. OwnerInv' BY DEF OwnerInv, TypeOK, Over, Alive
    <2>3. DirInv' BY DEF DirInv, NoDirRemovedUnderProcess, LogsKept, TypeOK, Over, Alive
    <2>4. FeedInv' BY DEF FeedInv
    <2>5. SpawnInv' BY DEF SpawnInv, TypeOK, Alive
    <2> QED BY <2>1, <2>2, <2>3, <2>4, <2>5
  <1>2. CASE DaProgress(i)
    <2> USE <1>2 DEF DaProgress
    <2>1. TypeOK' BY DEF TypeOK, Over
    <2>2. OwnerInv' BY DEF OwnerInv, Over, Alive
    <2>3. DirInv' BY DEF DirInv, NoDirRemovedUnderProcess, LogsKept, Over, Alive
    <2>4. FeedInv' BY DEF FeedInv
    <2>5. SpawnInv' BY DEF SpawnInv, TypeOK, Alive
    <2> QED BY <2>1, <2>2, <2>3, <2>4, <2>5
  <1>3. CASE Crash(i)
    <2> USE <1>3 DEF Crash
    <2>1. TypeOK' BY TopologyAssumption DEF TypeOK, Over, Without
    <2>2. OwnerInv' BY DEF OwnerInv, TypeOK, Over, Alive
    <2>3. DirInv' BY DEF DirInv, NoDirRemovedUnderProcess, LogsKept, TypeOK, Over, Alive
    <2>4. FeedInv' BY DEF FeedInv
    <2>5. SpawnInv' BY DEF SpawnInv, TypeOK, Alive
    <2> QED BY <2>1, <2>2, <2>3, <2>4, <2>5
  <1>4. ASSUME NEW j \in Node, Connect(i, j) PROVE IInv'
    <2> USE <1>4 DEF Connect
    <2>1. TypeOK' BY DEF TypeOK, Over
    <2>2. OwnerInv' BY DEF OwnerInv, Over, Alive
    <2>3. DirInv' BY DEF DirInv, NoDirRemovedUnderProcess, LogsKept, Over, Alive
    <2>4. FeedInv' BY DEF FeedInv
    <2>5. SpawnInv' BY DEF SpawnInv, TypeOK, Alive
    <2> QED BY <2>1, <2>2, <2>3, <2>4, <2>5
  <1> QED BY <1>1, <1>2, <1>3, <1>4

\* A step that changes nothing keeps it.
LEMMA StutterInv == IInv /\ UNCHANGED vars => IInv'
  BY DEF IInv, TypeOK, OwnerInv, DirInv, FeedInv, SpawnInv, NoDirRemovedUnderProcess, LogsKept,
         Over, Alive,
         vars, confVars, nodeVars, checkVars, runVars

\* The inductive invariant holds of every deployment.
LEMMA Invariant == Spec => []IInv
  <1>1. IInv /\ [Next]_vars => IInv'
    BY DeployInv, FailInv, ReleaseInv, NodeInv, StutterInv DEF Next, DeployStep
  <1> QED BY InitInv, <1>1, PTL DEF Spec

(* The deployer, its checks and the nodes keep their types.                *)
THEOREM TypeCorrect == Spec => []TypeOK
  <1>1. IInv => TypeOK
    BY DEF IInv
  <1> QED BY Invariant, <1>1, PTL

(* Whatever ends deploy or the run, the only process that can be left is   *)
(* the one deploy waited for, and the feed was stopped before the nodes.   *)
THEOREM NodesAreReclaimed == Spec => []NodesReclaimed
  <1>1. IInv => NodesReclaimed
    BY DEF IInv, OwnerInv, FeedInv, NodesReclaimed, OnlyAwaitedNodeLeaks, FeedStopsFirst, Over
  <1> QED BY Invariant, <1>1, PTL

(* No living process loses its directory but the one deploy waited for,    *)
(* when it was cancelled or could not persist the directory; panics and    *)
(* the flag ask for the directory of every process that was started.       *)
THEOREM DirsAreKept == Spec => []DirsKept
  <1>1. IInv => DirsKept
    BY DEF IInv, DirInv, DirsKept
  <1> QED BY Invariant, <1>1, PTL

------------------------------------------------------------------------------
(* Readiness.                                                              *)

\* Node i has as many peers as the layout gives it.
Enough(i) == n_peers(i) >= expected_peers(i)

\* The deployer asks nobody before the checks, and what a node has answered
\* is still so.
AnswerInv ==
  /\ stage = "spawn" => DOMAIN answers = {}
  /\ stage = "network" => \A i \in DOMAIN answers : answers[i] => Enough(i)
  /\ stage = "balancer" => \A i \in DOMAIN answers : answers[i] => da[i] = "connected"

\* What the checks passed so far have established.
PassedInv ==
  /\ stage \in {"membership", "balancer", "feed", "running"} => \A i \in Node : Enough(i)
  /\ stage \in {"feed", "running"} /\ membership_check => \A i \in Node : da[i] = "connected"

\* In a chain no two nodes find each other but through the nodes between them.
ChainInv ==
  layout = "chain" =>
    \A i \in Node, j \in Node :
      i < j /\ Pair(i, j) \in links => \A k \in i .. j - 1 : Pair(k, k + 1) \in links

\* While nothing has crashed and nothing was dropped.
ReadyInv == crashes = 0 /\ ~Over => AnswerInv /\ PassedInv /\ ChainInv

\* The nodes of a topology are as many as it was configured with.
LEMMA NodesFinite ==
  /\ Validators + Executors \in Nat
  /\ IsFiniteSet(Node) /\ Cardinality(Node) = Validators + Executors
  <1>1. Validators + Executors \in Nat /\ Validators + Executors > 0
    BY TopologyAssumption
  <1> QED BY <1>1, FS_Interval DEF Node

(* The counts of wait_network_ready are cardinalities of finite sets.      *)
LEMMA CountFacts ==
  ASSUME NEW i \in Node
  PROVE  /\ IsFiniteSet({j \in Node \ {i} : Pair(i, j) \in links})
         /\ IsFiniteSet({j \in Node \ {i} : Pair(i, j) \in LayoutLinks})
         /\ n_peers(i) \in Nat /\ expected_peers(i) \in Nat
  <1>1. /\ IsFiniteSet({j \in Node \ {i} : Pair(i, j) \in links})
        /\ IsFiniteSet({j \in Node \ {i} : Pair(i, j) \in LayoutLinks})
    <2>1. /\ {j \in Node \ {i} : Pair(i, j) \in links} \in SUBSET Node
          /\ {j \in Node \ {i} : Pair(i, j) \in LayoutLinks} \in SUBSET Node
      OBVIOUS
    <2> QED BY <2>1, NodesFinite, FS_Subset
  <1> QED BY <1>1, FS_CardinalityType DEF n_peers, expected_peers

(* What initial_peers_by_network_layout gives a node are nodes before it.  *)
LEMMA PeersBefore ==
  ASSUME TypeOK, NEW i \in Node, NEW j \in initial_peers(i)
  PROVE  /\ j \in Node /\ j < i
         /\ layout = "star" => j = 1
         /\ layout = "chain" => j = i - 1
  <1>1. i \in Int /\ 1 <= i /\ i <= Validators + Executors /\ Validators + Executors \in Nat
    BY NodesFinite DEF Node
  <1>2. i # 1
    BY DEF initial_peers
  <1>3. CASE layout = "star"
    <2>1. j = 1 BY <1>2, <1>3 DEF initial_peers
    <2> QED BY <1>1, <1>2, <1>3, <2>1 DEF Node
  <1>4. CASE layout = "chain"
    <2>1. j = i - 1 BY <1>2, <1>4 DEF initial_peers
    <2> QED BY <1>1, <1>2, <1>4, <2>1 DEF Node
  <1>5. CASE layout = "full"
    <2>1. j \in 1 .. i - 1 BY <1>2, <1>5 DEF initial_peers
    <2> QED BY <1>1, <1>2, <1>5, <2>1 DEF Node
  <1> QED BY <1>3, <1>4, <1>5 DEF TypeOK

(* A link of the layout is there for either end.                           *)
LEMMA LayoutLink ==
  ASSUME NEW i \in Node, NEW j \in initial_peers(i)
  PROVE  Pair(i, j) \in LayoutLinks /\ Pair(j, i) \in LayoutLinks
  <1>1. Pair(i, j) \in LayoutLinks
    BY DEF LayoutLinks
  <1>2. Pair(j, i) = Pair(i, j)
    BY DEF Pair
  <1> QED BY <1>1, <1>2

(* More links are no fewer peers.                                          *)
LEMMA EnoughKept ==
  ASSUME NEW i \in Node, links \subseteq links', layout' = layout, Enough(i)
  PROVE  Enough(i)'
  <1> DEFINE P == {j \in Node \ {i} : Pair(i, j) \in links}
             Q == {j \in Node \ {i} : Pair(i, j) \in links'}
  <1>1. IsFiniteSet(Q)
    <2>1. Q \in SUBSET Node
      OBVIOUS
    <2> QED BY <2>1, NodesFinite, FS_Subset
  <1>2. P \in SUBSET Q
    OBVIOUS
  <1>3. Cardinality(P) <= Cardinality(Q) /\ Cardinality(Q) \in Nat
    BY <1>1, <1>2, FS_Subset, FS_CardinalityType
  <1>4. n_peers(i) = Cardinality(P) /\ n_peers(i)' = Cardinality(Q)
    BY DEF n_peers, Pair
  <1>5. expected_peers(i)' = expected_peers(i)
    <2>1. \A k : initial_peers(k)' = initial_peers(k)
      BY DEF initial_peers
    <2>2. LayoutLinks' = LayoutLinks
      BY <2>1 DEF LayoutLinks, Pair
    <2> QED BY <2>2 DEF expected_peers, Pair
  <1>6. n_peers(i) \in Nat /\ expected_peers(i) \in Nat
    BY CountFacts
  <1> QED BY <1>3, <1>4, <1>5, <1>6 DEF Enough

(* A node that is to be linked to all others, and has as many peers, is    *)
(* linked to all others.                                                   *)
LEMMA CountNames ==
  ASSUME NEW i \in Node, Enough(i), \A j \in Node \ {i} : Pair(i, j) \in LayoutLinks
  PROVE  \A j \in Node \ {i} : Pair(i, j) \in links
  <1> DEFINE P == {j \in Node \ {i} : Pair(i, j) \in links}
             S == Node \ {i}
  <1>1. IsFiniteSet(S) /\ P \in SUBSET S
    BY NodesFinite, FS_Subset
  <1>2. {j \in Node \ {i} : Pair(i, j) \in LayoutLinks} = S
    OBVIOUS
  <1>3. Cardinality(P) >= Cardinality(S)
    BY <1>2 DEF Enough, n_peers, expected_peers
  <1>4. Cardinality(P) <= Cardinality(S) /\ Cardinality(P) \in Nat /\ Cardinality(S) \in Nat
    BY <1>1, FS_Subset, FS_CardinalityType
  <1>5. Cardinality(S) = Cardinality(P)
    BY <1>3, <1>4
  <1>6. S = P
    BY <1>1, <1>5, FS_Subset
  <1> QED BY <1>6

(* The neighbours of a node of a chain are linked to it by the layout.     *)
LEMMA ChainNeighbours ==
  ASSUME TypeOK, layout = "chain", NEW k \in Node
  PROVE  /\ k + 1 \in Node => Pair(k, k + 1) \in LayoutLinks
         /\ k - 1 \in Node => Pair(k, k - 1) \in LayoutLinks
  <1>0. k \in Int /\ k >= 1
    BY NodesFinite DEF Node
  <1>1. ASSUME k + 1 \in Node PROVE Pair(k, k + 1) \in LayoutLinks
    <2>1. k \in initial_peers(k + 1)
      BY <1>0 DEF initial_peers
    <2> QED BY <1>1, <2>1, LayoutLink
  <1>2. ASSUME k - 1 \in Node PROVE Pair(k, k - 1) \in LayoutLinks
    <2>0. k # 1
      BY <1>0, <1>2, NodesFinite DEF Node
    <2>1. k - 1 \in initial_peers(k)
      BY <1>0, <2>0 DEF initial_peers
    <2> QED BY <2>1, LayoutLink
  <1> QED BY <1>1, <1>2

(* So one peer is expected at the ends of a chain, and two between them.   *)
LEMMA ChainExpects ==
  ASSUME TypeOK, layout = "chain", NEW k \in Node
  PROVE  /\ k + 1 \in Node \/ k - 1 \in Node => expected_peers(k) >= 1
         /\ k + 1 \in Node /\ k - 1 \in Node => expected_peers(k) >= 2
  <1> DEFINE E == {j \in Node \ {k} : Pair(k, j) \in LayoutLinks}
  <1>1. IsFiniteSet(E) /\ expected_peers(k) = Cardinality(E) /\ expected_peers(k) \in Nat
    BY CountFacts DEF expected_peers
  <1>2. k \in Int
    BY DEF Node
  <1>3. /\ k + 1 \in Node => k + 1 \in E
        /\ k - 1 \in Node => k - 1 \in E
    BY <1>2, ChainNeighbours
  <1> HIDE DEF E
  <1>4. ASSUME NEW j \in E PROVE Cardinality(E) >= 1
    <2>1. {j} \in SUBSET E
      OBVIOUS
    <2>2. Cardinality({j}) = 1
      BY FS_Singleton
    <2>3. Cardinality({j}) <= Cardinality(E)
      BY <1>1, <2>1, FS_Subset
    <2> QED BY <1>1, <2>2, <2>3
  <1>5. ASSUME k + 1 \in E, k - 1 \in E PROVE Cardinality(E) >= 2
    <2> DEFINE I == k - 1 .. k + 1
    <2>1. IsFiniteSet(I) /\ Cardinality(I) = 3
      <3>1. k - 1 \in Int /\ k + 1 \in Int /\ ~(k - 1 > k + 1) /\ (k + 1) - (k - 1) + 1 = 3
        BY <1>2
      <3> QED BY <3>1, FS_Interval
    <2>2. I \cap {k} = {k}
      BY <1>2
    <2>3. I \ {k} \in SUBSET E
      BY <1>2, <1>5
    <2> HIDE DEF I
    <2>4. Cardinality({k}) = 1
      BY FS_Singleton
    <2>5. Cardinality(I \ {k}) = 2
      <3>1. Cardinality(I \ {k}) = Cardinality(I) - Cardinality(I \cap {k})
        BY <2>1, FS_Difference
      <3>2. Cardinality(I \cap {k}) = 1
        BY <2>2, <2>4, Zenon
      <3> QED BY <2>1, <3>1, <3>2
    <2>6. Cardinality(I \ {k}) <= Cardinality(E)
      BY <1>1, <2>3, FS_Subset
    <2> QED BY <1>1, <2>5, <2>6
  <1> QED BY <1>1, <1>3, <1>4, <1>5

(* A chain that passes with a link missing has three nodes or more on each *)
(* side of the gap: fewer than six nodes cannot pass that way.             *)
LEMMA ShortChain ==
  ASSUME TypeOK, layout = "chain", Validators + Executors < 6, ChainInv,
         \A i \in Node : Enough(i),
         NEW k \in Node, k + 1 \in Node
  PROVE  Pair(k, k + 1) \in links
  <1> SUFFICES ASSUME Pair(k, k + 1) \notin links PROVE FALSE
    OBVIOUS
  <1> DEFINE n == Validators + Executors
             h == k + 1
             P(x) == {j \in Node \ {x} : Pair(x, j) \in links}
  <1>0. /\ n \in Nat /\ n < 6 /\ k \in Int /\ k >= 1 /\ k + 1 <= n
        /\ h \in Node /\ h \in Int /\ h = k + 1
    BY NodesFinite DEF Node
  <1>1. P(k) \in SUBSET (1 .. k - 1)
    <2>1. SUFFICES ASSUME NEW j \in P(k) PROVE j \in 1 .. k - 1
      OBVIOUS
    <2>2. j \in Int /\ j >= 1 /\ j # k /\ j \in Node /\ Pair(k, j) \in links
      BY DEF Node
    <2>3. CASE k < j
      <3>1. k \in k .. j - 1
        BY <1>0, <2>2, <2>3
      <3> QED BY <2>2, <2>3, <3>1 DEF ChainInv
    <2> QED BY <1>0, <2>2, <2>3
  <1>2. P(h) \in SUBSET (k + 2 .. n)
    <2>1. SUFFICES ASSUME NEW j \in P(h) PROVE j \in k + 2 .. n
      OBVIOUS
    <2>2. j \in Int /\ j <= n /\ j # h /\ j \in Node /\ Pair(h, j) \in links
      BY DEF Node
    <2>3. CASE j < h
      <3>1. k \in j .. h - 1
        BY <1>0, <2>2, <2>3
      <3>2. Pair(j, h) \in links
        BY <2>2 DEF Pair
      <3> QED BY <1>0, <2>2, <2>3, <3>1, <3>2 DEF ChainInv
    <2> QED BY <1>0, <2>2, <2>3
  <1>3. n_peers(k) <= k - 1 /\ n_peers(k) \in Nat
    <2>1. IsFiniteSet(1 .. k - 1) /\ Cardinality(1 .. k - 1) = k - 1
      <3> DEFINE b == k - 1
      <3>1. b \in Int /\ 1 \in Int /\ (IF 1 > b THEN 0 ELSE b - 1 + 1) = k - 1
        BY <1>0
      <3> HIDE DEF b
      <3>2. IsFiniteSet(1 .. b) /\ Cardinality(1 .. b) = k - 1
        BY <3>1, FS_Interval
      <3> QED BY <3>2 DEF b
    <2>2. Cardinality(P(k)) <= Cardinality(1 .. k - 1)
      BY <1>1, <2>1, FS_Subset
    <2> QED BY <2>1, <2>2, CountFacts DEF n_peers
  <1>4. n_peers(h) <= n - k - 1 /\ n_peers(h) \in Nat
    <2>1. IsFiniteSet(k + 2 .. n) /\ Cardinality(k + 2 .. n) = n - k - 1
      <3> DEFINE a == k + 2
      <3>1. a \in Int /\ n \in Int /\ (IF a > n THEN 0 ELSE n - a + 1) = n - k - 1
        BY <1>0
      <3> HIDE DEF a, n
      <3>2. IsFiniteSet(a .. n) /\ Cardinality(a .. n) = n - k - 1
        BY <3>1, FS_Interval
      <3> QED BY <3>2 DEF a
    <2>2. Cardinality(P(h)) <= Cardinality(k + 2 .. n)
      BY <1>2, <2>1, FS_Subset
    <2> QED BY <1>0, <2>1, <2>2, CountFacts DEF n_peers
  <1>5. /\ expected_peers(k) >= 1 /\ (k > 1 => expected_peers(k) >= 2)
        /\ expected_peers(h) >= 1 /\ (h < n => expected_peers(h) >= 2)
    <2>1. (k > 1 => k - 1 \in Node) /\ (h < n => h + 1 \in Node) /\ h - 1 \in Node
      BY <1>0 DEF Node
    <2> QED BY <1>0, <2>1, ChainExpects
  <1>6. /\ n_peers(k) >= expected_peers(k) /\ n_peers(h) >= expected_peers(h)
        /\ expected_peers(k) \in Nat /\ expected_peers(h) \in Nat
    BY <1>0, CountFacts DEF Enough
  <1> HIDE DEF n, h
  <1>7. k >= 3
    BY <1>0, <1>3, <1>5, <1>6
  <1>8. n >= k + 3
    BY <1>0, <1>4, <1>5, <1>6
  <1> QED BY <1>0, <1>7, <1>8

(* Where the network check has passed, all links of the layout are up.     *)
LEMMA NamesFromCounts ==
  ASSUME TypeOK, ChainInv, \A i \in Node : Enough(i),
         layout # "chain" \/ Validators + Executors < 6
  PROVE  LayoutLinks \subseteq links
  <1>1. SUFFICES ASSUME NEW i \in Node, NEW j \in initial_peers(i)
                 PROVE  Pair(i, j) \in links
    BY DEF LayoutLinks
  <1>2. /\ j \in Node /\ j < i /\ i \in Int /\ j \in Int
        /\ layout = "star" => j = 1
        /\ layout = "chain" => j = i - 1
    BY PeersBefore DEF Node
  <1>3. Pair(i, j) = Pair(j, i)
    BY DEF Pair
  <1>4. CASE layout = "chain"
    <2>1. j + 1 = i
      BY <1>2, <1>4
    <2>2. Validators + Executors < 6
      BY <1>4
    <2> QED BY <1>2, <1>3, <1>4, <2>1, <2>2, ShortChain
  <1>5. CASE layout = "star"
    <2>1. \A m \in Node \ {1} : Pair(1, m) \in LayoutLinks
      <3>1. SUFFICES ASSUME NEW m \in Node \ {1} PROVE Pair(1, m) \in LayoutLinks
        OBVIOUS
      <3>2. 1 \in initial_peers(m)
        BY <1>5 DEF initial_peers
      <3> QED BY <3>2, LayoutLink
    <2>2. \A m \in Node \ {j} : Pair(j, m) \in links
      BY <1>2, <1>5, <2>1, CountNames
    <2> QED BY <1>2, <1>3, <2>2
  <1>6. CASE layout = "full"
    <2>1. \A m \in Node \ {i} : Pair(i, m) \in LayoutLinks
      <3>1. SUFFICES ASSUME NEW m \in Node \ {i} PROVE Pair(i, m) \in LayoutLinks
        OBVIOUS
      <3>2. /\ m \in Int /\ i \in Int /\ m >= 1 /\ i >= 1 /\ m # i
        BY NodesFinite DEF Node
      <3>3. CASE m < i
        <4>1. m \in initial_peers(i)
          BY <1>6, <3>2, <3>3 DEF initial_peers
        <4> QED BY <4>1, LayoutLink
      <3>4. CASE i < m
        <4>1. i \in initial_peers(m)
          BY <1>6, <3>2, <3>4 DEF initial_peers
        <4> QED BY <4>1, LayoutLink
      <3> QED BY <3>2, <3>3, <3>4
    <2> QED BY <1>2, <2>1, CountNames
  <1> QED BY <1>4, <1>5, <1>6 DEF TypeOK

\* A deployment starts without answers and links.
LEMMA ReadyInit == Init => ReadyInv
  <1> SUFFICES ASSUME Init PROVE ReadyInv
    OBVIOUS
  <1>1. stage = "spawn" /\ DOMAIN answers = {} /\ links = {}
    BY DEF Init
  <1>2. AnswerInv /\ PassedInv
    BY <1>1 DEF AnswerInv, PassedInv
  <1>3. ChainInv
    BY <1>1 DEF ChainInv
  <1> QED BY <1>2, <1>3 DEF ReadyInv

(* Links and DA services that only get better make no answer and no check  *)
(* that was passed untrue, however long ago that was.                      *)
LEMMA ReadyKept ==
  ASSUME AnswerInv, PassedInv, stage' = stage, answers' = answers, UNCHANGED confVars,
         TypeOK, links \subseteq links',
         \A i \in Node : da[i] = "connected" => da'[i] = "connected"
  PROVE  AnswerInv' /\ PassedInv'
  <1>1. layout' = layout /\ membership_check' = membership_check
    BY DEF confVars
  <1>2. \A i \in Node : Enough(i) => Enough(i)'
    BY <1>1, EnoughKept
  <1>3. DOMAIN answers \subseteq Node
    BY DEF TypeOK
  <1>4. AnswerInv'
    <2>1. (stage = "spawn" => DOMAIN answers = {})'
      BY DEF AnswerInv
    <2>2. (stage = "network" => \A i \in DOMAIN answers : answers[i] => Enough(i))'
      BY <1>2, <1>3 DEF AnswerInv
    <2>3. (stage = "balancer" => \A i \in DOMAIN answers : answers[i] => da[i] = "connected")'
      BY <1>3 DEF AnswerInv
    <2> QED BY <2>1, <2>2, <2>3 DEF AnswerInv
  <1>5. PassedInv'
    BY <1>1, <1>2 DEF PassedInv
  <1> QED BY <1>4, <1>5

\* A chain whose links stay is a chain as before.
LEMMA ChainKept == ChainInv /\ layout' = layout /\ links' = links => ChainInv'
  BY DEF ChainInv, Pair

(* Peers of peers are found through the chain between them.                *)
LEMMA ChainConnect ==
  ASSUME TypeOK, ChainInv, NEW i \in Node, NEW j \in Node, Connect(i, j)
  PROVE  ChainInv'
  <1> SUFFICES ASSUME layout = "chain",
                      NEW a \in Node, NEW b \in Node, a < b, Pair(a, b) \in links',
                      NEW m \in a .. b - 1
               PROVE  Pair(m, m + 1) \in links'
    BY DEF ChainInv, Connect, confVars, Pair
  <1>1. links' = links \cup {Pair(i, j)} /\ i # j /\ Pair(i, j) \notin links
    BY DEF Connect
  <1>2. /\ i \in Int /\ j \in Int /\ a \in Int /\ b \in Int /\ m \in Int /\ a <= m /\ m < b
    BY DEF Node
  <1>3. CASE Pair(a, b) \in links
    BY <1>1, <1>3 DEF ChainInv
  <1>4. CASE Pair(a, b) = Pair(i, j)
    <2>1. (a = i /\ b = j) \/ (a = j /\ b = i)
      BY <1>1, <1>4 DEF Pair
    <2>2. CASE j \in initial_peers(i)
      <3>1. j = i - 1
        BY <2>2, PeersBefore
      <3>2. m = a /\ m + 1 = b
        BY <1>2, <2>1, <3>1
      <3> QED BY <1>1, <1>4, <3>2
    <2>3. ASSUME NEW k \in Node, Pair(i, k) \in links, Pair(k, j) \in links
          PROVE  Pair(m, m + 1) \in links'
      <3>1. k # i /\ k # j /\ k \in Int
        BY <1>1, <2>3 DEF Node
      <3>2. Pair(a, k) \in links /\ Pair(k, b) \in links
        BY <2>1, <2>3 DEF Pair
      <3>3. CASE m < k
        <4>1. a < k /\ m \in a .. k - 1
          BY <1>2, <3>1, <3>3
        <4> QED BY <1>1, <3>2, <4>1 DEF ChainInv
      <3>4. CASE k <= m
        <4>1. k < b /\ m \in k .. b - 1
          BY <1>2, <3>1, <3>4
        <4> QED BY <1>1, <3>2, <4>1 DEF ChainInv
      <3> QED BY <1>2, <3>1, <3>3, <3>4
    <2> QED BY <1>1, <2>2, <2>3 DEF Connect
  <1> QED BY <1>1, <1>3, <1>4

(* One node alone has no peers to wait for.                                *)
LEMMA AloneIsEnough ==
  ASSUME ~(Cardinality(Node) > 1), NEW i \in Node
  PROVE  Enough(i)
  <1>1. Node \ {i} = {}
    BY NodesFinite DEF Node
  <1>2. n_peers(i) = expected_peers(i)
    <2> DEFINE P == {j \in Node \ {i} : Pair(i, j) \in links}
               E == {j \in Node \ {i} : Pair(i, j) \in LayoutLinks}
    <2>1. P = E
      BY <1>1
    <2>2. n_peers(i) = Cardinality(P) /\ expected_peers(i) = Cardinality(E)
      BY DEF n_peers, expected_peers
    <2> HIDE DEF P, E
    <2> QED BY <2>1, <2>2, Zenon
  <1>3. n_peers(i) \in Nat /\ expected_peers(i) \in Nat
    BY CountFacts
  <1> QED BY <1>2, <1>3 DEF Enough

(* Each step of deploy that collects an answer or passes a check.          *)
LEMMA ReadyChecks ==
  ASSUME IInv, AnswerInv, PassedInv,
         \/ Spawned \/ CheckPasses \/ CheckAgain
         \/ \E i \in Node : StartFeed(i) \/ \E ok \in BOOLEAN : Collect(i, ok)
  PROVE  AnswerInv' /\ PassedInv'
  <1> USE DEF confVars, nodeVars, checkVars, runVars
  <1>0. TypeOK
    BY DEF IInv
  <1>a. /\ links' = links /\ da' = da /\ layout' = layout
        /\ membership_check' = membership_check
    <2>1. UNCHANGED <<confVars, nodeVars>>
      BY Zenon DEF Spawned, CheckPasses, CheckAgain, StartFeed, Collect
    <2> QED BY <2>1
  <1>b. \A i \in Node : Enough(i) => Enough(i)'
    BY <1>a, EnoughKept
  <1>1. CASE Spawned
    <2>1. /\ answers' = answers /\ DOMAIN answers = {}
          /\ stage' \in {"network", "membership", "feed"}
          /\ stage' = "feed" => ~membership_check
          /\ stage' # "network" => ~(Cardinality(Node) > 1)
      BY <1>1, <1>a DEF Spawned, AnswerInv
    <2>2. AnswerInv'
      BY <2>1 DEF AnswerInv
    <2>3. stage' # "network" => \A i \in Node : Enough(i)'
      BY <1>b, <2>1, AloneIsEnough
    <2> QED BY <1>a, <2>1, <2>2, <2>3 DEF PassedInv
  <1>2. CASE CheckPasses
    <2>1. /\ DOMAIN answers = Node /\ \A i \in Node : answers[i]
          /\ stage \in {"network", "membership", "balancer"}
      BY <1>2 DEF CheckPasses, Collected, Checking, IsReady
    <2>2. DOMAIN answers' = {}
      BY <1>2 DEF CheckPasses
    <2>3. AnswerInv'
      BY <2>2 DEF AnswerInv
    <2>4. \A i \in Node : Enough(i)'
      BY <1>b, <2>1 DEF AnswerInv, PassedInv
    <2>5. stage' \in {"feed", "running"} /\ membership_check' => stage = "balancer"
      BY <1>2, <1>a, <2>1 DEF CheckPasses
    <2>6. stage' \in {"feed", "running"} /\ membership_check' => \A i \in Node : da'[i] = "connected"
      BY <1>a, <2>1, <2>5 DEF AnswerInv
    <2> QED BY <2>3, <2>4, <2>6 DEF PassedInv
  <1>3. CASE CheckAgain
    <2>1. DOMAIN answers' = {} /\ stage' = stage
      BY <1>3 DEF CheckAgain
    <2>2. AnswerInv'
      BY <2>1 DEF AnswerInv
    <2>3. PassedInv'
      BY <1>a, <1>b, <2>1 DEF PassedInv
    <2> QED BY <2>2, <2>3
  <1>4. ASSUME NEW i \in Node, StartFeed(i) PROVE AnswerInv' /\ PassedInv'
    <2>1. stage = "feed" /\ stage' = "running"
      BY <1>4 DEF StartFeed
    <2>2. AnswerInv'
      BY <2>1 DEF AnswerInv
    <2>3. PassedInv'
      BY <1>a, <1>b, <2>1 DEF PassedInv
    <2> QED BY <2>2, <2>3
  <1>5. ASSUME NEW i \in Node, NEW ok \in BOOLEAN, Collect(i, ok) PROVE AnswerInv' /\ PassedInv'
    <2> DEFINE answer == ok /\ ReadyAnswer(i)
    <2>1. /\ stage' = stage /\ stage \in {"network", "membership", "balancer"}
          /\ DOMAIN answers' = DOMAIN answers \cup {i}
          /\ DOMAIN answers \subseteq Node
      BY <1>0, <1>5 DEF Collect, Checking, TypeOK
    <2>2. /\ stage = "network" /\ answer => Enough(i)
          /\ stage = "balancer" /\ answer => da[i] = "connected"
      BY DEF ReadyAnswer, Enough
    <2>3. answers' = [j \in DOMAIN answers \cup {i} |-> IF j = i THEN answer ELSE answers[j]]
      BY <1>5 DEF Collect
    <2> HIDE DEF answer
    <2>4. \A j \in DOMAIN answers' : answers'[j] => (j = i /\ answer) \/ (j \in DOMAIN answers /\ answers[j])
      BY <2>1, <2>3
    <2>5. AnswerInv'
      <3>1. (stage = "network" => \A j \in DOMAIN answers : answers[j] => Enough(j))'
        BY <1>b, <2>1, <2>2, <2>4 DEF AnswerInv
      <3>2. (stage = "balancer" => \A j \in DOMAIN answers : answers[j] => da[j] = "connected")'
        BY <1>a, <2>1, <2>2, <2>4 DEF AnswerInv
      <3> QED BY <2>1, <3>1, <3>2 DEF AnswerInv
    <2>6. PassedInv'
      BY <1>a, <1>b, <2>1 DEF PassedInv
    <2> QED BY <2>5, <2>6
  <1> QED BY <1>1, <1>2, <1>3, <1>4, <1>5

(* The readiness invariant is inductive: all steps that drop links end     *)
(* deploy or the run, or are crashes.                                      *)
LEMMA ReadyStep == IInv /\ ReadyInv /\ [Next]_vars => ReadyInv'
  <1> SUFFICES ASSUME IInv, ReadyInv, [Next]_vars, crashes' = 0, ~Over'
               PROVE  AnswerInv' /\ PassedInv' /\ ChainInv'
    BY DEF ReadyInv
  <1> USE DEF confVars, nodeVars, checkVars, runVars
  <1>0. TypeOK /\ crashes \in Nat /\ da \in [Node -> {"none", "assigned", "connected"}]
    BY TopologyAssumption DEF IInv, TypeOK
  <1>1. ASSUME crashes' = crashes, ~Over
        PROVE  AnswerInv /\ PassedInv /\ ChainInv
    BY <1>1 DEF ReadyInv
  <1>2. CASE \/ Spawned \/ CheckPasses \/ CheckAgain
             \/ \E i \in Node : StartFeed(i) \/ \E ok \in BOOLEAN : Collect(i, ok)
    <2>1. crashes' = crashes /\ ~Over /\ layout' = layout /\ links' = links
      BY <1>2 DEF Spawned, CheckPasses, CheckAgain, StartFeed, Collect, Collected, Checking, Over
    <2> QED BY <1>1, <1>2, <2>1, ReadyChecks, ChainKept
  <1>3. CASE \/ \E i \in Node : SpawnNode(i) \/ NodeReady(i) \/ Starts(i) \/ DaProgress(i)
             \/ \E p \in BOOLEAN : Release(p) /\ owners' # {}
             \/ UNCHANGED vars
    <2>1. /\ crashes' = crashes /\ links' = links /\ stage' = stage /\ answers' = answers
          /\ UNCHANGED confVars
      BY <1>3 DEF SpawnNode, NodeReady, Starts, DaProgress, Release, vars
    <2>2. \A i \in Node : da[i] = "connected" => da'[i] = "connected"
      BY <1>0, <1>3 DEF SpawnNode, NodeReady, Starts, DaProgress, Release, vars
    <2>3. ~Over /\ layout' = layout
      BY <2>1 DEF Over
    <2>4. AnswerInv /\ PassedInv /\ ChainInv
      BY <1>1, <2>1, <2>3
    <2>5. AnswerInv' /\ PassedInv'
      BY <1>0, <2>1, <2>2, <2>4, ReadyKept
    <2> QED BY <2>1, <2>3, <2>4, <2>5, ChainKept
  <1>4. ASSUME NEW i \in Node, NEW j \in Node, Connect(i, j)
        PROVE  AnswerInv' /\ PassedInv' /\ ChainInv'
    <2>1. /\ crashes' = crashes /\ links \subseteq links' /\ da' = da /\ stage' = stage
          /\ answers' = answers /\ UNCHANGED confVars
      BY <1>4 DEF Connect
    <2>2. ~Over
      BY <2>1 DEF Over
    <2>3. AnswerInv /\ PassedInv /\ ChainInv
      BY <1>1, <2>1, <2>2
    <2> QED BY <1>0, <1>4, <2>1, <2>3, ReadyKept, ChainConnect
  <1>5. ASSUME NEW i \in Node, Crash(i) PROVE FALSE
    BY <1>0, <1>5 DEF Crash
  <1>6. ASSUME \/ \E i \in Node : SpawnPanics(i) \/ SpawnTimeout(i) \/ CollectPanics(i)
               \/ CheckTimeout \/ FeedFails \/ Cancel
               \/ \E p \in BOOLEAN : End("ended", p, {}, {})
        PROVE  FALSE
    BY <1>6 DEF SpawnPanics, SpawnTimeout, CollectPanics, CheckTimeout, FeedFails, Cancel, End, Over
  <1>7. ASSUME NEW p \in BOOLEAN, Release(p) PROVE owners' # {} \/ End("ended", p, {}, {})
    BY <1>7 DEF Release
  <1> QED BY <1>2, <1>3, <1>4, <1>5, <1>6, <1>7 DEF Next, DeployStep

(* Past the network check every node has its number of peers, past the DA  *)
(* checks its assignments and connections, and all links of the layout are *)
(* up in a star, in a full mesh and in a chain of fewer than six nodes, for *)
(* answers that wait and wait_all_nodes collect at different moments.      *)
THEOREM ReadyIsReady == Spec => []ReadyMeansReady
  <1>1. Spec => []ReadyInv
    BY ReadyInit, ReadyStep, Invariant, PTL DEF Spec
  <1>2. IInv /\ ReadyInv => ReadyMeansReady
    <2> SUFFICES ASSUME IInv, ReadyInv, crashes = 0,
                        stage \in {"membership", "balancer", "feed", "running"}
                 PROVE  ReadyMeansReady
      BY DEF ReadyMeansReady
    <2>1. TypeOK /\ AnswerInv /\ PassedInv /\ ChainInv
      BY DEF IInv, ReadyInv, Over
    <2>2. \A i \in Node : Enough(i)
      BY <2>1 DEF PassedInv
    <2>3. layout # "chain" \/ Validators + Executors < 6 => LayoutLinks \subseteq links
      BY <2>1, <2>2, NamesFromCounts
    <2>4. stage \in {"feed", "running"} /\ membership_check => \A i \in Node : da[i] = "connected"
      BY <2>1 DEF PassedInv
    <2>5. \A i \in Node : n_peers(i) >= expected_peers(i)
      BY <2>2 DEF Enough
    <2> QED BY <2>3, <2>4, <2>5 DEF ReadyMeansReady
  <1> QED BY <1>1, <1>2, Invariant, PTL

==============================================================================
