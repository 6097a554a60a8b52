------------------------------- MODULE CfgSync -------------------------------
(***************************************************************************)
(* The cfgsync rendezvous: every node container runs run_nomos.sh, which   *)
(* calls cfgsync-client until it succeeds; the client announces its host   *)
(* and waits; the server's ConfigRepo waits for n_hosts announcements or a *)
(* timeout, once, answers everyone who is waiting, and ends.               *)
(*                                                                         *)
(* A host is keyed by its address, so a container that comes back with     *)
(* another address is another host.  The reply channel stored for a host   *)
(* leads to its client only while that client still waits for it.          *)
(***************************************************************************)
EXTENDS Integers, FiniteSets

CONSTANTS
  Client,      \* the node containers
  n_hosts,     \* hosts the repo waits for, n_participants of the configs
  max_attempts,\* of run_nomos.sh (30)
  MaxFaults,   \* bound: restarts and lost connections
  MaxMoves     \* bound: address changes of one container

ASSUME CfgSyncAssumption ==
  /\ IsFiniteSet(Client)
  /\ {n_hosts, max_attempts} \subseteq Nat \ {0}
  /\ Cardinality(Client) <= n_hosts
  /\ {MaxFaults, MaxMoves} \subseteq Nat

VARIABLES
  repo,           \* ConfigRepo::run, and "down" before the server starts
  waiting_hosts,  \* keys of the map: hosts with a stored reply channel
  script,         \* where each container's run_nomos.sh is
  attempt,        \* its failed attempts
  addr,           \* its current address
  config,         \* the hosts its configuration was built for, {} if none
  faults          \* counter of the bound

vars == <<repo, waiting_hosts, script, attempt, addr, config, faults>>

Host == Client \X (0 .. MaxMoves)
HostOf(c) == <<c, addr[c]>>

Init ==
  /\ repo = "down"
  /\ waiting_hosts = {}
  /\ script = [c \in Client |-> "announce"]
  /\ attempt = [c \in Client |-> 0]
  /\ addr = [c \in Client |-> 0]
  /\ config = [c \in Client |-> {}]
  /\ faults = 0

------------------------------------------------------------------------------
(* The containers.                                                         *)

\* cfgsync-client exits with an error in the containers C: their scripts
\* sleep and retry, or exit after max_attempts.
ClientFails(C) ==
  /\ attempt' = [c \in Client |-> IF c \in C THEN attempt[c] + 1 ELSE attempt[c]]
  /\ script' = [c \in Client |->
       CASE c \notin C -> script[c]
         [] c \in C /\ attempt[c] + 1 >= max_attempts -> "exited"
         [] OTHER -> "sleep"]

\* The handler registers the host, replacing what was stored for it.
Announce(c) ==
  /\ script[c] = "announce" /\ repo \notin {"down", "panicked"}
  /\ waiting_hosts' = waiting_hosts \cup {HostOf(c)}
  /\ script' = [script EXCEPT ![c] = "awaiting"]
  /\ UNCHANGED <<repo, attempt, addr, config, faults>>

\* Nobody listens yet; or the handler panics on the poisoned lock.
AnnounceRefused(c) ==
  /\ script[c] = "announce" /\ repo \in {"down", "panicked"}
  /\ ClientFails({c})
  /\ UNCHANGED <<repo, waiting_hosts, addr, config, faults>>

RetryAfterSleep(c) ==
  /\ script[c] = "sleep"
  /\ script' = [script EXCEPT ![c] = "announce"]
  /\ UNCHANGED <<repo, waiting_hosts, attempt, addr, config, faults>>

\* `restart: on-failure` runs the entrypoint again.
RestartOnFailure(c) ==
  /\ script[c] = "exited"
  /\ script' = [script EXCEPT ![c] = "announce"]
  /\ attempt' = [attempt EXCEPT ![c] = 0]
  /\ UNCHANGED <<repo, waiting_hosts, addr, config, faults>>

\* Mutant: a restarted container reuses the configuration it has.
RestartKeepsConfig(c) ==
  /\ faults < MaxFaults /\ faults' = faults + 1
  /\ script' = [script EXCEPT ![c] = IF config[c] = {} THEN "announce" ELSE "node"]
  /\ attempt' = [attempt EXCEPT ![c] = 0]
  /\ \/ UNCHANGED addr
     \/ addr[c] < MaxMoves /\ addr' = [addr EXCEPT ![c] = @ + 1]
  /\ UNCHANGED <<repo, waiting_hosts, config>>

\* `docker compose restart`, or a replaced pod: the entrypoint runs again,
\* possibly under a new address; the host it had announced stays registered.
Restart(c) ==
  /\ faults < MaxFaults /\ faults' = faults + 1
  /\ script' = [script EXCEPT ![c] = "announce"]
  /\ attempt' = [attempt EXCEPT ![c] = 0]
  /\ config' = [config EXCEPT ![c] = {}]
  /\ \/ UNCHANGED addr
     \/ addr[c] < MaxMoves /\ addr' = [addr EXCEPT ![c] = @ + 1]
  /\ UNCHANGED <<repo, waiting_hosts>>

ConnectionLost(c) ==
  /\ script[c] = "awaiting"
  /\ faults < MaxFaults /\ faults' = faults + 1
  /\ ClientFails({c})
  /\ UNCHANGED <<repo, waiting_hosts, addr, config>>

------------------------------------------------------------------------------
(* ConfigRepo::run.  The lock is released between the poll of              *)
(* wait_for_hosts and the decision.                                        *)

ServerStarts ==
  /\ repo = "down"
  /\ repo' = "waiting"
  /\ UNCHANGED <<waiting_hosts, script, attempt, addr, config, faults>>

\* Mutant: one host too few is enough.
WaitForHostsOneShort ==
  /\ repo = "waiting" /\ Cardinality(waiting_hosts) >= n_hosts - 1
  /\ repo' = "all_hosts"
  /\ UNCHANGED <<waiting_hosts, script, attempt, addr, config, faults>>

WaitForHosts ==
  /\ repo = "waiting" /\ Cardinality(waiting_hosts) >= n_hosts
  /\ repo' = "all_hosts"
  /\ UNCHANGED <<waiting_hosts, script, attempt, addr, config, faults>>

TimeoutElapses ==
  /\ repo = "waiting"
  /\ repo' = "timed_out"
  /\ UNCHANGED <<waiting_hosts, script, attempt, addr, config, faults>>

\* The clients the stored reply channels lead to.
Answered == {c \in Client : script[c] = "awaiting" /\ HostOf(c) \in waiting_hosts}

\* validate_inputs: one host per participant, no fewer and no more.
ValidInputs(hosts) == Cardinality(hosts) = n_hosts

\* create_node_configs: the configuration of a host lists the peers, the
\* providers and the genesis state of all hosts it is made for.
CreateNodeConfigs(hosts) == [h \in hosts |-> hosts]

SendConfigs ==
  /\ repo = "all_hosts" /\ ValidInputs(waiting_hosts)
  /\ repo' = "configured"
  /\ script' = [c \in Client |-> IF c \in Answered THEN "node" ELSE script[c]]
  /\ config' = [c \in Client |->
       IF c \in Answered THEN CreateNodeConfigs(waiting_hosts)[HostOf(c)]
                         ELSE config[c]]
  /\ waiting_hosts' = {}
  /\ UNCHANGED <<attempt, addr, faults>>

\* create_node_configs panics with the map locked: nobody is answered and
\* the stored channels stay open.
ValidationPanics ==
  /\ repo = "all_hosts" /\ ~ValidInputs(waiting_hosts)
  /\ repo' = "panicked"
  /\ UNCHANGED <<waiting_hosts, script, attempt, addr, config, faults>>

\* Mutant: the repo gives up without telling the waiting clients.
SendTimeoutsSilently ==
  /\ repo = "timed_out"
  /\ repo' = "expired"
  /\ UNCHANGED <<waiting_hosts, script, attempt, addr, config, faults>>

SendTimeouts ==
  /\ repo = "timed_out"
  /\ repo' = "expired"
  /\ ClientFails(Answered)
  /\ waiting_hosts' = {}
  /\ UNCHANGED <<addr, config, faults>>

------------------------------------------------------------------------------
RepoStep == \/ ServerStarts \/ WaitForHosts \/ SendConfigs \/ ValidationPanics
            \/ SendTimeouts

ScriptStep(c) == \/ Announce(c) \/ AnnounceRefused(c) \/ RetryAfterSleep(c)
                 \/ RestartOnFailure(c)

Next ==
  \/ RepoStep \/ TimeoutElapses
  \/ \E c \in Client : ScriptStep(c) \/ Restart(c) \/ ConnectionLost(c)

Spec == Init /\ [][Next]_vars

\* The repo task polls every second and its timer expires; every script
\* goes on.  Restarts and lost connections need not happen.
FairSpec ==
  /\ Spec
  /\ WF_vars(RepoStep) /\ WF_vars(TimeoutElapses)
  /\ \A c \in Client : WF_vars(ScriptStep(c))

------------------------------------------------------------------------------
(* Properties.                                                             *)

\* Type invariant of the rendezvous.
TypeOK ==
  /\ repo \in {"down", "waiting", "all_hosts", "timed_out", "configured",
               "expired", "panicked"}
  /\ waiting_hosts \subseteq Host
  /\ script \in [Client -> {"announce", "awaiting", "sleep", "exited", "node"}]
  /\ attempt \in [Client -> 0 .. max_attempts]
  /\ addr \in [Client -> 0 .. MaxMoves]
  /\ config \in [Client -> SUBSET Host]
  /\ faults \in 0 .. MaxFaults

Running == {c \in Client : script[c] = "node"}

\* All running nodes were configured from one and the same set of hosts, of
\* exactly n_hosts hosts, in which each of them appears under the address
\* it has now: no node of the network runs on an older or a partial view,
\* whatever restarted, moved or reconnected while the hosts gathered.
OneGenesisForAll ==
  \A c \in Running :
    /\ HostOf(c) \in config[c]
    /\ Cardinality(config[c]) = n_hosts
    /\ \A d \in Running : config[d] = config[c]

\* The repo panics on the host count only when a container announced itself
\* under an address it has since lost: registering twice under one address
\* never counts twice.
PanicNeedsMove ==
  repo = "panicked" =>
    \E h \in waiting_hosts : h[2] # addr[h[1]]

\* As long as no container changes its address, a client that waits before
\* the decision is answered.
EarlyRequestAnswered ==
  \A c \in Client :
    (script[c] = "awaiting" /\ repo \in {"waiting", "all_hosts", "timed_out"})
      ~> (script[c] # "awaiting" \/ \E d \in Client : addr[d] > 0)

\* Unless the repo panicked every container gets its announcement through,
\* also one that used up its attempts before the server listened; and without
\* faults, unless the server's timeout strikes first, every node gets its
\* configuration.
StartupCompletes ==
  /\ \A c \in Client : <>(script[c] = "awaiting" \/ repo = "panicked")
  /\ <>(Running = Client \/ repo = "expired" \/ faults > 0)

\* Both: nobody hangs before the decision, and nobody is lost before the start.
ClientsServed == EarlyRequestAnswered /\ StartupCompletes

\* Node control may restart a node of a running network, and it comes back:
\* a node that ran once is found running again and again.
RestartedNodeReturns ==
  \A c \in Client : <>(script[c] = "node") => []<>(script[c] = "node")
==============================================================================
