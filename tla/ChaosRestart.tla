---------------------------- MODULE ChaosRestart -----------------------------
(***************************************************************************)
(* The chaos workload, which restarts random nodes through docker compose  *)
(* while a scenario runs, and the consensus liveness expectation, which    *)
(* asks the nodes for their heights when the run is over.  The two meet in *)
(* the nodes: the workload is aborted wherever it happens to be, and a     *)
(* restart it has begun goes on under the evaluation.                      *)
(*                                                                         *)
(* Time is a clock of whole units; timers never fire early and may fire    *)
(* late.  Heights are read by the evaluation only, once for each node: the *)
(* chain is as high as it is when the run ends and grows from there, and a *)
(* node that is asked is somewhere on it.                                  *)
(***************************************************************************)
EXTENDS Integers, FiniteSetsExt

CONSTANTS
  MaxValidators, MaxExecutors,  \* bounds on the topology
  min_delay, max_delay, target_cooldown,  \* of RandomRestartWorkload
  RestartLimit,                 \* time limit of docker compose restart
  Duration,                     \* the runner's timers, cooldown included
  Height,                       \* heights of the chain that may be seen
  Hint,                         \* expected_blocks
  LagAllowance                  \* values given to with_lag_allowance

ASSUME DelayAssumption ==
  {min_delay, max_delay, target_cooldown, RestartLimit, Duration, MaxValidators, MaxExecutors}
    \subseteq Nat
ASSUME HeightAssumption == Height \subseteq Nat /\ Hint \subseteq Nat /\ LagAllowance \subseteq Nat

MIN_PROGRESS_BLOCKS == 5
REQUEST_RETRIES     == 5
MAX_LAG_ALLOWANCE   == 5

VARIABLES
  \* the scenario
  n_validators, n_executors, include_validators, include_executors,
  node_control,   \* the deployer offers node control
  target_hint, lag_allowance,
  \* the workload
  now, chaos_pc, wake, target, started,
  cooldowns,      \* when a target may be restarted again
  finished,       \* history: when its last restart ended
  \* docker and the nodes
  docker,         \* restart commands that are going on
  node,
  top,            \* height of the chain
  \* the evaluation
  idx, attempt,   \* the node asked next, and how often it was asked
  samples,        \* heights by node that answered
  unanswered,     \* nodes that did not
  top0, insync,   \* history: the chain at the first sample; no node was behind
  verdict

confVars == <<n_validators, n_executors, include_validators, include_executors,
              node_control, target_hint, lag_allowance>>
restartVars == <<chaos_pc, wake, target, started, cooldowns, finished>>
nodeVars == <<docker, node, top>>
evalVars == <<idx, attempt, samples, unanswered, top0, insync, verdict>>
chaosVars == <<confVars, now, restartVars, nodeVars, evalVars>>

Node == 1 .. n_validators + n_executors

\* Validators come first in the numbering, executors after them.
targets ==
  (IF include_validators /\ n_validators > 1 THEN 1 .. n_validators ELSE {}) \cup
  (IF include_executors THEN n_validators + 1 .. n_validators + n_executors ELSE {})

initialize_cooldowns == [t \in targets |-> now - target_cooldown]

random_delay == IF max_delay <= min_delay THEN {min_delay} ELSE min_delay .. max_delay

ChaosInit ==
  /\ n_validators \in 1 .. MaxValidators /\ n_executors \in 0 .. MaxExecutors
  /\ include_validators \in BOOLEAN /\ include_executors \in BOOLEAN /\ node_control \in BOOLEAN
  /\ target_hint \in Hint /\ lag_allowance \in LagAllowance
  /\ now = 0 /\ chaos_pc = "start" /\ wake = 0 /\ target = 0 /\ started = 0
  /\ cooldowns = << >> /\ finished = << >>
  /\ docker = {} /\ node = [n \in Node |-> "up"] /\ top = 0
  /\ idx = 0 /\ attempt = 0 /\ samples = << >> /\ unanswered = {}
  /\ top0 = 0 /\ insync = TRUE /\ verdict = "none"

------------------------------------------------------------------------------
(* The workload.                                                           *)

\* The error ends the run.
WorkloadFails == chaos_pc' = "failed" /\ UNCHANGED <<wake, target, started, cooldowns, finished>>

\* sleep(random_delay()), at the top of the loop.
GoToSleep == chaos_pc' = "sleep" /\ \E d \in random_delay : wake' = now + d

\* start, up to the loop; initialize_cooldowns.
Start ==
  /\ chaos_pc = "start"
  /\ \/ (~node_control \/ targets = {}) /\ WorkloadFails
     \/ /\ node_control /\ targets # {}
        /\ cooldowns' = initialize_cooldowns
        /\ finished' = [t \in targets |-> now - target_cooldown - min_delay]
        /\ GoToSleep
        /\ UNCHANGED <<target, started>>
  /\ UNCHANGED <<confVars, now, nodeVars, evalVars>>

Wake ==
  /\ chaos_pc = "sleep" /\ now >= wake
  /\ chaos_pc' = "pick"
  /\ UNCHANGED <<confVars, now, wake, target, started, cooldowns, finished, nodeVars, evalVars>>

Cooling == {t \in targets : cooldowns[t] > now}

\* pick_target waits as long as any target is cooling down.
WaitForCooldown ==
  /\ chaos_pc = "pick" /\ now >= wake /\ Cooling # {}
  /\ wake' = Min({cooldowns[t] : t \in Cooling})
  /\ UNCHANGED <<confVars, now, chaos_pc, target, started, cooldowns, finished, nodeVars, evalVars>>

\* The docker command stops the container and starts it again.
BeginRestart(t) ==
  /\ chaos_pc' = "restart" /\ target' = t /\ started' = now
  /\ docker' = docker \cup {t}
  /\ node' = [node EXCEPT ![t] = "down"]
  /\ UNCHANGED <<confVars, now, wake, cooldowns, finished, top, evalVars>>

\* When no target is cooling down all of them are available.
PickTarget(t) ==
  /\ chaos_pc = "pick" /\ now >= wake /\ Cooling = {} /\ t \in targets
  /\ BeginRestart(t)

\* The container of t runs again; the node in it comes up later.
ContainerUp(t) ==
  /\ docker' = docker \ {t}
  /\ node' = [node EXCEPT ![t] = "booting"]
  /\ UNCHANGED top

Awaited(t) == chaos_pc = "restart" /\ target = t

RestartOk(t) ==
  /\ t \in docker /\ Awaited(t)
  /\ ContainerUp(t)
  /\ cooldowns' = [cooldowns EXCEPT ![t] = now + target_cooldown]
  /\ finished' = [finished EXCEPT ![t] = now]
  /\ GoToSleep
  /\ UNCHANGED <<confVars, now, target, started, evalVars>>

\* Mutant: the error is logged and the loop goes on.
RestartTimeoutContinues ==
  /\ chaos_pc = "restart" /\ now - started >= RestartLimit
  /\ GoToSleep
  /\ UNCHANGED <<confVars, now, target, started, cooldowns, finished, nodeVars, evalVars>>

\* The time limit of run_docker_command: the command itself is not stopped.
RestartTimeout ==
  /\ chaos_pc = "restart" /\ now - started >= RestartLimit
  /\ WorkloadFails
  /\ UNCHANGED <<confVars, now, nodeVars, evalVars>>

\* docker fails, with the container stopped or still there.
RestartErr(t) ==
  /\ t \in docker
  /\ docker' = docker \ {t}
  /\ \E state \in {"up", "down"} : node' = [node EXCEPT ![t] = state]
  /\ \/ Awaited(t) /\ WorkloadFails
     \/ ~Awaited(t) /\ UNCHANGED restartVars
  /\ UNCHANGED <<confVars, now, top, evalVars>>

\* A restart that nobody waits for any more.
RestartAlone(t) ==
  /\ t \in docker /\ ~Awaited(t)
  /\ ContainerUp(t)
  /\ UNCHANGED <<confVars, now, restartVars, evalVars>>

NodeUp(n) ==
  /\ node[n] = "booting"
  /\ node' = [node EXCEPT ![n] = "up"]
  /\ UNCHANGED <<confVars, now, restartVars, docker, top, evalVars>>

Tick ==
  /\ now < Duration /\ chaos_pc \notin {"start", "aborted", "failed"}
  /\ now' = now + 1
  /\ UNCHANGED <<confVars, restartVars, nodeVars, evalVars>>

\* The runner's time is over: the task is aborted, its locals are dropped,
\* and the expectation starts.
RunnerAborts ==
  /\ chaos_pc \in {"sleep", "pick", "restart"} /\ now = Duration
  /\ chaos_pc' = "aborted" /\ wake' = 0 /\ target' = 0 /\ started' = 0
  /\ cooldowns' = << >> /\ finished' = << >>
  /\ top' \in Height
  /\ idx' = 1
  /\ UNCHANGED <<confVars, now, docker, node, attempt, samples, unanswered, top0, insync, verdict>>

------------------------------------------------------------------------------
(* The nodes while they are evaluated.                                     *)

Evaluating == chaos_pc = "aborted" /\ verdict = "none"

NewBlock ==
  /\ Evaluating /\ \E n \in Node : node[n] = "up"
  /\ \E h \in {x \in Height : x > top} : top' = h
  /\ UNCHANGED <<confVars, now, restartVars, docker, node, evalVars>>

------------------------------------------------------------------------------
(* ConsensusLiveness::evaluate.                                            *)

\* consensus_info is answered.
SampleOk(h) ==
  /\ Evaluating /\ idx \in Node /\ node[idx] = "up" /\ h <= top
  /\ samples' = [n \in DOMAIN samples \cup {idx} |-> IF n = idx THEN h ELSE samples[n]]
  /\ idx' = idx + 1 /\ attempt' = 0
  /\ top0' = IF DOMAIN samples = {} THEN top ELSE top0
  /\ insync' = (insync /\ h = top)
  /\ UNCHANGED <<confVars, now, restartVars, nodeVars, unanswered, verdict>>

\* Mutant: the attempts are not counted.
SampleErrForever ==
  /\ Evaluating /\ idx \in Node
  /\ UNCHANGED chaosVars

\* Mutant: a node that does not answer is passed over.
SampleErrForgets ==
  /\ Evaluating /\ idx \in Node
  /\ \/ attempt + 1 < REQUEST_RETRIES /\ attempt' = attempt + 1 /\ UNCHANGED idx
     \/ attempt + 1 = REQUEST_RETRIES /\ idx' = idx + 1 /\ attempt' = 0
  /\ UNCHANGED <<confVars, now, restartVars, nodeVars, samples, unanswered, top0, insync, verdict>>

\* A failed request is repeated, and the last one is an issue.
SampleErr ==
  /\ Evaluating /\ idx \in Node
  /\ \/ attempt + 1 < REQUEST_RETRIES /\ attempt' = attempt + 1 /\ UNCHANGED <<idx, unanswered>>
     \/ /\ attempt + 1 = REQUEST_RETRIES
        /\ unanswered' = unanswered \cup {idx} /\ idx' = idx + 1 /\ attempt' = 0
  /\ UNCHANGED <<confVars, now, restartVars, nodeVars, samples, top0, insync, verdict>>

\* A node takes the request and never answers: neither requests nor the
\* evaluation have a time limit, and the run waits here for good.
SampleHangs ==
  /\ Evaluating /\ idx \in Node /\ node[idx] # "down"
  /\ verdict' = "hanging"
  /\ UNCHANGED <<confVars, now, restartVars, nodeVars,
                 idx, attempt, samples, unanswered, top0, insync>>

max_height == Max({samples[n] : n \in DOMAIN samples})
report_target == IF target_hint = 0 \/ target_hint > max_height THEN max_height ELSE target_hint

\* Mutant: a tenth of the target, however small.
effective_lag_allowanceTenth(t) == Min({t \div 10, MAX_LAG_ALLOWANCE})

\* (target / 10).clamp(lag_allowance, MAX_LAG_ALLOWANCE)
effective_lag_allowance(t) ==
  IF t \div 10 < lag_allowance THEN lag_allowance ELSE Min({t \div 10, MAX_LAG_ALLOWANCE})

Lagging == {n \in DOMAIN samples :
              samples[n] + effective_lag_allowance(report_target) < report_target}

\* clamp panics when its bounds are the wrong way round.
report ==
  IF DOMAIN samples = {} THEN "missing_participants"
  ELSE IF lag_allowance > MAX_LAG_ALLOWANCE THEN "panicked"
  ELSE IF max_height < MIN_PROGRESS_BLOCKS \/ unanswered # {} \/ Lagging # {} THEN "violations"
  ELSE "ok"

Report ==
  /\ Evaluating /\ idx \notin Node
  /\ verdict' = report
  /\ UNCHANGED <<confVars, now, restartVars, nodeVars,
                 idx, attempt, samples, unanswered, top0, insync>>

------------------------------------------------------------------------------
RestartStep ==
  \/ Start \/ Wake \/ WaitForCooldown \/ RestartTimeout
  \/ \E t \in targets : PickTarget(t) \/ RestartOk(t) \/ RestartErr(t) \/ RestartAlone(t)

SampleStep == SampleErr \/ \E h \in Height : SampleOk(h)

ChaosNext ==
  \/ RestartStep \/ Tick \/ RunnerAborts
  \/ NewBlock \/ \E n \in Node : NodeUp(n)
  \/ SampleStep \/ SampleHangs \/ Report

ChaosSpec == ChaosInit /\ [][ChaosNext]_chaosVars

\* Time passes, the runner's timer fires, and a request that does not hang is
\* answered or fails.  Neither docker nor a node has to do anything.
FairChaosSpec ==
  /\ ChaosSpec
  /\ WF_chaosVars(Start) /\ WF_chaosVars(Tick) /\ WF_chaosVars(RunnerAborts)
  /\ WF_chaosVars(SampleStep) /\ WF_chaosVars(Report)

------------------------------------------------------------------------------
(* Properties.                                                             *)

\* A node is not restarted again before its cooldown is over, counted from
\* the end of its last restart, and two restarts are a delay apart, although
\* restarts take their time and timers may be late.
SpacedRestarts ==
  chaos_pc = "restart" =>
    /\ started - finished[target] >= target_cooldown
    /\ \A t \in targets : started - finished[t] >= min_delay

\* docker never restarts two nodes at once, restarts that were given up or
\* outlived the workload included, so chaos stops one node at a time; and a
\* topology's only validator is left alone.
OneAtATime ==
  /\ \A t \in docker, u \in docker : t = u
  /\ n_validators = 1 => 1 \notin docker

\* Chaos disturbs one node at a time and lets each recover: restarts are
\* spaced by delay and cooldown, and docker is at work on one node at most.
RestartsApart == SpacedRestarts /\ OneAtATime

\* Satisfied means that every node answered, that there is a chain, and that
\* each node has got near the highest observed height, as the expectation's
\* documentation has it: within MAX_LAG_ALLOWANCE of it.  The last part holds
\* as long as the chain is no higher than the expected blocks, or none are
\* expected.  A chain that has outgrown them is not covered, for report then
\* compares with the expected height and says ok of nodes that are any number
\* of blocks behind the leader (7 expected, heights 70 and 6).
OkMeansLive ==
  verdict = "ok" =>
    /\ DOMAIN samples = Node /\ max_height >= MIN_PROGRESS_BLOCKS
    /\ target_hint = 0 \/ target_hint >= max_height =>
         \A n \in Node : samples[n] + MAX_LAG_ALLOWANCE >= max_height

\* The nodes are asked one after the other, with pauses for those that fail:
\* a network whose nodes answer and are in step passes, if no more blocks
\* than the allowance were made in the meantime.
InStepPasses ==
  /\ verdict \notin {"none", "hanging"}
  /\ insync /\ unanswered = {} /\ lag_allowance <= MAX_LAG_ALLOWANCE
  /\ top0 >= MIN_PROGRESS_BLOCKS /\ max_height - top0 <= lag_allowance
  => verdict = "ok"

\* The run ends with a verdict or with the error of the workload, even when
\* docker hangs and nodes stay down; only a node that takes a request and
\* never answers it holds the evaluation for good.
Judged == [](verdict # "hanging") => <>(verdict # "none" \/ chaos_pc = "failed")
==============================================================================
