------------------------ MODULE ScenarioRunnerProofs -------------------------
(***************************************************************************)
(* Proofs about Runner::run, for every set of workloads and every number   *)
(* of expectations: its type invariant, that expectations are evaluated on *)
(* a quiet system, that no failure is lost, that the cleanup guard is used *)
(* exactly once, and that no workload outlives the run unaborted.          *)
(* The second half is about the chaos workload and the consensus liveness  *)
(* expectation that a run can have.                                        *)
(***************************************************************************)
EXTENDS ScenarioRunner, ChaosRestart, WellFoundedInduction, TLAPS

\* Workload tasks are spawned, and neither failed nor abandoned.
Driven == {"drive", "cooldown", "sleep", "drain", "evaluate"}

\* A task is in the JoinSet until its success or cancellation is joined.
JoinInv ==
  /\ pc = "capture" => workloads = {} /\ Live = {}
  /\ InRun => Live \subseteq workloads
  /\ pc \in Driven \cup {"ok", "released"} =>
       \A w \in Workload \ workloads : task[w] \in {"ok", "cancelled"}
  /\ pc \in {"sleep", "evaluate", "ok", "released"} => workloads = {}

\* Whoever owns the guard has not used it, and the feed runs until it does.
GuardInv ==
  /\ InRun => guard = "runner"
  /\ pc = "ok" => guard = "handle"
  /\ Ended <=> guard = "none"
  /\ guard # "none" => cleanups = 0 /\ feed = "running"
  /\ guard = "none" => cleanups = 1

\* The progress of the two passes over the expectations.
PassInv ==
  /\ pc \in Driven \cup {"ok", "released"} => captured = Expectations
  /\ InRun /\ pc # "evaluate" => ~failed
  /\ pc \in {"ok", "released"} => evaluated = Expectations /\ ~failed

\* The inductive invariant.
IInv == TypeOK /\ JoinInv /\ GuardInv /\ PassInv /\ NoDetachedWorkload

\* The initial states satisfy it.
LEMMA InitInv == Init => IInv
<1> SUFFICES ASSUME Init PROVE IInv
  OBVIOUS
<1>1. TypeOK
  <2>1. {captured, evaluated} \subseteq 0 .. Expectations
    BY ScenarioAssumption DEF Init
  <2>2. {failed, elapsed} \subseteq BOOLEAN
    BY DEF Init
  <2> QED
    BY <2>1, <2>2 DEF Init, TypeOK, InRun
<1>2. JoinInv /\ NoDetachedWorkload
  BY DEF Init, JoinInv, NoDetachedWorkload, Driven, InRun, Live
<1>3. GuardInv /\ PassInv
  BY DEF Init, GuardInv, PassInv, Driven, InRun, Ended
<1> QED
  BY <1>1, <1>2, <1>3 DEF IInv

\* The run fails, unwinds or is cancelled: everything is aborted.
LEMMA EndRunStep ==
  ASSUME IInv, InRun, NEW how \in {"err", "gone"}, EndRun(how),
         UNCHANGED <<captured, evaluated, elapsed, task, captures>>,
         failed' \in BOOLEAN
  PROVE  IInv'
<1>1. TypeOK'
  BY DEF IInv, TypeOK, EndRun, UseGuard, InRun, Ended
<1>2. JoinInv' /\ PassInv'
  BY DEF JoinInv, PassInv, Driven, EndRun, InRun
<1>3. GuardInv'
  BY DEF IInv, GuardInv, EndRun, UseGuard, InRun, Ended
<1>4. NoDetachedWorkload'
  BY DEF IInv, JoinInv, NoDetachedWorkload, EndRun, Live
<1> QED
  BY <1>1, <1>2, <1>3, <1>4 DEF IInv

\* A task ends, or is joined, and nothing else happens.
LEMMA TaskStep ==
  ASSUME IInv, NEW w \in Workload,
         \/ \E o \in {"ok", "err"} : WorkloadEnds(w, o)
         \/ AbortLands(w)
         \/ JoinTask(w)
  PROVE  IInv'
<1>1. UNCHANGED <<pc, runVars, aborted, endVars, captures>>
  BY DEF WorkloadEnds, AbortLands, JoinTask
<1>2. CASE JoinTask(w)
  BY <1>1, <1>2
     DEF IInv, TypeOK, JoinInv, GuardInv, PassInv, NoDetachedWorkload, Driven,
         InRun, Ended, Live, JoinTask, runVars, endVars
<1>3. CASE ~JoinTask(w)
  <2>1. PICK o \in {"ok", "err", "cancelled"} :
           task[w] = "running" /\ task' = [task EXCEPT ![w] = o]
    BY <1>3 DEF WorkloadEnds, AbortLands
  <2>2. UNCHANGED workloads
    BY <1>3 DEF WorkloadEnds, AbortLands
  <2>3. TypeOK' /\ Live' = Live \ {w}
    BY <1>1, <2>1, <2>2
       DEF IInv, TypeOK, InRun, Ended, Live, runVars, endVars
  <2>4. GuardInv' /\ PassInv'
    BY <1>1 DEF IInv, GuardInv, PassInv, Driven, InRun, Ended, runVars, endVars
  <2>5. JoinInv'
    BY <1>1, <2>1, <2>2, <2>3 DEF IInv, TypeOK, JoinInv, Driven, InRun
  <2>6. NoDetachedWorkload'
    BY <1>1, <2>3 DEF IInv, NoDetachedWorkload, InRun
  <2> QED
    BY <2>3, <2>4, <2>5, <2>6 DEF IInv
<1> QED
  BY <1>2, <1>3

\* The runner goes on to its next phase.
LEMMA PhaseStep ==
  ASSUME IInv, SpawnWorkloads \/ TimerFires \/ AllJoined \/ Drained
  PROVE  IInv'
<1>1. CASE SpawnWorkloads
  BY <1>1 DEF SpawnWorkloads, IInv, TypeOK, JoinInv, GuardInv, PassInv,
     NoDetachedWorkload, Driven, InRun, Ended, Live, runVars, endVars
<1>2. CASE TimerFires \/ AllJoined
  <2>1. /\ pc \in {"drive", "cooldown", "sleep"}
        /\ UNCHANGED <<captured, evaluated, failed, task, workloads, endVars, captures>>
        /\ elapsed' \in BOOLEAN
        /\ \/ /\ pc' = "sleep" /\ workloads = {} /\ aborted' = aborted
           \/ /\ pc' = "cooldown" /\ aborted' = aborted
           \/ pc' = "drain" /\ aborted' = aborted \cup workloads
    BY <1>2 DEF TimerFires, AllJoined, LeaveDrive, EnterCooldown, runVars, IInv, TypeOK
  <2> QED
    BY <2>1 DEF IInv, TypeOK, JoinInv, GuardInv, PassInv,
       NoDetachedWorkload, Driven, InRun, Ended, Live, endVars
<1>3. CASE Drained
  BY <1>3 DEF Drained, IInv, TypeOK, JoinInv, GuardInv, PassInv,
     NoDetachedWorkload, Driven, InRun, Ended, Live, runVars, taskVars, endVars
<1> QED
  BY <1>1, <1>2, <1>3

\* The two passes over the expectations.
LEMMA ExpectationStep ==
  ASSUME IInv,
         \/ StartCapture \/ Evaluate(TRUE) \/ Evaluate(FALSE) \/ ReturnHandle
         \/ \E e \in 1 .. Expectations : CaptureEnds(e)
  PROVE  IInv'
<1>1. UNCHANGED taskVars
  BY DEF StartCapture, Evaluate, ReturnHandle, CaptureEnds
<1>2. TypeOK'
  <2>1. CASE StartCapture
    <3>1. captured + 1 \in 1 .. Expectations
      BY <2>1, ScenarioAssumption DEF StartCapture, IInv, TypeOK
    <3>2. {failed', elapsed'} \subseteq BOOLEAN
      BY <2>1 DEF StartCapture, IInv, TypeOK
    <3>3. {captured', evaluated'} \subseteq 0 .. Expectations
      BY <2>1, <3>1, ScenarioAssumption DEF StartCapture, IInv, TypeOK
    <3>4. captures' \subseteq 1 .. Expectations
      BY <2>1, <3>1 DEF StartCapture, IInv, TypeOK
    <3> QED
      BY <1>1, <2>1, <3>2, <3>3, <3>4
         DEF StartCapture, IInv, TypeOK, InRun, Ended, taskVars, endVars
  <2>2. CASE \E fails \in BOOLEAN : Evaluate(fails)
    <3>1. {failed', elapsed'} \subseteq BOOLEAN
      BY <2>2 DEF Evaluate, IInv, TypeOK
    <3>2. {captured', evaluated'} \subseteq 0 .. Expectations
      BY <2>2, ScenarioAssumption DEF Evaluate, IInv, TypeOK
    <3> QED
      BY <1>1, <2>2, <3>1, <3>2
         DEF Evaluate, IInv, TypeOK, InRun, Ended, taskVars, endVars
  <2>3. CASE ReturnHandle \/ \E e \in 1 .. Expectations : CaptureEnds(e)
    BY <1>1, <2>3 DEF ReturnHandle, CaptureEnds, IInv, TypeOK, InRun, Ended,
       runVars, taskVars, endVars
  <2> QED
    BY <2>1, <2>2, <2>3
<1>3. JoinInv' /\ NoDetachedWorkload'
  BY <1>1 DEF StartCapture, Evaluate, ReturnHandle, CaptureEnds, IInv, JoinInv,
     NoDetachedWorkload, Driven, InRun, Live, taskVars
<1>4. GuardInv'
  BY DEF StartCapture, Evaluate, ReturnHandle, CaptureEnds, IInv, GuardInv, InRun,
     Ended, endVars
<1>5. PassInv'
  BY DEF StartCapture, Evaluate, ReturnHandle, CaptureEnds, IInv, PassInv, Driven,
     InRun, runVars
<1> QED
  BY <1>2, <1>3, <1>4, <1>5 DEF IInv

\* The caller lets go of the handle; the feed task ends.
LEMMA ReleaseStep ==
  ASSUME IInv, DropHandle \/ FeedEnds
  PROVE  IInv'
<1>1. UNCHANGED <<runVars, taskVars, captures>>
  BY DEF DropHandle, FeedEnds
<1>2. (pc = "ok" /\ pc' = "released") \/ UNCHANGED pc
  BY DEF DropHandle, FeedEnds
<1>3. GuardInv'
  BY DEF DropHandle, FeedEnds, UseGuard, IInv, GuardInv, InRun, Ended
<1>4. TypeOK'
  BY <1>1, <1>2 DEF DropHandle, FeedEnds, UseGuard, IInv, TypeOK, GuardInv, InRun,
     Ended, runVars, taskVars
<1>5. JoinInv' /\ PassInv' /\ NoDetachedWorkload'
  BY <1>1, <1>2 DEF IInv, JoinInv, PassInv, NoDetachedWorkload, Driven, InRun,
     Live, runVars, taskVars
<1> QED
  BY <1>3, <1>4, <1>5 DEF IInv

\* Every step preserves the inductive invariant.
LEMMA NextInv == IInv /\ [Next]_vars => IInv'
<1> SUFFICES ASSUME IInv, [Next]_vars PROVE IInv'
  OBVIOUS
<1>1. CASE CaptureFails \/ RunDropped \/ ReturnErr \/ \E w \in Workload : JoinFailure(w)
  <2>1. InRun /\ failed' \in BOOLEAN
        /\ UNCHANGED <<captured, evaluated, elapsed, task, captures>>
        /\ \E how \in {"err", "gone"} : EndRun(how)
    BY <1>1 DEF CaptureFails, RunDropped, ReturnErr, JoinFailure, InRun, runVars,
       IInv, TypeOK
  <2> QED
    BY <2>1, EndRunStep
<1>2. CASE \E w \in Workload : \/ \E o \in {"ok", "err"} : WorkloadEnds(w, o)
                               \/ AbortLands(w)
                               \/ JoinTask(w)
  BY <1>2, TaskStep
<1>3. CASE SpawnWorkloads \/ TimerFires \/ AllJoined \/ Drained
  BY <1>3, PhaseStep
<1>4. CASE \/ StartCapture \/ Evaluate(TRUE) \/ Evaluate(FALSE) \/ ReturnHandle
           \/ \E e \in 1 .. Expectations : CaptureEnds(e)
  BY <1>4, ExpectationStep
<1>5. CASE DropHandle \/ FeedEnds
  BY <1>5, ReleaseStep
<1>6. CASE UNCHANGED vars
  BY <1>6 DEF vars, runVars, taskVars, endVars, IInv, TypeOK, JoinInv, GuardInv,
     PassInv, NoDetachedWorkload, InRun, Ended, Live
<1> QED
  BY <1>1, <1>2, <1>3, <1>4, <1>5, <1>6 DEF Next, RunnerStep

\* The inductive invariant holds throughout.
LEMMA Invariance == Spec => []IInv
  BY InitInv, NextInv, PTL DEF Spec

\* The variables of the runner always have their types.
THEOREM TypeCorrect == Spec => []TypeOK
<1>1. IInv => TypeOK
  BY DEF IInv
<1> QED
  BY <1>1, Invariance, PTL

\* However the timer, the joins and the aborts interleave, run_expectations
\* starts only once every workload task has ended, and the feed still runs.
THEOREM EvaluationIsQuiet == Spec => []QuietEvaluation
<1>1. IInv => QuietEvaluation
  BY DEF IInv, TypeOK, JoinInv, GuardInv, QuietEvaluation, Driven, InRun, Ended, Live
<1> QED
  BY <1>1, Invariance, PTL

\* A handle is returned only by a run in which nothing failed.
THEOREM NoFailureIsLost == Spec => []FailuresSurface
<1>1. IInv => FailuresSurface
  BY DEF IInv, TypeOK, JoinInv, PassInv, FailuresSurface, Driven
<1> QED
  BY <1>1, Invariance, PTL

\* On every path out of the run, and on none before, the guard is used once.
THEOREM GuardUsedOnce == Spec => []CleanupOnce
<1>1. IInv => CleanupOnce
  BY DEF IInv, TypeOK, GuardInv, CleanupOnce, InRun, Ended
<1> QED
  BY <1>1, Invariance, PTL

\* A workload task that outlives the run has been asked to abort.
THEOREM WorkloadsEndWithRun == Spec => []NoDetachedWorkload
<1>1. IInv => NoDetachedWorkload
  BY DEF IInv
<1> QED
  BY <1>1, Invariance, PTL

\* The verdict of Runner::run can be trusted: it is reached in quiet, and a
\* handle stands for a run in which nothing failed.
THEOREM VerdictIsHonest == Spec => []HonestVerdict
<1>1. QuietEvaluation /\ FailuresSurface => HonestVerdict
  BY DEF HonestVerdict
<1> QED
  BY <1>1, EvaluationIsQuiet, NoFailureIsLost, PTL

------------------------------------------------------------------------------
(***************************************************************************)
(* The chaos workload, one of the workloads the runner drives, and the     *)
(* consensus liveness expectation it evaluates at the end.  The inductive  *)
(* invariant follows the loop of the workload (when each target was last   *)
(* restarted, what docker is still at work on) and the pass of the         *)
(* expectation over the nodes (what was heard of each node before idx).    *)
(***************************************************************************)

\* The workload is between two restarts; it is in its loop.
Waiting == chaos_pc \in {"sleep", "pick"}
Running == chaos_pc \in {"sleep", "pick", "restart"}

\* Who can be restarted, and when; what was sampled is a height.
TopologyInv ==
  /\ n_validators \in Nat /\ n_executors \in Nat /\ n_validators >= 1
  /\ target_hint \in Nat /\ lag_allowance \in Nat
  /\ now \in Nat /\ wake \in Int /\ started \in Int
  /\ Running => cooldowns \in [targets -> Int] /\ finished \in [targets -> Int]
  /\ chaos_pc \in {"start", "sleep", "pick", "restart", "aborted", "failed"}

\* A cooldown that is over means that the last restart is as long ago, and
\* the loop sleeps until a delay after every restart.
SpacingInv ==
  /\ Running => \A t \in targets : \/ finished[t] + target_cooldown <= cooldowns[t]
                                   \/ finished[t] + target_cooldown <= now
  /\ Waiting => \A t \in targets : finished[t] + min_delay <= wake
  /\ chaos_pc = "restart" => target \in targets /\ started <= now
  /\ SpacedRestarts

\* docker works for the restart the workload waits for, or for the last one.
DockerInv ==
  /\ docker \subseteq targets
  /\ \A t \in docker, u \in docker : t = u
  /\ chaos_pc = "start" \/ Waiting => docker = {}
  /\ chaos_pc = "restart" => docker \subseteq {target}

\* The evaluation has heard of, or given up, every node before idx; heights
\* are bounded by the chain's, and those of a network in step are no lower
\* than the chain was at the first.
SampleInv ==
  /\ top \in Nat /\ top0 \in Nat
  /\ chaos_pc # "aborted" => idx = 0 /\ verdict = "none" /\ DOMAIN samples = {} /\ unanswered = {}
  /\ chaos_pc = "aborted" => /\ idx \in 1 .. n_validators + n_executors + 1
                             /\ DOMAIN samples \cup unanswered = 1 .. idx - 1
  /\ \A n \in DOMAIN samples : samples[n] \in Nat /\ samples[n] <= top
  /\ DOMAIN samples # {} => top0 <= top
  /\ insync => \A n \in DOMAIN samples : top0 <= samples[n]

\* The verdict is the report on what was sampled of all nodes.
ReportInv ==
  verdict \notin {"none", "hanging"} =>
    idx \notin Node /\ chaos_pc = "aborted" /\ verdict = report

ChaosInv == TopologyInv /\ SpacingInv /\ DockerInv /\ SampleInv /\ ReportInv

------------------------------------------------------------------------------
(* Operators of the model.                                                 *)

\* Every set of naturals that is not empty has a least element.
LEMMA LeastNat ==
  ASSUME NEW S \in SUBSET Nat, S # {}
  PROVE  \E x \in S : \A y \in S : x <= y
  <1> DEFINE R == {p \in Nat \X Nat : p[1] < p[2]}
  <1>1. R = OpToRel(<, Nat)
    BY DEF OpToRel
  <1>2. IsWellFoundedOn(R, Nat)
    BY <1>1, NatLessThanWellFounded
  <1> HIDE DEF R
  <1>3. PICK x \in S : \A y \in S : ~ (<<y, x>> \in R)
    BY <1>2, WFMin
  <1>4. \A y \in S : ~ (y < x)
    BY <1>3 DEF R
  <1> QED BY <1>4

\* Min of a set of naturals that is not empty is its least element.
LEMMA MinIsLeast ==
  ASSUME NEW S \in SUBSET Nat, S # {}
  PROVE  Min(S) \in S /\ \A y \in S : Min(S) <= y
  <1>1. \E x \in S : \A y \in S : x =< y
    BY LeastNat
  <1> QED BY <1>1 DEF Min

\* A bounded set of naturals that is not empty has a greatest element.
LEMMA MaxIsGreatest ==
  ASSUME NEW S \in SUBSET Nat, S # {}, NEW b \in Nat, \A y \in S : y <= b
  PROVE  Max(S) \in S /\ \A y \in S : Max(S) >= y
  <1> DEFINE T == {b - y : y \in S}
  <1>1. T \in SUBSET Nat /\ T # {}
    <2>1. \A y \in S : b - y \in Nat
      OBVIOUS
    <2>2. T \in SUBSET Nat
      BY <2>1
    <2>3. PICK y \in S : TRUE
      OBVIOUS
    <2>4. b - y \in T
      BY <2>3
    <2> QED BY <2>2, <2>4
  <1>2. PICK x \in T : \A y \in T : x <= y
    BY <1>1, LeastNat
  <1>3. PICK z \in S : x = b - z
    BY <1>2
  <1>4. \A y \in S : z >= y
    <2>1. SUFFICES ASSUME NEW y \in S PROVE z >= y
      OBVIOUS
    <2>2. b - z <= b - y
      BY <1>2, <1>3
    <2>3. z \in Int /\ y \in Int /\ b \in Int
      OBVIOUS
    <2> QED BY <2>2, <2>3
  <1> QED BY <1>4 DEF Max

\* The topology and the settings of a scenario do not change.
LEMMA ConfKept ==
  ASSUME UNCHANGED confVars
  PROVE  /\ targets' = targets /\ Node' = Node
         /\ n_validators' = n_validators /\ n_executors' = n_executors
         /\ target_hint' = target_hint /\ lag_allowance' = lag_allowance
  BY DEF confVars, targets, Node

\* The delays drawn are no shorter than the least one.
LEMMA DelayBounds == \A d \in random_delay : d \in Int /\ min_delay <= d
  BY DelayAssumption, HeightAssumption DEF random_delay

\* The initial states satisfy the invariant of chaos and evaluation.
LEMMA InitChaosInv == ChaosInit => ChaosInv
  <1> SUFFICES ASSUME ChaosInit PROVE ChaosInv
    OBVIOUS
  <1> USE DEF ChaosInit
  <1>1. TopologyInv
    BY DelayAssumption, HeightAssumption DEF TopologyInv, Running
  <1>2. SpacingInv
    BY DEF SpacingInv, Running, Waiting, SpacedRestarts
  <1>3. DockerInv
    BY DEF DockerInv
  <1>4. DOMAIN samples = {}
    OBVIOUS
  <1>5. SampleInv
    BY <1>4 DEF SampleInv
  <1>6. ReportInv
    BY DEF ReportInv
  <1> QED BY <1>1, <1>2, <1>3, <1>5, <1>6 DEF ChaosInv

------------------------------------------------------------------------------
(* The workload.                                                           *)

\* What the evaluation knows is not touched.
LEMMA SamplesKept ==
  ASSUME SampleInv, ReportInv, UNCHANGED <<confVars, evalVars, top>>,
         chaos_pc = "aborted" <=> chaos_pc' = "aborted"
  PROVE  SampleInv' /\ ReportInv'
  <1>1. /\ Node' = Node /\ n_validators' = n_validators /\ n_executors' = n_executors
        /\ target_hint' = target_hint /\ lag_allowance' = lag_allowance
    BY ConfKept
  <1>2. /\ idx' = idx /\ samples' = samples /\ unanswered' = unanswered /\ top0' = top0
        /\ insync' = insync /\ verdict' = verdict /\ top' = top
    BY DEF evalVars
  <1>3. SampleInv'
    BY <1>1, <1>2 DEF SampleInv
  <1>4. report' = report
    BY <1>1, <1>2
    DEF report, max_height, report_target, effective_lag_allowance, Lagging
  <1> QED BY <1>1, <1>2, <1>3, <1>4 DEF ReportInv

\* The workload and docker are not touched.
LEMMA TaskKept ==
  ASSUME TopologyInv, SpacingInv, DockerInv,
         UNCHANGED <<confVars, now, restartVars, docker>>
  PROVE  TopologyInv' /\ SpacingInv' /\ DockerInv'
  <1>1. /\ targets' = targets
        /\ n_validators' = n_validators /\ n_executors' = n_executors
        /\ target_hint' = target_hint /\ lag_allowance' = lag_allowance
    BY ConfKept
  <1>2. /\ now' = now /\ chaos_pc' = chaos_pc /\ wake' = wake /\ target' = target
        /\ started' = started
        /\ cooldowns' = cooldowns /\ finished' = finished /\ docker' = docker
    BY DEF restartVars
  <1> USE <1>1, <1>2
  <1>3. TopologyInv'
    BY DEF TopologyInv, Running
  <1>4. SpacingInv'
    BY DEF SpacingInv, Running, Waiting, SpacedRestarts
  <1>5. DockerInv'
    BY DEF DockerInv, Waiting
  <1> QED BY <1>3, <1>4, <1>5

\* The workload ends, with its error or aborted, and leaves docker alone or
\* with less to do.
LEMMA TaskEnds ==
  ASSUME TopologyInv, DockerInv,
         UNCHANGED <<confVars, now>>, chaos_pc' \in {"failed", "aborted"},
         wake' \in Int, started' \in Int, docker' \subseteq docker
  PROVE  TopologyInv' /\ SpacingInv' /\ DockerInv'
  <1>1. /\ targets' = targets
        /\ n_validators' = n_validators /\ n_executors' = n_executors
        /\ target_hint' = target_hint /\ lag_allowance' = lag_allowance
    BY ConfKept
  <1> USE <1>1
  <1>3. TopologyInv'
    BY DEF TopologyInv, Running
  <1>4. SpacingInv'
    BY DEF SpacingInv, Running, Waiting, SpacedRestarts
  <1>5. DockerInv'
    BY DEF DockerInv, Waiting
  <1> QED BY <1>3, <1>4, <1>5

\* The loop is entered with every target's cooldown over.
LEMMA StartStep ==
  ASSUME ChaosInv, Start
  PROVE  TopologyInv' /\ SpacingInv' /\ DockerInv' /\ chaos_pc' # "aborted"
  <1> USE DEF ChaosInv
  <1>0. chaos_pc = "start" /\ UNCHANGED <<confVars, now, nodeVars, evalVars>>
    BY DEF Start
  <1>1. docker' = docker /\ docker = {} /\ now' = now
    BY <1>0 DEF nodeVars, DockerInv
  <1>2. CASE WorkloadFails
    <2>1. chaos_pc' = "failed" /\ wake' \in Int /\ started' \in Int
      BY <1>2 DEF WorkloadFails, TopologyInv
    <2> QED BY <1>0, <1>1, <2>1, TaskEnds
  <1>3. CASE /\ cooldowns' = initialize_cooldowns
             /\ finished' = [t \in targets |-> now - target_cooldown - min_delay]
             /\ GoToSleep
             /\ UNCHANGED <<target, started>>
    <2>1. PICK d \in random_delay : wake' = now + d
      BY <1>3 DEF GoToSleep
    <2>2. /\ d \in Int /\ min_delay <= d /\ min_delay \in Nat /\ target_cooldown \in Nat
          /\ now \in Nat
      BY DelayBounds, DelayAssumption, HeightAssumption
      DEF TopologyInv
    <2>3. targets' = targets /\ chaos_pc' = "sleep" /\ started' = started
      BY <1>0, <1>3, ConfKept DEF GoToSleep
    <2>4. /\ cooldowns' \in [targets -> Int] /\ finished' \in [targets -> Int]
          /\ \A t \in targets : finished'[t] = now - target_cooldown - min_delay
      BY <1>3, <2>2 DEF initialize_cooldowns
    <2>5. TopologyInv'
      BY <1>0, <1>1, <2>1, <2>2, <2>3, <2>4, ConfKept DEF TopologyInv
    <2>6. SpacingInv'
      BY <1>1, <2>1, <2>2, <2>3, <2>4 DEF SpacingInv, Running, Waiting, SpacedRestarts
    <2>7. DockerInv'
      BY <1>1, <2>3 DEF DockerInv
    <2> QED BY <2>3, <2>5, <2>6, <2>7
  <1> QED BY <1>2, <1>3 DEF Start

\* The loop wakes up, or waits on for a cooldown that ends later than now.
LEMMA WaitStep ==
  ASSUME ChaosInv, Wake \/ WaitForCooldown
  PROVE  TopologyInv' /\ SpacingInv' /\ DockerInv'
  <1> USE DEF ChaosInv
  <1>1. /\ UNCHANGED <<confVars, now, target, started, cooldowns, finished, nodeVars>>
        /\ Waiting /\ chaos_pc' = "pick" /\ now >= wake
    BY DEF Wake, WaitForCooldown, Waiting
  <1>2. /\ now' = now /\ started' = started /\ cooldowns' = cooldowns
        /\ finished' = finished /\ docker' = docker
    BY <1>1 DEF nodeVars
  <1>3. targets' = targets /\ UNCHANGED confVars
    BY <1>1, ConfKept
  <1>4. wake' \in Int /\ wake <= wake'
    <2>1. CASE Wake
      BY <2>1 DEF Wake, TopologyInv
    <2>2. CASE WaitForCooldown
      <3> DEFINE C == {cooldowns[t] : t \in Cooling}
      <3>1. Cooling # {} /\ wake' = Min(C)
        BY <2>2 DEF WaitForCooldown
      <3>2. now \in Nat /\ cooldowns \in [targets -> Int]
        BY <1>1 DEF TopologyInv, Running, Waiting
      <3>3. \A t \in Cooling : cooldowns[t] \in Nat /\ cooldowns[t] > now
        BY <3>2 DEF Cooling
      <3>4. C \in SUBSET Nat /\ \A c \in C : c > now
        BY <3>3
      <3>5. PICK t \in Cooling : TRUE
        BY <3>1
      <3>6. C # {}
        BY <3>5
      <3> HIDE DEF C
      <3>7. wake' \in C
        BY <3>1, <3>4, <3>6, MinIsLeast
      <3>8. wake' \in Nat /\ wake' > now /\ wake \in Int
        BY <3>4, <3>7 DEF TopologyInv
      <3> QED BY <1>1, <3>2, <3>8
    <2> QED BY <2>1, <2>2
  <1>5. TopologyInv'
    BY <1>1, <1>2, <1>3, <1>4, ConfKept DEF TopologyInv, Running, Waiting
  <1>6. SpacingInv'
    <2>1. /\ finished \in [targets -> Int] /\ wake \in Int
          /\ \A t \in targets : finished[t] + min_delay <= wake
      BY <1>1 DEF SpacingInv, TopologyInv, Waiting, Running
    <2>2. \A t \in targets : finished[t] + min_delay <= wake'
      BY <1>4, <2>1, DelayAssumption, HeightAssumption
    <2> QED BY <1>1, <1>2, <1>3, <2>2 DEF SpacingInv, Running, Waiting, SpacedRestarts
  <1>7. DockerInv'
    BY <1>1, <1>2, <1>3 DEF DockerInv, Waiting
  <1> QED BY <1>5, <1>6, <1>7

\* A restart begins when nothing is cooling down and a delay has passed.
LEMMA PickStep ==
  ASSUME ChaosInv, NEW t \in targets, PickTarget(t)
  PROVE  TopologyInv' /\ SpacingInv' /\ DockerInv'
  <1> USE DEF ChaosInv
  <1>1. /\ chaos_pc = "pick" /\ now >= wake /\ Cooling = {}
        /\ chaos_pc' = "restart" /\ target' = t /\ started' = now /\ docker' = docker \cup {t}
        /\ UNCHANGED <<confVars, now, wake, cooldowns, finished>>
    BY DEF PickTarget, BeginRestart
  <1>2. /\ targets' = targets /\ now' = now /\ cooldowns' = cooldowns
        /\ finished' = finished
    BY <1>1, ConfKept
  <1>3. /\ now \in Nat /\ wake \in Int /\ target_cooldown \in Nat /\ min_delay \in Nat
        /\ cooldowns \in [targets -> Int] /\ finished \in [targets -> Int]
    BY <1>1, DelayAssumption, HeightAssumption
    DEF TopologyInv, Running
  <1>4. \A u \in targets : cooldowns[u] <= now
    BY <1>1, <1>3 DEF Cooling
  <1>5. \A u \in targets : /\ \/ finished[u] + target_cooldown <= cooldowns[u]
                              \/ finished[u] + target_cooldown <= now
                           /\ finished[u] + min_delay <= wake
    BY <1>1 DEF SpacingInv, Running, Waiting
  <1>6. \A u \in targets : now - finished[u] >= target_cooldown /\ now - finished[u] >= min_delay
    <2>1. SUFFICES ASSUME NEW u \in targets
                   PROVE  now - finished[u] >= target_cooldown /\ now - finished[u] >= min_delay
      OBVIOUS
    <2>2. finished[u] \in Int /\ cooldowns[u] \in Int
      BY <1>3
    <2> QED BY <1>1, <1>3, <1>4, <1>5, <2>2
  <1>7. TopologyInv'
    BY <1>1, <1>2, <1>3, ConfKept DEF TopologyInv, Running
  <1>8. SpacingInv'
    BY <1>1, <1>2, <1>3, <1>5, <1>6 DEF SpacingInv, Running, Waiting, SpacedRestarts
  <1>9. DockerInv'
    BY <1>1, <1>2 DEF DockerInv, Waiting
  <1> QED BY <1>7, <1>8, <1>9

\* docker is done with the restart that the workload waits for: the cooldown
\* and the next delay count from now.
LEMMA OkStep ==
  ASSUME ChaosInv, NEW t \in targets, RestartOk(t)
  PROVE  TopologyInv' /\ SpacingInv' /\ DockerInv'
  <1> USE DEF ChaosInv
  <1>1. /\ chaos_pc = "restart" /\ target = t /\ chaos_pc' = "sleep" /\ docker' = docker \ {t}
        /\ cooldowns' = [cooldowns EXCEPT ![t] = now + target_cooldown]
        /\ finished' = [finished EXCEPT ![t] = now]
        /\ UNCHANGED <<confVars, now, started>>
    BY DEF RestartOk, Awaited, ContainerUp, GoToSleep
  <1>2. PICK d \in random_delay : wake' = now + d
    BY DEF RestartOk, GoToSleep
  <1>3. /\ now \in Nat /\ started \in Int /\ target_cooldown \in Nat /\ min_delay \in Nat
        /\ d \in Int /\ min_delay <= d /\ started <= now
        /\ cooldowns \in [targets -> Int] /\ finished \in [targets -> Int]
    BY <1>1, DelayBounds, DelayAssumption, HeightAssumption
    DEF TopologyInv, Running, SpacingInv
  <1>4. targets' = targets /\ now' = now /\ started' = started
    BY <1>1, ConfKept
  <1>5. /\ cooldowns' \in [targets -> Int] /\ finished' \in [targets -> Int]
        /\ \A u \in targets :
             /\ cooldowns'[u] = IF u = t THEN now + target_cooldown ELSE cooldowns[u]
             /\ finished'[u] = IF u = t THEN now ELSE finished[u]
    BY <1>1, <1>3
  <1>6. TopologyInv'
    BY <1>1, <1>2, <1>3, <1>4, <1>5, ConfKept DEF TopologyInv, Running
  <1>7. \A u \in targets : finished'[u] + min_delay <= wake'
    <2>1. SUFFICES ASSUME NEW u \in targets PROVE finished'[u] + min_delay <= wake'
      OBVIOUS
    <2>2. finished[u] \in Int /\ started - finished[u] >= min_delay
      BY <1>1, <1>3 DEF SpacingInv, SpacedRestarts
    <2> QED BY <1>2, <1>3, <1>5, <2>2
  <1>8. \A u \in targets : \/ finished'[u] + target_cooldown <= cooldowns'[u]
                           \/ finished'[u] + target_cooldown <= now
    BY <1>1, <1>3, <1>5 DEF SpacingInv, Running
  <1>9. SpacingInv'
    BY <1>1, <1>4, <1>7, <1>8 DEF SpacingInv, Running, Waiting, SpacedRestarts
  <1>10. DockerInv'
    BY <1>1, <1>4 DEF DockerInv, Waiting
  <1> QED BY <1>6, <1>9, <1>10

\* docker fails, or is done with a restart nobody waits for any more.
LEMMA DockerStep ==
  ASSUME ChaosInv, NEW t \in targets, RestartErr(t) \/ RestartAlone(t)
  PROVE  TopologyInv' /\ SpacingInv' /\ DockerInv' /\ (chaos_pc = "aborted" <=> chaos_pc' = "aborted")
  <1> USE DEF ChaosInv
  <1>1. UNCHANGED <<confVars, now>> /\ docker' = docker \ {t}
    BY DEF RestartErr, RestartAlone, ContainerUp
  <1>2. CASE Awaited(t) /\ WorkloadFails
    <2>1. chaos_pc = "restart" /\ chaos_pc' = "failed" /\ wake' \in Int /\ started' \in Int
      BY <1>2 DEF Awaited, WorkloadFails, TopologyInv
    <2> QED BY <1>1, <2>1, TaskEnds
  <1>3. CASE UNCHANGED restartVars
    <2>1. /\ chaos_pc' = chaos_pc /\ wake' = wake /\ target' = target /\ started' = started
          /\ cooldowns' = cooldowns /\ finished' = finished /\ now' = now
      BY <1>1, <1>3 DEF restartVars
    <2>2. targets' = targets
      BY <1>1, ConfKept
    <2>3. TopologyInv'
      BY <1>1, <2>1, <2>2, ConfKept DEF TopologyInv, Running
    <2>4. SpacingInv'
      BY <2>1, <2>2 DEF SpacingInv, Running, Waiting, SpacedRestarts
    <2>5. DockerInv'
      BY <1>1, <2>1, <2>2 DEF DockerInv, Waiting
    <2> QED BY <2>1, <2>3, <2>4, <2>5
  <1> QED BY <1>2, <1>3 DEF RestartErr, RestartAlone

\* Time only lets more cooldowns be over.
LEMMA TickStep ==
  ASSUME ChaosInv, Tick
  PROVE  TopologyInv' /\ SpacingInv' /\ DockerInv'
  <1> USE DEF ChaosInv
  <1>1. /\ chaos_pc' = chaos_pc /\ wake' = wake /\ target' = target /\ started' = started
        /\ cooldowns' = cooldowns /\ finished' = finished /\ now' = now + 1 /\ docker' = docker
        /\ UNCHANGED confVars
    BY DEF Tick, restartVars, nodeVars
  <1>2. targets' = targets
    BY <1>1, ConfKept
  <1>3. now \in Nat /\ started \in Int /\ target_cooldown \in Nat
    BY DelayAssumption, HeightAssumption DEF TopologyInv
  <1>4. TopologyInv'
    BY <1>1, <1>2, <1>3, ConfKept DEF TopologyInv, Running
  <1>5. Running => \A t \in targets : \/ finished[t] + target_cooldown <= cooldowns[t]
                                      \/ finished[t] + target_cooldown <= now'
    <2>1. SUFFICES ASSUME Running, NEW t \in targets
                   PROVE  \/ finished[t] + target_cooldown <= cooldowns[t]
                          \/ finished[t] + target_cooldown <= now'
      OBVIOUS
    <2>2. finished[t] \in Int
      BY <2>1 DEF TopologyInv
    <2> QED BY <1>1, <1>3, <2>1, <2>2 DEF SpacingInv
  <1>6. SpacingInv'
    BY <1>1, <1>2, <1>3, <1>5 DEF SpacingInv, Running, Waiting, SpacedRestarts
  <1>7. DockerInv'
    BY <1>1, <1>2 DEF DockerInv, Waiting
  <1> QED BY <1>4, <1>6, <1>7

------------------------------------------------------------------------------
(* The evaluation.                                                         *)

\* The run ends: nobody has been asked yet.
LEMMA EndsStep ==
  ASSUME ChaosInv, RunnerAborts
  PROVE  ChaosInv'
  <1>1. /\ chaos_pc # "aborted" /\ chaos_pc' = "aborted" /\ idx' = 1 /\ top' \in Height
        /\ wake' = 0 /\ started' = 0 /\ docker' = docker
        /\ UNCHANGED <<confVars, now, samples, unanswered, top0, insync, verdict>>
    BY DEF RunnerAborts
  <1>2. TopologyInv' /\ SpacingInv' /\ DockerInv'
    BY <1>1, TaskEnds DEF ChaosInv
  <1>3. /\ n_validators' = n_validators /\ n_executors' = n_executors
        /\ n_validators \in Nat /\ n_executors \in Nat
    BY <1>1, ConfKept DEF ChaosInv, TopologyInv
  <1>4. DOMAIN samples = {} /\ unanswered = {} /\ verdict = "none" /\ top0 \in Nat
    BY <1>1 DEF ChaosInv, SampleInv
  <1>5. DOMAIN samples' = {} /\ unanswered' = {} /\ verdict' = "none" /\ top0' \in Nat
    BY <1>1, <1>4
  <1>6. top' \in Nat /\ 1 \in 1 .. n_validators + n_executors + 1 /\ 1 .. 1 - 1 = {}
    BY <1>1, <1>3, DelayAssumption, HeightAssumption
  <1>7. SampleInv'
    BY <1>1, <1>3, <1>5, <1>6 DEF SampleInv
  <1>8. ReportInv'
    BY <1>5 DEF ReportInv
  <1> QED BY <1>2, <1>7, <1>8 DEF ChaosInv

\* The chain grows.
LEMMA BlockStep ==
  ASSUME ChaosInv, NewBlock
  PROVE  ChaosInv'
  <1>1. /\ UNCHANGED <<confVars, now, restartVars, docker>> /\ UNCHANGED evalVars
        /\ verdict = "none"
        /\ chaos_pc' = chaos_pc
    BY DEF NewBlock, Evaluating, restartVars
  <1>2. PICK h \in Height : h > top /\ top' = h
    BY DEF NewBlock
  <1>3. TopologyInv' /\ SpacingInv' /\ DockerInv'
    BY <1>1, TaskKept DEF ChaosInv
  <1>4. /\ idx' = idx /\ samples' = samples /\ unanswered' = unanswered /\ top0' = top0
        /\ insync' = insync /\ verdict' = verdict
        /\ n_validators' = n_validators /\ n_executors' = n_executors
    BY <1>1, ConfKept DEF evalVars
  <1>5. top \in Nat /\ top0 \in Nat /\ top' \in Nat /\ top' >= top
    BY <1>2, DelayAssumption, HeightAssumption DEF ChaosInv, SampleInv
  <1>6. SampleInv'
    BY <1>1, <1>4, <1>5 DEF ChaosInv, SampleInv
  <1>7. ReportInv'
    BY <1>1, <1>4 DEF ReportInv
  <1> QED BY <1>3, <1>6, <1>7 DEF ChaosInv

\* A node answers, or is asked again, or is given up.
LEMMA SampleStepInv ==
  ASSUME ChaosInv, SampleStep
  PROVE  ChaosInv'
  <1>1. /\ UNCHANGED <<confVars, now, restartVars, docker>> /\ top' = top
        /\ chaos_pc = "aborted" /\ verdict = "none" /\ verdict' = verdict /\ chaos_pc' = chaos_pc
        /\ idx \in Node
    BY DEF SampleStep, SampleOk, SampleErr, Evaluating,
           restartVars, nodeVars
  <1>2. TopologyInv' /\ SpacingInv' /\ DockerInv'
    BY <1>1, TaskKept DEF ChaosInv
  <1>3. /\ n_validators' = n_validators /\ n_executors' = n_executors
        /\ n_validators + n_executors \in Nat
        /\ idx \in Int /\ 1 <= idx /\ idx <= n_validators + n_executors
    BY <1>1, ConfKept DEF ChaosInv, TopologyInv, Node
  <1>4. /\ top \in Nat /\ top0 \in Nat /\ DOMAIN samples \cup unanswered = 1 .. idx - 1
        /\ \A n \in DOMAIN samples : samples[n] \in Nat /\ samples[n] <= top
        /\ DOMAIN samples # {} => top0 <= top
    BY <1>1 DEF ChaosInv, SampleInv
  <1>5. (1 .. idx - 1) \cup {idx} = 1 .. (idx + 1) - 1
    BY <1>3
  <1>6. idx + 1 \in 1 .. n_validators + n_executors + 1
    BY <1>3
  <1>7. ASSUME NEW h \in Height, SampleOk(h) PROVE SampleInv'
    <2>1. /\ h <= top /\ h \in Nat /\ idx' = idx + 1 /\ unanswered' = unanswered
          /\ samples' = [n \in DOMAIN samples \cup {idx} |-> IF n = idx THEN h ELSE samples[n]]
      BY <1>7, DelayAssumption, HeightAssumption DEF SampleOk
    <2>2. top0' = IF DOMAIN samples = {} THEN top ELSE top0
      BY <1>7 DEF SampleOk
    <2>3. insync' = (insync /\ h = top)
      BY <1>7 DEF SampleOk
    <2>4. DOMAIN samples' = DOMAIN samples \cup {idx}
      BY <2>1
    <2>5. /\ DOMAIN samples' \cup unanswered' = 1 .. idx' - 1
          /\ idx' \in 1 .. n_validators' + n_executors' + 1
      BY <1>3, <1>4, <1>5, <1>6, <2>1, <2>4
    <2>6. \A n \in DOMAIN samples' : samples'[n] \in Nat /\ samples'[n] <= top
      BY <1>4, <2>1
    <2>7. top0' \in Nat /\ top0' <= top
      <3>1. CASE DOMAIN samples = {}
        <4>1. top0' = top
          BY <2>2, <3>1
        <4> QED BY <1>4, <4>1
      <3>2. CASE DOMAIN samples # {}
        <4>1. top0' = top0
          BY <2>2, <3>2
        <4> QED BY <1>4, <3>2, <4>1
      <3> QED BY <3>1, <3>2
    <2>8. insync' => \A n \in DOMAIN samples' : top0' <= samples'[n]
      <3>1. SUFFICES ASSUME insync', NEW n \in DOMAIN samples' PROVE top0' <= samples'[n]
        OBVIOUS
      <3>2. insync /\ h = top
        BY <2>3, <3>1
      <3>3. CASE n = idx
        BY <2>1, <2>4, <2>7, <3>2, <3>3
      <3>4. CASE n # idx
        <4>1. n \in DOMAIN samples /\ samples'[n] = samples[n] /\ top0' = top0
          BY <2>1, <2>2, <2>4, <3>4
        <4> QED BY <3>2, <4>1 DEF ChaosInv, SampleInv
      <3> QED BY <3>3, <3>4
    <2> QED BY <1>1, <2>5, <2>6, <2>7, <2>8, <1>4 DEF SampleInv
  <1>8. ASSUME SampleErr PROVE SampleInv'
    <2>1. samples' = samples /\ top0' = top0 /\ insync' = insync
      BY <1>8 DEF SampleErr
    <2>2. \/ idx' = idx /\ unanswered' = unanswered
          \/ idx' = idx + 1 /\ unanswered' = unanswered \cup {idx}
      BY <1>8 DEF SampleErr
    <2>3. /\ DOMAIN samples' \cup unanswered' = 1 .. idx' - 1
          /\ idx' \in 1 .. n_validators' + n_executors' + 1
      BY <1>3, <1>4, <1>5, <1>6, <2>1, <2>2
    <2> QED BY <1>1, <1>4, <2>1, <2>3 DEF ChaosInv, SampleInv
  <1>9. SampleInv'
    BY <1>7, <1>8 DEF SampleStep
  <1>10. ReportInv'
    BY <1>1 DEF ReportInv
  <1> QED BY <1>2, <1>9, <1>10 DEF ChaosInv

\* A request that hangs is no verdict.
LEMMA HangStep ==
  ASSUME ChaosInv, SampleHangs
  PROVE  ChaosInv'
  <1>1. /\ UNCHANGED <<confVars, now, restartVars, docker>> /\ top' = top
        /\ idx' = idx /\ samples' = samples /\ unanswered' = unanswered /\ top0' = top0
        /\ insync' = insync
        /\ chaos_pc = "aborted" /\ chaos_pc' = chaos_pc /\ verdict' = "hanging"
    BY DEF SampleHangs, Evaluating, restartVars, nodeVars
  <1>2. TopologyInv' /\ SpacingInv' /\ DockerInv'
    BY <1>1, TaskKept DEF ChaosInv
  <1>3. n_validators' = n_validators /\ n_executors' = n_executors
    BY <1>1, ConfKept
  <1>4. SampleInv'
    BY <1>1, <1>3 DEF ChaosInv, SampleInv
  <1>5. ReportInv'
    BY <1>1 DEF ReportInv
  <1> QED BY <1>2, <1>4, <1>5 DEF ChaosInv

\* The verdict is given on all nodes.
LEMMA ReportStep ==
  ASSUME ChaosInv, Report
  PROVE  ChaosInv'
  <1>1. /\ UNCHANGED <<confVars, now, restartVars, docker>> /\ top' = top
        /\ idx' = idx /\ samples' = samples /\ unanswered' = unanswered /\ top0' = top0
        /\ insync' = insync
        /\ chaos_pc = "aborted" /\ chaos_pc' = chaos_pc /\ idx \notin Node
        /\ verdict' = report
    BY DEF Report, Evaluating, restartVars, nodeVars
  <1>2. TopologyInv' /\ SpacingInv' /\ DockerInv'
    BY <1>1, TaskKept DEF ChaosInv
  <1>3. /\ Node' = Node /\ n_validators' = n_validators /\ n_executors' = n_executors
        /\ target_hint' = target_hint /\ lag_allowance' = lag_allowance
    BY <1>1, ConfKept
  <1>4. SampleInv'
    BY <1>1, <1>3 DEF ChaosInv, SampleInv
  <1>5. report' = report
    BY <1>1, <1>3
    DEF report, max_height, report_target, effective_lag_allowance, Lagging
  <1>6. ReportInv'
    BY <1>1, <1>3, <1>5 DEF ReportInv
  <1> QED BY <1>2, <1>4, <1>6 DEF ChaosInv

\* The invariant holds of every run with chaos.
LEMMA ChaosInvariant == ChaosSpec => []ChaosInv
  <1>1. ASSUME ChaosInv, [ChaosNext]_chaosVars PROVE ChaosInv'
    <2> USE <1>1
    <2>0. TopologyInv /\ SpacingInv /\ DockerInv /\ SampleInv /\ ReportInv
      BY DEF ChaosInv
    <2>1. ASSUME TopologyInv' /\ SpacingInv' /\ DockerInv', UNCHANGED <<confVars, evalVars, top>>,
                 chaos_pc = "aborted" <=> chaos_pc' = "aborted"
          PROVE  ChaosInv'
      BY <2>0, <2>1, SamplesKept DEF ChaosInv
    <2>2. CASE Start
      <3>1. UNCHANGED <<confVars, evalVars, top>> /\ chaos_pc # "aborted"
        BY <2>2 DEF Start, nodeVars
      <3> QED BY <2>1, <2>2, <3>1, StartStep
    <2>3. CASE Wake \/ WaitForCooldown
      <3>1. /\ UNCHANGED <<confVars, evalVars, top>> /\ chaos_pc # "aborted"
            /\ chaos_pc' # "aborted"
        BY <2>3 DEF Wake, WaitForCooldown, nodeVars
      <3> QED BY <2>1, <2>3, <3>1, WaitStep
    <2>4. CASE RestartTimeout
      <3>1. /\ UNCHANGED <<confVars, evalVars, top>> /\ chaos_pc # "aborted"
            /\ chaos_pc' = "failed"
        BY <2>4 DEF RestartTimeout, WorkloadFails, nodeVars
      <3>2. /\ wake' \in Int /\ started' \in Int /\ docker' = docker
            /\ UNCHANGED <<confVars, now>>
        BY <2>0, <2>4 DEF RestartTimeout, WorkloadFails, nodeVars, TopologyInv
      <3> QED BY <2>0, <2>1, <3>1, <3>2, TaskEnds
    <2>5. ASSUME NEW t \in targets, PickTarget(t) PROVE ChaosInv'
      <3>1. /\ UNCHANGED <<confVars, evalVars, top>> /\ chaos_pc # "aborted"
            /\ chaos_pc' # "aborted"
        BY <2>5 DEF PickTarget, BeginRestart
      <3> QED BY <2>1, <2>5, <3>1, PickStep
    <2>6. ASSUME NEW t \in targets, RestartOk(t) PROVE ChaosInv'
      <3>1. /\ UNCHANGED <<confVars, evalVars, top>> /\ chaos_pc # "aborted"
            /\ chaos_pc' # "aborted"
        BY <2>6 DEF RestartOk, Awaited, GoToSleep, ContainerUp
      <3> QED BY <2>1, <2>6, <3>1, OkStep
    <2>7. ASSUME NEW t \in targets, RestartErr(t) \/ RestartAlone(t) PROVE ChaosInv'
      <3>1. UNCHANGED <<confVars, evalVars, top>>
        BY <2>7 DEF RestartErr, RestartAlone, ContainerUp
      <3> QED BY <2>1, <2>7, <3>1, DockerStep
    <2>8. CASE Tick
      <3>1. UNCHANGED <<confVars, evalVars, top>> /\ chaos_pc' = chaos_pc
        BY <2>8 DEF Tick, restartVars, nodeVars
      <3> QED BY <2>1, <2>8, <3>1, TickStep
    <2>9. CASE (\E n \in Node : NodeUp(n)) \/ UNCHANGED chaosVars
      <3>1. /\ UNCHANGED <<confVars, now, restartVars, docker>>
            /\ UNCHANGED <<confVars, evalVars, top>> /\ chaos_pc' = chaos_pc
        BY <2>9 DEF NodeUp, chaosVars, nodeVars, restartVars
      <3> QED BY <2>0, <2>1, <3>1, TaskKept
    <2> QED BY <2>2, <2>3, <2>4, <2>5, <2>6, <2>7, <2>8, <2>9,
               EndsStep, BlockStep, SampleStepInv, HangStep, ReportStep
            DEF ChaosNext, RestartStep
  <1> QED BY InitChaosInv, <1>1, PTL DEF ChaosSpec

------------------------------------------------------------------------------
(* The theorems.                                                           *)

(* Chaos disturbs one node at a time and lets it recover, for every        *)
(* topology, delay, cooldown and time limit of docker: restarts are spaced *)
(* by delay and cooldown, none runs beside another, and a topology's only  *)
(* validator is left alone.                                                *)
THEOREM ChaosRestartsApart == ChaosSpec => []RestartsApart
  <1>1. ASSUME ChaosInv PROVE RestartsApart
    <2>1. SpacedRestarts /\ docker \subseteq targets /\ \A t \in docker, u \in docker : t = u
      BY <1>1 DEF ChaosInv, SpacingInv, DockerInv
    <2>2. n_validators = 1 => 1 \notin targets
      BY <1>1 DEF ChaosInv, TopologyInv, targets
    <2> QED BY <2>1, <2>2 DEF RestartsApart, OneAtATime
  <1> QED BY ChaosInvariant, <1>1, PTL

\* The greatest sample is one of them, where there are any.
LEMMA MaxHeight ==
  ASSUME ChaosInv, DOMAIN samples # {}
  PROVE  /\ max_height \in Nat
         /\ \A n \in DOMAIN samples : samples[n] \in Nat /\ samples[n] <= max_height
  <1> DEFINE S == {samples[n] : n \in DOMAIN samples}
  <1>1. /\ top \in Nat
        /\ \A n \in DOMAIN samples : samples[n] \in Nat /\ samples[n] <= top
    BY DEF ChaosInv, SampleInv
  <1>2. S \in SUBSET Nat /\ \A y \in S : y <= top
    BY <1>1
  <1>3. PICK n \in DOMAIN samples : TRUE
    OBVIOUS
  <1>4. samples[n] \in S
    BY <1>3
  <1>5. \A m \in DOMAIN samples : samples[m] \in S
    OBVIOUS
  <1>6. max_height = Max(S)
    BY DEF max_height
  <1> HIDE DEF S
  <1>7. Max(S) \in S /\ \A y \in S : Max(S) >= y
    BY <1>1, <1>2, <1>4, MaxIsGreatest
  <1>8. max_height \in Nat
    BY <1>2, <1>6, <1>7
  <1>9. \A m \in DOMAIN samples : samples[m] <= max_height
    BY <1>1, <1>5, <1>6, <1>7, <1>8
  <1> QED BY <1>1, <1>8, <1>9

\* clamp: the allowance lies between its bounds where they are in order.
LEMMA AllowanceBounds ==
  ASSUME NEW t \in Nat, lag_allowance \in Nat, lag_allowance <= MAX_LAG_ALLOWANCE
  PROVE  /\ effective_lag_allowance(t) \in Nat
         /\ lag_allowance <= effective_lag_allowance(t)
         /\ effective_lag_allowance(t) <= MAX_LAG_ALLOWANCE
  <1> DEFINE q == t \div 10
             S == {q, MAX_LAG_ALLOWANCE}
  <1>1. q \in Nat /\ S \in SUBSET Nat /\ S # {}
    BY DEF MAX_LAG_ALLOWANCE
  <1>2. Min(S) \in S /\ \A y \in S : Min(S) <= y
    BY <1>1, MinIsLeast
  <1>3. effective_lag_allowance(t) = IF q < lag_allowance THEN lag_allowance ELSE Min(S)
    BY DEF effective_lag_allowance
  <1> HIDE DEF q
  <1>4. /\ Min(S) \in Nat /\ Min(S) <= MAX_LAG_ALLOWANCE
        /\ (Min(S) = q \/ Min(S) = MAX_LAG_ALLOWANCE)
    BY <1>1, <1>2
  <1> HIDE DEF S
  <1> QED BY <1>1, <1>3, <1>4 DEF MAX_LAG_ALLOWANCE

\* A verdict is about all nodes.
LEMMA VerdictFacts ==
  ASSUME ChaosInv, verdict \notin {"none", "hanging"}
  PROVE  /\ verdict = report /\ DOMAIN samples \cup unanswered = Node /\ Node # {}
         /\ lag_allowance \in Nat /\ target_hint \in Nat /\ top0 \in Nat
  <1>1. verdict = report /\ idx \notin Node /\ chaos_pc = "aborted"
    BY DEF ChaosInv, ReportInv
  <1>2. /\ n_validators + n_executors \in Nat /\ n_validators + n_executors >= 1
        /\ idx \in 1 .. n_validators + n_executors + 1
        /\ DOMAIN samples \cup unanswered = 1 .. idx - 1
    BY <1>1 DEF ChaosInv, TopologyInv, SampleInv
  <1>3. idx - 1 = n_validators + n_executors
    BY <1>1, <1>2 DEF Node
  <1>4. DOMAIN samples \cup unanswered = Node /\ 1 \in Node
    BY <1>2, <1>3 DEF Node
  <1> QED BY <1>1, <1>4 DEF ChaosInv, TopologyInv, SampleInv

(* Satisfied means live: every node answered, there is a chain, and, where *)
(* it is no higher than the expected blocks, each node is within           *)
(* MAX_LAG_ALLOWANCE of the highest height seen, whatever allowance the    *)
(* scenario asked for.                                                     *)
THEOREM LivenessSound == ChaosSpec => []OkMeansLive
  <1>1. ASSUME ChaosInv PROVE OkMeansLive
    <2> USE <1>1
    <2> SUFFICES ASSUME verdict = "ok" PROVE OkMeansLive
      BY DEF OkMeansLive
    <2>1. /\ report = "ok" /\ DOMAIN samples \cup unanswered = Node
          /\ lag_allowance \in Nat /\ target_hint \in Nat
      BY VerdictFacts
    <2>2. /\ DOMAIN samples # {} /\ ~(lag_allowance > MAX_LAG_ALLOWANCE)
          /\ ~(max_height < MIN_PROGRESS_BLOCKS) /\ unanswered = {}
          /\ Lagging = {}
      BY <2>1 DEF report
    <2>3. /\ max_height \in Nat
          /\ \A n \in DOMAIN samples : samples[n] \in Nat /\ samples[n] <= max_height
      BY <2>2, MaxHeight
    <2>4. DOMAIN samples = Node
      BY <2>1, <2>2
    <2>5. /\ report_target \in Nat
          /\ target_hint = 0 \/ target_hint >= max_height => report_target = max_height
      BY <2>1, <2>3 DEF report_target
    <2> DEFINE e == effective_lag_allowance(report_target)
    <2>6. e \in Nat /\ e <= MAX_LAG_ALLOWANCE
      BY <2>1, <2>2, <2>5, AllowanceBounds DEF MAX_LAG_ALLOWANCE
    <2>7. \A n \in Node : ~(samples[n] + e < report_target)
      BY <2>2, <2>4 DEF Lagging
    <2> HIDE DEF e
    <2>8. \A n \in Node : samples[n] + MAX_LAG_ALLOWANCE >= report_target
      BY <2>3, <2>4, <2>5, <2>6, <2>7 DEF MAX_LAG_ALLOWANCE
    <2>9. max_height >= MIN_PROGRESS_BLOCKS
      BY <2>2, <2>3 DEF MIN_PROGRESS_BLOCKS
    <2> QED BY <2>4, <2>5, <2>8, <2>9 DEF OkMeansLive
  <1> QED BY ChaosInvariant, <1>1, PTL

(* A network in step passes: if every node answers with the height of the  *)
(* chain at its own moment, and the chain has grown by no more than the    *)
(* allowance between the first question and the last answer, the           *)
(* expectation is satisfied.                                               *)
THEOREM LivenessFair == ChaosSpec => []InStepPasses
  <1>1. ASSUME ChaosInv PROVE InStepPasses
    <2> USE <1>1
    <2> SUFFICES ASSUME verdict \notin {"none", "hanging"}, insync, unanswered = {},
                        lag_allowance <= MAX_LAG_ALLOWANCE,
                        top0 >= MIN_PROGRESS_BLOCKS, max_height - top0 <= lag_allowance
                 PROVE  verdict = "ok"
      BY DEF InStepPasses
    <2>1. /\ verdict = report /\ DOMAIN samples = Node /\ Node # {}
          /\ lag_allowance \in Nat /\ target_hint \in Nat /\ top0 \in Nat
      BY VerdictFacts
    <2>2. /\ max_height \in Nat
          /\ \A n \in DOMAIN samples : samples[n] \in Nat /\ samples[n] <= max_height
      BY <2>1, MaxHeight
    <2>3. \A n \in DOMAIN samples : top0 <= samples[n]
      BY DEF ChaosInv, SampleInv
    <2>4. report_target \in Nat /\ report_target <= max_height
      BY <2>1, <2>2 DEF report_target
    <2> DEFINE e == effective_lag_allowance(report_target)
    <2>5. e \in Nat /\ lag_allowance <= e
      BY <2>1, <2>4, AllowanceBounds
    <2>6. Lagging = {n \in DOMAIN samples : samples[n] + e < report_target}
      BY DEF Lagging
    <2> HIDE DEF e
    <2>7. \A n \in DOMAIN samples : ~(samples[n] + e < report_target)
      BY <2>1, <2>2, <2>3, <2>4, <2>5
    <2>8. Lagging = {}
      BY <2>6, <2>7
    <2>9. max_height >= MIN_PROGRESS_BLOCKS
      <3>1. PICK n \in DOMAIN samples : TRUE
        BY <2>1
      <3>2. top0 <= samples[n] /\ samples[n] <= max_height /\ samples[n] \in Nat
        BY <2>2, <2>3, <3>1
      <3> QED BY <2>1, <2>2, <3>2 DEF MIN_PROGRESS_BLOCKS
    <2>10. /\ ~(lag_allowance > MAX_LAG_ALLOWANCE)
           /\ ~(max_height < MIN_PROGRESS_BLOCKS)
      BY <2>1, <2>2, <2>9 DEF MAX_LAG_ALLOWANCE, MIN_PROGRESS_BLOCKS
    <2>11. report = "ok"
      BY <2>1, <2>8, <2>10 DEF report
    <2> QED BY <2>1, <2>11
  <1> QED BY ChaosInvariant, <1>1, PTL

==============================================================================
