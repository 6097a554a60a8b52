---------------------------- MODULE ComposeDeploy ----------------------------
(***************************************************************************)
(* ComposeDeployer::deploy and the life of what it creates: a workspace on *)
(* disk, a reservation of the Prometheus port, one cfgsync container and   *)
(* one compose project per bring-up attempt, and the block feed task.      *)
(*                                                                         *)
(* All docker commands are processes of their own.  A command that times   *)
(* out is abandoned, not killed: its effect may still happen later.        *)
(***************************************************************************)
EXTENDS Integers

CONSTANT STACK_BRINGUP_MAX_ATTEMPTS

ASSUME AttemptsAssumption == STACK_BRINGUP_MAX_ATTEMPTS \in Nat \ {0}

Attempt == 1 .. STACK_BRINGUP_MAX_ATTEMPTS

\* COMPOSE_RUNNER_PRESERVE, a Prometheus port fixed by the environment, and
\* the deployer's readiness flag.
Flag == {"preserve", "locked", "readiness_checks"}

VARIABLES
  pc,         \* where deploy is; then the run; then how it ended
  env,        \* the environment variables and the deployer's flag
  attempt,    \* bring-up attempts made
  workspace,  \* the temporary directory the containers mount
  port,       \* whether a listener keeps the Prometheus port reserved
  cfgsync,    \* per attempt: the cfgsync container
  handle,     \* per attempt: the CfgsyncServerHandle
  rms,        \* per attempt: "docker rm" commands issued for the container
  rmFailed,   \* attempts whose "docker rm" failed
  stack,      \* per attempt: the containers of the compose project
  owned,      \* attempts of which a StackEnvironment was made
  downFailed, \* those whose "docker compose down" failed
  feed        \* the block feed task

cfgVars   == <<cfgsync, handle, rms, rmFailed>>
stackVars == <<stack, owned, downFailed>>
vars == <<pc, env, attempt, workspace, port, cfgVars, stackVars, feed>>

\* The stages of deploy that need a running stack, in order.
Stage == {"ports", "validators", "executors", "remote", "clients", "metrics", "feed"}
Over  == {"err", "dropped", "done"}
PC    == {"validate", "workspace", "config", "image", "render", "cfgsync", "up", "retry",
          "fail", "down", "unmount", "running"} \cup Stage \cup Over

Init ==
  /\ pc = "validate"
  /\ env \in SUBSET Flag
  /\ attempt = 0 /\ workspace = "none" /\ port = "open"
  /\ cfgsync = [k \in Attempt |-> "absent"] /\ handle = [k \in Attempt |-> "none"]
  /\ rms = [k \in Attempt |-> 0] /\ rmFailed = {}
  /\ stack = [k \in Attempt |-> "absent"] /\ owned = {} /\ downFailed = {}
  /\ feed = "none"

------------------------------------------------------------------------------
(* CfgsyncServerHandle.                                                    *)

\* Mutant: the handle is marked stopped before its container is removed, and
\* the removal is skipped.
ShutdownSkipsRemoval(k) ==
  IF handle[k] = "live"
  THEN handle' = [handle EXCEPT ![k] = "stopped"] /\ UNCHANGED <<cfgsync, rms, rmFailed>>
  ELSE UNCHANGED cfgVars

\* shutdown, called explicitly and again by Drop: one "docker rm", whose
\* failure is only logged.
Shutdown(k) ==
  IF handle[k] = "live"
  THEN /\ handle' = [handle EXCEPT ![k] = "stopped"]
       /\ rms' = [rms EXCEPT ![k] = @ + 1]
       /\ \/ cfgsync' = [cfgsync EXCEPT ![k] = "removed"] /\ UNCHANGED rmFailed
          \/ rmFailed' = rmFailed \cup {k} /\ UNCHANGED cfgsync
  ELSE UNCHANGED cfgVars

------------------------------------------------------------------------------
(* Before the first container.                                             *)

\* An error before there is a StackEnvironment: deploy returns, and what its
\* locals own goes with them.
ReturnEarly ==
  /\ pc' = "err"
  /\ workspace' = IF workspace = "none" THEN "none" ELSE "removed"
  /\ port' = "open"
  /\ UNCHANGED <<env, attempt, cfgVars, stackVars, feed>>

\* validate_environment; then a Prometheus port is reserved, or taken without
\* a reservation when nothing could be bound.
Validate ==
  /\ pc = "validate"
  /\ \/ /\ pc' = "workspace"
        /\ port' \in {"open", "reserved"}
        /\ UNCHANGED <<env, attempt, workspace, cfgVars, stackVars, feed>>
     \/ ReturnEarly

PrepareWorkspace ==
  /\ pc = "workspace"
  /\ \/ /\ pc' = "config"
        /\ workspace' = "temp"
        /\ UNCHANGED <<env, attempt, port, cfgVars, stackVars, feed>>
     \/ ReturnEarly

\* allocate_cfgsync_port and update_cfgsync_logged.
Configure ==
  /\ pc = "config"
  /\ \/ /\ pc' = "image"
        /\ UNCHANGED <<env, attempt, workspace, port, cfgVars, stackVars, feed>>
     \/ ReturnEarly

\* ensure_compose_image finds the image or builds it.
EnsureImage ==
  /\ pc = "image"
  /\ \/ /\ pc' = "render"
        /\ UNCHANGED <<env, attempt, workspace, port, cfgVars, stackVars, feed>>
     \/ ReturnEarly

------------------------------------------------------------------------------
(* prepare_environment: the bring-up attempts.                             *)

\* The compose file is rendered and the project gets a fresh name.
Render ==
  /\ pc = "render"
  /\ \/ /\ pc' = "cfgsync"
        /\ attempt' = attempt + 1
        /\ UNCHANGED <<env, workspace, port, cfgVars, stackVars, feed>>
     \/ ReturnEarly

\* "docker run" of the cfgsync server.  All attempts publish the same port,
\* so it cannot start while an earlier one still runs.  On success the
\* reservation of the Prometheus port is dropped for compose to bind it.
LaunchCfgsync ==
  /\ pc = "cfgsync"
  /\ \A k \in Attempt : cfgsync[k] # "running"
  /\ pc' = "up"
  /\ cfgsync' = [cfgsync EXCEPT ![attempt] = "running"]
  /\ handle' = [handle EXCEPT ![attempt] = "live"]
  /\ port' = "open"
  /\ UNCHANGED <<env, attempt, workspace, rms, rmFailed, stackVars, feed>>

\* It exits with an error, perhaps after creating the container, or times
\* out: there is no handle then, and no retry.
LaunchCfgsyncFails ==
  /\ pc = "cfgsync"
  /\ cfgsync' \in {[cfgsync EXCEPT ![attempt] = s] : s \in {"absent", "created", "late"}}
  /\ pc' = "err"
  /\ workspace' = "removed"
  /\ port' = "open"
  /\ UNCHANGED <<env, attempt, handle, rms, rmFailed, stackVars, feed>>

\* "docker compose up" succeeds, and a StackEnvironment takes it all over.
ComposeUp ==
  /\ pc = "up"
  /\ pc' = "ports"
  /\ stack' = [stack EXCEPT ![attempt] = "up"]
  /\ owned' = owned \cup {attempt}
  /\ UNCHANGED <<env, attempt, workspace, port, cfgVars, downFailed, feed>>

\* It fails with some of the containers up, or times out and goes on.
ComposeUpFails ==
  /\ pc = "up"
  /\ pc' = "retry"
  /\ stack' \in {[stack EXCEPT ![attempt] = s] : s \in {"absent", "partial", "late"}}
  /\ Shutdown(attempt)
  /\ UNCHANGED <<env, attempt, workspace, port, owned, downFailed, feed>>

\* Mutant: "docker compose up" is repeated until it succeeds.
RetryUpForever ==
  /\ pc = "retry"
  /\ Shutdown(attempt)
  /\ pc' = "up"
  /\ UNCHANGED <<env, attempt, workspace, port, stackVars, feed>>

\* The logs are dumped and the cfgsync server is shut down once more.  The
\* next attempt reserves a port again; a port the user asked for is not
\* tried twice.
Retry ==
  /\ pc = "retry"
  /\ Shutdown(attempt)
  /\ IF attempt < STACK_BRINGUP_MAX_ATTEMPTS /\ "locked" \notin env
     THEN pc' = "render" /\ port' \in {"open", "reserved"} /\ UNCHANGED workspace
     ELSE pc' = "err" /\ workspace' = "removed" /\ UNCHANGED port
  /\ UNCHANGED <<env, attempt, stackVars, feed>>

------------------------------------------------------------------------------
(* With a running stack.                                                   *)

Go(stage, next) ==
  /\ pc = stage
  /\ pc' = next
  /\ UNCHANGED <<env, attempt, workspace, port, cfgVars, stackVars>>

\* discover_host_ports asks compose for two ports of every node.
DiscoverPorts ==
  /\ Go("ports", IF "readiness_checks" \in env THEN "validators" ELSE "clients")
  /\ UNCHANGED feed

\* ReadinessChecker::wait_all.
ValidatorsReady == Go("validators", "executors") /\ UNCHANGED feed
ExecutorsReady  == Go("executors", "remote") /\ UNCHANGED feed
RemoteReady     == Go("remote", "clients") /\ UNCHANGED feed

BuildNodeClients == Go("clients", "metrics") /\ UNCHANGED feed
MetricsHandle    == Go("metrics", "feed") /\ UNCHANGED feed

\* The block feed is tried several times.  With it the runner is returned,
\* and its cleanup guard owns the environment and the feed task.
StartBlockFeed == Go("feed", "running") /\ feed' = "running"

StageSucceeds ==
  \/ DiscoverPorts \/ ValidatorsReady \/ ExecutorsReady \/ RemoteReady
  \/ BuildNodeClients \/ MetricsHandle \/ StartBlockFeed

\* An error that is returned without environment.fail: the locals of deploy
\* are dropped, and a StackEnvironment has no Drop of its own.
DropEnvironment(how) ==
  /\ pc' = how
  /\ workspace' = "removed"
  /\ Shutdown(attempt)
  /\ UNCHANGED <<env, attempt, port, stackVars, feed>>

\* The one such error: metrics_handle_from_port(..)?
MetricsFails == pc = "metrics" /\ DropEnvironment("dropped")

\* Mutant: the error of any other stage is returned in the same way.
StageFailsQuietly == pc \in Stage \ {"metrics"} /\ DropEnvironment("err")

\* environment.fail, which starts by dumping the logs.
StageFails ==
  /\ pc \in Stage \ {"metrics"}
  /\ pc' = "fail"
  /\ UNCHANGED <<env, attempt, workspace, port, cfgVars, stackVars, feed>>

------------------------------------------------------------------------------
(* RunnerCleanup::cleanup, from environment.fail or from the cleanup guard *)
(* of a runner that ended.                                                 *)

\* ComposeCleanupGuard aborts the feed first.  When the docker state is to
\* be preserved the workspace is kept and the compose project left alone.
BeginCleanup ==
  /\ pc \in {"running", "fail"}
  /\ feed' = IF feed = "running" THEN "aborted" ELSE feed
  /\ pc' = IF "preserve" \in env THEN "unmount" ELSE "down"
  /\ workspace' = IF "preserve" \in env THEN "kept" ELSE workspace
  /\ UNCHANGED <<env, attempt, port, cfgVars, stackVars>>

\* Mutant: the cfgsync server is stopped before the nodes that use it.
ComposeDownLast ==
  /\ pc = "down"
  /\ pc' = "unmount"
  /\ Shutdown(attempt)
  /\ UNCHANGED <<env, attempt, workspace, port, stackVars, feed>>

\* "docker compose down" on a thread of its own; a failure or a timeout is
\* only logged.
ComposeDown ==
  /\ pc = "down"
  /\ pc' = "unmount"
  /\ \/ stack' = [stack EXCEPT ![attempt] = "down"] /\ UNCHANGED downFailed
     \/ /\ stack' \in {[stack EXCEPT ![attempt] = s] : s \in {"up", "partial", "falling"}}
        /\ downFailed' = downFailed \cup {attempt}
  /\ UNCHANGED <<env, attempt, workspace, port, cfgVars, owned, feed>>

\* The cfgsync server is shut down, by cleanup or by the drop of the
\* RunnerCleanup, which also deletes a workspace that is not kept.
Unmount ==
  /\ pc = "unmount"
  /\ Shutdown(attempt)
  /\ workspace' = IF workspace = "kept" THEN "kept" ELSE "removed"
  /\ pc' = IF feed = "none" THEN "err" ELSE "done"
  /\ UNCHANGED <<env, attempt, port, stackVars, feed>>

------------------------------------------------------------------------------
(* Docker: commands that timed out come to an end, successful or not.      *)

LateUp(k) ==
  /\ stack[k] = "late"
  /\ stack' \in {[stack EXCEPT ![k] = s] : s \in {"absent", "partial", "up"}}
  /\ UNCHANGED <<pc, env, attempt, workspace, port, cfgVars, owned, downFailed, feed>>

LateDown(k) ==
  /\ stack[k] = "falling"
  /\ stack' \in {[stack EXCEPT ![k] = s] : s \in {"partial", "down"}}
  /\ UNCHANGED <<pc, env, attempt, workspace, port, cfgVars, owned, downFailed, feed>>

LateRun(k) ==
  /\ cfgsync[k] = "late"
  /\ cfgsync' \in {[cfgsync EXCEPT ![k] = s] : s \in {"absent", "created", "running"}}
  /\ UNCHANGED <<pc, env, attempt, workspace, port, handle, rms, rmFailed, stackVars, feed>>

Deploy ==
  \/ Validate \/ PrepareWorkspace \/ Configure \/ EnsureImage \/ Render
  \/ LaunchCfgsync \/ LaunchCfgsyncFails \/ ComposeUp \/ ComposeUpFails \/ Retry
  \/ StageSucceeds \/ StageFails \/ MetricsFails
  \/ BeginCleanup \/ ComposeDown \/ Unmount

Next ==
  \/ Deploy
  \/ \E k \in Attempt : LateUp(k) \/ LateDown(k) \/ LateRun(k)

Spec == Init /\ [][Next]_vars

\* Every docker command deploy waits for returns or is given up, and the run
\* ends.  Nothing is assumed of the commands that were abandoned.
FairSpec == Spec /\ WF_vars(Deploy)

------------------------------------------------------------------------------
(* Type invariant of the deployer and of what it creates.                  *)
TypeOK ==
  /\ pc \in PC
  /\ env \subseteq Flag
  /\ attempt \in 0 .. STACK_BRINGUP_MAX_ATTEMPTS
  /\ workspace \in {"none", "temp", "kept", "removed"}
  /\ port \in {"open", "reserved"}
  /\ cfgsync \in [Attempt -> {"absent", "created", "late", "running", "removed"}]
  /\ handle \in [Attempt -> {"none", "live", "stopped"}]
  /\ rms \in [Attempt -> Nat]
  /\ rmFailed \subseteq Attempt
  /\ stack \in [Attempt -> {"absent", "late", "partial", "up", "falling", "down"}]
  /\ owned \subseteq Attempt /\ downFailed \subseteq Attempt
  /\ feed \in {"none", "running", "aborted"}

(* A cfgsync container with a handle is removed by exactly one "docker rm" *)
(* although three places call shutdown (bring_up_stack, the retry loop and *)
(* Drop): never twice, and not left out on any way out of deploy or of the *)
(* run.                                                                    *)
OneRemoval ==
  \A k \in Attempt :
    /\ rms[k] <= 1
    /\ pc \in Over /\ handle[k] # "none" => rms[k] = 1

(* A cfgsync container that runs is held by the current attempt's handle;  *)
(* otherwise docker refused to remove it, or it came up after its launch   *)
(* had timed out, when no further attempt is made.                         *)
NoStrayServer ==
  \A k \in Attempt : cfgsync[k] = "running" =>
    \/ handle[k] = "live" /\ k = attempt
    \/ k \in rmFailed
    \/ handle[k] = "none" /\ pc = "err" /\ k = attempt

(* Each cfgsync server is removed once and none is forgotten.              *)
ServerRemoved == OneRemoval /\ NoStrayServer

(* Once a stack is up, every way out takes it down: an error in any later  *)
(* stage of deploy, and the end of the run.  Only docker's refusal, the    *)
(* preserve flag and the error of the metrics handle leave it there.       *)
StackReclaimed ==
  pc \in Over \ {"dropped"} /\ "preserve" \notin env =>
    \A k \in owned : stack[k] = "down" \/ k \in downFailed

(* With the preserve flag a stack that came up is left running with the    *)
(* files it mounts, after a failed deployment as after a run; again but    *)
(* for the error of the metrics handle, which takes the files away.        *)
PreserveKeeps ==
  pc \in Over \ {"dropped"} /\ "preserve" \in env =>
    \A k \in owned : stack[k] = "up" /\ workspace = "kept"

(* What becomes of a stack that came up, with the preserve flag or without *)
(* it, on every way out that goes through RunnerCleanup; and the one that  *)
(* does not is taken before there is a feed.                               *)
StackFate == StackReclaimed /\ PreserveKeeps /\ (pc = "dropped" => feed = "none")

(* Cleanup goes from the users of a resource to the resource: the feed is  *)
(* aborted before its node goes down, the stack is asked to go down before *)
(* its cfgsync server is stopped and its workspace deleted.  Where deploy  *)
(* drops its StackEnvironment the stack is not asked at all.               *)
TeardownOrder ==
  \A k \in owned :
    /\ feed = "running" => stack[k] = "up" /\ handle[k] = "live" /\ workspace = "temp"
    /\ "preserve" \notin env /\ (handle[k] = "stopped" \/ workspace = "removed") =>
         stack[k] = "down" \/ k \in downFailed \/ pc = "dropped"

(* deploy and the cleanup come to an end: the attempts are bounded, and    *)
(* every command they wait for returns or is given up.                     *)
DeployEnds == <>(pc \in Over)

=============================================================================
