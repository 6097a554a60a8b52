---------------------------- MODULE ScenarioRunner ---------------------------
(***************************************************************************)
(* Runner::run: captures of the expectations are started, workloads run as *)
(* tasks of a JoinSet until a timer fires or one fails, a cooldown and a   *)
(* drain follow, the expectations are evaluated, and the cleanup guard is  *)
(* either used or handed to the caller in a RunHandle.                     *)
(*                                                                         *)
(* Tasks run beside the runner.  An abort is a request: the task ends at   *)
(* its next await, and may finish on its own before that.  The run context *)
(* is shared by the runner (or the handle) and every live workload task.   *)
(***************************************************************************)
EXTENDS Integers, FiniteSets

CONSTANTS
  Workload,      \* the workloads of the scenario
  Expectations   \* how many expectations it has

ASSUME ScenarioAssumption == Expectations \in Nat

VARIABLES
  pc,         \* where Runner::run is, or how it ended
  captured,   \* expectations whose start_capture returned
  evaluated,  \* expectations whose evaluate returned
  failed,     \* one of them failed
  task,       \* state of each workload task
  workloads,  \* the JoinSet: tasks not joined yet
  aborted,    \* tasks asked to abort
  elapsed,    \* the run's timer has fired
  guard,      \* who owns the cleanup guard
  cleanups,   \* how often it was used
  feed,       \* the block feed task it aborts
  captures    \* capture tasks the expectations left running

runVars  == <<captured, evaluated, failed, elapsed>>
taskVars == <<task, workloads, aborted>>
endVars  == <<guard, cleanups, feed>>
vars     == <<pc, runVars, taskVars, endVars, captures>>

Init ==
  /\ pc = "capture"
  /\ captured = 0 /\ evaluated = 0 /\ failed = FALSE /\ elapsed = FALSE
  /\ task = [w \in Workload |-> "none"] /\ workloads = {} /\ aborted = {}
  /\ guard = "runner" /\ cleanups = 0 /\ feed = "running"
  /\ captures = {}

------------------------------------------------------------------------------
(* Ends of the run.                                                        *)

\* guard.take() and cleanup(): the block feed task is aborted.  The drop of
\* the owner that follows finds no guard and does nothing.
UseGuard ==
  /\ guard' = "none"
  /\ cleanups' = cleanups + 1
  /\ feed' = "aborting"

\* Mutant: the tasks of the set are detached instead of aborted.
EndRunDetaches(how) ==
  /\ pc' = how
  /\ UseGuard
  /\ workloads' = {}
  /\ UNCHANGED aborted

\* run returns or unwinds: the JoinSet is dropped, which aborts what it
\* still holds without waiting, and so is the runner.
EndRun(how) ==
  /\ pc' = how
  /\ UseGuard
  /\ aborted' = aborted \cup workloads
  /\ workloads' = {}

InRun == pc \in {"capture", "drive", "cooldown", "sleep", "drain", "evaluate"}

\* The caller drops the future of run, or start_capture or evaluate panics.
RunDropped ==
  /\ InRun
  /\ EndRun("gone")
  /\ UNCHANGED <<runVars, task, captures>>

------------------------------------------------------------------------------
(* prepare_expectations.                                                   *)

StartCapture ==
  /\ pc = "capture" /\ captured < Expectations
  /\ captured' = captured + 1
  /\ captures' = captures \cup {captured + 1}
  /\ UNCHANGED <<pc, evaluated, failed, elapsed, taskVars, endVars>>

CaptureFails ==
  /\ pc = "capture" /\ captured < Expectations
  /\ failed' = TRUE
  /\ EndRun("err")
  /\ UNCHANGED <<captured, evaluated, elapsed, task, captures>>

SpawnWorkloads ==
  /\ pc = "capture" /\ captured = Expectations
  /\ pc' = "drive"
  /\ task' = [w \in Workload |-> "running"] /\ workloads' = Workload
  /\ UNCHANGED <<runVars, aborted, endVars, captures>>

------------------------------------------------------------------------------
(* run_workloads.                                                          *)

\* A cooldown, which cooldown_duration may ask for, keeps driving the
\* workloads, or sleeps when none is left.
EnterCooldown ==
  /\ pc = "drive"
  /\ pc' = IF workloads = {} THEN "sleep" ELSE "cooldown"
  /\ UNCHANGED aborted

\* Mutant: the drain waits for the workloads without aborting them.
LeaveDriveWaits == EnterCooldown \/ (pc' = "drain" /\ UNCHANGED aborted)

\* A run without cooldown, and the cooldown itself, end in drain_workloads,
\* which starts with abort_all.
LeaveDrive ==
  \/ EnterCooldown
  \/ /\ pc' = "drain"
     /\ aborted' = aborted \cup workloads

\* join_next returns a task that succeeded or was cancelled.
JoinTask(w) ==
  /\ pc \in {"drive", "cooldown", "drain"} /\ w \in workloads
  /\ task[w] \in {"ok", "cancelled"}
  /\ workloads' = workloads \ {w}
  /\ UNCHANGED <<pc, runVars, task, aborted, endVars, captures>>

\* join_next returns a failure: the run fails at once.
JoinFailure(w) ==
  /\ pc \in {"drive", "cooldown", "drain"} /\ w \in workloads
  /\ task[w] = "err"
  /\ EndRun("err")
  /\ UNCHANGED <<runVars, task, captures>>

\* drive_until_timer ends when its timer fires,
TimerFires ==
  /\ pc \in {"drive", "cooldown", "sleep"}
  /\ elapsed' = (elapsed \/ pc = "drive")
  /\ LeaveDrive
  /\ UNCHANGED <<captured, evaluated, failed, task, workloads, endVars, captures>>

\* or as soon as join_next finds the set empty.
AllJoined ==
  /\ pc \in {"drive", "cooldown"} /\ workloads = {}
  /\ LeaveDrive
  /\ UNCHANGED <<runVars, task, workloads, endVars, captures>>

\* Mutant: the drain does not wait for the tasks it aborted.
DrainedAtOnce ==
  /\ pc = "drain"
  /\ pc' = "evaluate"
  /\ UNCHANGED <<runVars, taskVars, endVars, captures>>

\* drain_workloads has joined everything; the runner settles.
Drained ==
  /\ pc = "drain" /\ workloads = {}
  /\ pc' = "evaluate"
  /\ UNCHANGED <<runVars, taskVars, endVars, captures>>

------------------------------------------------------------------------------
(* run_expectations: every expectation is evaluated, failures accumulate.  *)

Evaluate(fails) ==
  /\ pc = "evaluate" /\ evaluated < Expectations
  /\ evaluated' = evaluated + 1
  /\ failed' = (failed \/ fails)
  /\ UNCHANGED <<pc, captured, elapsed, taskVars, endVars, captures>>

ReturnErr ==
  /\ pc = "evaluate" /\ evaluated = Expectations /\ failed
  /\ EndRun("err")
  /\ UNCHANGED <<runVars, task, captures>>

\* Mutant: the guard is shared with the handle and the drop of the runner
\* uses it.
ReturnHandleSharesGuard ==
  /\ pc = "evaluate" /\ evaluated = Expectations /\ ~failed
  /\ pc' = "ok"
  /\ guard' = "handle" /\ cleanups' = cleanups + 1 /\ feed' = "aborting"
  /\ UNCHANGED <<runVars, taskVars, captures>>

\* into_run_handle
ReturnHandle ==
  /\ pc = "evaluate" /\ evaluated = Expectations /\ ~failed
  /\ pc' = "ok"
  /\ guard' = "handle"
  /\ UNCHANGED <<runVars, taskVars, cleanups, feed, captures>>

DropHandle ==
  /\ pc = "ok"
  /\ pc' = "released"
  /\ UseGuard
  /\ UNCHANGED <<runVars, taskVars, captures>>

------------------------------------------------------------------------------
(* Tasks.                                                                  *)

\* A workload returns or panics; catch_unwind turns a panic into an error.
WorkloadEnds(w, outcome) ==
  /\ task[w] = "running"
  /\ task' = [task EXCEPT ![w] = outcome]
  /\ UNCHANGED <<pc, runVars, workloads, aborted, endVars, captures>>

AbortLands(w) ==
  /\ w \in aborted /\ task[w] = "running"
  /\ task' = [task EXCEPT ![w] = "cancelled"]
  /\ UNCHANGED <<pc, runVars, workloads, aborted, endVars, captures>>

FeedEnds ==
  /\ feed = "aborting"
  /\ feed' = "ended"
  /\ UNCHANGED <<pc, runVars, taskVars, guard, cleanups, captures>>

Ended == pc \in {"err", "gone", "released"}
Live == {w \in Workload : task[w] = "running"}

\* The feed's channel closes with the last of its owners, the scanner task
\* and the run context: the capture task ends.
CaptureEnds(e) ==
  /\ e \in captures
  /\ feed = "ended" /\ Ended /\ Live = {}
  /\ captures' = captures \ {e}
  /\ UNCHANGED <<pc, runVars, taskVars, endVars>>

------------------------------------------------------------------------------
RunnerStep ==
  \/ StartCapture \/ SpawnWorkloads \/ TimerFires \/ AllJoined \/ Drained
  \/ \E w \in Workload : JoinTask(w) \/ JoinFailure(w)
  \/ Evaluate(FALSE) \/ ReturnErr \/ ReturnHandle

Next ==
  \/ RunnerStep \/ CaptureFails \/ Evaluate(TRUE) \/ RunDropped \/ DropHandle
  \/ \E w \in Workload : AbortLands(w) \/ \E o \in {"ok", "err"} : WorkloadEnds(w, o)
  \/ FeedEnds
  \/ \E e \in 1 .. Expectations : CaptureEnds(e)

Spec == Init /\ [][Next]_vars

\* The runtime polls what is ready, timers fire, and an aborted task reaches
\* an await.  A workload need not end, and nobody need drop the handle.
FairSpec ==
  /\ Spec
  /\ WF_vars(RunnerStep) /\ WF_vars(TimerFires) /\ WF_vars(FeedEnds)
  /\ \A w \in Workload : WF_vars(AbortLands(w))
  /\ \A e \in 1 .. Expectations : WF_vars(CaptureEnds(e))

------------------------------------------------------------------------------
(* Properties.                                                             *)

\* Type invariant of the runner, its tasks and its cleanup guard.
TypeOK ==
  /\ InRun \/ Ended \/ pc = "ok"
  /\ {captured, evaluated} \subseteq 0 .. Expectations
  /\ {failed, elapsed} \subseteq BOOLEAN
  /\ task \in [Workload -> {"none", "running", "ok", "err", "cancelled"}]
  /\ workloads \subseteq Workload /\ aborted \subseteq Workload
  /\ guard \in {"runner", "handle", "none"}
  /\ cleanups \in Nat
  /\ feed \in {"running", "aborting", "ended"}
  /\ captures \subseteq 1 .. Expectations

\* Expectations are evaluated on a quiet system whose feed still runs: every
\* workload task has ended, whether it succeeded, was cancelled by the drain
\* or finished in the window between the abort and its next await.
QuietEvaluation ==
  pc \in {"evaluate", "ok"} => Live = {} /\ feed = "running"

\* A run that returns a handle had no failing workload, not even one that
\* failed while it was being aborted, and no failing expectation.
FailuresSurface ==
  pc \in {"ok", "released"} =>
    /\ \A w \in Workload : task[w] \in {"ok", "cancelled"}
    /\ captured = Expectations /\ evaluated = Expectations /\ ~failed

\* What a successful run says is true of a quiet system.
HonestVerdict == QuietEvaluation /\ FailuresSurface

\* The cleanup guard is used exactly once, when the run fails, unwinds or is
\* cancelled, or when the caller lets go of the handle, and never before.
CleanupOnce == cleanups = IF Ended THEN 1 ELSE 0

\* A task can outlive the run only as an aborted one.
NoDetachedWorkload == ~InRun => Live \subseteq aborted

\* The run ends, even if no workload ever returns.
RunEnds == <>~InRun

\* After the run nothing is left behind: workload tasks, the feed task and
\* the capture tasks, which nobody aborts, all end.
NothingLeftBehind == Ended ~> (Live = {} /\ feed = "ended" /\ captures = {})

\* The run ends, and everything it started ends after it.
EverythingEnds == RunEnds /\ NothingLeftBehind
==============================================================================
