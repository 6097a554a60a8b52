------------------------- MODULE ComposeDeployProofs -------------------------
(***************************************************************************)
(* The safety properties of ComposeDeploy for every number of attempts.    *)
(* They follow from an invariant that says, per attempt, how the container *)
(* stands to its handle, and, per place in deploy, what exists.            *)
(***************************************************************************)
EXTENDS ComposeDeploy, TLAPS

Early    == {"validate", "workspace", "config", "image"}
WithUp   == Stage \cup {"running", "fail"}
Cleaning == {"down", "unmount"}

\* Attempts not made yet have left no trace.
FutureInv ==
  \A k \in Attempt : k > attempt =>
    cfgsync[k] = "absent" /\ handle[k] = "none" /\ rms[k] = 0 /\ k \notin rmFailed

\* A handle and its container.
HandleInv ==
  \A k \in Attempt :
    /\ handle[k] = "none" => rms[k] = 0
    /\ handle[k] = "none" /\ cfgsync[k] \in {"late", "running"} => pc = "err" /\ k = attempt
    /\ handle[k] = "live" =>
         /\ rms[k] = 0 /\ cfgsync[k] = "running" /\ k = attempt
         /\ pc \in {"up"} \cup WithUp \cup Cleaning
    /\ handle[k] = "stopped" => rms[k] = 1 /\ (cfgsync[k] = "removed" \/ k \in rmFailed)

\* The attempt counter and the place in deploy.
AttemptInv ==
  /\ pc \in Early => attempt = 0
  /\ pc = "render" => attempt < STACK_BRINGUP_MAX_ATTEMPTS
  /\ pc \in {"cfgsync", "up", "retry"} \cup WithUp \cup Cleaning => attempt > 0
  /\ pc \in Early \cup {"render", "cfgsync"} => \A k \in Attempt : handle[k] # "live"
  /\ pc = "cfgsync" => handle[attempt] = "none"
  /\ pc = "up" => handle[attempt] = "live"
  /\ pc = "retry" => handle[attempt] = "stopped"
  /\ pc \in {"config", "image", "render", "cfgsync", "up", "retry"} => workspace = "temp"

\* Only the last attempt succeeds, and only it gets a StackEnvironment.
OwnedInv ==
  /\ \A k \in owned : k = attempt /\ handle[k] # "none" /\ pc \in WithUp \cup Cleaning \cup Over
  /\ pc \in WithUp \cup Cleaning => attempt \in owned
  /\ pc = "done" => feed # "none"
  /\ pc \in PC \ ({"running", "err", "done"} \cup Cleaning) => feed = "none"
  /\ downFailed \subseteq owned
  /\ pc \notin {"running"} => feed # "running"

\* What is up while the stack is in use, and what is gone afterwards.
StackInv ==
  \A k \in owned :
    /\ pc \in WithUp \cup {"down"} =>
         stack[k] = "up" /\ handle[k] = "live" /\ workspace = "temp" /\ k \notin downFailed
    /\ pc = "down" => "preserve" \notin env
    /\ pc = "unmount" => handle[k] = "live" /\ workspace # "removed"
    /\ pc \in {"unmount", "err", "done"} /\ "preserve" \in env => stack[k] = "up" /\ workspace = "kept"
    /\ pc \in {"unmount", "err", "done"} /\ "preserve" \notin env =>
         stack[k] = "down" \/ k \in downFailed
    /\ k \in downFailed => pc \in {"unmount", "err", "done"} /\ "preserve" \notin env

IInv == TypeOK /\ FutureInv /\ HandleInv /\ AttemptInv /\ OwnedInv /\ StackInv

\* The initial states satisfy the inductive invariant.
LEMMA InitIInv == Init => IInv
  <1> SUFFICES ASSUME Init PROVE IInv
    OBVIOUS
  <1>1. TypeOK
    BY AttemptsAssumption DEF Init, TypeOK, Attempt, PC
  <1>2. FutureInv /\ HandleInv
    BY DEF Init, FutureInv, HandleInv
  <1>3. AttemptInv
    BY AttemptsAssumption DEF Init, AttemptInv, Early, WithUp, Cleaning, Stage, Over
  <1>4. OwnedInv /\ StackInv
    BY DEF Init, OwnedInv, StackInv, WithUp, Cleaning, Stage, Over
  <1> QED BY <1>1, <1>2, <1>3, <1>4 DEF IInv

\* What a shutdown leaves, whatever the handle was.
Stopped(k) ==
  /\ cfgsync' \in [Attempt -> {"absent", "created", "late", "running", "removed"}]
  /\ handle' \in [Attempt -> {"none", "live", "stopped"}]
  /\ rms' \in [Attempt -> Nat]
  /\ rmFailed' \subseteq Attempt
  /\ handle[k] # "none" => handle'[k] = "stopped" /\ rms'[k] = 1
  /\ handle[k] # "none" => cfgsync'[k] = "removed" \/ k \in rmFailed'
  /\ handle[k] = "none" => handle'[k] = "none" /\ rms'[k] = 0 /\ cfgsync'[k] = cfgsync[k]
  /\ \A j \in Attempt \ {k} : /\ handle'[j] = handle[j] /\ rms'[j] = rms[j]
                              /\ cfgsync'[j] = cfgsync[j]
                              /\ j \in rmFailed' <=> j \in rmFailed

\* What a shutdown of the handle leaves of the cfgsync containers.
LEMMA ShutdownStops ==
  ASSUME TypeOK, HandleInv, NEW k \in Attempt, Shutdown(k)
  PROVE  Stopped(k)
  <1>1. CASE handle[k] = "live"
    <2>1. rms[k] = 0
      BY <1>1 DEF HandleInv
    <2> QED BY <1>1, <2>1 DEF Shutdown, Stopped, TypeOK
  <1>2. CASE handle[k] # "live"
    <2>1. UNCHANGED cfgVars
      BY <1>2 DEF Shutdown
    <2>2. handle[k] \in {"none", "stopped"}
      BY <1>2 DEF TypeOK
    <2> QED BY <1>2, <2>1, <2>2 DEF cfgVars, HandleInv, Stopped, TypeOK
  <1> QED BY <1>1, <1>2

\* After a shutdown of the last attempt no handle is live.
LEMMA StoppedKeeps ==
  ASSUME IInv, attempt \in Attempt, Stopped(attempt), handle[attempt] # "none",
         UNCHANGED attempt
  PROVE  /\ FutureInv' /\ HandleInv'
         /\ \A k \in Attempt : handle'[k] # "live"
  <1> USE DEF IInv, TypeOK, Stopped
  <1>1. FutureInv'
    <2> SUFFICES ASSUME NEW k \in Attempt, k > attempt
                 PROVE  /\ cfgsync'[k] = "absent" /\ handle'[k] = "none" /\ rms'[k] = 0
                        /\ k \notin rmFailed'
      BY DEF FutureInv
    <2>1. k \in Attempt \ {attempt}
      BY DEF Attempt
    <2> QED BY <2>1 DEF FutureInv
  <1>2. \A k \in Attempt : handle'[k] # "live"
    BY DEF HandleInv
  <1>3. HandleInv'
    <2> SUFFICES ASSUME NEW k \in Attempt
                 PROVE  /\ handle'[k] = "none" => rms'[k] = 0
                        /\ handle'[k] = "none" => cfgsync'[k] \notin {"late", "running"}
                        /\ handle'[k] = "stopped" =>
                             rms'[k] = 1 /\ (cfgsync'[k] = "removed" \/ k \in rmFailed')
      BY <1>2 DEF HandleInv
    <2>1. CASE k = attempt
      BY <2>1
    <2>2. CASE k # attempt
      BY <2>2 DEF HandleInv
    <2> QED BY <2>1, <2>2
  <1> QED BY <1>1, <1>2, <1>3

\* Every step keeps the inductive invariant.
LEMMA NextIInv == IInv /\ [Next]_vars => IInv'
  <1> SUFFICES ASSUME IInv, [Next]_vars PROVE IInv'
    OBVIOUS
  <1> USE AttemptsAssumption
      DEF IInv, TypeOK, Attempt, cfgVars, stackVars, Early, WithUp, Cleaning, Stage, Over
  <1>1. CASE Validate
    <2>1. TypeOK'
      BY <1>1 DEF Validate, ReturnEarly, AttemptInv, PC
    <2>2. FutureInv' /\ HandleInv'
      BY <1>1
      DEF Validate, ReturnEarly, FutureInv, HandleInv, AttemptInv, OwnedInv, StackInv
    <2>3. AttemptInv'
      BY <1>1
      DEF Validate, ReturnEarly, FutureInv, HandleInv, AttemptInv, OwnedInv, StackInv
    <2>4. OwnedInv'
      BY <1>1
      DEF Validate, ReturnEarly, HandleInv, AttemptInv, OwnedInv
    <2>5. StackInv'
      BY <1>1
      DEF Validate, ReturnEarly, HandleInv, AttemptInv, OwnedInv, StackInv
    <2> QED BY <2>1, <2>2, <2>3, <2>4, <2>5
  <1>2. CASE PrepareWorkspace
    <2>1. TypeOK'
      BY <1>2 DEF PrepareWorkspace, ReturnEarly, AttemptInv, PC
    <2>2. FutureInv' /\ HandleInv'
      BY <1>2
      DEF PrepareWorkspace, ReturnEarly, FutureInv, HandleInv, AttemptInv, OwnedInv, StackInv
    <2>3. AttemptInv'
      BY <1>2
      DEF PrepareWorkspace, ReturnEarly, FutureInv, HandleInv, AttemptInv, OwnedInv, StackInv
    <2>4. OwnedInv'
      BY <1>2
      DEF PrepareWorkspace, ReturnEarly, HandleInv, AttemptInv, OwnedInv
    <2>5. StackInv'
      BY <1>2
      DEF PrepareWorkspace, ReturnEarly, HandleInv, AttemptInv, OwnedInv, StackInv
    <2> QED BY <2>1, <2>2, <2>3, <2>4, <2>5
  <1>3. CASE Configure
    <2>1. TypeOK'
      BY <1>3 DEF Configure, ReturnEarly, AttemptInv, PC
    <2>2. FutureInv' /\ HandleInv'
      BY <1>3
      DEF Configure, ReturnEarly, FutureInv, HandleInv, AttemptInv, OwnedInv, StackInv
    <2>3. AttemptInv'
      BY <1>3
      DEF Configure, ReturnEarly, FutureInv, HandleInv, AttemptInv, OwnedInv, StackInv
    <2>4. OwnedInv'
      BY <1>3
      DEF Configure, ReturnEarly, HandleInv, AttemptInv, OwnedInv
    <2>5. StackInv'
      BY <1>3
      DEF Configure, ReturnEarly, HandleInv, AttemptInv, OwnedInv, StackInv
    <2> QED BY <2>1, <2>2, <2>3, <2>4, <2>5
  <1>4. CASE EnsureImage
    <2>1. TypeOK'
      BY <1>4 DEF EnsureImage, ReturnEarly, AttemptInv, PC
    <2>2. FutureInv' /\ HandleInv'
      BY <1>4
      DEF EnsureImage, ReturnEarly, FutureInv, HandleInv, AttemptInv, OwnedInv, StackInv
    <2>3. AttemptInv'
      BY <1>4
      DEF EnsureImage, ReturnEarly, FutureInv, HandleInv, AttemptInv, OwnedInv, StackInv
    <2>4. OwnedInv'
      BY <1>4
      DEF EnsureImage, ReturnEarly, HandleInv, AttemptInv, OwnedInv
    <2>5. StackInv'
      BY <1>4
      DEF EnsureImage, ReturnEarly, HandleInv, AttemptInv, OwnedInv, StackInv
    <2> QED BY <2>1, <2>2, <2>3, <2>4, <2>5
  <1>5. CASE Render
    <2>0. attempt' \in 0 .. STACK_BRINGUP_MAX_ATTEMPTS
      BY <1>5 DEF Render, ReturnEarly, AttemptInv
    <2>1. TypeOK'
      BY <1>5, <2>0 DEF Render, ReturnEarly, AttemptInv,
          PC
    <2>2. FutureInv' /\ HandleInv'
      BY <1>5, <2>0
      DEF Render, ReturnEarly, FutureInv, HandleInv, AttemptInv, OwnedInv, StackInv
    <2>3. AttemptInv'
      BY <1>5, <2>0
      DEF Render, ReturnEarly, FutureInv, HandleInv, AttemptInv, OwnedInv, StackInv
    <2>4. OwnedInv'
      BY <1>5, <2>0
      DEF Render, ReturnEarly, HandleInv, AttemptInv, OwnedInv
    <2>5. StackInv'
      BY <1>5, <2>0
      DEF Render, ReturnEarly, HandleInv, AttemptInv, OwnedInv, StackInv
    <2> QED BY <2>1, <2>2, <2>3, <2>4, <2>5
  <1>6. CASE LaunchCfgsync
    <2>1. TypeOK'
      BY <1>6 DEF LaunchCfgsync, AttemptInv, PC
    <2>2. FutureInv' /\ HandleInv'
      BY <1>6
      DEF LaunchCfgsync, FutureInv, HandleInv, AttemptInv, OwnedInv, StackInv
    <2>3. AttemptInv'
      BY <1>6
      DEF LaunchCfgsync, FutureInv, HandleInv, AttemptInv, OwnedInv, StackInv
    <2>4. OwnedInv'
      BY <1>6
      DEF LaunchCfgsync, HandleInv, AttemptInv, OwnedInv
    <2>5. StackInv'
      BY <1>6
      DEF LaunchCfgsync, HandleInv, AttemptInv, OwnedInv, StackInv
    <2> QED BY <2>1, <2>2, <2>3, <2>4, <2>5
  <1>7. CASE LaunchCfgsyncFails
    <2>1. TypeOK'
      BY <1>7 DEF LaunchCfgsyncFails, AttemptInv, PC
    <2>2. FutureInv' /\ HandleInv'
      BY <1>7
      DEF LaunchCfgsyncFails, FutureInv, HandleInv, AttemptInv, OwnedInv, StackInv
    <2>3. AttemptInv'
      BY <1>7
      DEF LaunchCfgsyncFails, FutureInv, HandleInv, AttemptInv, OwnedInv, StackInv
    <2>4. OwnedInv'
      BY <1>7
      DEF LaunchCfgsyncFails, HandleInv, AttemptInv, OwnedInv
    <2>5. StackInv'
      BY <1>7
      DEF LaunchCfgsyncFails, HandleInv, AttemptInv, OwnedInv, StackInv
    <2> QED BY <2>1, <2>2, <2>3, <2>4, <2>5
  <1>8. CASE ComposeUp
    <2>0. owned = {}
      BY <1>8 DEF ComposeUp, OwnedInv, WithUp, Cleaning, Stage, Over
    <2>1. TypeOK'
      BY <1>8, <2>0 DEF ComposeUp, AttemptInv, PC
    <2>2. FutureInv' /\ HandleInv'
      BY <1>8, <2>0
      DEF ComposeUp, FutureInv, HandleInv, AttemptInv, OwnedInv, StackInv
    <2>3. AttemptInv'
      BY <1>8, <2>0
      DEF ComposeUp, FutureInv, HandleInv, AttemptInv, OwnedInv, StackInv
    <2>4. OwnedInv'
      BY <1>8, <2>0
      DEF ComposeUp, HandleInv, AttemptInv, OwnedInv
    <2>5. StackInv'
      BY <1>8, <2>0
      DEF ComposeUp, HandleInv, AttemptInv, OwnedInv, StackInv
    <2> QED BY <2>1, <2>2, <2>3, <2>4, <2>5
  <1>9. CASE ComposeUpFails
    <2>0. attempt \in Attempt
      BY <1>9 DEF ComposeUpFails, AttemptInv, Cleaning
    <2>1. Stopped(attempt)
      BY <1>9, <2>0, ShutdownStops DEF ComposeUpFails
    <2>2. handle[attempt] # "none"
      BY <1>9, <2>0 DEF ComposeUpFails, HandleInv, AttemptInv, OwnedInv, Cleaning
    <2> stack' \in [Attempt -> {"absent", "late", "partial", "up", "falling", "down"}]
      BY <1>9 DEF ComposeUpFails
    <2>3. TypeOK'
      BY <1>9, <2>0, <2>1 DEF ComposeUpFails, Stopped, PC, Over, AttemptInv
    <2>4. UNCHANGED attempt
      BY <1>9 DEF ComposeUpFails
    <2>5. FutureInv' /\ HandleInv' /\ \A k \in Attempt : handle'[k] # "live"
      BY <2>0, <2>1, <2>2, <2>4, StoppedKeeps
    <2>6. AttemptInv' /\ OwnedInv'
      BY <1>9, <2>0, <2>1, <2>2, <2>5
      DEF ComposeUpFails, Stopped, AttemptInv, OwnedInv
    <2>7. StackInv'
      BY <1>9, <2>0, <2>1, <2>2
      DEF ComposeUpFails, Stopped, OwnedInv, StackInv
    <2> QED BY <2>3, <2>5, <2>6, <2>7
  <1>10. CASE Retry
    <2>0. attempt \in Attempt
      BY <1>10 DEF Retry, AttemptInv, Cleaning
    <2>1. Stopped(attempt)
      BY <1>10, <2>0, ShutdownStops DEF Retry
    <2>2. handle[attempt] # "none"
      BY <1>10, <2>0 DEF Retry, HandleInv, AttemptInv, OwnedInv, Cleaning
    <2> stack' \in [Attempt -> {"absent", "late", "partial", "up", "falling", "down"}]
      BY <1>10 DEF Retry
    <2>3. TypeOK'
      BY <1>10, <2>0, <2>1 DEF Retry, Stopped, PC, Over, AttemptInv
    <2>4. UNCHANGED attempt
      BY <1>10 DEF Retry
    <2>5. FutureInv' /\ HandleInv' /\ \A k \in Attempt : handle'[k] # "live"
      BY <2>0, <2>1, <2>2, <2>4, StoppedKeeps
    <2>6. AttemptInv' /\ OwnedInv'
      BY <1>10, <2>0, <2>1, <2>2, <2>5
      DEF Retry, Stopped, AttemptInv, OwnedInv
    <2>7. StackInv'
      BY <1>10, <2>0, <2>1, <2>2
      DEF Retry, Stopped, OwnedInv, StackInv
    <2> QED BY <2>3, <2>5, <2>6, <2>7
  <1>11. CASE StageSucceeds
    <2>1. TypeOK'
      BY <1>11 DEF StageSucceeds, DiscoverPorts, ValidatorsReady, ExecutorsReady, RemoteReady,
          BuildNodeClients, MetricsHandle, StartBlockFeed, Go, AttemptInv, PC
    <2>2. FutureInv' /\ HandleInv'
      BY <1>11
      DEF StageSucceeds, DiscoverPorts, ValidatorsReady, ExecutorsReady, RemoteReady,
          BuildNodeClients, MetricsHandle, StartBlockFeed, Go, FutureInv, HandleInv, AttemptInv, OwnedInv,
          StackInv
    <2>3. AttemptInv'
      BY <1>11
      DEF StageSucceeds, DiscoverPorts, ValidatorsReady, ExecutorsReady, RemoteReady,
          BuildNodeClients, MetricsHandle, StartBlockFeed, Go, FutureInv, HandleInv, AttemptInv, OwnedInv,
          StackInv
    <2>4. OwnedInv'
      BY <1>11
      DEF StageSucceeds, DiscoverPorts, ValidatorsReady, ExecutorsReady, RemoteReady,
          BuildNodeClients, MetricsHandle, StartBlockFeed, Go, HandleInv, AttemptInv, OwnedInv
    <2>5. StackInv'
      BY <1>11
      DEF StageSucceeds, DiscoverPorts, ValidatorsReady, ExecutorsReady, RemoteReady,
          BuildNodeClients, MetricsHandle, StartBlockFeed, Go, HandleInv, AttemptInv, OwnedInv, StackInv
    <2> QED BY <2>1, <2>2, <2>3, <2>4, <2>5
  <1>12. CASE StageFails
    <2>1. TypeOK'
      BY <1>12 DEF StageFails, AttemptInv, PC
    <2>2. FutureInv' /\ HandleInv'
      BY <1>12
      DEF StageFails, FutureInv, HandleInv, AttemptInv, OwnedInv, StackInv
    <2>3. AttemptInv'
      BY <1>12
      DEF StageFails, FutureInv, HandleInv, AttemptInv, OwnedInv, StackInv
    <2>4. OwnedInv'
      BY <1>12
      DEF StageFails, HandleInv, AttemptInv, OwnedInv
    <2>5. StackInv'
      BY <1>12
      DEF StageFails, HandleInv, AttemptInv, OwnedInv, StackInv
    <2> QED BY <2>1, <2>2, <2>3, <2>4, <2>5
  <1>13. CASE BeginCleanup
    <2>1. TypeOK'
      BY <1>13 DEF BeginCleanup, AttemptInv, PC
    <2>2. FutureInv' /\ HandleInv'
      BY <1>13
      DEF BeginCleanup, FutureInv, HandleInv, AttemptInv, OwnedInv, StackInv
    <2>3. AttemptInv'
      BY <1>13
      DEF BeginCleanup, FutureInv, HandleInv, AttemptInv, OwnedInv, StackInv
    <2>4. OwnedInv'
      BY <1>13
      DEF BeginCleanup, HandleInv, AttemptInv, OwnedInv
    <2>5. StackInv'
      BY <1>13
      DEF BeginCleanup, HandleInv, AttemptInv, OwnedInv, StackInv
    <2> QED BY <2>1, <2>2, <2>3, <2>4, <2>5
  <1>14. CASE ComposeDown
    <2>0. attempt \in Attempt
      BY <1>14 DEF ComposeDown, AttemptInv, Cleaning
    <2>a. /\ stack' \in [Attempt -> {"absent", "late", "partial", "up", "falling", "down"}]
          /\ downFailed' \subseteq Attempt
      BY <1>14, <2>0 DEF ComposeDown
    <2>1. TypeOK'
      BY <1>14, <2>a DEF ComposeDown, PC
    <2>2. FutureInv' /\ HandleInv'
      BY <1>14, <2>0
      DEF ComposeDown, FutureInv, HandleInv, AttemptInv, OwnedInv, StackInv
    <2>3. AttemptInv'
      BY <1>14, <2>0
      DEF ComposeDown, FutureInv, HandleInv, AttemptInv, OwnedInv, StackInv
    <2>4. OwnedInv'
      BY <1>14, <2>0
      DEF ComposeDown, HandleInv, AttemptInv, OwnedInv
    <2>5. StackInv'
      BY <1>14, <2>0
      DEF ComposeDown, HandleInv, AttemptInv, OwnedInv, StackInv
    <2> QED BY <2>1, <2>2, <2>3, <2>4, <2>5
  <1>15. CASE Unmount
    <2>0. attempt \in Attempt
      BY <1>15 DEF Unmount, AttemptInv, Cleaning
    <2>1. Stopped(attempt)
      BY <1>15, <2>0, ShutdownStops DEF Unmount
    <2>2. handle[attempt] # "none"
      BY <1>15, <2>0 DEF Unmount, HandleInv, AttemptInv, OwnedInv, Cleaning
    <2> stack' \in [Attempt -> {"absent", "late", "partial", "up", "falling", "down"}]
      BY <1>15 DEF Unmount
    <2>3. TypeOK'
      BY <1>15, <2>0, <2>1 DEF Unmount, Stopped, PC, Over, AttemptInv
    <2>4. UNCHANGED attempt
      BY <1>15 DEF Unmount
    <2>5. FutureInv' /\ HandleInv' /\ \A k \in Attempt : handle'[k] # "live"
      BY <2>0, <2>1, <2>2, <2>4, StoppedKeeps
    <2>6. AttemptInv' /\ OwnedInv'
      BY <1>15, <2>0, <2>1, <2>2, <2>5
      DEF Unmount, Stopped, AttemptInv, OwnedInv
    <2>7. StackInv'
      BY <1>15, <2>0, <2>1, <2>2
      DEF Unmount, Stopped, OwnedInv, StackInv
    <2> QED BY <2>3, <2>5, <2>6, <2>7
  <1>20. CASE MetricsFails
    <2>0. attempt \in Attempt
      BY <1>20 DEF MetricsFails, AttemptInv
    <2>1. Stopped(attempt)
      BY <1>20, <2>0, ShutdownStops DEF MetricsFails, DropEnvironment
    <2>2. handle[attempt] # "none" /\ UNCHANGED attempt
      BY <1>20, <2>0 DEF MetricsFails, DropEnvironment, OwnedInv
    <2>3. TypeOK'
      BY <1>20, <2>0, <2>1 DEF MetricsFails, DropEnvironment, Stopped, PC, AttemptInv
    <2>4. FutureInv' /\ HandleInv' /\ \A k \in Attempt : handle'[k] # "live"
      BY <2>0, <2>1, <2>2, StoppedKeeps
    <2>5. AttemptInv' /\ OwnedInv'
      BY <1>20, <2>0, <2>1, <2>2, <2>4
      DEF MetricsFails, DropEnvironment, Stopped, AttemptInv, OwnedInv
    <2>6. StackInv'
      BY <1>20, <2>0 DEF MetricsFails, DropEnvironment, OwnedInv, StackInv
    <2> QED BY <2>3, <2>4, <2>5, <2>6
  <1>16. ASSUME NEW k \in Attempt, LateUp(k) PROVE IInv'
    <2>1. TypeOK'
      BY <1>16 DEF LateUp, AttemptInv, PC
    <2>2. FutureInv' /\ HandleInv'
      BY <1>16
      DEF LateUp, FutureInv, HandleInv, AttemptInv, OwnedInv, StackInv
    <2>3. AttemptInv'
      BY <1>16
      DEF LateUp, FutureInv, HandleInv, AttemptInv, OwnedInv, StackInv
    <2>4. OwnedInv'
      BY <1>16
      DEF LateUp, HandleInv, AttemptInv, OwnedInv
    <2>5. StackInv'
      <3>1. /\ stack[k] = "late" /\ \A j \in Attempt \ {k} : stack'[j] = stack[j]
            /\ pc' = pc /\ env' = env /\ workspace' = workspace /\ handle' = handle
            /\ owned' = owned /\ downFailed' = downFailed
        BY <1>16 DEF LateUp, cfgVars
      <3>2. k \in owned => /\ pc \notin WithUp \cup {"down"}
                           /\ pc \in {"unmount", "err", "done"} =>
                                "preserve" \notin env /\ k \in downFailed
        BY <3>1 DEF StackInv
      <3>3. owned \subseteq Attempt
        BY DEF TypeOK
      <3> QED BY <3>1, <3>2, <3>3 DEF StackInv
    <2> QED BY <2>1, <2>2, <2>3, <2>4, <2>5
  <1>17. ASSUME NEW k \in Attempt, LateDown(k) PROVE IInv'
    <2>1. TypeOK'
      BY <1>17 DEF LateDown, AttemptInv, PC
    <2>2. FutureInv' /\ HandleInv'
      BY <1>17
      DEF LateDown, FutureInv, HandleInv, AttemptInv, OwnedInv, StackInv
    <2>3. AttemptInv'
      BY <1>17
      DEF LateDown, FutureInv, HandleInv, AttemptInv, OwnedInv, StackInv
    <2>4. OwnedInv'
      BY <1>17
      DEF LateDown, HandleInv, AttemptInv, OwnedInv
    <2>5. StackInv'
      <3>1. /\ stack[k] = "falling" /\ \A j \in Attempt \ {k} : stack'[j] = stack[j]
            /\ pc' = pc /\ env' = env /\ workspace' = workspace /\ handle' = handle
            /\ owned' = owned /\ downFailed' = downFailed
        BY <1>17 DEF LateDown, cfgVars
      <3>2. k \in owned => /\ pc \notin WithUp \cup {"down"}
                           /\ pc \in {"unmount", "err", "done"} =>
                                "preserve" \notin env /\ k \in downFailed
        BY <3>1 DEF StackInv
      <3>3. owned \subseteq Attempt
        BY DEF TypeOK
      <3> QED BY <3>1, <3>2, <3>3 DEF StackInv
    <2> QED BY <2>1, <2>2, <2>3, <2>4, <2>5
  <1>18. ASSUME NEW k \in Attempt, LateRun(k) PROVE IInv'
    <2>1. TypeOK'
      BY <1>18 DEF LateRun, AttemptInv, PC
    <2>2. FutureInv' /\ HandleInv'
      BY <1>18
      DEF LateRun, FutureInv, HandleInv, AttemptInv, OwnedInv, StackInv
    <2>3. AttemptInv'
      BY <1>18
      DEF LateRun, FutureInv, HandleInv, AttemptInv, OwnedInv, StackInv
    <2>4. OwnedInv'
      BY <1>18
      DEF LateRun, HandleInv, AttemptInv, OwnedInv
    <2>5. StackInv'
      BY <1>18
      DEF LateRun, HandleInv, AttemptInv, OwnedInv, StackInv
    <2> QED BY <2>1, <2>2, <2>3, <2>4, <2>5
  <1>19. CASE UNCHANGED vars
    <2>1. TypeOK'
      BY <1>19 DEF vars, AttemptInv, PC
    <2>2. FutureInv' /\ HandleInv'
      BY <1>19
      DEF vars, FutureInv, HandleInv, AttemptInv, OwnedInv, StackInv
    <2>3. AttemptInv'
      BY <1>19
      DEF vars, FutureInv, HandleInv, AttemptInv, OwnedInv, StackInv
    <2>4. OwnedInv'
      BY <1>19
      DEF vars, HandleInv, AttemptInv, OwnedInv
    <2>5. StackInv'
      BY <1>19
      DEF vars, HandleInv, AttemptInv, OwnedInv, StackInv
    <2> QED BY <2>1, <2>2, <2>3, <2>4, <2>5
  <1> QED
    BY <1>1, <1>2, <1>3, <1>4, <1>5, <1>6, <1>7, <1>8, <1>9, <1>10, <1>11, <1>12, <1>13, <1>14,
        <1>15, <1>16, <1>17, <1>18, <1>19, <1>20
    DEF Next, Deploy

\* The inductive invariant holds of every deployment.
LEMMA Invariant == Spec => []IInv
  BY InitIInv, NextIInv, PTL DEF Spec

(* deploy keeps its types for every bound on the attempts.                 *)
THEOREM TypeCorrect == Spec => []TypeOK
  <1>1. IInv => TypeOK
    BY DEF IInv
  <1> QED BY Invariant, <1>1, PTL

(* Each cfgsync container with a handle is removed by exactly one command, *)
(* whichever of the callers of shutdown comes first.                       *)
THEOREM RemovedOnce == Spec => []OneRemoval
  <1>1. IInv => OneRemoval
    <2> SUFFICES ASSUME IInv, NEW k \in Attempt
                 PROVE  rms[k] <= 1 /\ (pc \in Over /\ handle[k] # "none" => rms[k] = 1)
      BY DEF OneRemoval
    <2>1. handle[k] \in {"none", "live", "stopped"}
      BY DEF IInv, TypeOK
    <2> QED BY <2>1 DEF IInv, HandleInv, WithUp, Cleaning, Stage, Over
  <1> QED BY Invariant, <1>1, PTL

(* A cfgsync container runs under the current handle, or docker kept it.   *)
THEOREM ServersAccountedFor == Spec => []NoStrayServer
  <1>1. IInv => NoStrayServer
    <2> SUFFICES ASSUME IInv, NEW k \in Attempt, cfgsync[k] = "running"
                 PROVE  \/ handle[k] = "live" /\ k = attempt
                        \/ k \in rmFailed
                        \/ handle[k] = "none" /\ pc = "err" /\ k = attempt
      BY DEF NoStrayServer
    <2>1. handle[k] \in {"none", "live", "stopped"}
      BY DEF IInv, TypeOK
    <2> QED BY <2>1 DEF IInv, HandleInv
  <1> QED BY Invariant, <1>1, PTL

(* Every way out of a deployment whose stack came up takes the stack down, *)
(* except where deploy drops its StackEnvironment.                         *)
THEOREM StackComesDown == Spec => []StackReclaimed
  <1>1. IInv => StackReclaimed
    BY DEF IInv, StackInv, StackReclaimed, Over
  <1> QED BY Invariant, <1>1, PTL

(* The preserve flag keeps the stack and the files it mounts.              *)
THEOREM PreservedStackStays == Spec => []PreserveKeeps
  <1>1. IInv => PreserveKeeps
    BY DEF IInv, StackInv, PreserveKeeps, Over
  <1> QED BY Invariant, <1>1, PTL

(* Users of a resource are stopped before the resource, on every way out   *)
(* on which the stack is asked to go down.                                 *)
THEOREM TornDownInOrder == Spec => []TeardownOrder
  <1>1. IInv => TeardownOrder
    <2> SUFFICES ASSUME IInv, NEW k \in owned
                 PROVE  /\ feed = "running" =>
                             stack[k] = "up" /\ handle[k] = "live" /\ workspace = "temp"
                        /\ /\ "preserve" \notin env
                           /\ handle[k] = "stopped" \/ workspace = "removed"
                           => stack[k] = "down" \/ k \in downFailed \/ pc = "dropped"
      BY DEF TeardownOrder
    <2>1. pc \in WithUp \cup {"down"} \cup {"unmount", "err", "done", "dropped"}
      BY DEF IInv, OwnedInv, Cleaning, Over
    <2>2. feed = "running" => pc \in WithUp
      BY DEF IInv, OwnedInv, WithUp
    <2> QED BY <2>1, <2>2 DEF IInv, StackInv
  <1> QED BY Invariant, <1>1, PTL

(* Each cfgsync server is removed once, and none is forgotten.             *)
THEOREM ServersAreRemoved == Spec => []ServerRemoved
  <1>1. OneRemoval /\ NoStrayServer => ServerRemoved
    BY DEF ServerRemoved
  <1> QED BY RemovedOnce, ServersAccountedFor, <1>1, PTL

(* A stack that came up is taken down, or kept when the user asked for it, *)
(* on every way out but the error of the metrics handle, before the feed.  *)
THEOREM StackMeetsItsFate == Spec => []StackFate
  <1>1. IInv => (pc = "dropped" => feed = "none")
    BY DEF IInv, OwnedInv, PC, Over, Cleaning
  <1>2. StackReclaimed /\ PreserveKeeps /\ (pc = "dropped" => feed = "none") => StackFate
    BY DEF StackFate
  <1> QED BY StackComesDown, PreservedStackStays, Invariant, <1>1, <1>2, PTL

=============================================================================
