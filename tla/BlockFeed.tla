------------------------------ MODULE BlockFeed ------------------------------
(***************************************************************************)
(* The block feed of the scenario runtime (block_feed.rs): a background    *)
(* task polls one node, walks from its tip back to the first block already *)
(* seen, and publishes the missing blocks, oldest first, over a bounded    *)
(* tokio broadcast channel.  One step is what the task does between two    *)
(* awaits, except that publishing a block is split where another thread    *)
(* can look: the statistics are updated first, the record is sent next.    *)
(***************************************************************************)
EXTENDS Integers, Sequences, FiniteSets, Functions

CONSTANTS
  Block,        \* header ids of the block tree, genesis included
  Genesis,
  Parent,       \* Parent[b] is the parent header of b
  Height,       \* Height[b] is the height consensus_info reports for tip b
  Txs,          \* Txs[b] is the number of transactions in b
  Receiver,     \* subscribers: capture tasks and workload flows
  Capacity,     \* of the broadcast channel (1024 in the code)
  MaxAttempts,  \* BLOCK_FEED_MAX_ATTEMPTS (5) in compose, 1 in local and k8s
  MaxFailures,  \* bound: failed requests
  MaxRestarts   \* bound: node restarts that take the tip back

ASSUME ChainAssumption ==
  /\ Genesis \in Block
  /\ Parent \in [Block -> Block]
  /\ Height \in [Block -> Nat]
  /\ \A b \in Block : Height[b] = 0 <=> b = Genesis
  /\ \A b \in Block \ {Genesis} : Height[b] = Height[Parent[b]] + 1

ASSUME BoundAssumption ==
  /\ Txs \in [Block -> Nat]
  /\ {Capacity, MaxAttempts} \subseteq Nat \ {0}
  /\ {MaxFailures, MaxRestarts} \subseteq Nat

VARIABLES
  tip,                 \* the current tip of the node the scanner polls
  pc,                  \* where the scanner is
  spawned,             \* spawn_block_feed has returned Ok
  attempt,             \* of spawn_block_feed_with_retry
  abort,               \* BlockFeedTask::cleanup has been called
  cursor,              \* catch_up: next header to fetch
  remaining_height,    \* catch_up: height left below the cursor
  stack,               \* catch_up: fetched blocks, newest first
  seen,                \* BlockScanner::seen
  total_transactions,  \* BlockStats
  ingested,            \* records sent by BlockFeed::ingest, in order
  rx,                  \* per subscriber its receiver's next position, if it has one
  failures, restarts   \* counters of the bounds

envVars  == <<tip, failures, restarts>>
taskVars == <<pc, spawned, attempt, abort>>
walkVars == <<cursor, remaining_height, stack>>
feedVars == <<seen, total_transactions, ingested>>
vars     == <<envVars, taskVars, walkVars, feedVars, rx>>

Init ==
  /\ tip \in Block /\ failures = 0 /\ restarts = 0
  /\ pc = "consensus_info" /\ spawned = FALSE /\ attempt = 1 /\ abort = FALSE
  /\ cursor = Genesis /\ remaining_height = 0 /\ stack = << >>
  /\ seen = {} /\ total_transactions = 0 /\ ingested = << >>
  /\ rx = [r \in Receiver |-> {}]

------------------------------------------------------------------------------
(* BlockScanner::catch_up.                                                 *)

\* The locals of the walk go out of scope.
LeaveWalk == cursor' = Genesis /\ remaining_height' = 0

\* catch_up returns Ok: the first one ends spawn_block_feed, which starts
\* the run loop (and so a second walk at once); the others go to sleep.
CatchUpDone ==
  /\ spawned' = TRUE
  /\ pc' = IF spawned THEN "sleep" ELSE "consensus_info"

\* The walk breaks with `blocks` left to publish.
Break(blocks) ==
  /\ LeaveWalk
  /\ stack' = blocks
  /\ \/ blocks = << >> /\ CatchUpDone
     \/ blocks # << >> /\ pc' = "record" /\ UNCHANGED spawned

\* The head of the loop: stop at a seen block, mark genesis as seen without
\* publishing it, or ask the node for the block.
LoopHead(header, height, blocks) ==
  \/ /\ header \in seen
     /\ Break(blocks)
     /\ UNCHANGED seen
  \/ /\ header \notin seen /\ height = 0
     /\ Break(blocks)
     /\ seen' = seen \cup {header}
  \/ /\ header \notin seen /\ height > 0
     /\ pc' = "storage_block"
     /\ cursor' = header /\ remaining_height' = height /\ stack' = blocks
     /\ UNCHANGED <<seen, spawned>>

ConsensusInfo ==
  /\ pc = "consensus_info" /\ ~abort
  /\ LoopHead(tip, Height[tip], << >>)
  /\ UNCHANGED <<envVars, attempt, abort, total_transactions, ingested, rx>>

\* Mutant: a block is marked as seen when it is fetched.
StorageBlockMarks ==
  LET parent == Parent[cursor]
      blocks == Append(stack, cursor)
      height == IF remaining_height = 0 THEN 0 ELSE remaining_height - 1
  IN  /\ pc = "storage_block" /\ ~abort
      /\ IF parent \in seen \/ parent = cursor \/ height = 0
           THEN Break(blocks)
           ELSE /\ pc' = "storage_block" /\ UNCHANGED spawned
                /\ cursor' = parent /\ remaining_height' = height /\ stack' = blocks
      /\ seen' = seen \cup {cursor}
      /\ UNCHANGED <<envVars, attempt, abort, total_transactions, ingested, rx>>

\* The requested block arrives.
StorageBlock ==
  LET parent == Parent[cursor]
      blocks == Append(stack, cursor)
      height == IF remaining_height = 0 THEN 0 ELSE remaining_height - 1
  IN  /\ pc = "storage_block" /\ ~abort
      /\ IF parent \in seen \/ parent = cursor
           THEN Break(blocks) /\ UNCHANGED seen
           ELSE LoopHead(parent, height, blocks)
      /\ UNCHANGED <<envVars, attempt, abort, total_transactions, ingested, rx>>

\* The effects of a failed request, but for where the scanner goes next.
RequestLost ==
  /\ pc \in {"consensus_info", "storage_block"} /\ ~abort
  /\ failures < MaxFailures
  /\ failures' = failures + 1
  /\ LeaveWalk
  /\ UNCHANGED <<tip, restarts, spawned, attempt, abort, feedVars, rx>>

\* Mutant: the run loop ends at the first error.
RequestFailsStopsLoop ==
  /\ RequestLost /\ stack' = << >>
  /\ \/ spawned /\ pc' = "stopped"
     \/ ~spawned /\ attempt < MaxAttempts /\ pc' = "retry_delay"
     \/ ~spawned /\ attempt = MaxAttempts /\ pc' = "failed"

\* A request fails or the node does not have the block: the walk is lost.
\* The run loop logs it and sleeps; spawn_block_feed gives up, and the
\* deployer retries it after a delay or fails.
RequestFails ==
  /\ RequestLost /\ stack' = << >>
  /\ \/ spawned /\ pc' = "sleep"
     \/ ~spawned /\ attempt < MaxAttempts /\ pc' = "retry_delay"
     \/ ~spawned /\ attempt = MaxAttempts /\ pc' = "failed"

\* The next attempt: a new channel, new statistics and a new scanner, of a
\* validator chosen anew, which has its own tip.
Respawn ==
  /\ pc = "retry_delay"
  /\ attempt' = attempt + 1
  /\ pc' = "consensus_info"
  /\ seen' = {} /\ total_transactions' = 0 /\ ingested' = << >>
  /\ tip' \in Block
  /\ UNCHANGED <<failures, restarts, spawned, abort, walkVars, rx>>

PollAgain ==
  /\ pc = "sleep" /\ ~abort
  /\ pc' = "consensus_info"
  /\ UNCHANGED <<envVars, spawned, attempt, abort, walkVars, feedVars, rx>>

------------------------------------------------------------------------------
(* BlockFeed::ingest for the block on top of the stack.                    *)

Top == stack[Len(stack)]

\* Mutant: the counter is overwritten instead of increased.
RecordBlockStores ==
  /\ pc = "record"
  /\ total_transactions' = Txs[Top]
  /\ pc' = "send"
  /\ UNCHANGED <<envVars, spawned, attempt, abort, walkVars, seen, ingested, rx>>

RecordBlock ==
  /\ pc = "record"
  /\ total_transactions' = total_transactions + Txs[Top]
  /\ pc' = "send"
  /\ UNCHANGED <<envVars, spawned, attempt, abort, walkVars, seen, ingested, rx>>

\* Mutant: a published block is not marked as seen.
SendRecordForgets ==
  /\ pc = "send"
  /\ ingested' = Append(ingested, Top)
  /\ stack' = SubSeq(stack, 1, Len(stack) - 1)
  /\ \/ Len(stack) = 1 /\ CatchUpDone
     \/ Len(stack) > 1 /\ pc' = "record" /\ UNCHANGED spawned
  /\ UNCHANGED <<envVars, attempt, abort, cursor, remaining_height, seen,
                 total_transactions, rx>>

\* The channel drops a record sent while nobody is subscribed; no one can
\* tell, since a receiver starts at the position current when it subscribes.
SendRecord ==
  /\ pc = "send"
  /\ ingested' = Append(ingested, Top)
  /\ seen' = seen \cup {Top}
  /\ stack' = SubSeq(stack, 1, Len(stack) - 1)
  /\ \/ Len(stack) = 1 /\ CatchUpDone
     \/ Len(stack) > 1 /\ pc' = "record" /\ UNCHANGED spawned
  /\ UNCHANGED <<envVars, attempt, abort, cursor, remaining_height,
                 total_transactions, rx>>

------------------------------------------------------------------------------
(* The cleanup guard: an abort lands at the next await.                    *)

\* Mutant: publishing a block yields to the runtime.
AwaitsBetweenBlocks == {"consensus_info", "storage_block", "sleep", "record"}

\* Where the task can be when an abort lands.
Awaits == {"consensus_info", "storage_block", "sleep"}

Cleanup ==
  /\ spawned /\ ~abort
  /\ abort' = TRUE
  /\ UNCHANGED <<envVars, pc, spawned, attempt, walkVars, feedVars, rx>>

AbortLands ==
  /\ abort /\ pc \in Awaits
  /\ pc' = "ended"
  /\ LeaveWalk /\ stack' = << >>
  /\ UNCHANGED <<envVars, spawned, attempt, abort, feedVars, rx>>

------------------------------------------------------------------------------
(* Receivers of the broadcast channel.                                     *)

\* Position of the oldest record the channel still holds.
Oldest ==
  IF Len(ingested) > Capacity THEN Len(ingested) - Capacity + 1 ELSE 1

Subscribe(r) ==
  /\ spawned /\ rx[r] = {}
  /\ rx' = [rx EXCEPT ![r] = {Len(ingested) + 1}]

Recv(r) == \E next \in rx[r] :
  /\ next \in Oldest .. Len(ingested)
  /\ rx' = [rx EXCEPT ![r] = {next + 1}]

\* The channel has dropped records the receiver has not read: it goes on with
\* the oldest one that is left.
Lagged(r) == \E next \in rx[r] :
  /\ next < Oldest
  /\ rx' = [rx EXCEPT ![r] = {Oldest}]

Unsubscribe(r) ==
  /\ rx[r] # {}
  /\ rx' = [rx EXCEPT ![r] = {}]

ReceiverStep(r) ==
  /\ Subscribe(r) \/ Recv(r) \/ Lagged(r) \/ Unsubscribe(r)
  /\ UNCHANGED <<envVars, taskVars, walkVars, feedVars>>

------------------------------------------------------------------------------
(* The node: its tip moves to higher blocks, of any fork; a restart may    *)
(* take it back to a lower one.                                            *)

TipMoves(b) ==
  /\ \/ Height[b] > Height[tip] /\ UNCHANGED restarts
     \/ Height[b] < Height[tip] /\ restarts < MaxRestarts
                                /\ restarts' = restarts + 1
  /\ tip' = b
  /\ UNCHANGED <<failures, taskVars, walkVars, feedVars, rx>>

------------------------------------------------------------------------------
Scan == \/ ConsensusInfo \/ StorageBlock \/ PollAgain \/ Respawn
        \/ RecordBlock \/ SendRecord \/ AbortLands

Next ==
  \/ Scan \/ RequestFails \/ Cleanup
  \/ \E r \in Receiver : ReceiverStep(r)
  \/ \E b \in Block : TipMoves(b)

Spec == Init /\ [][Next]_vars

\* The runtime polls a ready task, and every subscriber loops on recv.
\* Failures, cleanup and the node's moves are left to the environment.
FairSpec ==
  /\ Spec
  /\ WF_vars(Scan)
  /\ \A r \in Receiver :
       WF_vars((Recv(r) \/ Lagged(r)) /\ UNCHANGED <<envVars, taskVars,
                                                     walkVars, feedVars>>)

------------------------------------------------------------------------------
(* Properties.                                                             *)

\* Type invariant of the scanner, the feed and its receivers.
TypeOK ==
  /\ tip \in Block
  /\ pc \in Awaits \cup {"retry_delay", "failed", "record", "send", "ended"}
  /\ spawned \in BOOLEAN /\ abort \in BOOLEAN
  /\ attempt \in 1 .. MaxAttempts
  /\ cursor \in Block /\ remaining_height \in Nat /\ stack \in Seq(Block)
  /\ seen \subseteq Block /\ total_transactions \in Nat
  /\ ingested \in Seq(Block)
  /\ rx \in [Receiver -> SUBSET Nat]
  /\ failures \in 0 .. MaxFailures /\ restarts \in 0 .. MaxRestarts

\* No block is published twice and every block is published after its parent
\* (genesis is not published), whatever forks the node's tip moved through,
\* whatever restarts took it back and whichever walks were lost half-way.
ParentsFirstOnce ==
  \A i \in DOMAIN ingested :
    /\ ingested[i] # Genesis
    /\ \A j \in 1 .. i - 1 : ingested[j] # ingested[i]
    /\ \/ Parent[ingested[i]] = Genesis
       \/ \E j \in 1 .. i - 1 : ingested[j] = Parent[ingested[i]]

\* The `seen` set, on which the next walk relies to stop, is what was
\* published plus genesis, whenever another task can look or the scanner can
\* be stopped: a walk that failed half-way, was aborted or was given up with
\* its attempt to spawn leaves no trace in it.
SeenIsPublished == seen \ {Genesis} = Range(ingested)

\* The transactions in a sequence of blocks.
TxsIn(blocks) ==
  LET sum[n \in 0 .. Len(blocks)] == IF n = 0 THEN 0 ELSE sum[n - 1] + Txs[blocks[n]]
  IN  sum[Len(blocks)]

\* A subscriber that has received a block finds its transactions already in
\* BlockStats, and at every await of the scanner the two agree exactly.
StatsCoverFeed ==
  /\ total_transactions >= TxsIn(ingested)
  /\ pc \in Awaits => total_transactions = TxsIn(ingested)

Publishing == pc \in {"record", "send"}

\* Once the first block of a batch is published the batch is published up to
\* the tip it was fetched from, even if the cleanup guard aborts the task
\* meanwhile: an abort lands only at an await.
BatchReachesItsTip ==
  [][(Publishing /\ ~Publishing') => stack[1] \in Range(ingested')]_vars

\* The scanner catches up with the node's tip again and again, after failed
\* requests, fork switches and restarts, unless it was never spawned or has
\* been aborted.
CatchesUp == []<>(tip \in seen \/ pc \in {"failed", "ended"})

\* BlockFeedTask::cleanup ends the scanner task.
CleanupEndsTask == abort ~> pc = "ended"

\* Every receiver drains the channel again and again, also one that lags.
ReceiversDrain ==
  \A r \in Receiver : []<>(\A next \in rx[r] : next > Len(ingested))

\* The three together: the feed goes on, ends when told to, and is read.
Progress == CatchesUp /\ CleanupEndsTask /\ ReceiversDrain

\* The feed implements the abstract block stream.
Stream == INSTANCE BlockStream WITH published <- ingested
StreamSpec == Stream!Spec
==============================================================================
