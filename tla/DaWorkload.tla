------------------------------ MODULE DaWorkload -----------------------------
(***************************************************************************)
(* The data availability workload and its expectation.  One flow per       *)
(* channel submits an inscription, subscribes to the block feed, waits for *)
(* the inscription, and then publishes its blobs one after the other, each *)
(* on top of the one before once that is in a block.  The expectation has  *)
(* two tasks on the feed: one counts blocks until a timer fires, the other *)
(* collects inscriptions and blobs.                                        *)
(*                                                                         *)
(* An operation is <<c, k>>: the inscription of channel c for k = 0, its   *)
(* k-th blob otherwise, whose parent is <<c, k - 1>>.  A block holds an    *)
(* operation only above its parent, as the ledger demands.                 *)
(***************************************************************************)
EXTENDS Integers, Sequences, FiniteSetsExt, Functions

CONSTANTS
  Block, Genesis, Parent,  \* the block tree, as in BlockStream
  Validator, Executor,     \* clients
  ChannelRate,             \* channel_rate_per_block
  Headroom,                \* headroom_percent
  BlobRate,                \* blob_rate_per_block
  ExpectedBlocks,          \* RunMetrics::expected_consensus_blocks
  PUBLISH_RETRIES,
  Capacity                 \* of the feed's broadcast channel

ASSUME TreeAssumption ==
  /\ Genesis \in Block
  /\ Parent \in [Block -> Block]

ASSUME WorkloadAssumption ==
  /\ {ChannelRate, BlobRate, PUBLISH_RETRIES, Capacity} \subseteq Nat \ {0}
  /\ {Headroom, ExpectedBlocks} \subseteq Nat
  /\ Executor # {}

------------------------------------------------------------------------------
(* The plan.                                                               *)

planned_channel_count == ChannelRate + (ChannelRate * Headroom + 99) \div 100

Channel == 1 .. planned_channel_count

planned_blob_count == BlobRate * Max({ExpectedBlocks, 1})

per_channel_blob_target ==
  (planned_blob_count + planned_channel_count - 1) \div planned_channel_count

\* MIN_INCLUSION_RATIO of the total, rounded up.
minimum_required(total) == (4 * total + 4) \div 5

Client == Validator \cup Executor
Op == Channel \X (0 .. per_channel_blob_target)

------------------------------------------------------------------------------
VARIABLES
  published,     \* the feed, as in BlockStream
  included,      \* the operations in each block and the blocks below it
  mempool,       \* operations some node accepted
  pc,            \* where the run is
  flow,          \* the flow of each channel
  rx,            \* its receiver
  capture,       \* the receiver of the capturing task
  inscriptions,  \* CaptureState::inscriptions
  blobs,         \* CaptureState::blobs
  counter,       \* position of the counting task, and whether it goes on
  run_blocks,    \* CaptureState::run_blocks
  verdict        \* of the expectation

feedVars    == <<published, included>>
flowVars    == <<mempool, flow, rx>>
captureVars == <<capture, inscriptions, blobs>>
countVars   == <<counter, run_blocks>>
vars == <<feedVars, pc, flowVars, captureVars, countVars, verdict>>

Feed == INSTANCE BlockStream

\* A flow is at the k-th operation of its channel.
FlowAt(at, k, attempt, untried) ==
  [at |-> at, k |-> k, attempt |-> attempt, untried |-> untried]

Subscribed == [from |-> Len(published), next |-> Len(published), skipped |-> 0]

Init ==
  /\ Feed!Init /\ included = [b \in Block |-> {}]
  /\ mempool = {} /\ pc = "capture"
  /\ flow = [c \in Channel |-> FlowAt("submit", 0, 1, Client)]
  /\ rx = [c \in Channel |-> Subscribed]
  /\ capture = Subscribed /\ inscriptions = {} /\ blobs = [c \in Channel |-> 0]
  /\ counter = [next |-> 0, on |-> FALSE] /\ run_blocks = 0
  /\ verdict = "none"

Over == pc \in {"failed", "over"}

\* What a block may add to the operations below it: accepted ones whose
\* parents are there or come with it.
Extensions(below) ==
  {ops \in SUBSET (mempool \ below) :
     \A o \in ops : o[2] = 0 \/ <<o[1], o[2] - 1>> \in below \cup ops}

Publish(b) ==
  /\ ~Over
  /\ Feed!Publish(b)
  /\ \E ops \in Extensions(included[Parent[b]]) :
       included' = [included EXCEPT ![b] = included[Parent[b]] \cup ops]
  /\ UNCHANGED <<pc, flowVars, captureVars, countVars, verdict>>

Content(b) == included[b] \ included[Parent[b]]

Behind(r) == Len(published) - r.next

\* A receiver takes the next record, or is told that it lost some.
Advanced(r) == [r EXCEPT !.next = r.next + 1]
Lagging(r) ==
  [r EXCEPT !.next = Len(published) - Capacity,
            !.skipped = r.skipped + Behind(r) - Capacity]

------------------------------------------------------------------------------
(* The expectation's tasks.                                                *)

StartCapture ==
  /\ pc = "capture"
  /\ pc' = "run"
  /\ capture' = Subscribed
  /\ counter' = [next |-> Len(published), on |-> TRUE]
  /\ UNCHANGED <<feedVars, flowVars, inscriptions, blobs, run_blocks, verdict>>

\* Mutant: a channel's blobs are overwritten instead of added up.
capture_blockOverwrites(ops) ==
  /\ inscriptions' = inscriptions \cup {c \in Channel : <<c, 0>> \in ops}
  /\ blobs' = [c \in Channel |-> Max({blobs[c], Cardinality({o \in ops : o[1] = c /\ o[2] > 0})})]

capture_block(ops) ==
  /\ inscriptions' = inscriptions \cup {c \in Channel : <<c, 0>> \in ops}
  /\ blobs' = [c \in Channel |->
                 blobs[c] + Cardinality({o \in ops : o[1] = c /\ o[2] > 0})]

Listening == pc \in {"run", "cooldown"}

CaptureRecv ==
  /\ Listening /\ Behind(capture) \in 1 .. Capacity
  /\ capture_block(Content(published[capture.next + 1]))
  /\ capture' = Advanced(capture)
  /\ UNCHANGED <<feedVars, pc, flowVars, countVars, verdict>>

CaptureLagged ==
  /\ Listening /\ Behind(capture) > Capacity
  /\ capture' = Lagging(capture)
  /\ UNCHANGED <<feedVars, pc, flowVars, inscriptions, blobs, countVars, verdict>>

CountBlock ==
  /\ Listening /\ counter.on /\ Behind(counter) \in 1 .. Capacity
  /\ counter' = Advanced(counter)
  /\ run_blocks' = run_blocks + 1
  /\ UNCHANGED <<feedVars, pc, flowVars, captureVars, verdict>>

CounterLagged ==
  /\ Listening /\ counter.on /\ Behind(counter) > Capacity
  /\ counter' = [counter EXCEPT !.next = Len(published) - Capacity]
  /\ UNCHANGED <<feedVars, pc, flowVars, captureVars, run_blocks, verdict>>

\* Its own timer of run_duration, started before the run's.
CounterTimer ==
  /\ Listening /\ counter.on
  /\ counter' = [next |-> 0, on |-> FALSE]
  /\ UNCHANGED <<feedVars, pc, flowVars, captureVars, run_blocks, verdict>>

------------------------------------------------------------------------------
(* run_channel_flow.                                                       *)

At(c, at) == pc = "run" /\ flow[c].at = at
Current(c) == <<c, flow[c].k>>

\* A request that is answered with an error, or with nothing, may have been
\* carried out.
MayBeAccepted(c) == mempool' \in {mempool, mempool \cup {Current(c)}}

\* try_join_all gives up all flows when one fails.
Fail == pc' = "failed" /\ UNCHANGED flow

\* submit_transaction_via_cluster: validators first.
Candidates(c) ==
  LET u == flow[c].untried IN IF u \cap Validator # {} THEN u \cap Validator ELSE u

SubmitOk(c) ==
  /\ At(c, "submit")
  /\ mempool' = mempool \cup {Current(c)}
  /\ flow' = [flow EXCEPT ![c] = FlowAt("subscribe", 0, 1, {})]
  /\ UNCHANGED <<feedVars, pc, rx, captureVars, countVars, verdict>>

SubmitErr(c, client) ==
  /\ At(c, "submit") /\ client \in Candidates(c)
  /\ MayBeAccepted(c)
  /\ \/ flow[c].untried = {client} /\ Fail
     \/ /\ flow[c].untried # {client}
        /\ flow' = [flow EXCEPT ![c].untried = @ \ {client}]
        /\ UNCHANGED pc
  /\ UNCHANGED <<feedVars, rx, captureVars, countVars, verdict>>

\* The flow subscribes once the submission has been answered.
Subscribe(c) ==
  /\ At(c, "subscribe")
  /\ rx' = [rx EXCEPT ![c] = Subscribed]
  /\ flow' = [flow EXCEPT ![c] = FlowAt("wait", 0, 1, {})]
  /\ UNCHANGED <<feedVars, pc, mempool, captureVars, countVars, verdict>>

\* Mutant: the last blob is left out.
MatchedStopsEarly(k) ==
  IF k + 1 >= per_channel_blob_target THEN FlowAt("done", k, 1, {})
  ELSE FlowAt("publish", k + 1, 1, Executor)

\* The operation waited for was found: on to the next blob, if any.
Matched(k) ==
  IF k = per_channel_blob_target THEN FlowAt("done", k, 1, {})
  ELSE FlowAt("publish", k + 1, 1, Executor)

\* Mutant: only a record that matches is taken from the channel.
FlowRecvPeeks(c) ==
  /\ At(c, "wait") /\ Behind(rx[c]) \in 1 .. Capacity
  /\ Current(c) \in Content(published[rx[c].next + 1])
  /\ rx' = [rx EXCEPT ![c] = Advanced(@)]
  /\ flow' = [flow EXCEPT ![c] = Matched(flow[c].k)]
  /\ UNCHANGED <<feedVars, pc, mempool, captureVars, countVars, verdict>>

\* wait_for_inscription, wait_for_blob_with_parent
FlowRecv(c) ==
  /\ At(c, "wait") /\ Behind(rx[c]) \in 1 .. Capacity
  /\ rx' = [rx EXCEPT ![c] = Advanced(@)]
  /\ flow' = IF Current(c) \in Content(published[rx[c].next + 1])
               THEN [flow EXCEPT ![c] = Matched(flow[c].k)] ELSE flow
  /\ UNCHANGED <<feedVars, pc, mempool, captureVars, countVars, verdict>>

FlowLagged(c) ==
  /\ At(c, "wait") /\ Behind(rx[c]) > Capacity
  /\ rx' = [rx EXCEPT ![c] = Lagging(@)]
  /\ UNCHANGED <<feedVars, pc, mempool, flow, captureVars, countVars, verdict>>

\* Mutant: the flow takes a new receiver for each wait.
PublishOkResubscribes(c) ==
  /\ At(c, "publish")
  /\ mempool' = mempool \cup {Current(c)}
  /\ flow' = [flow EXCEPT ![c] = FlowAt("wait", flow[c].k, 1, {})]
  /\ rx' = [rx EXCEPT ![c] = Subscribed]
  /\ UNCHANGED <<feedVars, pc, captureVars, countVars, verdict>>

\* publish_blob: every executor is asked, PUBLISH_RETRIES times.
PublishOk(c) ==
  /\ At(c, "publish")
  /\ mempool' = mempool \cup {Current(c)}
  /\ flow' = [flow EXCEPT ![c] = FlowAt("wait", flow[c].k, 1, {})]
  /\ UNCHANGED <<feedVars, pc, rx, captureVars, countVars, verdict>>

PublishErr(c, executor) ==
  /\ At(c, "publish") /\ executor \in flow[c].untried
  /\ MayBeAccepted(c)
  /\ \/ /\ flow[c].untried # {executor}
        /\ flow' = [flow EXCEPT ![c].untried = @ \ {executor}]
        /\ UNCHANGED pc
     \/ /\ flow[c].untried = {executor} /\ flow[c].attempt < PUBLISH_RETRIES
        /\ flow' = [flow EXCEPT ![c].at = "backoff"]
        /\ UNCHANGED pc
     \/ flow[c].untried = {executor} /\ flow[c].attempt = PUBLISH_RETRIES /\ Fail
  /\ UNCHANGED <<feedVars, rx, captureVars, countVars, verdict>>

Retry(c) ==
  /\ At(c, "backoff")
  /\ flow' = [flow EXCEPT ![c] = FlowAt("publish", flow[c].k, flow[c].attempt + 1, Executor)]
  /\ UNCHANGED <<feedVars, pc, mempool, rx, captureVars, countVars, verdict>>

------------------------------------------------------------------------------
(* The end of the run.                                                     *)

\* The runner's timer fires, or all flows are done.  Requests of aborted
\* flows may still be carried out.
RunEnds ==
  /\ pc = "run"
  /\ pc' = "cooldown"
  /\ \E ops \in SUBSET {Current(c) : c \in {d \in Channel : flow[d].at \in {"submit", "publish"}}} :
       mempool' = mempool \cup ops
  /\ UNCHANGED <<feedVars, flow, rx, captureVars, countVars, verdict>>

\* The values of a map over the channels, added up.
Total(counts) ==
  LET sum[n \in 0 .. planned_channel_count] == IF n = 0 THEN 0 ELSE sum[n - 1] + counts[n]
  IN sum[planned_channel_count]

TotalBlobs == Total(blobs)

Evaluate ==
  /\ pc = "cooldown"
  /\ pc' = "over"
  /\ verdict' =
       IF Cardinality(inscriptions) < minimum_required(planned_channel_count)
         THEN "missing_inscriptions"
       ELSE IF TotalBlobs < minimum_required(BlobRate * Max({run_blocks, 1}))
         THEN "missing_blobs"
       ELSE "ok"
  /\ UNCHANGED <<feedVars, flowVars, captureVars, countVars>>

------------------------------------------------------------------------------
FlowStep(c) ==
  \/ SubmitOk(c) \/ Subscribe(c) \/ FlowRecv(c) \/ FlowLagged(c)
  \/ PublishOk(c) \/ Retry(c)

Next ==
  \/ \E b \in Block : Publish(b)
  \/ StartCapture \/ CaptureRecv \/ CaptureLagged
  \/ CountBlock \/ CounterLagged \/ CounterTimer
  \/ \E c \in Channel : FlowStep(c) \/ \E x \in Client : SubmitErr(c, x) \/ PublishErr(c, x)
  \/ RunEnds \/ Evaluate

Spec == Init /\ [][Next]_vars

\* A flow reads what is in its receiver.  The nodes promise nothing.
FairSpec == Spec /\ \A c \in Channel : WF_vars(FlowRecv(c)) /\ WF_vars(FlowLagged(c))

------------------------------------------------------------------------------
(* Properties.                                                             *)

\* Type invariant of the flows and the expectation's tasks.
TypeOK ==
  /\ published \in Seq(Block \ {Genesis})
  /\ included \in [Block -> SUBSET Op] /\ mempool \subseteq Op
  /\ pc \in {"capture", "run", "cooldown", "over", "failed"}
  /\ flow \in [Channel -> [at : {"submit", "subscribe", "wait", "publish", "backoff", "done"},
                           k : 0 .. per_channel_blob_target,
                           attempt : 1 .. PUBLISH_RETRIES, untried : SUBSET Client]]
  /\ rx \in [Channel -> [from : Nat, next : 0 .. Len(published), skipped : Nat]]
  /\ capture \in [from : Nat, next : 0 .. Len(published), skipped : Nat]
  /\ inscriptions \subseteq Channel /\ blobs \in [Channel -> Nat]
  /\ counter \in [next : 0 .. Len(published), on : BOOLEAN] /\ run_blocks \in Nat
  /\ verdict \in {"none", "ok", "missing_inscriptions", "missing_blobs"}

\* A flow that waits for an operation it will not be shown again has lost
\* records, or waits for an inscription that was in a block before it
\* subscribed; a blob is never missed because it was published, retried or
\* included while the flow was not reading.
MissedOnlyByLag ==
  \A c \in Channel, i \in 1 .. Len(published) :
    flow[c].at = "wait" /\ i <= rx[c].next /\ Current(c) \in Content(published[i]) =>
      rx[c].skipped > 0 \/ (flow[c].k = 0 /\ i <= rx[c].from)

\* A blob reaches the nodes only when its parent is in a published block,
\* whatever was retried.
BlobsAfterParents ==
  \A o \in mempool :
    o[2] > 0 => \E i \in 1 .. Len(published) : <<o[1], o[2] - 1>> \in Content(published[i])

\* A flow follows the chain: nothing but a lag, or a block before its
\* subscription, hides an operation from it, and it sends no blob ahead of
\* its parent.
FlowsFollowChain == MissedOnlyByLag /\ BlobsAfterParents

\* The operations in the first n blocks of the feed, with their positions,
\* and the blobs of a channel among them.
Seen(n) == {p \in (1 .. n) \X Op : p[2] \in Content(published[p[1]])}
BlobsSeen(c, n) == {p \in Seen(n) : p[2][1] = c /\ p[2][2] > 0}

\* Unless it lagged, the capture holds exactly the inscriptions and the blob
\* operations of the blocks up to its position.
CaptureIsExact ==
  capture.skipped = 0 =>
    /\ inscriptions = {c \in Channel : \E p \in Seen(capture.next) : p[2] = <<c, 0>>}
    /\ \A c \in Channel : blobs[c] = Cardinality(BlobsSeen(c, capture.next))

\* A workload whose flows all finish does enough: if the capture has seen all
\* they saw, blobs are missing only when the chain made over a quarter more
\* blocks than the run's metrics expected.
FinishedIsEnough ==
  /\ verdict \in {"missing_blobs", "missing_inscriptions"}
  /\ capture.skipped = 0
  /\ \A c \in Channel : flow[c].at = "done" /\ rx[c].next <= capture.next
  => verdict = "missing_blobs" /\ 4 * run_blocks > 5 * ExpectedBlocks

Ahead(c) == \E i \in rx[c].next + 1 .. Len(published) : Current(c) \in Content(published[i])

\* A flow moves on when the operation it waits for is in its receiver,
\* unless the run ends or the receiver loses records first.
Delivered ==
  \A c \in Channel, k \in 0 .. per_channel_blob_target :
    (At(c, "wait") /\ flow[c].k = k /\ Ahead(c)) ~>
      (flow[c].k # k \/ flow[c].at = "done" \/ rx[c].skipped > 0 \/ pc # "run")
==============================================================================
