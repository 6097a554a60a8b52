--------------------------- MODULE DaWorkloadProofs --------------------------
(***************************************************************************)
(* Proofs about the data availability workload and its expectation, for    *)
(* every block tree, plan, number of clients and retries and capacity of   *)
(* the feed's channel.                                                     *)
(***************************************************************************)
EXTENDS DaWorkload, FiniteSetTheorems, SequenceTheorems, WellFoundedInduction, TLAPS

\* The i-th block of the feed holds operation o.
Holds(i, o) == o \in Content(published[i])

\* The blocks of the feed stand on published blocks or on genesis; blocks
\* hold what the nodes accepted.
TreeInv ==
  /\ \A i \in 1 .. Len(published) : Parent[published[i]] \in Range(published) \cup {Genesis}
  /\ \A b \in Block : included[b] \subseteq mempool

\* A flow is at its inscription until that was answered, backs off only from
\* an attempt that is not the last, and is done after its last blob.
StageInv(c) ==
  /\ flow[c].at \in {"submit", "subscribe"} => flow[c].k = 0
  /\ flow[c].at = "backoff" => flow[c].attempt < PUBLISH_RETRIES
  /\ flow[c].at = "done" => flow[c].k = per_channel_blob_target

\* The flow is past the k-th operation of its channel.
Past(c, k) == k < flow[c].k \/ (k = flow[c].k /\ flow[c].at = "done")

\* A flow has read every operation it is past.
ReadInv(c) ==
  \A k \in 0 .. per_channel_blob_target :
    Past(c, k) => \E i \in 1 .. rx[c].next : Holds(i, <<c, k>>)

\* Before it waits for a blob, too, a flow that did not lag has not read past
\* a block with that blob, sent in an attempt it took for a failure.
UnreadInv(c) ==
  \A i \in 1 .. rx[c].next :
    flow[c].at \in {"publish", "backoff", "wait"} /\ Holds(i, Current(c)) =>
      rx[c].skipped > 0 \/ (flow[c].k = 0 /\ flow[c].at = "wait" /\ i <= rx[c].from)

ChannelInv(c) == StageInv(c) /\ ReadInv(c) /\ UnreadInv(c)

\* Nothing is sent ahead of the flow that sends it.
SentInv == \A o \in mempool : o[2] <= flow[o[1]].k

\* Before the capture starts nothing happens that it could miss.
BeforeCapture ==
  pc = "capture" =>
    /\ mempool = {} /\ capture.skipped = 0
    /\ inscriptions = {} /\ \A c \in Channel : blobs[c] = 0

\* The inductive invariant.
IInv ==
  /\ TypeOK /\ TreeInv
  /\ \A c \in Channel : ChannelInv(c)
  /\ SentInv /\ BlobsAfterParents
  /\ BeforeCapture /\ CaptureIsExact

\* When all flows are done and a capture that did not lag has read as far as
\* they have, it holds every inscription and, of every channel, its target
\* of blobs, which together are at least the planned number.
FinishedIsCaptured ==
  /\ capture.skipped = 0
  /\ \A c \in Channel : flow[c].at = "done" /\ rx[c].next <= capture.next
  => /\ inscriptions = Channel
     /\ \A c \in Channel : blobs[c] >= per_channel_blob_target
     /\ planned_channel_count * per_channel_blob_target >= planned_blob_count

\* The types of a flow and of a receiver.
FlowType ==
  [at : {"submit", "subscribe", "wait", "publish", "backoff", "done"},
   k : 0 .. per_channel_blob_target,
   attempt : 1 .. PUBLISH_RETRIES, untried : SUBSET Client]

RxType(n) == [from : Nat, next : 0 .. n, skipped : Nat]

------------------------------------------------------------------------------
(* The plan and its operations.                                            *)

\* Quotients are rounded down.
LEMMA Quotient ==
  ASSUME NEW x \in Nat, NEW m \in Nat \ {0}
  PROVE  /\ x \div m \in Nat
         /\ m * (x \div m) <= x /\ x < m * (x \div m) + m
<1>1. x \div m \in Int /\ x % m \in 0 .. m - 1 /\ x = m * (x \div m) + (x % m)
  OBVIOUS
<1>2. m * (x \div m) \in Int
  BY <1>1
<1>3. x \div m \in Nat
  <2>1. CASE x \div m <= -1
    <3>1. m * (x \div m) <= m * (-1)
      BY <1>1, <2>1
    <3> QED
      BY <1>1, <1>2, <3>1
  <2> QED
    BY <1>1, <2>1
<1> QED
  BY <1>1, <1>2, <1>3

\* Channels and blobs are planned in numbers that suffice.
LEMMA PlanFacts ==
  /\ planned_channel_count \in Nat \ {0} /\ planned_blob_count \in Nat \ {0}
  /\ per_channel_blob_target \in Nat
  /\ planned_channel_count * per_channel_blob_target >= planned_blob_count
<1>1. /\ ChannelRate \in Nat \ {0} /\ BlobRate \in Nat \ {0}
      /\ Headroom \in Nat /\ ExpectedBlocks \in Nat
  BY WorkloadAssumption
<1>2. planned_channel_count \in Nat \ {0}
  <2> DEFINE x == ChannelRate * Headroom + 99
  <2>1. x \in Nat
    BY <1>1
  <2> HIDE DEF x
  <2>2. x \div 100 \in Nat
    BY <2>1, Quotient
  <2> QED
    BY <1>1, <2>2 DEF planned_channel_count, x
<1>3. Max({ExpectedBlocks, 1}) \in Nat \ {0}
  <2>1. \E y \in {ExpectedBlocks, 1} : \A z \in {ExpectedBlocks, 1} : y >= z
    BY <1>1
  <2> DEFINE m == Max({ExpectedBlocks, 1})
  <2>2. m \in {ExpectedBlocks, 1} /\ \A z \in {ExpectedBlocks, 1} : m >= z
    BY <2>1 DEF Max
  <2> QED
    BY <1>1, <2>2
<1>4. planned_blob_count \in Nat \ {0}
  <2> DEFINE m == Max({ExpectedBlocks, 1})
  <2> HIDE DEF m
  <2>1. m \in Nat \ {0} => BlobRate * m \in Nat \ {0}
    BY <1>1
  <2> QED
    BY <1>3, <2>1 DEF m, planned_blob_count
<1>5. /\ per_channel_blob_target \in Nat
      /\ planned_channel_count * per_channel_blob_target >= planned_blob_count
  <2> DEFINE n == planned_blob_count
             m == planned_channel_count
             x == n + m - 1
             q == x \div m
  <2>1. x \in Nat /\ m \in Nat \ {0} /\ n \in Nat
    BY <1>2, <1>4
  <2> HIDE DEF m, n
  <2>2. q \in Nat /\ x < m * q + m
    BY <2>1, Quotient
  <2>3. m * q \in Nat
    BY <2>1, <2>2
  <2> HIDE DEF q
  <2>4. m * q >= n
    BY <2>1, <2>2, <2>3
  <2> QED
    BY <2>2, <2>4 DEF per_channel_blob_target, q, m, n
<1> QED
  BY <1>2, <1>4, <1>5

\* Sets of operations are finite.
LEMMA OpsFinite ==
  ASSUME NEW S \in SUBSET Op
  PROVE  IsFiniteSet(S) /\ Cardinality(S) \in Nat
<1>1. IsFiniteSet(Channel) /\ IsFiniteSet(0 .. per_channel_blob_target)
  BY PlanFacts, FS_Interval DEF Channel
<1>2. IsFiniteSet(Op)
  BY <1>1, FS_Product DEF Op
<1> QED
  BY <1>2, FS_Subset, FS_CardinalityType

\* Sets of operations at positions of the feed are finite.
LEMMA SeenFinite ==
  ASSUME NEW n \in Nat, NEW S \in SUBSET ((1 .. n) \X Op)
  PROVE  IsFiniteSet(S) /\ Cardinality(S) \in Nat
<1>1. IsFiniteSet(1 .. n) /\ IsFiniteSet(Op)
  BY FS_Interval, OpsFinite
<1>2. IsFiniteSet((1 .. n) \X Op)
  BY <1>1, FS_Product
<1> QED
  BY <1>2, FS_Subset, FS_CardinalityType

\* The types of the state, by name.
LEMMA Types ==
  ASSUME TypeOK
  PROVE  /\ published \in Seq(Block \ {Genesis}) /\ Len(published) \in Nat
         /\ flow \in [Channel -> FlowType]
         /\ rx \in [Channel -> RxType(Len(published))]
         /\ capture \in RxType(Len(published))
  BY DEF TypeOK, FlowType, RxType

------------------------------------------------------------------------------
\* The initial states satisfy the inductive invariant.
LEMMA InitInv == Init => IInv
<1> SUFFICES ASSUME Init PROVE IInv
  OBVIOUS
<1>1. published = << >> /\ Len(published) = 0 /\ mempool = {} /\ pc = "capture"
      /\ inscriptions = {} /\ run_blocks = 0 /\ verdict = "none"
  BY DEF Init, Feed!Init
<1>2. per_channel_blob_target \in Nat /\ PUBLISH_RETRIES \in Nat \ {0}
  BY PlanFacts, WorkloadAssumption
<1>3. Subscribed \in RxType(0) /\ Subscribed.skipped = 0 /\ Subscribed.next = 0
  BY <1>1 DEF Subscribed, RxType
<1>4. /\ rx \in [Channel -> RxType(0)] /\ capture \in RxType(0)
      /\ \A c \in Channel : rx[c].next = 0
      /\ capture.skipped = 0 /\ capture.next = 0
  BY <1>3 DEF Init
<1>5. /\ flow \in [Channel -> FlowType]
      /\ \A c \in Channel : flow[c].at = "submit" /\ flow[c].k = 0
  <2>1. FlowAt("submit", 0, 1, Client) \in FlowType
    BY <1>2 DEF FlowAt, FlowType
  <2> QED
    BY <2>1 DEF Init, FlowAt
<1>6. blobs \in [Channel -> Nat] /\ \A c \in Channel : blobs[c] = 0
  BY DEF Init
<1>7. included \in [Block -> SUBSET Op] /\ \A b \in Block : included[b] = {}
  BY DEF Init
<1>8. counter \in [next : 0 .. 0, on : BOOLEAN]
  BY DEF Init
<1>9. TypeOK
  BY <1>1, <1>4, <1>5, <1>6, <1>7, <1>8 DEF TypeOK, FlowType, RxType
<1>10. TreeInv
  BY <1>1, <1>7 DEF TreeInv
<1>11. \A c \in Channel : ChannelInv(c)
  BY <1>4, <1>5, <1>2 DEF ChannelInv, StageInv, ReadInv, UnreadInv, Past
<1>12. SentInv /\ BlobsAfterParents /\ BeforeCapture
  BY <1>1, <1>4, <1>6 DEF SentInv, BlobsAfterParents, BeforeCapture
<1>13. CaptureIsExact
  <2>1. Seen(0) = {} /\ \A c \in Channel : BlobsSeen(c, 0) = {}
    BY DEF Seen, BlobsSeen
  <2> QED
    BY <1>1, <1>4, <1>6, <2>1, FS_EmptySet DEF CaptureIsExact
<1> QED
  BY <1>9, <1>10, <1>11, <1>12, <1>13 DEF IInv
------------------------------------------------------------------------------
(* What a step leaves of the feed.                                         *)

\* The blocks that are in the feed stay where they are and hold what they
\* hold.
FeedGrows ==
  /\ Len(published') \in Nat /\ Len(published) <= Len(published')
  /\ \A i \in 1 .. Len(published) : Content(published[i])' = Content(published[i])

\* A new block changes nothing about the others.
LEMMA PublishFacts ==
  ASSUME IInv, NEW b \in Block, Publish(b)
  PROVE  /\ published' \in Seq(Block \ {Genesis}) /\ Len(published') = Len(published) + 1
         /\ included' \in [Block -> SUBSET Op]
         /\ FeedGrows /\ TreeInv'
<1>1. /\ b # Genesis /\ b \notin Range(published)
      /\ Parent[b] \in Range(published) \cup {Genesis}
      /\ published' = Append(published, b)
  BY DEF Publish, Feed!Publish, Feed!Range, Range
<1>2. PICK ops \in SUBSET (mempool \ included[Parent[b]]) :
         included' = [included EXCEPT ![b] = included[Parent[b]] \cup ops]
  BY DEF Publish, Extensions
<1>3. /\ published \in Seq(Block \ {Genesis}) /\ included \in [Block -> SUBSET Op]
      /\ mempool \subseteq Op
  BY DEF IInv, TypeOK
<1>4. /\ Len(published) \in Nat /\ Len(published') = Len(published) + 1
      /\ published' \in Seq(Block \ {Genesis})
      /\ \A i \in 1 .. Len(published) : published'[i] = published[i]
      /\ published'[Len(published) + 1] = b
      /\ DOMAIN published = 1 .. Len(published)
      /\ DOMAIN published' = 1 .. Len(published) + 1
      /\ \A i \in 1 .. Len(published) : published[i] \in Block \ {Genesis}
  BY <1>1, <1>3
<1>5. Range(published') = Range(published) \cup {b} /\ Range(published) \subseteq Block
  BY <1>4 DEF Range
<1>6. /\ \A c \in Block \ {b} : included'[c] = included[c]
      /\ included'[b] = included[Parent[b]] \cup ops
  BY <1>2, <1>3
<1>7. included' \in [Block -> SUBSET Op]
  <2>1. included[Parent[b]] \cup ops \in SUBSET Op
    BY <1>2, <1>3, TreeAssumption
  <2> QED
    BY <1>2, <1>3, <2>1
<1>8. \A i \in 1 .. Len(published) : Content(published[i])' = Content(published[i])
  <2> SUFFICES ASSUME NEW i \in 1 .. Len(published)
               PROVE  Content(published[i])' = Content(published[i])
    OBVIOUS
  <2> DEFINE c == published[i]
  <2>1. c \in Block /\ c \in Range(published) /\ c # b /\ published'[i] = c
    BY <1>1, <1>4 DEF Range
  <2>2. Parent[c] \in Range(published) \cup {Genesis}
    BY DEF IInv, TreeInv
  <2>3. Parent[c] \in Block /\ Parent[c] # b
    BY <1>1, <1>5, <2>2, TreeAssumption
  <2>4. included'[c] = included[c] /\ included'[Parent[c]] = included[Parent[c]]
    BY <1>6, <2>1, <2>3
  <2> QED
    BY <2>1, <2>4 DEF Content
<1>9. TreeInv'
  <2>1. \A i \in 1 .. Len(published') : Parent[published'[i]] \in Range(published') \cup {Genesis}
    <3> SUFFICES ASSUME NEW i \in 1 .. Len(published')
                 PROVE  Parent[published'[i]] \in Range(published') \cup {Genesis}
      OBVIOUS
    <3>1. CASE i = Len(published) + 1
      BY <1>1, <1>4, <1>5, <3>1
    <3>2. CASE i \in 1 .. Len(published)
      BY <1>4, <1>5, <3>2 DEF IInv, TreeInv
    <3> QED
      BY <1>4, <3>1, <3>2
  <2>2. mempool' = mempool
    BY DEF Publish, flowVars
  <2>3. \A c \in Block : included'[c] \subseteq mempool'
    <3> SUFFICES ASSUME NEW c \in Block PROVE included'[c] \subseteq mempool'
      OBVIOUS
    <3>1. included[c] \subseteq mempool /\ included[Parent[b]] \subseteq mempool
      BY TreeAssumption DEF IInv, TreeInv
    <3> QED
      BY <1>2, <1>6, <2>2, <3>1
  <2> QED
    BY <2>1, <2>3 DEF TreeInv
<1>10. FeedGrows
  BY <1>4, <1>8 DEF FeedGrows
<1> QED
  BY <1>4, <1>7, <1>9, <1>10

\* A step that leaves the feed alone.
LEMMA FeedKept ==
  ASSUME IInv, UNCHANGED feedVars, mempool \subseteq mempool'
  PROVE  FeedGrows /\ TreeInv' /\ published' = published /\ included' = included
<1>1. published' = published /\ included' = included
  BY DEF feedVars
<1>2. FeedGrows
  BY <1>1, Types DEF FeedGrows, Content, IInv
<1>3. TreeInv'
  BY <1>1 DEF IInv, TreeInv
<1> QED
  BY <1>1, <1>2, <1>3

\* A flow that does not move, and whose receiver does not, is as it was.
LEMMA ChannelKept ==
  ASSUME IInv, FeedGrows, NEW c \in Channel,
         flow'[c] = flow[c], rx'[c] = rx[c]
  PROVE  ChannelInv(c)'
<1>1. ChannelInv(c)
  BY DEF IInv
<1>2. rx[c].next \in 0 .. Len(published) /\ Len(published) \in Nat
  BY Types DEF IInv, RxType
<1>3. \A i \in 1 .. rx[c].next : i \in 1 .. Len(published)
  BY <1>2
<1>4. \A i \in 1 .. rx[c].next : \A o : Holds(i, o)' <=> Holds(i, o)
  BY <1>3 DEF FeedGrows, Holds
<1>5. StageInv(c)'
  BY <1>1 DEF ChannelInv, StageInv
<1>6. ReadInv(c)'
  <2>1. \A k \in 0 .. per_channel_blob_target : Past(c, k)' <=> Past(c, k)
    BY DEF Past
  <2> QED
    BY <1>1, <1>4, <2>1 DEF ChannelInv, ReadInv
<1>7. UnreadInv(c)'
  <2>1. Current(c)' = Current(c)
    BY DEF Current
  <2> QED
    BY <1>1, <1>4, <2>1 DEF ChannelInv, UnreadInv
<1> QED
  BY <1>5, <1>6, <1>7 DEF ChannelInv

\* The capture's view of the blocks it read.
LEMMA SeenKept ==
  ASSUME IInv, FeedGrows, NEW n \in 0 .. Len(published)
  PROVE  /\ Seen(n)' = Seen(n)
         /\ \A c \in Channel : BlobsSeen(c, n)' = BlobsSeen(c, n)
<1>1. \A i \in 1 .. n : Content(published[i])' = Content(published[i])
  BY Types DEF FeedGrows, IInv
<1>2. Seen(n)' = Seen(n)
  BY <1>1 DEF Seen
<1> QED
  BY <1>2 DEF BlobsSeen

\* A capture that does not move is as exact as it was.
LEMMA CaptureKept ==
  ASSUME IInv, FeedGrows, UNCHANGED captureVars
  PROVE  CaptureIsExact'
<1>1. capture' = capture /\ inscriptions' = inscriptions /\ blobs' = blobs
  BY DEF captureVars
<1>2. capture.next \in 0 .. Len(published)
  BY Types DEF IInv, RxType
<1>3. /\ Seen(capture.next)' = Seen(capture.next)
      /\ \A c \in Channel : BlobsSeen(c, capture.next)' = BlobsSeen(c, capture.next)
  <2> DEFINE n == capture.next
  <2>1. n' = n
    BY <1>1
  <2> HIDE DEF n
  <2> QED
    BY <1>1, <1>2, <2>1, SeenKept DEF n, Seen, BlobsSeen
<1> QED
  BY <1>1, <1>3 DEF IInv, CaptureIsExact

\* What was sent rests on the same blocks.
LEMMA SentKept ==
  ASSUME IInv, FeedGrows, mempool' = mempool, flow' = flow
  PROVE  SentInv' /\ BlobsAfterParents'
<1>1. SentInv'
  BY DEF IInv, SentInv
<1>2. BlobsAfterParents'
  <2> SUFFICES ASSUME NEW o \in mempool, o[2] > 0
               PROVE  \E i \in 1 .. Len(published') : <<o[1], o[2] - 1>> \in Content(published[i])'
    BY DEF BlobsAfterParents
  <2>1. PICK i \in 1 .. Len(published) : <<o[1], o[2] - 1>> \in Content(published[i])
    BY DEF IInv, BlobsAfterParents
  <2>2. i \in 1 .. Len(published')
    BY Types DEF FeedGrows, IInv
  <2> QED
    BY <2>1, <2>2 DEF FeedGrows
<1> QED
  BY <1>1, <1>2

\* A new block keeps the invariant.
LEMMA PublishStep ==
  ASSUME IInv, NEW b \in Block, Publish(b)
  PROVE  IInv'
<1>1. UNCHANGED <<pc, flowVars, captureVars, countVars, verdict>>
  BY DEF Publish
<1>2. /\ mempool' = mempool /\ flow' = flow /\ rx' = rx
      /\ capture' = capture /\ inscriptions' = inscriptions /\ blobs' = blobs
      /\ counter' = counter /\ run_blocks' = run_blocks
      /\ pc' = pc /\ verdict' = verdict
  BY <1>1 DEF flowVars, captureVars, countVars
<1>3. /\ published' \in Seq(Block \ {Genesis}) /\ Len(published') = Len(published) + 1
      /\ included' \in [Block -> SUBSET Op] /\ FeedGrows /\ TreeInv'
  BY PublishFacts
<1>4. TypeOK'
  <2>1. Len(published) \in Nat /\ 0 .. Len(published) \subseteq 0 .. Len(published')
    BY <1>3, Types DEF IInv
  <2>2. RxType(Len(published)) \subseteq RxType(Len(published'))
    BY <2>1 DEF RxType
  <2>3. /\ rx' \in [Channel -> RxType(Len(published'))]
        /\ capture' \in RxType(Len(published'))
    BY <1>2, <2>2, Types DEF IInv
  <2>4. counter' \in [next : 0 .. Len(published'), on : BOOLEAN]
    BY <1>2, <2>1 DEF IInv, TypeOK
  <2> QED
    BY <1>2, <1>3, <2>3, <2>4 DEF IInv, TypeOK, RxType
<1>5. \A c \in Channel : ChannelInv(c)'
  BY <1>2, <1>3, ChannelKept
<1>6. SentInv' /\ BlobsAfterParents'
  BY <1>2, <1>3, SentKept
<1>7. CaptureIsExact'
  BY <1>1, <1>3, CaptureKept
<1>8. BeforeCapture'
  BY <1>2 DEF IInv, BeforeCapture
<1> QED
  BY <1>3, <1>4, <1>5, <1>6, <1>7, <1>8 DEF IInv
------------------------------------------------------------------------------
(* The expectation's tasks.                                                *)

\* Operations of one more block.
LEMMA OneMoreBlock ==
  ASSUME IInv, NEW n \in Nat, n + 1 <= Len(published)
  PROVE  /\ Content(published[n + 1]) \subseteq Op
         /\ Seen(n + 1) = Seen(n) \cup ({n + 1} \X Content(published[n + 1]))
         /\ \A c \in Channel :
              Cardinality(BlobsSeen(c, n + 1)) =
                Cardinality(BlobsSeen(c, n)) +
                Cardinality({o \in Content(published[n + 1]) : o[1] = c /\ o[2] > 0})
<1> DEFINE ops == Content(published[n + 1])
<1>1. published[n + 1] \in Block
  BY Types DEF IInv
<1>2. ops \subseteq Op
  BY <1>1 DEF Content, IInv, TypeOK
<1>3. Seen(n + 1) = Seen(n) \cup ({n + 1} \X ops)
  <2>1. ASSUME NEW p \in Seen(n + 1)
        PROVE  p \in Seen(n) \cup ({n + 1} \X ops)
    <3>1. PICK i \in 1 .. n + 1, o \in Op : p = <<i, o>> /\ o \in Content(published[i])
      BY <2>1 DEF Seen
    <3>2. CASE i = n + 1
      BY <3>1, <3>2
    <3>3. CASE i \in 1 .. n
      BY <3>1, <3>3 DEF Seen
    <3> QED
      BY <3>2, <3>3
  <2>2. ASSUME NEW p \in Seen(n) PROVE p \in Seen(n + 1)
    BY <2>2 DEF Seen
  <2>3. ASSUME NEW p \in {n + 1} \X ops PROVE p \in Seen(n + 1)
    BY <1>2, <2>3 DEF Seen
  <2> QED
    BY <2>1, <2>2, <2>3
<1>4. ASSUME NEW c \in Channel
      PROVE  Cardinality(BlobsSeen(c, n + 1)) =
               Cardinality(BlobsSeen(c, n)) + Cardinality({o \in ops : o[1] = c /\ o[2] > 0})
  <2> DEFINE X == {o \in ops : o[1] = c /\ o[2] > 0}
             A == BlobsSeen(c, n)
             B == {n + 1} \X X
  <2>1. BlobsSeen(c, n + 1) = A \cup B
    <3> HIDE DEF ops
    <3> QED
      BY <1>3 DEF BlobsSeen
  <2>2. A \cap B = {}
    BY DEF BlobsSeen, Seen
  <2>3. A \subseteq (1 .. n) \X Op /\ X \subseteq Op
    BY <1>2 DEF BlobsSeen, Seen
  <2>4. IsFiniteSet(A) /\ Cardinality(A) \in Nat
    BY <2>3, SeenFinite
  <2>5. IsFiniteSet(X) /\ Cardinality(X) \in Nat
    BY <2>3, OpsFinite
  <2> HIDE DEF A, X
  <2>6. IsFiniteSet({n + 1}) /\ Cardinality({n + 1}) = 1
    BY FS_Singleton
  <2>7. IsFiniteSet(B) /\ Cardinality(B) = 1 * Cardinality(X)
    BY <2>5, <2>6, FS_Product
  <2> HIDE DEF B
  <2>8. Cardinality(A \cup B) = Cardinality(A) + Cardinality(B) - Cardinality(A \cap B)
    BY <2>4, <2>7, FS_Union
  <2>9. Cardinality(A \cap B) = 0
    BY <2>2, FS_EmptySet
  <2>10. Cardinality(BlobsSeen(c, n + 1)) = Cardinality(A) + Cardinality(X)
    <3>1. Cardinality(BlobsSeen(c, n + 1)) = Cardinality(A \cup B)
      BY <2>1, Zenon
    <3>2. Cardinality(A \cup B) = Cardinality(A) + Cardinality(X)
      BY <2>4, <2>5, <2>7, <2>8, <2>9
    <3> QED
      BY <3>1, <3>2, Zenon
  <2> QED
    BY <2>10 DEF A, X
<1> QED
  BY <1>2, <1>3, <1>4

\* capture_block adds exactly what the next block of the feed holds.
LEMMA CaptureRecvExact ==
  ASSUME IInv, CaptureRecv
  PROVE  /\ capture' \in RxType(Len(published))
         /\ inscriptions' \subseteq Channel /\ blobs' \in [Channel -> Nat]
         /\ CaptureIsExact'
<1> DEFINE n == capture.next
           ops == Content(published[n + 1])
           X(c) == {o \in ops : o[1] = c /\ o[2] > 0}
<1>1. capture \in RxType(Len(published)) /\ Len(published) \in Nat
  BY Types DEF IInv
<1>2. n \in Nat /\ n + 1 <= Len(published)
  BY <1>1, WorkloadAssumption DEF CaptureRecv, Behind, RxType
<1>3. capture' = [capture EXCEPT !.next = n + 1]
  BY DEF CaptureRecv, Advanced
<1>4. capture'.next = n + 1 /\ capture'.skipped = capture.skipped
      /\ capture' \in RxType(Len(published))
  BY <1>1, <1>2, <1>3 DEF RxType
<1>5. /\ inscriptions' = inscriptions \cup {c \in Channel : <<c, 0>> \in ops}
      /\ blobs' = [c \in Channel |-> blobs[c] + Cardinality(X(c))]
  BY DEF CaptureRecv, capture_block
<1>6. /\ ops \subseteq Op
      /\ Seen(n + 1) = Seen(n) \cup ({n + 1} \X ops)
      /\ \A c \in Channel :
           Cardinality(BlobsSeen(c, n + 1)) = Cardinality(BlobsSeen(c, n)) + Cardinality(X(c))
  BY <1>2, OneMoreBlock
<1>7. \A c \in Channel : Cardinality(X(c)) \in Nat
  BY <1>6, OpsFinite
<1>8. blobs' \in [Channel -> Nat] /\ inscriptions' \subseteq Channel
  <2>1. blobs \in [Channel -> Nat] /\ inscriptions \subseteq Channel
    BY DEF IInv, TypeOK
  <2> HIDE DEF X
  <2>2. \A c \in Channel : blobs[c] + Cardinality(X(c)) \in Nat
    BY <1>7, <2>1
  <2>3. blobs' \in [Channel -> Nat]
    BY <1>5, <2>2
  <2> QED
    BY <1>5, <2>1, <2>3
<1>9. published' = published /\ included' = included
  BY DEF CaptureRecv, feedVars
<1>10. Seen(capture.next)' = Seen(n + 1)
  BY <1>4, <1>9 DEF Seen, Content
<1>11. \A c \in Channel : BlobsSeen(c, capture.next)' = BlobsSeen(c, n + 1)
  BY <1>10 DEF BlobsSeen
<1>12. CaptureIsExact'
  <2> SUFFICES ASSUME capture.skipped = 0
               PROVE  /\ inscriptions' = {c \in Channel : \E p \in Seen(n + 1) : p[2] = <<c, 0>>}
                      /\ \A c \in Channel : blobs'[c] = Cardinality(BlobsSeen(c, n + 1))
    BY <1>4, <1>10, <1>11 DEF CaptureIsExact
  <2>1. /\ inscriptions = {c \in Channel : \E p \in Seen(n) : p[2] = <<c, 0>>}
        /\ \A c \in Channel : blobs[c] = Cardinality(BlobsSeen(c, n))
    BY DEF IInv, CaptureIsExact
  <2>2. \A c \in Channel : blobs'[c] = Cardinality(BlobsSeen(c, n + 1))
    BY <1>5, <1>6, <2>1
  <2>3. inscriptions' = {c \in Channel : \E p \in Seen(n + 1) : p[2] = <<c, 0>>}
    <3>1. \A c \in Channel : <<c, 0>> \in ops <=> \E p \in {n + 1} \X ops : p[2] = <<c, 0>>
      <4> HIDE DEF ops, n
      <4> SUFFICES ASSUME NEW c \in Channel
                   PROVE  <<c, 0>> \in ops <=> \E p \in {n + 1} \X ops : p[2] = <<c, 0>>
        OBVIOUS
      <4>1. ASSUME <<c, 0>> \in ops PROVE \E p \in {n + 1} \X ops : p[2] = <<c, 0>>
        <5> DEFINE p == <<n + 1, <<c, 0>>>>
        <5>1. p \in {n + 1} \X ops /\ p[2] = <<c, 0>>
          BY <4>1
        <5> QED
          BY <5>1
      <4>2. ASSUME NEW p \in {n + 1} \X ops, p[2] = <<c, 0>> PROVE <<c, 0>> \in ops
        <5>1. p[2] \in ops
          OBVIOUS
        <5> QED
          BY <4>2, <5>1
      <4> QED
        BY <4>1, <4>2
    <3> HIDE DEF ops, n
    <3> QED
      BY <1>5, <1>6, <2>1, <3>1
  <2> QED
    BY <2>2, <2>3
<1> QED
  BY <1>4, <1>8, <1>12

\* The capture and the counter leave flows and feed alone.
LEMMA TasksKeep ==
  ASSUME IInv, UNCHANGED <<feedVars, flowVars>>,
         pc' \in {"run", "cooldown", "over"},
         capture' \in RxType(Len(published)),
         inscriptions' \subseteq Channel, blobs' \in [Channel -> Nat],
         CaptureIsExact',
         counter' \in [next : 0 .. Len(published), on : BOOLEAN], run_blocks' \in Nat,
         verdict' \in {"none", "ok", "missing_inscriptions", "missing_blobs"}
  PROVE  IInv'
<1>1. mempool' = mempool /\ flow' = flow /\ rx' = rx
  BY DEF flowVars
<1>2. FeedGrows /\ TreeInv' /\ published' = published /\ included' = included
  BY <1>1, FeedKept
<1>3. TypeOK'
  BY <1>1, <1>2 DEF IInv, TypeOK, RxType
<1>4. \A c \in Channel : ChannelInv(c)'
  BY <1>1, <1>2, ChannelKept
<1>5. SentInv' /\ BlobsAfterParents'
  BY <1>1, <1>2, SentKept
<1>6. BeforeCapture'
  BY DEF BeforeCapture
<1> QED
  BY <1>2, <1>3, <1>4, <1>5, <1>6 DEF IInv

\* A lagging receiver goes to the oldest record held, and knows it lost some.
LEMMA LaggingFacts ==
  ASSUME NEW r \in RxType(Len(published)), Len(published) \in Nat, Behind(r) > Capacity
  PROVE  /\ Lagging(r) \in RxType(Len(published)) /\ Lagging(r).skipped > 0
         /\ Lagging(r).next >= r.next /\ Lagging(r).from = r.from
<1>1. /\ r.from \in Nat /\ r.next \in 0 .. Len(published) /\ r.skipped \in Nat
      /\ Capacity \in Nat \ {0} /\ Len(published) - r.next > Capacity
  BY WorkloadAssumption DEF RxType, Behind
<1>2. /\ Lagging(r) = [r EXCEPT !.next = Len(published) - Capacity,
                               !.skipped = r.skipped + (Len(published) - r.next) - Capacity]
  BY DEF Lagging, Behind
<1>3. /\ Len(published) - Capacity \in 0 .. Len(published)
      /\ Len(published) - Capacity >= r.next
      /\ r.skipped + (Len(published) - r.next) - Capacity \in Nat \ {0}
  BY <1>1
<1>4. /\ Lagging(r) \in RxType(Len(published))
      /\ Lagging(r).skipped = r.skipped + (Len(published) - r.next) - Capacity
      /\ Lagging(r).next = Len(published) - Capacity /\ Lagging(r).from = r.from
  BY <1>2, <1>3 DEF RxType
<1> QED
  BY <1>3, <1>4
\* The capturing and the counting task, and the verdict.
LEMMA TaskStep ==
  ASSUME IInv,
         \/ StartCapture \/ CaptureRecv \/ CaptureLagged
         \/ CountBlock \/ CounterLagged \/ CounterTimer \/ Evaluate
  PROVE  IInv'
<1>1. UNCHANGED <<feedVars, flowVars>> /\ mempool' = mempool
  BY DEF StartCapture, CaptureRecv, CaptureLagged, CountBlock, CounterLagged,
         CounterTimer, Evaluate, flowVars
<1>2. FeedGrows /\ published' = published /\ included' = included
  BY <1>1, FeedKept
<1>3. /\ Len(published) \in Nat /\ capture \in RxType(Len(published))
      /\ inscriptions \subseteq Channel /\ blobs \in [Channel -> Nat]
      /\ counter \in [next : 0 .. Len(published), on : BOOLEAN] /\ run_blocks \in Nat
      /\ verdict \in {"none", "ok", "missing_inscriptions", "missing_blobs"}
      /\ pc \in {"capture", "run", "cooldown", "over", "failed"}
      /\ Capacity \in Nat \ {0}
  BY Types, WorkloadAssumption DEF IInv, TypeOK
<1>4. CASE StartCapture
  <2>1. /\ pc = "capture" /\ pc' = "run" /\ capture' = Subscribed
        /\ counter' = [next |-> Len(published), on |-> TRUE]
        /\ inscriptions' = inscriptions /\ blobs' = blobs
        /\ run_blocks' = run_blocks /\ verdict' = verdict
    BY <1>4 DEF StartCapture
  <2>2. /\ capture' \in RxType(Len(published)) /\ capture'.next = Len(published)
        /\ counter' \in [next : 0 .. Len(published), on : BOOLEAN]
    BY <1>3, <2>1 DEF Subscribed, RxType
  <2>3. mempool = {} /\ inscriptions = {} /\ \A c \in Channel : blobs[c] = 0
    BY <2>1 DEF IInv, BeforeCapture
  <2>4. \A i \in 1 .. Len(published) : Content(published[i]) = {}
    <3> SUFFICES ASSUME NEW i \in 1 .. Len(published) PROVE Content(published[i]) = {}
      OBVIOUS
    <3>1. published[i] \in Block
      BY Types DEF IInv
    <3>2. included[published[i]] \subseteq mempool
      BY <3>1 DEF IInv, TreeInv
    <3> QED
      BY <2>3, <3>2 DEF Content
  <2>5. Seen(Len(published)) = {}
    BY <2>4 DEF Seen
  <2>6. Seen(capture.next)' = {}
    BY <1>2, <2>2, <2>5 DEF Seen, Content
  <2>7. \A c \in Channel : BlobsSeen(c, capture.next)' = {}
    BY <2>6 DEF BlobsSeen
  <2>8. CaptureIsExact'
    BY <2>1, <2>3, <2>6, <2>7, FS_EmptySet DEF CaptureIsExact
  <2> QED
    BY <1>1, <1>3, <2>1, <2>2, <2>8, TasksKeep
<1>5. CASE CaptureRecv
  <2>1. /\ pc' \in {"run", "cooldown"} /\ counter' = counter
        /\ run_blocks' = run_blocks /\ verdict' = verdict
    BY <1>5 DEF CaptureRecv, Listening, countVars
  <2> QED
    BY <1>1, <1>3, <1>5, <2>1, CaptureRecvExact, TasksKeep
<1>6. CASE CaptureLagged
  <2>1. /\ pc' \in {"run", "cooldown"} /\ counter' = counter
        /\ run_blocks' = run_blocks /\ verdict' = verdict
        /\ inscriptions' = inscriptions /\ blobs' = blobs
        /\ capture' = Lagging(capture) /\ Behind(capture) > Capacity
    BY <1>6 DEF CaptureLagged, Listening, countVars
  <2>2. capture' \in RxType(Len(published)) /\ capture'.skipped > 0
    BY <1>3, <2>1, LaggingFacts
  <2>3. CaptureIsExact'
    BY <2>2 DEF CaptureIsExact
  <2> QED
    BY <1>1, <1>3, <2>1, <2>2, <2>3, TasksKeep
<1>7. CASE CountBlock \/ CounterLagged \/ CounterTimer
  <2>1. /\ pc' \in {"run", "cooldown"} /\ verdict' = verdict /\ UNCHANGED captureVars
    BY <1>7 DEF CountBlock, CounterLagged, CounterTimer, Listening
  <2>2. capture' = capture /\ inscriptions' = inscriptions /\ blobs' = blobs
    BY <2>1 DEF captureVars
  <2>3. run_blocks' \in Nat /\ counter' \in [next : 0 .. Len(published), on : BOOLEAN]
    <3>1. CASE CountBlock
      <4>1. /\ counter' = [counter EXCEPT !.next = counter.next + 1]
            /\ run_blocks' = run_blocks + 1 /\ Len(published) - counter.next >= 1
        BY <1>3, <3>1 DEF CountBlock, Advanced, Behind
      <4> DEFINE m == counter.next + 1
      <4>2. m \in 0 .. Len(published) /\ run_blocks' \in Nat
        BY <1>3, <4>1
      <4>3. counter' = [counter EXCEPT !.next = m]
        BY <4>1
      <4> HIDE DEF m
      <4>4. counter' \in [next : 0 .. Len(published), on : BOOLEAN]
        BY <1>3, <4>2, <4>3
      <4> QED
        BY <4>2, <4>4
    <3>2. CASE CounterLagged
      <4>1. /\ counter' = [counter EXCEPT !.next = Len(published) - Capacity]
            /\ run_blocks' = run_blocks /\ Len(published) - counter.next > Capacity
        BY <3>2 DEF CounterLagged, Behind
      <4>2. Len(published) - Capacity \in 0 .. Len(published)
        BY <1>3, <4>1
      <4> QED
        BY <1>3, <4>1, <4>2
    <3>3. CASE CounterTimer
      BY <1>3, <3>3 DEF CounterTimer
    <3> QED
      BY <1>7, <3>1, <3>2, <3>3
  <2>4. CaptureIsExact'
    BY <1>2, <2>1, CaptureKept
  <2> QED
    BY <1>1, <1>3, <2>1, <2>2, <2>3, <2>4, TasksKeep
<1>8. CASE Evaluate
  <2>1. /\ pc' = "over" /\ UNCHANGED <<captureVars, countVars>>
        /\ verdict' \in {"ok", "missing_inscriptions", "missing_blobs"}
    BY <1>8 DEF Evaluate
  <2>2. /\ capture' = capture /\ inscriptions' = inscriptions /\ blobs' = blobs
        /\ counter' = counter /\ run_blocks' = run_blocks
    BY <2>1 DEF captureVars, countVars
  <2>3. CaptureIsExact'
    BY <1>2, <2>1, CaptureKept
  <2> QED
    BY <1>1, <1>3, <2>1, <2>2, <2>3, TasksKeep
<1> QED
  BY <1>4, <1>5, <1>6, <1>7, <1>8

------------------------------------------------------------------------------
(* The flows.                                                              *)

\* Requests carried out for flows that do not go back: nothing is ahead of
\* its flow, and no blob ahead of its parent.
LEMMA SentGrows ==
  ASSUME IInv, UNCHANGED feedVars,
         \A o \in mempool' : o \in mempool \/ \E c \in Channel : o = Current(c),
         \A c \in Channel : flow'[c].k \in Nat /\ flow[c].k <= flow'[c].k
  PROVE  SentInv' /\ BlobsAfterParents'
<1>1. published' = published /\ included' = included
  BY DEF feedVars
<1>2. flow \in [Channel -> FlowType] /\ rx \in [Channel -> RxType(Len(published))]
  BY Types DEF IInv
<1>3. \A c \in Channel : flow[c].k \in 0 .. per_channel_blob_target
  BY <1>2 DEF FlowType
<1>4. mempool \subseteq Channel \X (0 .. per_channel_blob_target)
  BY DEF IInv, TypeOK, Op
<1>5. SentInv'
  <2> SUFFICES ASSUME NEW o \in mempool' PROVE o[2] <= flow'[o[1]].k
    BY DEF SentInv
  <2>1. CASE o \in mempool
    <3>1. o[1] \in Channel /\ o[2] \in 0 .. per_channel_blob_target
      BY <1>4, <2>1
    <3>2. o[2] <= flow[o[1]].k /\ flow[o[1]].k <= flow'[o[1]].k /\ flow'[o[1]].k \in Nat
      BY <2>1, <3>1 DEF IInv, SentInv
    <3> QED
      BY <1>3, <3>1, <3>2, PlanFacts
  <2>2. CASE \E c \in Channel : o = Current(c)
    <3>1. PICK c \in Channel : o = <<c, flow[c].k>>
      BY <2>2 DEF Current
    <3> QED
      BY <3>1
  <2> QED
    BY <2>1, <2>2
<1>6. BlobsAfterParents'
  <2> SUFFICES ASSUME NEW o \in mempool', o[2] > 0
               PROVE  \E i \in 1 .. Len(published) : <<o[1], o[2] - 1>> \in Content(published[i])
    BY <1>1 DEF BlobsAfterParents, Content
  <2>1. CASE o \in mempool
    BY <2>1 DEF IInv, BlobsAfterParents
  <2>2. CASE \E c \in Channel : o = Current(c)
    <3>1. PICK c \in Channel : o = <<c, flow[c].k>>
      BY <2>2 DEF Current
    <3> DEFINE k == flow[c].k - 1
    <3>2. k \in 0 .. per_channel_blob_target /\ k < flow[c].k
      BY <1>3, <3>1, PlanFacts
    <3>3. \E i \in 1 .. rx[c].next : Holds(i, <<c, k>>)
      BY <3>2 DEF IInv, ChannelInv, ReadInv, Past
    <3>4. 1 .. rx[c].next \subseteq 1 .. Len(published)
      BY <1>2, Types DEF RxType, IInv
    <3>5. <<o[1], o[2] - 1>> = <<c, k>>
      BY <3>1
    <3> QED
      BY <3>3, <3>4, <3>5 DEF Holds
  <2> QED
    BY <2>1, <2>2
<1> QED
  BY <1>5, <1>6

\* A flow steps, from f to g, with its receiver.
LEMMA FlowMoves ==
  ASSUME IInv, NEW c \in Channel, pc = "run", pc' \in {"run", "failed"},
         UNCHANGED <<feedVars, captureVars, countVars, verdict>>,
         mempool' \in {mempool, mempool \cup {Current(c)}},
         NEW g \in FlowType, NEW r \in RxType(Len(published)),
         flow' = [flow EXCEPT ![c] = g], rx' = [rx EXCEPT ![c] = r],
         g.k >= flow[c].k, ChannelInv(c)'
  PROVE  IInv'
<1>1. flow \in [Channel -> FlowType] /\ rx \in [Channel -> RxType(Len(published))]
  BY Types DEF IInv
<1>2. FeedGrows /\ TreeInv' /\ published' = published /\ included' = included
  BY FeedKept
<1>3. /\ flow' \in [Channel -> FlowType] /\ rx' \in [Channel -> RxType(Len(published))]
      /\ flow'[c] = g
      /\ \A d \in Channel \ {c} : flow'[d] = flow[d] /\ rx'[d] = rx[d]
  BY <1>1
<1>4. Current(c) \in Op
  BY <1>1 DEF Current, Op, FlowType
<1>5. /\ capture' = capture /\ inscriptions' = inscriptions /\ blobs' = blobs
      /\ counter' = counter /\ run_blocks' = run_blocks /\ verdict' = verdict
  BY DEF captureVars, countVars
<1>6. TypeOK'
  <2>1. mempool' \subseteq Op
    BY <1>4 DEF IInv, TypeOK
  <2> QED
    BY <1>2, <1>3, <1>5, <2>1 DEF IInv, TypeOK, FlowType, RxType
<1>7. \A d \in Channel : ChannelInv(d)'
  BY <1>2, <1>3, ChannelKept
<1>8. SentInv' /\ BlobsAfterParents'
  <2>1. \A d \in Channel : flow'[d].k \in Nat /\ flow[d].k <= flow'[d].k
    <3> SUFFICES ASSUME NEW d \in Channel PROVE flow'[d].k \in Nat /\ flow[d].k <= flow'[d].k
      OBVIOUS
    <3>1. flow'[d].k \in 0 .. per_channel_blob_target /\ flow[d].k \in 0 .. per_channel_blob_target
      BY <1>1, <1>3 DEF FlowType
    <3> QED
      BY <1>3, <3>1, PlanFacts
  <2> QED
    BY <2>1, SentGrows
<1>9. CaptureIsExact'
  BY <1>2, CaptureKept
<1>10. BeforeCapture'
  BY DEF BeforeCapture
<1> QED
  BY <1>2, <1>6, <1>7, <1>8, <1>9, <1>10 DEF IInv
\* The steps of a flow that keep its receiver and its operation: requests,
\* their failures and the back-off.
LEMMA RequestKeeps ==
  ASSUME IInv, NEW c \in Channel, UNCHANGED feedVars, mempool \subseteq mempool',
         NEW g \in FlowType, flow'[c] = g, rx'[c] = rx[c], g.k = flow[c].k,
         flow[c].at \in {"submit", "publish", "backoff"},
         g.at \in {"submit", "subscribe"} => flow[c].at = "submit",
         g.at = "backoff" => g.attempt < PUBLISH_RETRIES,
         g.at \in {"publish", "backoff", "wait"} => flow[c].at \in {"publish", "backoff"},
         g.at # "done"
  PROVE  ChannelInv(c)'
<1>1. StageInv(c) /\ ReadInv(c) /\ UnreadInv(c)
  BY DEF IInv, ChannelInv
<1>2. published' = published /\ included' = included
  BY DEF feedVars
<1>3. \A i \in 1 .. rx[c].next : \A o : Holds(i, o)' <=> Holds(i, o)
  BY <1>2 DEF Holds, Content
<1>4. StageInv(c)'
  BY <1>1 DEF StageInv
<1>5. ReadInv(c)'
  <2>1. \A k \in 0 .. per_channel_blob_target : Past(c, k)' => Past(c, k)
    BY DEF Past
  <2> QED
    BY <1>1, <1>3, <2>1 DEF ReadInv
<1>6. UnreadInv(c)'
  <2>1. Current(c)' = Current(c)
    BY DEF Current
  <2> QED
    BY <1>1, <1>3, <2>1 DEF UnreadInv
<1> QED
  BY <1>4, <1>5, <1>6 DEF ChannelInv

\* A flow asks the clients for its inscription, and the executors for its
\* blobs.
LEMMA RequestStep ==
  ASSUME IInv, NEW c \in Channel,
         \/ SubmitOk(c) \/ PublishOk(c) \/ Retry(c)
         \/ \E x \in Client : SubmitErr(c, x) \/ PublishErr(c, x)
  PROVE  IInv'
<1>1. flow \in [Channel -> FlowType] /\ rx \in [Channel -> RxType(Len(published))]
  BY Types DEF IInv
<1>2. /\ flow[c] \in FlowType /\ rx[c] \in RxType(Len(published))
      /\ rx = [rx EXCEPT ![c] = rx[c]] /\ flow = [flow EXCEPT ![c] = flow[c]]
  BY <1>1
<1>3. /\ flow[c].k \in 0 .. per_channel_blob_target /\ per_channel_blob_target \in Nat
      /\ flow[c].attempt \in 1 .. PUBLISH_RETRIES /\ PUBLISH_RETRIES \in Nat \ {0}
      /\ flow[c].untried \subseteq Client /\ Executor \subseteq Client
  BY <1>2, PlanFacts, WorkloadAssumption DEF FlowType, Client
<1>4. StageInv(c)
  BY DEF IInv, ChannelInv
<1>5. /\ pc = "run" /\ rx' = rx
      /\ UNCHANGED <<feedVars, captureVars, countVars, verdict>>
      /\ mempool' \in {mempool, mempool \cup {Current(c)}}
      /\ flow[c].at \in {"submit", "publish", "backoff"}
  BY DEF SubmitOk, PublishOk, Retry, SubmitErr, PublishErr, At, MayBeAccepted
<1>6. ASSUME NEW g \in FlowType, flow' = [flow EXCEPT ![c] = g], g.k = flow[c].k,
             pc' \in {"run", "failed"},
             g.at \in {"submit", "subscribe"} => flow[c].at = "submit",
             g.at = "backoff" => g.attempt < PUBLISH_RETRIES,
             g.at \in {"publish", "backoff", "wait"} => flow[c].at \in {"publish", "backoff"},
             g.at # "done"
      PROVE  IInv'
  <2>1. flow'[c] = g /\ rx'[c] = rx[c] /\ mempool \subseteq mempool'
    BY <1>1, <1>5, <1>6
  <2>2. ChannelInv(c)'
    BY <1>5, <1>6, <2>1, RequestKeeps
  <2>3. g.k >= flow[c].k
    BY <1>3, <1>6
  <2>4. rx' = [rx EXCEPT ![c] = rx[c]]
    BY <1>2, <1>5
  <2> QED
    BY <1>2, <1>5, <1>6, <2>2, <2>3, <2>4, FlowMoves
<1>7. CASE SubmitOk(c)
  <2> DEFINE g == FlowAt("subscribe", 0, 1, {})
  <2>1. g \in FlowType /\ g.k = 0 /\ g.at = "subscribe"
    BY <1>3 DEF FlowAt, FlowType
  <2>2. flow' = [flow EXCEPT ![c] = g] /\ flow[c].at = "submit" /\ pc' = "run"
    BY <1>7 DEF SubmitOk, At
  <2>3. flow[c].k = 0
    BY <1>4, <2>2 DEF StageInv
  <2> HIDE DEF g
  <2> QED
    BY <1>6, <2>1, <2>2, <2>3
<1>8. CASE PublishOk(c)
  <2> DEFINE g == FlowAt("wait", flow[c].k, 1, {})
  <2>1. g \in FlowType /\ g.k = flow[c].k /\ g.at = "wait"
    BY <1>3 DEF FlowAt, FlowType
  <2>2. flow' = [flow EXCEPT ![c] = g] /\ flow[c].at = "publish" /\ pc' = "run"
    BY <1>8 DEF PublishOk, At
  <2> HIDE DEF g
  <2> QED
    BY <1>6, <2>1, <2>2
<1>9. CASE Retry(c)
  <2> DEFINE g == FlowAt("publish", flow[c].k, flow[c].attempt + 1, Executor)
  <2>1. flow' = [flow EXCEPT ![c] = g] /\ flow[c].at = "backoff" /\ pc' = "run"
    BY <1>9 DEF Retry, At
  <2>2. flow[c].attempt + 1 \in 1 .. PUBLISH_RETRIES
    BY <1>3, <1>4, <2>1 DEF StageInv
  <2>3. g \in FlowType /\ g.k = flow[c].k /\ g.at = "publish"
    BY <1>3, <2>2 DEF FlowAt, FlowType
  <2> HIDE DEF g
  <2> QED
    BY <1>6, <2>1, <2>3
<1>10. ASSUME flow' = flow, pc' = "failed" PROVE IInv'
  <2>1. flow[c].at # "done" /\ (flow[c].at = "backoff" => flow[c].attempt < PUBLISH_RETRIES)
    BY <1>4, <1>5 DEF StageInv
  <2>2. flow' = [flow EXCEPT ![c] = flow[c]]
    BY <1>2, <1>10
  <2>3. \/ flow[c].at = "submit" \/ flow[c].at \in {"publish", "backoff"}
    BY <1>5
  <2> QED
    BY <1>2, <1>6, <1>10, <2>1, <2>2, <2>3
<1>11. CASE \E x \in Client : SubmitErr(c, x)
  <2>1. PICK x \in Client : SubmitErr(c, x)
    BY <1>11
  <2>2. CASE pc' = "failed" /\ flow' = flow
    BY <1>10, <2>2
  <2>3. CASE flow' = [flow EXCEPT ![c].untried = @ \ {x}] /\ pc' = pc
    <3> DEFINE u == flow[c].untried \ {x}
               g == [flow[c] EXCEPT !.untried = u]
    <3>1. flow' = [flow EXCEPT ![c] = g]
      BY <1>1, <2>3
    <3>2. u \in SUBSET Client
      BY <1>3
    <3> HIDE DEF u
    <3>3. g \in FlowType /\ g.k = flow[c].k /\ g.at = flow[c].at /\ g.attempt = flow[c].attempt
      BY <1>2, <3>2 DEF FlowType
    <3>4. flow[c].at = "submit"
      BY <2>1 DEF SubmitErr, At
    <3> HIDE DEF g
    <3> QED
      BY <1>5, <1>6, <2>3, <3>1, <3>3, <3>4
  <2> QED
    BY <2>1, <2>2, <2>3 DEF SubmitErr, Fail
<1>12. CASE \E x \in Client : PublishErr(c, x)
  <2>1. PICK x \in Client : PublishErr(c, x)
    BY <1>12
  <2>2. flow[c].at = "publish"
    BY <2>1 DEF PublishErr, At
  <2>3. CASE pc' = "failed" /\ flow' = flow
    BY <1>10, <2>3
  <2>4. CASE flow' = [flow EXCEPT ![c].untried = @ \ {x}] /\ pc' = pc
    <3> DEFINE u == flow[c].untried \ {x}
               g == [flow[c] EXCEPT !.untried = u]
    <3>1. flow' = [flow EXCEPT ![c] = g]
      BY <1>1, <2>4
    <3>2. u \in SUBSET Client
      BY <1>3
    <3> HIDE DEF u
    <3>3. g \in FlowType /\ g.k = flow[c].k /\ g.at = flow[c].at
      BY <1>2, <3>2 DEF FlowType
    <3> HIDE DEF g
    <3> QED
      BY <1>5, <1>6, <2>2, <2>4, <3>1, <3>3
  <2>5. CASE /\ flow' = [flow EXCEPT ![c].at = "backoff"] /\ pc' = pc
             /\ flow[c].attempt < PUBLISH_RETRIES
    <3> DEFINE g == [flow[c] EXCEPT !.at = "backoff"]
    <3>1. flow' = [flow EXCEPT ![c] = g]
      BY <1>1, <2>5
    <3>2. g \in FlowType /\ g.k = flow[c].k /\ g.at = "backoff" /\ g.attempt = flow[c].attempt
      BY <1>2 DEF FlowType
    <3> HIDE DEF g
    <3> QED
      BY <1>5, <1>6, <2>2, <2>5, <3>1, <3>2
  <2> QED
    BY <2>1, <2>3, <2>4, <2>5 DEF PublishErr, Fail
<1> QED
  BY <1>7, <1>8, <1>9, <1>11, <1>12
\* A flow subscribes and reads.  When it finds its operation the next blob is
\* in no block yet, because nobody has sent it.
LEMMA ReadStep ==
  ASSUME IInv, NEW c \in Channel, Subscribe(c) \/ FlowRecv(c) \/ FlowLagged(c)
  PROVE  IInv'
<1>1. /\ flow \in [Channel -> FlowType] /\ rx \in [Channel -> RxType(Len(published))]
      /\ Len(published) \in Nat
  BY Types DEF IInv
<1>2. /\ flow[c] \in FlowType /\ rx[c] \in RxType(Len(published))
      /\ flow = [flow EXCEPT ![c] = flow[c]]
  BY <1>1
<1>3. /\ flow[c].k \in 0 .. per_channel_blob_target /\ per_channel_blob_target \in Nat
      /\ PUBLISH_RETRIES \in Nat \ {0} /\ Executor \subseteq Client
      /\ rx[c].next \in 0 .. Len(published) /\ rx[c].from \in Nat /\ rx[c].skipped \in Nat
      /\ Capacity \in Nat \ {0}
  BY <1>2, PlanFacts, WorkloadAssumption DEF FlowType, RxType, Client
<1>4. StageInv(c) /\ ReadInv(c) /\ UnreadInv(c)
  BY DEF IInv, ChannelInv
<1>5. /\ pc = "run" /\ pc' = "run" /\ mempool' = mempool
      /\ UNCHANGED <<feedVars, captureVars, countVars, verdict>>
      /\ published' = published /\ included' = included
  BY DEF Subscribe, FlowRecv, FlowLagged, At, feedVars
<1>6. \A i : \A o : Holds(i, o)' <=> Holds(i, o)
  BY <1>5 DEF Holds, Content
<1>7. CASE Subscribe(c)
  <2> DEFINE g == FlowAt("wait", 0, 1, {})
             r == Subscribed
  <2>1. flow' = [flow EXCEPT ![c] = g] /\ rx' = [rx EXCEPT ![c] = r] /\ flow[c].at = "subscribe"
    BY <1>7 DEF Subscribe, At
  <2>2. g \in FlowType /\ g.k = 0 /\ g.at = "wait"
    BY <1>3 DEF FlowAt, FlowType
  <2>3. r \in RxType(Len(published)) /\ r.next = r.from
    BY <1>1 DEF Subscribed, RxType
  <2> HIDE DEF g, r
  <2>4. flow'[c] = g /\ rx'[c] = r
    BY <1>1, <2>1
  <2>5. ChannelInv(c)'
    <3>1. StageInv(c)'
      BY <2>2, <2>4 DEF StageInv
    <3>2. ReadInv(c)'
      BY <1>3, <2>2, <2>4 DEF ReadInv, Past
    <3>3. UnreadInv(c)'
      BY <2>2, <2>3, <2>4 DEF UnreadInv, RxType
    <3> QED
      BY <3>1, <3>2, <3>3 DEF ChannelInv
  <2>6. flow[c].k = 0 /\ g.k >= flow[c].k
    BY <1>4, <2>1, <2>2 DEF StageInv
  <2> QED
    BY <1>5, <2>1, <2>2, <2>3, <2>5, <2>6, FlowMoves
<1>8. CASE FlowRecv(c)
  <2> DEFINE n == rx[c].next
             k == flow[c].k
             r == [rx[c] EXCEPT !.next = n + 1]
  <2>1. /\ flow[c].at = "wait" /\ rx' = [rx EXCEPT ![c] = r] /\ n + 1 \in 1 .. Len(published)
    BY <1>1, <1>3, <1>8 DEF FlowRecv, At, Advanced, Behind
  <2>2. /\ r \in RxType(Len(published)) /\ r.next = n + 1
        /\ r.skipped = rx[c].skipped /\ r.from = rx[c].from
    BY <1>2, <2>1 DEF RxType
  <2>3. n \in Nat /\ k \in 0 .. per_channel_blob_target
    BY <1>1, <1>3
  <2> HIDE DEF r
  <2>4. rx'[c] = r
    BY <1>1, <2>1
  <2>5. \A i \in 1 .. n : i \in 1 .. n + 1
    BY <2>3
  <2>6. CASE Holds(n + 1, <<c, k>>)
    <3> DEFINE g == Matched(k)
    <3>1. flow' = [flow EXCEPT ![c] = g]
      BY <1>8, <2>6 DEF FlowRecv, Holds, Current
    <3>2. /\ g \in FlowType /\ g.k >= k
          /\ \/ g.at = "done" /\ g.k = k /\ k = per_channel_blob_target
             \/ g.at = "publish" /\ g.k = k + 1
      <4>1. CASE k = per_channel_blob_target
        <5>1. g = FlowAt("done", k, 1, {})
          BY <4>1 DEF Matched
        <5> QED
          BY <1>3, <2>3, <4>1, <5>1 DEF FlowAt, FlowType
      <4>2. CASE k # per_channel_blob_target
        <5>1. g = FlowAt("publish", k + 1, 1, Executor)
          BY <4>2 DEF Matched
        <5>2. k + 1 \in 0 .. per_channel_blob_target /\ k + 1 >= k
          BY <1>3, <4>2
        <5> QED
          BY <1>3, <5>1, <5>2 DEF FlowAt, FlowType
      <4> QED
        BY <4>1, <4>2
    <3> HIDE DEF g
    <3>3. flow'[c] = g
      BY <1>1, <3>1
    <3>4. StageInv(c)'
      BY <3>2, <3>3 DEF StageInv
    <3>5. ReadInv(c)'
      <4> SUFFICES ASSUME NEW j \in 0 .. per_channel_blob_target, Past(c, j)'
                   PROVE  \E i \in 1 .. n + 1 : Holds(i, <<c, j>>)
        BY <1>6, <2>2, <2>4 DEF ReadInv
      <4>1. j < k \/ j = k
        BY <1>3, <3>2, <3>3 DEF Past
      <4>2. CASE j = k
        BY <2>1, <2>3, <2>6, <4>2
      <4>3. CASE j < k
        BY <1>4, <2>5, <4>3 DEF ReadInv, Past
      <4> QED
        BY <4>1, <4>2, <4>3
    <3>6. UnreadInv(c)'
      <4> SUFFICES ASSUME NEW i \in 1 .. n + 1, g.at = "publish", Holds(i, <<c, k + 1>>)
                   PROVE  FALSE
        BY <1>6, <2>2, <2>4, <3>2, <3>3 DEF UnreadInv, Current
      <4>1. published[i] \in Block
        BY <1>1, <1>3, <2>1, Types DEF IInv
      <4>2. <<c, k + 1>> \in mempool
        BY <4>1 DEF Holds, Content, IInv, TreeInv
      <4>3. k + 1 <= k
        BY <4>2 DEF IInv, SentInv
      <4> QED
        BY <1>3, <4>3
    <3>7. ChannelInv(c)'
      BY <3>4, <3>5, <3>6 DEF ChannelInv
    <3> QED
      BY <1>5, <2>1, <2>2, <3>1, <3>2, <3>7, FlowMoves
  <2>7. CASE ~Holds(n + 1, <<c, k>>)
    <3>1. flow' = [flow EXCEPT ![c] = flow[c]] /\ flow' = flow
      BY <1>2, <1>8, <2>7 DEF FlowRecv, Holds, Current
    <3>2. StageInv(c)'
      BY <1>4, <3>1 DEF StageInv
    <3>3. ReadInv(c)'
      BY <1>4, <1>6, <2>2, <2>4, <2>5, <3>1 DEF ReadInv, Past
    <3>4. UnreadInv(c)'
      <4>1. \A i \in 1 .. n + 1 : i \in 1 .. n \/ i = n + 1
        BY <2>3
      <4>2. Current(c)' = <<c, k>> /\ Current(c) = <<c, k>>
        BY <3>1 DEF Current
      <4> QED
        BY <1>4, <1>6, <2>1, <2>2, <2>4, <2>7, <3>1, <4>1, <4>2 DEF UnreadInv
    <3>5. ChannelInv(c)' /\ k >= k
      BY <2>3, <3>2, <3>3, <3>4 DEF ChannelInv
    <3> QED
      BY <1>2, <1>5, <2>1, <2>2, <3>1, <3>5, FlowMoves
  <2> QED
    BY <2>6, <2>7
<1>9. CASE FlowLagged(c)
  <2> DEFINE r == Lagging(rx[c])
  <2>1. /\ flow[c].at = "wait" /\ rx' = [rx EXCEPT ![c] = r]
        /\ Behind(rx[c]) > Capacity /\ flow' = flow
    BY <1>9 DEF FlowLagged, At
  <2>2. /\ r \in RxType(Len(published)) /\ r.skipped > 0 /\ r.next >= rx[c].next
    BY <1>1, <1>2, <2>1, LaggingFacts
  <2> HIDE DEF r
  <2>3. rx'[c] = r
    BY <1>1, <2>1
  <2>4. StageInv(c)'
    BY <1>4, <2>1 DEF StageInv
  <2>5. ReadInv(c)'
    <3>1. \A i \in 1 .. rx[c].next : i \in 1 .. r.next
      BY <1>3, <2>2 DEF RxType
    <3> QED
      BY <1>4, <1>6, <2>1, <2>3, <3>1 DEF ReadInv, Past
  <2>6. UnreadInv(c)'
    BY <2>2, <2>3 DEF UnreadInv
  <2>7. ChannelInv(c)' /\ flow[c].k >= flow[c].k
    BY <1>3, <2>4, <2>5, <2>6 DEF ChannelInv
  <2>8. flow' = [flow EXCEPT ![c] = flow[c]]
    BY <1>2, <2>1
  <2> QED
    BY <1>2, <1>5, <2>1, <2>2, <2>7, <2>8, FlowMoves
<1> QED
  BY <1>7, <1>8, <1>9

\* The run ends, with requests under way, or nothing happens.
LEMMA EndStep ==
  ASSUME IInv, RunEnds \/ UNCHANGED vars
  PROVE  IInv'
<1>1. /\ UNCHANGED <<feedVars, flow, rx, captureVars, countVars, verdict>>
      /\ mempool \subseteq mempool'
      /\ \A o \in mempool' : o \in mempool \/ \E c \in Channel : o = Current(c)
      /\ pc' = "cooldown" \/ (pc' = pc /\ mempool' = mempool)
  <2>1. CASE RunEnds
    BY <2>1 DEF RunEnds
  <2>2. CASE UNCHANGED vars
    BY <2>2 DEF vars, flowVars
  <2> QED
    BY <2>1, <2>2
<1>2. FeedGrows /\ TreeInv' /\ published' = published /\ included' = included
  BY <1>1, FeedKept
<1>3. /\ flow' = flow /\ rx' = rx
      /\ capture' = capture /\ inscriptions' = inscriptions /\ blobs' = blobs
      /\ counter' = counter /\ run_blocks' = run_blocks /\ verdict' = verdict
  BY <1>1 DEF captureVars, countVars
<1>4. flow \in [Channel -> FlowType]
  BY Types DEF IInv
<1>5. \A c \in Channel : flow[c].k \in 0 .. per_channel_blob_target /\ Current(c) \in Op
  BY <1>4 DEF Current, Op, FlowType
<1>6. TypeOK'
  <2>1. mempool' \subseteq Op
    BY <1>1, <1>5 DEF IInv, TypeOK
  <2> QED
    BY <1>1, <1>2, <1>3, <2>1 DEF IInv, TypeOK
<1>7. \A c \in Channel : ChannelInv(c)'
  BY <1>2, <1>3, ChannelKept
<1>8. SentInv' /\ BlobsAfterParents'
  <2>1. \A c \in Channel : flow'[c].k \in Nat /\ flow[c].k <= flow'[c].k
    BY <1>3, <1>5, PlanFacts
  <2> QED
    BY <1>1, <2>1, SentGrows
<1>9. CaptureIsExact'
  BY <1>1, <1>2, CaptureKept
<1>10. BeforeCapture'
  BY <1>1, <1>3 DEF IInv, BeforeCapture
<1> QED
  BY <1>2, <1>6, <1>7, <1>8, <1>9, <1>10 DEF IInv

------------------------------------------------------------------------------
(* The theorems.                                                           *)

\* The inductive invariant holds of every run of workload and expectation.
THEOREM Invariance == Spec => []IInv
<1>1. IInv /\ [Next]_vars => IInv'
  <2> SUFFICES ASSUME IInv, [Next]_vars PROVE IInv'
    OBVIOUS
  <2>1. CASE \E b \in Block : Publish(b)
    BY <2>1, PublishStep
  <2>2. CASE \/ StartCapture \/ CaptureRecv \/ CaptureLagged
             \/ CountBlock \/ CounterLagged \/ CounterTimer \/ Evaluate
    BY <2>2, TaskStep
  <2>3. CASE \E c \in Channel : \/ SubmitOk(c) \/ PublishOk(c) \/ Retry(c)
                                \/ \E x \in Client : SubmitErr(c, x) \/ PublishErr(c, x)
    BY <2>3, RequestStep
  <2>4. CASE \E c \in Channel : Subscribe(c) \/ FlowRecv(c) \/ FlowLagged(c)
    BY <2>4, ReadStep
  <2>5. CASE RunEnds \/ UNCHANGED vars
    BY <2>5, EndStep
  <2> QED
    BY <2>1, <2>2, <2>3, <2>4, <2>5 DEF Next, FlowStep
<1> QED
  BY <1>1, InitInv, PTL DEF Spec

\* The types of the flows, their receivers, CaptureState and the counter.
THEOREM TypeCorrect == Spec => []TypeOK
<1>1. IInv => TypeOK
  BY DEF IInv
<1> QED
  BY <1>1, Invariance, PTL

\* run_channel_flow misses an operation only when its receiver lagged, or
\* when its inscription was in a block before it subscribed, and never sends
\* a blob whose parent is not in a published block.
THEOREM FlowsFollow == Spec => []FlowsFollowChain
<1>1. IInv => FlowsFollowChain
  <2> SUFFICES ASSUME IInv PROVE MissedOnlyByLag
    BY DEF IInv, FlowsFollowChain
  <2> SUFFICES ASSUME NEW c \in Channel, NEW i \in 1 .. Len(published),
                      flow[c].at = "wait", i <= rx[c].next,
                      Current(c) \in Content(published[i])
               PROVE  rx[c].skipped > 0 \/ (flow[c].k = 0 /\ i <= rx[c].from)
    BY DEF MissedOnlyByLag
  <2>1. i \in 1 .. rx[c].next
    BY Types DEF IInv, RxType
  <2> QED
    BY <2>1 DEF IInv, ChannelInv, UnreadInv, Holds
<1> QED
  BY <1>1, Invariance, PTL

\* A capturing task that never got Lagged holds exactly the inscriptions and
\* blobs of the blocks up to its position.
THEOREM CaptureExact == Spec => []CaptureIsExact
<1>1. IInv => CaptureIsExact
  BY DEF IInv
<1> QED
  BY <1>1, Invariance, PTL

\* What a workload that finished leaves the expectation to judge: a capture
\* that read along without a lag holds all inscriptions and, of every
\* channel, its share of the planned blobs.
THEOREM FinishedCaptured == Spec => []FinishedIsCaptured
<1>1. IInv => FinishedIsCaptured
  <2> SUFFICES ASSUME IInv, capture.skipped = 0,
                      \A c \in Channel : flow[c].at = "done" /\ rx[c].next <= capture.next
               PROVE  /\ inscriptions = Channel
                      /\ \A c \in Channel : blobs[c] >= per_channel_blob_target
    BY PlanFacts DEF FinishedIsCaptured
  <2> DEFINE n == capture.next
             T == per_channel_blob_target
  <2>1. /\ n \in 0 .. Len(published) /\ Len(published) \in Nat /\ T \in Nat
        /\ rx \in [Channel -> RxType(Len(published))]
    BY Types, PlanFacts DEF IInv, RxType
  <2>2. /\ inscriptions = {c \in Channel : \E p \in Seen(n) : p[2] = <<c, 0>>}
        /\ \A c \in Channel : blobs[c] = Cardinality(BlobsSeen(c, n))
    BY DEF IInv, CaptureIsExact
  <2>3. ASSUME NEW c \in Channel, NEW k \in 0 .. T
        PROVE  \E i \in 1 .. n : <<i, <<c, k>>>> \in Seen(n)
    <3>1. flow[c].at = "done" /\ flow[c].k = T
      BY DEF IInv, ChannelInv, StageInv
    <3>2. k < T \/ k = T
      BY <2>1
    <3>3. Past(c, k)
      BY <3>1, <3>2 DEF Past
    <3>4. PICK i \in 1 .. rx[c].next : <<c, k>> \in Content(published[i])
      BY <3>3 DEF IInv, ChannelInv, ReadInv, Holds
    <3>5. i \in 1 .. n
      BY <2>1 DEF RxType
    <3>6. <<c, k>> \in Op
      BY DEF Op
    <3> QED
      BY <3>4, <3>5, <3>6 DEF Seen
  <2>4. inscriptions = Channel
    <3>1. ASSUME NEW c \in Channel PROVE \E p \in Seen(n) : p[2] = <<c, 0>>
      <4>1. PICK i \in 1 .. n : <<i, <<c, 0>>>> \in Seen(n)
        BY <2>1, <2>3
      <4>2. <<i, <<c, 0>>>>[2] = <<c, 0>>
        OBVIOUS
      <4> QED
        BY <4>1, <4>2
    <3> QED
      BY <2>2, <3>1
  <2>5. ASSUME NEW c \in Channel PROVE blobs[c] >= T
    <3> DEFINE B == BlobsSeen(c, n)
               pos(k) == CHOOSE i \in 1 .. n : <<i, <<c, k>>>> \in Seen(n)
               f == [k \in 1 .. T |-> <<pos(k), <<c, k>>>>]
    <3>1. ASSUME NEW k \in 1 .. T
          PROVE  <<pos(k), <<c, k>>>> \in B
      <4>1. k \in 0 .. T /\ k > 0
        BY <2>1
      <4>2. <<pos(k), <<c, k>>>> \in Seen(n)
        BY <2>3, <4>1
      <4> QED
        BY <4>1, <4>2 DEF BlobsSeen
    <3> HIDE DEF pos
    <3>2. f \in [1 .. T -> B]
      BY <3>1
    <3>3. \A k, m \in 1 .. T : f[k] = f[m] => k = m
      OBVIOUS
    <3>4. f \in Injection(1 .. T, B)
      BY <3>2, <3>3 DEF Injection, IsInjective
    <3>5. IsFiniteSet(B) /\ Cardinality(B) \in Nat
      <4>1. B \subseteq (1 .. n) \X Op /\ n \in Nat
        BY <2>1 DEF BlobsSeen, Seen
      <4> QED
        BY <4>1, SeenFinite
    <3> HIDE DEF f, B
    <3>6. Cardinality(1 .. T) <= Cardinality(B)
      BY <3>4, <3>5, FS_Injection
    <3>7. Cardinality(1 .. T) = T
      BY <2>1, FS_Interval
    <3> QED
      BY <2>1, <2>2, <3>5, <3>6, <3>7 DEF B
  <2> QED
    BY <2>4, <2>5
<1> QED
  BY <1>1, Invariance, PTL

------------------------------------------------------------------------------
(* The verdict.                                                            *)

\* A verdict is about the capture and the count as they still are.
VerdictInv ==
  /\ pc # "over" => verdict = "none"
  /\ verdict = "missing_inscriptions" =>
       Cardinality(inscriptions) < minimum_required(planned_channel_count)
  /\ verdict = "missing_blobs" =>
       TotalBlobs < minimum_required(BlobRate * Max({run_blocks, 1}))

\* A non-empty set of natural numbers has a least one.
LEMMA LeastNat ==
  ASSUME NEW S \in SUBSET Nat, S # {}
  PROVE  \E x \in S : \A y \in S : x <= y
<1> DEFINE R == {p \in Nat \X Nat : p[1] < p[2]}
<1>1. R = OpToRel(<, Nat)
  BY DEF OpToRel
<1>2. IsWellFoundedOn(R, Nat)
  BY <1>1, NatLessThanWellFounded
<1> HIDE DEF R
<1>3. PICK x \in S : \A y \in S : ~ (<<y, x>> \in R)
  BY <1>2, WFMin
<1>4. \A y \in S : ~ (y < x)
  BY <1>3 DEF R
<1> QED
  BY <1>4

\* f[n] adds up the counts of the first n channels, for every n up to m.
AddsUp(f, m, counts) ==
  f \in [0 .. m -> Nat] /\ f[0] = 0 /\ \A n \in 1 .. m : f[n] = f[n - 1] + counts[n]

\* There are such sums.
LEMMA SumsExist ==
  ASSUME NEW counts \in [Channel -> Nat], NEW m \in 0 .. planned_channel_count
  PROVE  \E f : AddsUp(f, m, counts)
<1> DEFINE N == planned_channel_count
           S == {n \in 0 .. N : ~ \E f : AddsUp(f, n, counts)}
<1>0. N \in Nat /\ \A n \in 1 .. N : counts[n] \in Nat
  BY PlanFacts DEF Channel
<1> HIDE DEF N
<1>1. SUFFICES ASSUME S # {} PROVE FALSE
  BY DEF N
<1>2. PICK n \in S : \A k \in S : n <= k
  <2>1. S \in SUBSET Nat
    BY <1>0
  <2> QED
    BY <1>1, <2>1, LeastNat
<1>3. n # 0
  <2>1. AddsUp([k \in 0 .. 0 |-> 0], 0, counts)
    BY DEF AddsUp
  <2> QED
    BY <1>2, <2>1
<1>4. n - 1 \in 0 .. N /\ n \in Nat /\ n \in 1 .. N
  BY <1>0, <1>2, <1>3
<1>5. PICK f : AddsUp(f, n - 1, counts)
  <2>1. n - 1 \notin S
    BY <1>2, <1>4
  <2> QED
    BY <1>4, <2>1
<1> DEFINE x == f[n - 1] + counts[n]
           g == [k \in 0 .. n |-> IF k = n THEN x ELSE f[k]]
<1>6. x \in Nat
  <2>1. f[n - 1] \in Nat /\ counts[n] \in Nat
    BY <1>0, <1>4, <1>5 DEF AddsUp
  <2> QED
    BY <2>1
<1>7. /\ \A k \in 0 .. n - 1 : g[k] = f[k] /\ f[k] \in Nat
      /\ g[n] = x
  <2> HIDE DEF x
  <2> QED
    BY <1>4, <1>5 DEF AddsUp
<1>8. g \in [0 .. n -> Nat]
  <2>1. \A k \in 0 .. n : k = n \/ k \in 0 .. n - 1
    BY <1>4
  <2>2. g = [k \in 0 .. n |-> g[k]]
    OBVIOUS
  <2> HIDE DEF g, x
  <2>3. \A k \in 0 .. n : g[k] \in Nat
    BY <1>6, <1>7, <2>1
  <2> QED
    BY <2>2, <2>3
<1> HIDE DEF g
<1>9. g[0] = 0
  BY <1>4, <1>5, <1>7 DEF AddsUp
<1>10. \A k \in 1 .. n : g[k] = g[k - 1] + counts[k]
  <2> SUFFICES ASSUME NEW k \in 1 .. n PROVE g[k] = g[k - 1] + counts[k]
    OBVIOUS
  <2>1. k - 1 \in 0 .. n - 1
    BY <1>4
  <2>2. g[k - 1] = f[k - 1]
    BY <1>7, <2>1
  <2>3. CASE k = n
    BY <1>7, <2>2, <2>3
  <2>4. CASE k # n
    <3>1. k \in 1 .. n - 1 /\ k \in 0 .. n - 1
      BY <1>4, <2>4
    <3>2. g[k] = f[k]
      BY <1>7, <3>1
    <3> QED
      BY <1>5, <2>2, <3>1, <3>2 DEF AddsUp
  <2> QED
    BY <2>3, <2>4
<1>11. AddsUp(g, n, counts)
  BY <1>8, <1>9, <1>10 DEF AddsUp
<1> QED
  BY <1>2, <1>11

\* Total is the last of the sums.
LEMMA TotalIsSum ==
  ASSUME NEW counts \in [Channel -> Nat]
  PROVE  \E f : AddsUp(f, planned_channel_count, counts) /\ Total(counts) = f[planned_channel_count]
<1> DEFINE N == planned_channel_count
           Rec(h) == h = [n \in 0 .. N |-> IF n = 0 THEN 0 ELSE h[n - 1] + counts[n]]
           s == CHOOSE h : Rec(h)
<1>1. N \in Nat /\ N \in 0 .. N /\ \A n \in 1 .. N : counts[n] \in Nat
  BY PlanFacts DEF Channel
<1>2. PICK f : AddsUp(f, N, counts)
  BY <1>1, SumsExist
<1>3. Total(counts) = s[N]
  BY DEF Total
<1> HIDE DEF N
<1>4. Rec(f)
  BY <1>1, <1>2 DEF AddsUp
<1>5. Rec(s)
  BY <1>4
<1> HIDE DEF s
<1>6. s[0] = 0 /\ \A n \in 1 .. N : s[n] = s[n - 1] + counts[n]
  <2>1. s[0] = 0
    BY <1>1, <1>5
  <2>2. ASSUME NEW n \in 1 .. N PROVE s[n] = s[n - 1] + counts[n]
    <3>1. n \in 0 .. N /\ n # 0
      BY <1>1
    <3> QED
      BY <1>5, <3>1
  <2> QED
    BY <2>1, <2>2
<1> DEFINE S == {k \in 0 .. N : s[k] # f[k]}
<1>7. S = {}
  <2>1. SUFFICES ASSUME S # {} PROVE FALSE
    OBVIOUS
  <2>2. PICK k \in S : \A j \in S : k <= j
    <3>1. S \in SUBSET Nat
      BY <1>1
    <3> QED
      BY <2>1, <3>1, LeastNat
  <2>3. k # 0
    BY <1>2, <1>6, <2>2 DEF AddsUp
  <2>4. k \in 1 .. N /\ k - 1 \in 0 .. N /\ k \in Nat
    BY <1>1, <2>2, <2>3
  <2>5. k - 1 \notin S
    BY <2>2, <2>4
  <2>6. s[k - 1] = f[k - 1]
    BY <2>4, <2>5
  <2>7. s[k] = s[k - 1] + counts[k] /\ f[k] = f[k - 1] + counts[k]
    BY <1>2, <1>6, <2>4 DEF AddsUp
  <2> QED
    BY <2>2, <2>6, <2>7
<1>8. s[N] = f[N]
  BY <1>1, <1>7
<1> QED
  BY <1>2, <1>3, <1>8 DEF N

\* Channels with t or more each have as many times t together.
LEMMA TotalAtLeast ==
  ASSUME NEW counts \in [Channel -> Nat], NEW t \in Nat,
         \A c \in Channel : counts[c] >= t
  PROVE  Total(counts) \in Nat /\ Total(counts) >= planned_channel_count * t
<1> DEFINE N == planned_channel_count
<1>1. PICK f : AddsUp(f, N, counts) /\ Total(counts) = f[N]
  BY TotalIsSum
<1>2. N \in Nat /\ N \in 0 .. N /\ \A n \in 1 .. N : counts[n] \in Nat /\ counts[n] >= t
  BY PlanFacts DEF Channel
<1> HIDE DEF N
<1>3. f \in [0 .. N -> Nat] /\ f[0] = 0 /\ \A n \in 1 .. N : f[n] = f[n - 1] + counts[n]
  BY <1>1 DEF AddsUp
<1> DEFINE S == {k \in 0 .. N : ~ (f[k] >= k * t)}
<1>4. S = {}
  <2>1. SUFFICES ASSUME S # {} PROVE FALSE
    OBVIOUS
  <2>2. PICK k \in S : \A j \in S : k <= j
    <3>1. S \in SUBSET Nat
      BY <1>2
    <3> QED
      BY <2>1, <3>1, LeastNat
  <2>3. k # 0
    BY <1>3, <2>2
  <2>4. k \in 1 .. N /\ k - 1 \in 0 .. N /\ k \in Nat
    BY <1>2, <2>2, <2>3
  <2>5. k - 1 \notin S
    BY <2>2, <2>4
  <2>6. f[k - 1] >= (k - 1) * t
    BY <2>4, <2>5
  <2>7. f[k] = f[k - 1] + counts[k] /\ counts[k] >= t /\ counts[k] \in Nat /\ f[k - 1] \in Nat
    BY <1>2, <1>3, <2>4
  <2>8. k * t = (k - 1) * t + t /\ (k - 1) * t \in Int
    BY <2>4
  <2>9. f[k] >= k * t
    BY <2>6, <2>7, <2>8
  <2> QED
    BY <2>2, <2>9
<1>5. f[N] \in Nat /\ f[N] >= N * t
  BY <1>2, <1>3, <1>4
<1> QED
  BY <1>1, <1>5 DEF N

\* The larger of a number and one.
LEMMA AtLeastOne ==
  ASSUME NEW n \in Nat
  PROVE  /\ Max({n, 1}) \in Nat /\ Max({n, 1}) >= n /\ Max({n, 1}) >= 1
         /\ Max({n, 1}) \in {n, 1}
<1>1. \E y \in {n, 1} : \A z \in {n, 1} : y >= z
  OBVIOUS
<1> DEFINE m == Max({n, 1})
<1>2. m \in {n, 1} /\ \A z \in {n, 1} : m >= z
  BY <1>1 DEF Max
<1> HIDE DEF m
<1>3. m \in Nat /\ m >= n /\ m >= 1 /\ m \in {n, 1}
  BY <1>2
<1> QED
  BY <1>3 DEF m

\* The verdict stays true of what it was given about: once it is there, the
\* tasks are stopped.
LEMMA VerdictStep ==
  ASSUME VerdictInv, [Next]_vars
  PROVE  VerdictInv'
<1>1. CASE Evaluate
  <2>1. /\ pc' = "over" /\ inscriptions' = inscriptions /\ blobs' = blobs
        /\ run_blocks' = run_blocks
    BY <1>1 DEF Evaluate, captureVars, countVars
  <2>2. verdict' = "missing_inscriptions" =>
          Cardinality(inscriptions) < minimum_required(planned_channel_count)
    BY <1>1 DEF Evaluate
  <2>3. verdict' = "missing_blobs" =>
          TotalBlobs < minimum_required(BlobRate * Max({run_blocks, 1}))
    BY <1>1 DEF Evaluate
  <2> QED
    BY <2>1, <2>2, <2>3 DEF VerdictInv, TotalBlobs
<1>2. CASE UNCHANGED vars
  BY <1>2 DEF VerdictInv, TotalBlobs, vars, captureVars, countVars
<1>3. CASE Next /\ ~ Evaluate
  <2>1. pc # "over" /\ pc' # "over" /\ verdict' = verdict
    BY <1>3 DEF Next, FlowStep, Publish, Over, StartCapture, CaptureRecv, CaptureLagged,
                CountBlock, CounterLagged, CounterTimer, Listening, SubmitOk, SubmitErr,
                Subscribe, FlowRecv, FlowLagged, PublishOk, PublishErr, Retry, At, Fail,
                RunEnds
  <2> QED
    BY <2>1 DEF VerdictInv
<1> QED
  BY <1>1, <1>2, <1>3

\* The expectation fails a workload whose flows all finished, and whose
\* blocks it saw without a lag, only for blobs, and only when it counted over
\* a quarter more blocks than the plan of the workload was made for.
THEOREM FinishedEnough == Spec => []FinishedIsEnough
<1>1. IInv /\ FinishedIsCaptured /\ VerdictInv => FinishedIsEnough
  <2> SUFFICES ASSUME IInv, FinishedIsCaptured, VerdictInv,
                      verdict \in {"missing_blobs", "missing_inscriptions"},
                      capture.skipped = 0,
                      \A c \in Channel : flow[c].at = "done" /\ rx[c].next <= capture.next
               PROVE  verdict = "missing_blobs" /\ 4 * run_blocks > 5 * ExpectedBlocks
    BY DEF FinishedIsEnough
  <2> DEFINE N == planned_channel_count
             t == per_channel_blob_target
             M == Max({ExpectedBlocks, 1})
             R == Max({run_blocks, 1})
  <2>1. /\ inscriptions = Channel /\ \A c \in Channel : blobs[c] >= t
        /\ N * t >= BlobRate * M
    BY DEF FinishedIsCaptured, planned_blob_count
  <2>2. /\ N \in Nat \ {0} /\ t \in Nat /\ BlobRate \in Nat \ {0}
        /\ ExpectedBlocks \in Nat /\ run_blocks \in Nat /\ blobs \in [Channel -> Nat]
    BY PlanFacts, WorkloadAssumption DEF IInv, TypeOK
  <2>3. verdict # "missing_inscriptions"
    <3> SUFFICES ASSUME Cardinality(inscriptions) < minimum_required(N) PROVE FALSE
      BY DEF VerdictInv
    <3>1. Cardinality(inscriptions) = N
      <4>1. N >= 1
        BY <2>2
      <4> QED
        BY <2>1, <2>2, <4>1, FS_Interval DEF Channel
    <3> HIDE DEF N
    <3> DEFINE q == (4 * N + 4) \div 5
    <3>2. q \in Nat /\ 5 * q <= 4 * N + 4
      BY <2>2, Quotient
    <3>3. minimum_required(N) = q
      BY DEF minimum_required
    <3> HIDE DEF q
    <3> QED
      BY <2>2, <3>1, <3>2, <3>3
  <2>4. TotalBlobs < minimum_required(BlobRate * R)
    BY <2>3 DEF VerdictInv
  <2>5. TotalBlobs \in Nat /\ TotalBlobs >= N * t
    BY <2>1, <2>2, TotalAtLeast DEF TotalBlobs
  <2>6. /\ M \in Nat /\ M >= ExpectedBlocks /\ M >= 1
        /\ R \in Nat /\ R >= 1 /\ R \in {run_blocks, 1}
    BY <2>2, AtLeastOne
  <2> DEFINE B == TotalBlobs
             y == BlobRate * R
             x == BlobRate * M
             z == N * t
             q == (4 * y + 4) \div 5
  <2>7. x \in Nat /\ y \in Nat /\ z \in Nat
    BY <2>2, <2>6
  <2> HIDE DEF B, N, t, M, R
  <2>8. B >= x
    <3> HIDE DEF x, z
    <3> QED
      BY <2>1, <2>5, <2>7 DEF B, x, z
  <2>9. B < q /\ B \in Nat
    BY <2>4, <2>5 DEF B, minimum_required
  <2>10. q \in Nat /\ 5 * q <= 4 * y + 4
    <3> HIDE DEF y
    <3> QED
      BY <2>7, Quotient
  <2>11. 5 * x < 4 * y
    <3> HIDE DEF x, y, q
    <3> QED
      BY <2>7, <2>8, <2>9, <2>10
  <2>12. 5 * M < 4 * R
    <3> SUFFICES ASSUME 4 * R <= 5 * M PROVE FALSE
      BY <2>6
    <3>1. BlobRate * (4 * R) <= BlobRate * (5 * M)
      BY <2>2, <2>6
    <3>2. BlobRate * (4 * R) = 4 * y /\ BlobRate * (5 * M) = 5 * x
      BY <2>2, <2>6
    <3> HIDE DEF x, y
    <3> QED
      BY <2>7, <2>11, <3>1, <3>2
  <2>13. R = run_blocks
    BY <2>6, <2>12
  <2> QED
    BY <2>2, <2>3, <2>6, <2>12, <2>13
<1>2. Init => VerdictInv
  BY DEF Init, VerdictInv
<1>3. VerdictInv /\ [Next]_vars => VerdictInv'
  BY VerdictStep
<1> QED
  BY <1>1, <1>2, <1>3, Invariance, FinishedCaptured, PTL DEF Spec
==============================================================================
