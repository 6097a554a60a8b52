--------------------------- MODULE BlockFeedProofs ---------------------------
(***************************************************************************)
(* Proofs about the block feed, for every block tree, every set of         *)
(* receivers and every bound: its type invariant, that it publishes every  *)
(* block once and after its parent, that `seen` is what it published, that *)
(* the statistics cover the feed, and that it implements the abstract      *)
(* block stream.                                                           *)
(***************************************************************************)
EXTENDS BlockFeed, SequenceTheorems, WellFoundedInduction, TLAPS

\* The blocks of a stack are not in `old`, and each is the child of the
\* next; their heights tell them apart.
NewChain(blocks, old) ==
  /\ \A i \in 1 .. Len(blocks) : blocks[i] # Genesis /\ blocks[i] \notin old
  /\ \A i \in 1 .. Len(blocks) - 1 : Parent[blocks[i]] = blocks[i + 1]
  /\ \A i \in 1 .. Len(blocks) :
       Height[blocks[i]] = Height[blocks[Len(blocks)]] + (Len(blocks) - i)

\* The blocks fetched and not published yet are a new chain.
StackInv == NewChain(stack, seen)

\* While blocks are fetched, the cursor is a new block at the height the
\* scanner believes it to have, right below the stack.
WalkInv ==
  pc = "storage_block" =>
    /\ cursor # Genesis /\ cursor \notin seen
    /\ remaining_height = Height[cursor]
    /\ stack # << >> => Parent[stack[Len(stack)]] = cursor

\* While blocks are published, the next one rests on a published block.
PublishInv ==
  /\ Publishing => /\ stack # << >>
                   /\ Parent[Top] \in seen \cup {Genesis}
  /\ pc \notin {"storage_block", "record", "send"} => stack = << >>

\* Nothing is published by an attempt that may still be given up, and the
\* last attempt is not retried.
SpawnInv ==
  /\ ~spawned /\ ~Publishing => ingested = << >>
  /\ pc = "retry_delay" => ~spawned /\ attempt < MaxAttempts

\* The inductive invariant.
IInv ==
  /\ TypeOK
  /\ StackInv /\ WalkInv /\ PublishInv
  /\ SeenIsPublished /\ ParentsFirstOnce
  /\ SpawnInv

------------------------------------------------------------------------------
(* The chain.                                                              *)

\* A block other than genesis is one higher than its parent.
LEMMA ParentBelow ==
  ASSUME NEW b \in Block, b # Genesis
  PROVE  /\ Parent[b] \in Block /\ Parent[b] # b
         /\ Height[b] = Height[Parent[b]] + 1
         /\ Height[b] \in Nat /\ Height[Parent[b]] \in Nat
         /\ Height[b] > 0
         /\ Height[b] = 1 => Parent[b] = Genesis
  BY ChainAssumption

\* The initial states satisfy the inductive invariant.
LEMMA InitInv == Init => IInv
<1> SUFFICES ASSUME Init PROVE IInv
  OBVIOUS
<1>1. TypeOK
  <2>1. << >> \in Seq(Block) /\ MaxAttempts \in Nat \ {0}
    BY BoundAssumption
  <2>2. failures \in 0 .. MaxFailures /\ restarts \in 0 .. MaxRestarts
    BY BoundAssumption DEF Init
  <2>3. rx \in [Receiver -> SUBSET Nat]
    BY DEF Init
  <2>4. attempt \in 1 .. MaxAttempts /\ cursor \in Block
    BY <2>1, ChainAssumption DEF Init
  <2> QED
    BY <2>1, <2>2, <2>3, <2>4 DEF Init, TypeOK, Awaits
<1>2. StackInv /\ WalkInv /\ PublishInv
  BY DEF Init, StackInv, NewChain, WalkInv, PublishInv, Publishing
<1>3. SeenIsPublished /\ ParentsFirstOnce /\ SpawnInv
  BY DEF Init, SeenIsPublished, ParentsFirstOnce, SpawnInv, Range
<1> QED
  BY <1>1, <1>2, <1>3 DEF IInv

------------------------------------------------------------------------------
(* Steps that publish nothing and leave the walk alone.                    *)

\* The node's moves, the receivers, the cleanup guard and the poll timer.
LEMMA BystanderStep ==
  ASSUME IInv,
         \/ \E r \in Receiver : ReceiverStep(r)
         \/ \E b \in Block : TipMoves(b)
         \/ Cleanup \/ PollAgain
  PROVE  IInv'
<1>1. UNCHANGED <<stack, seen, ingested, cursor, remaining_height, spawned>>
  BY DEF ReceiverStep, TipMoves, Cleanup, PollAgain, walkVars, feedVars,
         taskVars
<1>2. UNCHANGED pc \/ (pc = "sleep" /\ pc' = "consensus_info")
  BY DEF ReceiverStep, TipMoves, Cleanup, PollAgain, taskVars
<1>3. TypeOK'
  <2>1. CASE \E r \in Receiver : ReceiverStep(r)
    <3>1. PICK r \in Receiver : ReceiverStep(r)
      BY <2>1
    <3>2. Oldest \in Nat
      BY BoundAssumption DEF IInv, TypeOK, Oldest
    <3>3. PICK next \in SUBSET Nat : rx' = [rx EXCEPT ![r] = next]
      BY <3>1, <3>2 DEF ReceiverStep, Subscribe, Unsubscribe, Recv, Lagged, IInv, TypeOK
    <3> QED
      BY <3>1, <3>3 DEF ReceiverStep, IInv, TypeOK, Awaits, envVars, taskVars,
                        walkVars, feedVars
  <2>2. CASE \E b \in Block : TipMoves(b)
    BY <2>2, BoundAssumption DEF TipMoves, IInv, TypeOK, Awaits, envVars,
       taskVars, walkVars, feedVars
  <2>3. CASE Cleanup \/ PollAgain
    BY <2>3 DEF Cleanup, PollAgain, IInv, TypeOK, Awaits, envVars, walkVars,
       feedVars
  <2> QED
    BY <2>1, <2>2, <2>3
<1>4. StackInv' /\ WalkInv' /\ PublishInv'
  BY <1>1, <1>2 DEF IInv, StackInv, NewChain, WalkInv, PublishInv,
     Publishing, Top
<1>5. SeenIsPublished' /\ ParentsFirstOnce' /\ SpawnInv'
  BY <1>1, <1>2 DEF IInv, SeenIsPublished, ParentsFirstOnce, SpawnInv,
     Publishing, ReceiverStep, TipMoves, Cleanup, PollAgain, taskVars
<1> QED
  BY <1>3, <1>4, <1>5 DEF IInv

------------------------------------------------------------------------------
(* The walk.                                                               *)

\* What every step of the walk leaves alone.
WalkKeeps == UNCHANGED <<envVars, attempt, abort, total_transactions, ingested, rx>>

\* A walk that breaks on top of a published block, or of genesis, is ready
\* to be published.
LEMMA BreakStep ==
  ASSUME IInv, ~Publishing, WalkKeeps,
         NEW blocks \in Seq(Block),
         Break(blocks),
         seen' \subseteq Block, seen' \ {Genesis} = seen \ {Genesis},
         NewChain(blocks, seen'),
         blocks # << >> => Parent[blocks[Len(blocks)]] \in seen' \cup {Genesis}
  PROVE  IInv'
<1>1. /\ stack' = blocks /\ cursor' = Genesis /\ remaining_height' = 0
      /\ spawned' \in BOOLEAN
      /\ \/ /\ blocks = << >> /\ spawned' = TRUE
            /\ pc' \in {"sleep", "consensus_info"}
         \/ blocks # << >> /\ pc' = "record" /\ spawned' = spawned
  BY DEF Break, LeaveWalk, CatchUpDone, IInv, TypeOK
<1>2. TypeOK'
  BY <1>1, ChainAssumption DEF IInv, TypeOK, Awaits, WalkKeeps, envVars
<1>3. StackInv'
  BY <1>1 DEF StackInv, NewChain
<1>4. WalkInv' /\ PublishInv'
  BY <1>1 DEF WalkInv, PublishInv, Publishing, Top
<1>5. SeenIsPublished' /\ ParentsFirstOnce'
  BY DEF WalkKeeps, IInv, SeenIsPublished, ParentsFirstOnce
<1>6. SpawnInv'
  BY <1>1 DEF SpawnInv, Publishing
<1> QED
  BY <1>2, <1>3, <1>4, <1>5, <1>6 DEF IInv

\* The head of the loop, entered with the blocks above `header` fetched and
\* the true height of `header`.
LEMMA LoopHeadStep ==
  ASSUME IInv, ~Publishing, WalkKeeps,
         NEW header \in Block, NEW blocks \in Seq(Block),
         LoopHead(header, Height[header], blocks),
         NewChain(blocks, seen),
         blocks # << >> => Parent[blocks[Len(blocks)]] = header
  PROVE  IInv'
<1>1. Height[header] \in Nat /\ (Height[header] = 0 <=> header = Genesis)
  BY ChainAssumption
<1>2. CASE header \in seen /\ Break(blocks) /\ UNCHANGED seen
  <2>1. seen' \subseteq Block /\ NewChain(blocks, seen')
    BY <1>2 DEF IInv, TypeOK, NewChain
  <2> QED
    BY <1>2, <2>1, BreakStep
<1>3. CASE /\ header \notin seen /\ Height[header] = 0
           /\ Break(blocks)
           /\ seen' = seen \cup {header}
  <2>1. header = Genesis
    BY <1>1, <1>3
  <2>2. seen' \subseteq Block /\ seen' \ {Genesis} = seen \ {Genesis}
    BY <1>3, <2>1 DEF IInv, TypeOK
  <2>3. NewChain(blocks, seen')
    BY <1>3, <2>1 DEF NewChain
  <2> QED
    BY <1>3, <2>1, <2>2, <2>3, BreakStep
<1>4. CASE /\ header \notin seen /\ Height[header] > 0
           /\ pc' = "storage_block"
           /\ cursor' = header /\ remaining_height' = Height[header]
           /\ stack' = blocks
           /\ UNCHANGED <<seen, spawned>>
  <2>1. TypeOK'
    BY <1>1, <1>4 DEF IInv, TypeOK, Awaits, WalkKeeps, envVars
  <2>2. StackInv'
    BY <1>4 DEF StackInv, NewChain
  <2>3. WalkInv' /\ PublishInv'
    BY <1>1, <1>4 DEF WalkInv, PublishInv, Publishing, Top
  <2>4. SeenIsPublished' /\ ParentsFirstOnce' /\ SpawnInv'
    BY <1>4 DEF WalkKeeps, IInv, SeenIsPublished, ParentsFirstOnce, SpawnInv
  <2> QED
    BY <2>1, <2>2, <2>3, <2>4 DEF IInv
<1> QED
  BY <1>2, <1>3, <1>4 DEF LoopHead

\* The walk starts at the tip, at the height the node reports for it.
LEMMA ConsensusInfoStep ==
  ASSUME IInv, ConsensusInfo
  PROVE  IInv'
<1>1. tip \in Block /\ << >> \in Seq(Block)
  BY DEF IInv, TypeOK
<1>2. NewChain(<< >>, seen)
  BY DEF NewChain
<1>3. ~Publishing /\ WalkKeeps /\ LoopHead(tip, Height[tip], << >>)
  BY DEF ConsensusInfo, Publishing, WalkKeeps
<1> QED
  BY <1>1, <1>2, <1>3, LoopHeadStep

\* A fetched block extends the stack and the walk goes on at its parent.
LEMMA StorageBlockStep ==
  ASSUME IInv, StorageBlock
  PROVE  IInv'
<1> DEFINE parent == Parent[cursor]
           blocks == Append(stack, cursor)
           n == Len(stack)
<1>1. /\ pc = "storage_block"
      /\ cursor \in Block /\ cursor # Genesis /\ cursor \notin seen
      /\ remaining_height = Height[cursor]
      /\ stack # << >> => Parent[stack[n]] = cursor
      /\ stack \in Seq(Block) /\ seen \subseteq Block
  BY DEF StorageBlock, IInv, TypeOK, WalkInv
<1>2. /\ parent \in Block /\ parent # cursor
      /\ Height[parent] \in Nat /\ Height[cursor] = Height[parent] + 1
  BY <1>1, ParentBelow
<1>3. /\ blocks \in Seq(Block) /\ Len(blocks) = n + 1 /\ n \in Nat
      /\ blocks[n + 1] = cursor /\ blocks # << >>
      /\ \A i \in 1 .. n : blocks[i] = stack[i] /\ stack[i] \in Block
  <2>1. /\ blocks \in Seq(Block) /\ Len(blocks) = n + 1
        /\ blocks[n + 1] = cursor /\ blocks # << >>
        /\ \A i \in 1 .. n : blocks[i] = stack[i]
    BY <1>1, AppendProperties
  <2>2. n \in Nat /\ \A i \in 1 .. n : stack[i] \in Block
    BY <1>1, ElementOfSeq
  <2> QED
    BY <2>1, <2>2
<1>4. NewChain(blocks, seen)
  <2> HIDE DEF blocks, n
  <2>1. NewChain(stack, seen) /\ n = Len(stack)
    BY DEF IInv, StackInv, n
  <2>2. ASSUME NEW i \in 1 .. Len(blocks)
        PROVE  blocks[i] # Genesis /\ blocks[i] \notin seen
    BY <1>1, <1>3, <2>1 DEF NewChain
  <2>3. ASSUME NEW i \in 1 .. Len(blocks) - 1
        PROVE  Parent[blocks[i]] = blocks[i + 1]
    <3>1. CASE i = n
      BY <1>1, <1>3, <2>1, <3>1
    <3>2. CASE i \in 1 .. n - 1
      BY <1>3, <2>1, <3>2 DEF NewChain
    <3> QED
      BY <1>3, <3>1, <3>2
  <2>4. ASSUME NEW i \in 1 .. Len(blocks)
        PROVE  Height[blocks[i]] = Height[blocks[Len(blocks)]] + (Len(blocks) - i)
    <3>1. CASE i = n + 1
      BY <1>1, <1>2, <1>3, <3>1
    <3>2. CASE i \in 1 .. n
      <4>1. Height[stack[i]] = Height[stack[n]] + (n - i)
        BY <2>1, <3>2 DEF NewChain
      <4>2. stack[n] \in Block /\ stack[n] # Genesis /\ Parent[stack[n]] = cursor
        BY <1>1, <1>3, <2>1, <3>2 DEF NewChain
      <4>3. Height[stack[n]] = Height[cursor] + 1 /\ Height[cursor] \in Nat
        BY <1>2, <4>2, ParentBelow
      <4> QED
        BY <1>3, <3>2, <4>1, <4>3
    <3> QED
      BY <1>3, <3>1, <3>2
  <2> QED
    BY <2>2, <2>3, <2>4 DEF NewChain
<1>5. ~Publishing /\ WalkKeeps
  BY <1>1 DEF StorageBlock, Publishing, WalkKeeps
<1>6. CASE parent \in seen
  <2>1. Break(blocks) /\ UNCHANGED seen
    BY <1>6 DEF StorageBlock
  <2> HIDE DEF blocks
  <2>2. NewChain(blocks, seen') /\ seen' \subseteq Block
    BY <1>1, <1>4, <2>1
  <2>3. Parent[blocks[Len(blocks)]] \in seen' \cup {Genesis}
    BY <1>3, <1>6, <2>1
  <2> QED
    BY <1>3, <1>5, <2>1, <2>2, <2>3, BreakStep
<1>7. CASE parent \notin seen
  <2>1. (IF remaining_height = 0 THEN 0 ELSE remaining_height - 1) = Height[parent]
    BY <1>1, <1>2
  <2>2. LoopHead(parent, Height[parent], blocks)
    BY <1>2, <1>7, <2>1 DEF StorageBlock
  <2> HIDE DEF blocks
  <2>3. Parent[blocks[Len(blocks)]] = parent
    BY <1>3
  <2> QED
    BY <1>2, <1>3, <1>4, <1>5, <2>2, <2>3, LoopHeadStep
<1> QED
  BY <1>6, <1>7

\* A failed walk leaves nothing behind, whether the run loop goes to sleep,
\* the deployer starts over, or the task has been aborted.
LEMMA WalkLostStep ==
  ASSUME IInv, RequestFails \/ Respawn \/ AbortLands
  PROVE  IInv'
<1>1. ~Publishing /\ ~Publishing' /\ pc' # "storage_block"
  BY DEF RequestFails, RequestLost, Respawn, AbortLands, Publishing, Awaits
<1>2. stack' = << >>
  BY DEF RequestFails, RequestLost, Respawn, AbortLands, walkVars, IInv, PublishInv
<1>3. \/ UNCHANGED <<seen, ingested>>
      \/ seen' = {} /\ ingested' = << >>
  BY DEF RequestFails, RequestLost, Respawn, AbortLands, feedVars
<1>4. UNCHANGED spawned
  BY DEF RequestFails, RequestLost, Respawn, AbortLands
<1>5. TypeOK'
  <2>1. CASE RequestFails
    BY <2>1, ChainAssumption, BoundAssumption
       DEF RequestFails, RequestLost, LeaveWalk, feedVars, IInv, TypeOK, Awaits
  <2>2. CASE Respawn
    <3>1. attempt < MaxAttempts
      BY <2>2 DEF Respawn, IInv, SpawnInv
    <3> QED
      BY <2>2, <3>1, BoundAssumption
         DEF Respawn, envVars, walkVars, IInv, TypeOK, Awaits
  <2>3. CASE AbortLands
    BY <2>3, ChainAssumption
       DEF AbortLands, LeaveWalk, envVars, feedVars, IInv, TypeOK, Awaits
  <2> QED
    BY <2>1, <2>2, <2>3
<1>6. StackInv' /\ WalkInv' /\ PublishInv'
  BY <1>1, <1>2 DEF StackInv, NewChain, WalkInv, PublishInv
<1>7. SeenIsPublished' /\ ParentsFirstOnce'
  BY <1>3 DEF IInv, SeenIsPublished, ParentsFirstOnce, Range
<1>8. SpawnInv'
  BY <1>1, <1>3, <1>4 DEF RequestFails, RequestLost, Respawn, AbortLands, IInv, SpawnInv
<1> QED
  BY <1>5, <1>6, <1>7, <1>8 DEF IInv

------------------------------------------------------------------------------
(* Publication.                                                            *)

\* Counting a block changes neither the stack nor the stream.
LEMMA RecordBlockStep ==
  ASSUME IInv, RecordBlock
  PROVE  IInv'
<1>1. Top \in Block
  BY DEF RecordBlock, IInv, TypeOK, PublishInv, Publishing, Top
<1>2. total_transactions' \in Nat
  BY <1>1, BoundAssumption DEF RecordBlock, IInv, TypeOK
<1>3. TypeOK'
  BY <1>2 DEF RecordBlock, envVars, walkVars, IInv, TypeOK, Awaits
<1>4. StackInv' /\ WalkInv' /\ PublishInv'
  BY DEF RecordBlock, walkVars, IInv, StackInv, NewChain, WalkInv, PublishInv,
         Publishing, Top
<1>5. SeenIsPublished' /\ ParentsFirstOnce' /\ SpawnInv'
  BY DEF RecordBlock, IInv, SeenIsPublished, ParentsFirstOnce, SpawnInv,
         Publishing
<1> QED
  BY <1>3, <1>4, <1>5 DEF IInv

\* What publishing the top of the stack appends to the stream.
LEMMA SendRecordFacts ==
  ASSUME IInv, SendRecord
  PROVE  /\ Top \in Block /\ Top # Genesis
         /\ Top \notin Range(ingested)
         /\ Parent[Top] \in Range(ingested) \cup {Genesis}
         /\ ingested' = Append(ingested, Top)
<1>1. stack \in Seq(Block) /\ stack # << >> /\ Len(stack) \in 1 .. Len(stack)
  BY DEF SendRecord, IInv, TypeOK, PublishInv, Publishing
<1>2. Top \in Block /\ Top # Genesis /\ Top \notin seen
  BY <1>1 DEF Top, IInv, StackInv, NewChain
<1>3. Parent[Top] \in seen \cup {Genesis}
  BY DEF SendRecord, IInv, PublishInv, Publishing
<1> QED
  BY <1>2, <1>3 DEF SendRecord, IInv, SeenIsPublished

\* Publishing the top of the stack keeps the rest of it a new chain.
LEMMA SendRecordStep ==
  ASSUME IInv, SendRecord
  PROVE  IInv'
<1> DEFINE n == Len(stack)
           m == Len(ingested)
<1>1. /\ stack \in Seq(Block) /\ n \in Nat \ {0} /\ n = Len(stack)
      /\ \A i \in 1 .. n : stack[i] \in Block
      /\ ingested \in Seq(Block) /\ m \in Nat /\ m = Len(ingested)
  BY DEF SendRecord, IInv, TypeOK, PublishInv, Publishing
<1> HIDE DEF n, m
<1>2. /\ ingested' \in Seq(Block) /\ Len(ingested') = m + 1
      /\ \A i \in 1 .. m : ingested'[i] = ingested[i]
      /\ ingested'[m + 1] = Top
  <2>1. ingested' = Append(ingested, Top) /\ Top \in Block
    BY SendRecordFacts
  <2> HIDE DEF Top
  <2> QED
    BY <1>1, <2>1, AppendProperties
<1>3. /\ stack' \in Seq(Block) /\ Len(stack') = n - 1
      /\ \A i \in 1 .. n - 1 : stack'[i] = stack[i]
  <2>1. stack' = SubSeq(stack, 1, n - 1)
    BY <1>1 DEF SendRecord
  <2>2. 1 \in Int /\ n - 1 \in Int /\ \A i \in 1 .. n - 1 : stack[i] \in Block
    BY <1>1
  <2>3. /\ SubSeq(stack, 1, n - 1) \in Seq(Block)
        /\ Len(SubSeq(stack, 1, n - 1)) = IF 1 <= n - 1 THEN (n - 1) - 1 + 1 ELSE 0
        /\ \A i \in 1 .. (n - 1) - 1 + 1 :
             SubSeq(stack, 1, n - 1)[i] = stack[1 + i - 1]
    BY <2>2, SubSeqProperties
  <2> QED
    BY <1>1, <2>1, <2>3
<1>4. /\ spawned' \in BOOLEAN
      /\ \/ n = 1 /\ spawned' = TRUE /\ pc' \in {"sleep", "consensus_info"}
         \/ n > 1 /\ pc' = "record" /\ spawned' = spawned
  BY <1>1 DEF SendRecord, CatchUpDone, IInv, TypeOK
<1>5. TypeOK'
  BY <1>2, <1>3, <1>4, SendRecordFacts
     DEF SendRecord, envVars, IInv, TypeOK, Awaits
<1>6. StackInv'
  <2>1. /\ \A i \in 1 .. n : stack[i] # Genesis /\ stack[i] \notin seen
        /\ \A i \in 1 .. n - 1 : Parent[stack[i]] = stack[i + 1]
        /\ \A i \in 1 .. n : Height[stack[i]] = Height[stack[n]] + (n - i)
    BY <1>1 DEF IInv, StackInv, NewChain
  <2>2. Height[stack[n]] \in Nat
    BY <1>1, ChainAssumption
  <2>3. seen' = seen \cup {stack[n]}
    BY <1>1 DEF SendRecord, Top
  <2>4. ASSUME NEW i \in 1 .. n - 1
        PROVE  stack[i] # Genesis /\ stack[i] \notin seen'
    <3>1. Height[stack[i]] = Height[stack[n]] + (n - i)
      BY <1>1, <2>1
    <3>2. stack[i] # stack[n]
      BY <1>1, <2>2, <3>1
    <3> QED
      BY <1>1, <2>1, <2>3, <3>2
  <2>5. ASSUME NEW i \in 1 .. n - 1
        PROVE  Height[stack[i]] = Height[stack[n - 1]] + (n - 1 - i)
    <3>1. n - 1 \in 1 .. n /\ i \in 1 .. n
      BY <1>1
    <3>2. /\ Height[stack[i]] = Height[stack[n]] + (n - i)
          /\ Height[stack[n - 1]] = Height[stack[n]] + (n - (n - 1))
      BY <2>1, <3>1
    <3> QED
      BY <1>1, <2>2, <3>2
  <2>6. ASSUME NEW i \in 1 .. n - 1
        PROVE  /\ stack'[i] # Genesis /\ stack'[i] \notin seen'
               /\ Height[stack'[i]] = Height[stack'[n - 1]] + (n - 1 - i)
    <3>1. stack'[i] = stack[i]
      BY <1>3
    <3>2. n - 1 \in 1 .. n - 1
      BY <1>1
    <3>3. stack'[n - 1] = stack[n - 1]
      BY <1>3, <3>2
    <3> QED
      BY <2>4, <2>5, <3>1, <3>3
  <2>7. ASSUME NEW i \in 1 .. (n - 1) - 1
        PROVE  Parent[stack'[i]] = stack'[i + 1]
    <3>1. i \in 1 .. n - 1 /\ i + 1 \in 1 .. n - 1
      BY <1>1
    <3> QED
      BY <1>3, <2>1, <3>1
  <2> QED
    BY <1>3, <2>6, <2>7 DEF StackInv, NewChain
<1>7. WalkInv' /\ PublishInv'
  <2>1. CASE n = 1
    BY <1>3, <1>4, <2>1 DEF WalkInv, PublishInv, Publishing
  <2>2. CASE n > 1
    <3>1. Parent[stack[n - 1]] = Top /\ stack' # << >> /\ Top' = stack[n - 1]
      BY <1>1, <1>3, <2>2 DEF IInv, StackInv, NewChain, Top
    <3> QED
      BY <1>4, <2>2, <3>1 DEF SendRecord, WalkInv, PublishInv, Publishing
  <2> QED
    BY <1>1, <2>1, <2>2
<1>8. SeenIsPublished'
  <2>1. Range(ingested') = Range(ingested) \cup {Top}
    BY <1>1, <1>2 DEF Range
  <2> QED
    BY <2>1, SendRecordFacts DEF SendRecord, IInv, SeenIsPublished
<1>9. ParentsFirstOnce'
  <2> SUFFICES ASSUME NEW i \in 1 .. m + 1
               PROVE  /\ ingested'[i] # Genesis
                      /\ \A j \in 1 .. i - 1 : ingested'[j] # ingested'[i]
                      /\ \/ Parent[ingested'[i]] = Genesis
                         \/ \E j \in 1 .. i - 1 :
                              ingested'[j] = Parent[ingested'[i]]
    BY <1>1, <1>2 DEF ParentsFirstOnce
  <2>1. CASE i \in 1 .. m
    <3>1. /\ ingested[i] # Genesis
          /\ \A j \in 1 .. i - 1 : ingested[j] # ingested[i]
          /\ \/ Parent[ingested[i]] = Genesis
             \/ \E j \in 1 .. i - 1 : ingested[j] = Parent[ingested[i]]
      BY <1>1, <2>1 DEF IInv, ParentsFirstOnce
    <3>2. ingested'[i] = ingested[i]
      BY <1>2, <2>1
    <3>3. \A j \in 1 .. i - 1 : j \in 1 .. m /\ ingested'[j] = ingested[j]
      BY <1>1, <1>2, <2>1
    <3> QED
      BY <3>1, <3>2, <3>3
  <2>2. CASE i = m + 1
    <3>1. \A j \in 1 .. m : ingested[j] \in Range(ingested)
      BY <1>1 DEF Range
    <3>2. Parent[Top] # Genesis => \E j \in 1 .. m : ingested[j] = Parent[Top]
      BY <1>1, SendRecordFacts DEF Range
    <3> QED
      BY <1>1, <1>2, <2>2, <3>1, <3>2, SendRecordFacts
  <2> QED
    BY <1>1, <2>1, <2>2
<1>10. SpawnInv'
  BY <1>4 DEF SpawnInv, Publishing
<1> QED
  BY <1>5, <1>6, <1>7, <1>8, <1>9, <1>10 DEF IInv

------------------------------------------------------------------------------
(* The theorems.                                                           *)

\* Every step preserves the inductive invariant.
LEMMA NextInv == IInv /\ [Next]_vars => IInv'
<1> SUFFICES ASSUME IInv, [Next]_vars PROVE IInv'
  OBVIOUS
<1>1. CASE ConsensusInfo
  BY <1>1, ConsensusInfoStep
<1>2. CASE StorageBlock
  BY <1>2, StorageBlockStep
<1>3. CASE RecordBlock
  BY <1>3, RecordBlockStep
<1>4. CASE SendRecord
  BY <1>4, SendRecordStep
<1>5. CASE RequestFails \/ Respawn \/ AbortLands
  BY <1>5, WalkLostStep
<1>6. CASE \/ \E r \in Receiver : ReceiverStep(r)
           \/ \E b \in Block : TipMoves(b)
           \/ Cleanup \/ PollAgain
  BY <1>6, BystanderStep
<1>7. CASE UNCHANGED vars
  BY <1>7 DEF vars, envVars, taskVars, walkVars, feedVars, IInv, TypeOK,
     StackInv, NewChain, WalkInv, PublishInv, Publishing, Top,
     SeenIsPublished, ParentsFirstOnce, SpawnInv
<1> QED
  BY <1>1, <1>2, <1>3, <1>4, <1>5, <1>6, <1>7 DEF Next, Scan

\* The inductive invariant holds throughout.
LEMMA Invariance == Spec => []IInv
  BY InitInv, NextInv, PTL DEF Spec

------------------------------------------------------------------------------
(* The statistics.                                                         *)

\* Every set of naturals that is not empty has a least element.
LEMMA LeastNat ==
  ASSUME NEW S \in SUBSET Nat, S # {}
  PROVE  \E x \in S : \A y \in S : x <= y
<1> DEFINE R == {p \in Nat \X Nat : p[1] < p[2]}
<1>1. R = OpToRel(<, Nat)
  BY DEF OpToRel
<1>2. IsWellFoundedOn(R, Nat)
  BY <1>1, NatLessThanWellFounded
<1> HIDE DEF R
<1>3. PICK x \in S : \A y \in S : ~ (<<y, x>> \in R)
  BY <1>2, WFMin
<1>4. \A y \in S : ~ (y < x)
  BY <1>3 DEF R
<1> QED
  BY <1>4

\* f gives the transactions in the first n blocks, for every n up to m.
AddsUp(f, m, blocks) ==
  f[0] = 0 /\ \A n \in 1 .. m : f[n] = f[n - 1] + Txs[blocks[n]]

SumsTo(f, m, blocks) == f \in [0 .. m -> Nat] /\ AddsUp(f, m, blocks)

\* There are such sums.
LEMMA SumsExist ==
  ASSUME NEW blocks \in Seq(Block), NEW m \in 0 .. Len(blocks)
  PROVE  \E f : SumsTo(f, m, blocks)
<1> DEFINE S == {n \in 0 .. Len(blocks) : ~ \E f : SumsTo(f, n, blocks)}
<1>1. SUFFICES ASSUME S # {} PROVE FALSE
  OBVIOUS
<1>2. S \in SUBSET Nat
  OBVIOUS
<1>3. PICK n \in S : \A k \in S : n <= k
  BY <1>1, <1>2, LeastNat
<1>4. n # 0
  <2>1. SumsTo([k \in 0 .. 0 |-> 0], 0, blocks)
    BY DEF SumsTo, AddsUp
  <2> QED
    BY <1>3, <2>1
<1>5. n - 1 \in 0 .. Len(blocks) /\ n \in Nat /\ n \in 1 .. Len(blocks)
  BY <1>3, <1>4
<1>6. PICK f : SumsTo(f, n - 1, blocks)
  BY <1>3, <1>5
<1> DEFINE g == [k \in 0 .. n |-> IF k = n THEN f[n - 1] + Txs[blocks[n]] ELSE f[k]]
<1>7. f[n - 1] \in Nat /\ Txs[blocks[n]] \in Nat
  BY <1>5, <1>6, BoundAssumption DEF SumsTo, AddsUp
<1>8. SumsTo(g, n, blocks)
  <2>1. \A k \in 0 .. n - 1 : g[k] = f[k] /\ f[k] \in Nat
    BY <1>5, <1>6 DEF SumsTo, AddsUp
  <2>2. g[n] = f[n - 1] + Txs[blocks[n]]
    BY <1>5
  <2>3. g \in [0 .. n -> Nat]
    <3>1. \A k \in 0 .. n : k = n \/ k \in 0 .. n - 1
      BY <1>5
    <3>2. \A k \in 0 .. n : g[k] \in Nat
      <4>1. f[n - 1] + Txs[blocks[n]] \in Nat
        BY <1>7
      <4> HIDE DEF g
      <4> QED
        BY <2>1, <2>2, <3>1, <4>1
    <3> QED
      BY <3>2
  <2>4. g[0] = 0
    BY <1>5, <1>6, <2>1 DEF SumsTo, AddsUp
  <2>5. \A k \in 1 .. n : g[k] = g[k - 1] + Txs[blocks[k]]
    <3>1. SUFFICES ASSUME NEW k \in 1 .. n PROVE g[k] = g[k - 1] + Txs[blocks[k]]
      OBVIOUS
    <3>2. k - 1 \in 0 .. n - 1
      BY <1>5
    <3>3. g[k - 1] = f[k - 1]
      BY <2>1, <3>2
    <3>4. CASE k = n
      BY <2>2, <3>3, <3>4
    <3>5. CASE k # n
      <4>1. k \in 1 .. n - 1 /\ k \in 0 .. n - 1
        BY <1>5, <3>5
      <4>2. g[k] = f[k]
        BY <2>1, <4>1
      <4> QED
        BY <1>6, <3>3, <4>1, <4>2 DEF SumsTo, AddsUp
    <3> QED
      BY <3>4, <3>5
  <2> HIDE DEF g
  <2> QED
    BY <2>3, <2>4, <2>5 DEF SumsTo, AddsUp
<1> QED
  BY <1>3, <1>8

\* Sums over sequences that begin alike are alike that far.
LEMMA SumsAgree ==
  ASSUME NEW a, NEW b, NEW m \in Nat, NEW l \in Nat, NEW n \in Nat, n <= m, n <= l,
         NEW f, AddsUp(f, m, a), NEW g, AddsUp(g, l, b),
         \A k \in 1 .. n : a[k] = b[k]
  PROVE  f[n] = g[n]
<1> DEFINE S == {k \in 0 .. n : f[k] # g[k]}
<1>1. SUFFICES ASSUME S # {} PROVE FALSE
  OBVIOUS
<1>2. PICK k \in S : \A j \in S : k <= j
  <2>1. S \in SUBSET Nat
    OBVIOUS
  <2> QED
    BY <1>1, <2>1, LeastNat
<1>3. k # 0
  BY <1>2 DEF AddsUp
<1>4. k \in 1 .. m /\ k \in 1 .. l /\ k \in 1 .. n /\ k - 1 \in 0 .. n /\ k \in Nat
  BY <1>2, <1>3
<1>5. k - 1 \notin S
  BY <1>2, <1>4
<1>6. f[k - 1] = g[k - 1]
  BY <1>4, <1>5
<1>7. f[k] = f[k - 1] + Txs[a[k]] /\ g[k] = g[k - 1] + Txs[b[k]]
  BY <1>4 DEF AddsUp
<1> QED
  BY <1>2, <1>4, <1>6, <1>7

\* TxsIn is the last of the sums.
LEMMA TxsInIsSum ==
  ASSUME NEW blocks \in Seq(Block)
  PROVE  \E f : SumsTo(f, Len(blocks), blocks) /\ TxsIn(blocks) = f[Len(blocks)]
<1> DEFINE L == Len(blocks)
           Rec(h) == h = [n \in 0 .. L |-> IF n = 0 THEN 0 ELSE h[n - 1] + Txs[blocks[n]]]
           s == CHOOSE h : Rec(h)
<1>1. L \in Nat /\ L \in 0 .. Len(blocks) /\ \A n \in 1 .. L : Txs[blocks[n]] \in Nat
  BY BoundAssumption
<1>2. PICK f : SumsTo(f, L, blocks)
  BY <1>1, SumsExist
<1>3. Rec(f)
  BY <1>1, <1>2 DEF SumsTo, AddsUp
<1>4. Rec(s)
  BY <1>3
<1>5. TxsIn(blocks) = s[L]
  BY DEF TxsIn
<1> HIDE DEF s
<1>6. AddsUp(s, L, blocks)
  <2>1. s[0] = 0
    BY <1>1, <1>4
  <2>2. \A n \in 1 .. L : s[n] = s[n - 1] + Txs[blocks[n]]
    <3>1. SUFFICES ASSUME NEW n \in 1 .. L PROVE s[n] = s[n - 1] + Txs[blocks[n]]
      OBVIOUS
    <3>2. n \in 0 .. L /\ n # 0
      BY <1>1
    <3> QED
      BY <1>4, <3>2
  <2> QED
    BY <2>1, <2>2 DEF AddsUp
<1>7. s[L] = f[L]
  BY <1>1, <1>2, <1>6, SumsAgree DEF SumsTo
<1> QED
  BY <1>2, <1>5, <1>7

\* One block more adds its transactions.
LEMMA TxsInAppend ==
  ASSUME NEW blocks \in Seq(Block), NEW b \in Block
  PROVE  TxsIn(blocks) \in Nat /\ TxsIn(Append(blocks, b)) = TxsIn(blocks) + Txs[b]
<1> DEFINE longer == Append(blocks, b)
           L == Len(blocks)
<1>1. /\ longer \in Seq(Block) /\ Len(longer) = L + 1 /\ L \in Nat
      /\ longer[L + 1] = b /\ \A k \in 1 .. L : blocks[k] = longer[k]
  OBVIOUS
<1> HIDE DEF longer
<1>2. PICK f : SumsTo(f, L, blocks) /\ TxsIn(blocks) = f[L]
  BY TxsInIsSum
<1>3. PICK g : SumsTo(g, Len(longer), longer) /\ TxsIn(longer) = g[Len(longer)]
  BY <1>1, TxsInIsSum
<1> HIDE DEF L
<1>4. f[L] \in Nat
  BY <1>1, <1>2 DEF SumsTo
<1>5. f[L] = g[L]
  <2>1. AddsUp(f, L, blocks) /\ AddsUp(g, L + 1, longer)
    BY <1>1, <1>2, <1>3 DEF SumsTo
  <2>2. L \in Nat /\ L + 1 \in Nat /\ L <= L /\ L <= L + 1
    BY <1>1
  <2> QED
    BY <1>1, <2>1, <2>2, SumsAgree
<1>6. g[L + 1] = g[L] + Txs[b]
  <2>1. L + 1 \in 1 .. L + 1 /\ (L + 1) - 1 = L
    BY <1>1
  <2>2. g[L + 1] = g[(L + 1) - 1] + Txs[longer[L + 1]]
    BY <1>1, <1>3, <2>1 DEF SumsTo, AddsUp
  <2> QED
    BY <1>1, <2>1, <2>2
<1> QED
  BY <1>1, <1>2, <1>3, <1>4, <1>5, <1>6 DEF longer

\* An empty feed holds no transactions.
LEMMA TxsInNone == TxsIn(<< >>) = 0
<1>1. << >> \in Seq(Block) /\ Len(<< >>) = 0
  OBVIOUS
<1>2. PICK f : SumsTo(f, Len(<< >>), << >>) /\ TxsIn(<< >>) = f[Len(<< >>)]
  BY <1>1, TxsInIsSum
<1> QED
  BY <1>1, <1>2 DEF SumsTo, AddsUp

\* The statistics are what was sent, and one block ahead between the two
\* halves of BlockFeed::ingest.
StatsInv ==
  /\ pc # "send" => total_transactions = TxsIn(ingested)
  /\ pc = "send" => total_transactions = TxsIn(ingested) + Txs[Top]

\* Every step keeps the statistics and the feed in line.
LEMMA StatsStep == IInv /\ StatsInv /\ [Next]_vars => StatsInv'
<1> SUFFICES ASSUME IInv, StatsInv, [Next]_vars PROVE StatsInv'
  OBVIOUS
<1> USE DEF envVars, taskVars, walkVars, feedVars
<1>0. ingested \in Seq(Block) /\ stack \in Seq(Block)
  BY DEF IInv, TypeOK
<1>1. ASSUME total_transactions' = total_transactions, ingested' = ingested,
             pc # "send", pc' # "send"
      PROVE  StatsInv'
  BY <1>1 DEF StatsInv
<1>2. ASSUME UNCHANGED <<total_transactions, ingested, pc, stack>>
      PROVE  StatsInv'
  <2>1. Top' = Top
    BY <1>2 DEF Top
  <2> QED
    BY <1>2, <2>1 DEF StatsInv
<1>3. CASE ConsensusInfo \/ StorageBlock
  <2>1. pc # "send" /\ total_transactions' = total_transactions /\ ingested' = ingested
    BY <1>3 DEF ConsensusInfo, StorageBlock
  <2>2. pc' # "send"
    BY <1>3 DEF ConsensusInfo, StorageBlock, LoopHead, Break, CatchUpDone
  <2> QED
    BY <1>1, <2>1, <2>2
<1>4. CASE PollAgain \/ AbortLands \/ RequestFails
  <2>1. pc # "send" /\ total_transactions' = total_transactions /\ ingested' = ingested
    BY <1>4 DEF PollAgain, AbortLands, RequestFails, RequestLost, Awaits
  <2>2. pc' # "send"
    BY <1>4 DEF PollAgain, AbortLands, RequestFails
  <2> QED
    BY <1>1, <2>1, <2>2
<1>5. CASE Respawn
  <2>1. total_transactions' = 0 /\ ingested' = << >> /\ pc' = "consensus_info"
    BY <1>5 DEF Respawn
  <2> QED
    BY <2>1, TxsInNone DEF StatsInv
<1>6. CASE RecordBlock
  <2>1. /\ pc = "record" /\ pc' = "send" /\ ingested' = ingested /\ stack' = stack
        /\ total_transactions' = total_transactions + Txs[Top]
    BY <1>6 DEF RecordBlock
  <2>2. Top' = Top
    BY <2>1 DEF Top
  <2> QED
    BY <2>1, <2>2 DEF StatsInv
<1>7. CASE SendRecord
  <2>1. /\ pc = "send" /\ pc' # "send" /\ ingested' = Append(ingested, Top)
        /\ total_transactions' = total_transactions
    BY <1>7 DEF SendRecord, CatchUpDone
  <2>2. Top \in Block
    BY <1>7, SendRecordFacts
  <2>3. TxsIn(Append(ingested, Top)) = TxsIn(ingested) + Txs[Top]
    BY <1>0, <2>2, TxsInAppend
  <2>4. TxsIn(ingested)' = TxsIn(Append(ingested, Top))
    BY <2>1
  <2> QED
    BY <2>1, <2>3, <2>4 DEF StatsInv
<1>8. CASE \/ Cleanup \/ UNCHANGED vars
           \/ \E r \in Receiver : ReceiverStep(r)
           \/ \E b \in Block : TipMoves(b)
  <2>1. UNCHANGED <<total_transactions, ingested, pc, stack>>
    BY <1>8 DEF Cleanup, vars, ReceiverStep, TipMoves
  <2> QED
    BY <1>2, <2>1
<1> QED
  BY <1>3, <1>4, <1>5, <1>6, <1>7, <1>8 DEF Next, Scan

------------------------------------------------------------------------------
\* The variables of the feed always have their types.
THEOREM TypeCorrect == Spec => []TypeOK
<1>1. IInv => TypeOK
  BY DEF IInv
<1> QED
  BY <1>1, Invariance, PTL

\* For every block tree and every sequence of tips, failures, restarts and
\* retries, each block is published at most once and after its parent.
THEOREM PublishesParentsFirst == Spec => []ParentsFirstOnce
<1>1. IInv => ParentsFirstOnce
  BY DEF IInv
<1> QED
  BY <1>1, Invariance, PTL

\* The `seen` set is always what was published, genesis aside.
THEOREM SeenCorrect == Spec => []SeenIsPublished
<1>1. IInv => SeenIsPublished
  BY DEF IInv
<1> QED
  BY <1>1, Invariance, PTL

\* A subscriber that has received a block finds its transactions already in
\* BlockStats, and at every await of the scanner the two agree, for every
\* block tree and whatever walks and attempts to spawn were lost.
THEOREM StatsCover == Spec => []StatsCoverFeed
<1>1. Init => StatsInv
  BY TxsInNone DEF Init, StatsInv
<1>2. IInv /\ StatsInv => StatsCoverFeed
  <2> SUFFICES ASSUME IInv, StatsInv PROVE StatsCoverFeed
    OBVIOUS
  <2>1. TxsIn(ingested) \in Nat
    <3>1. ingested \in Seq(Block) /\ Genesis \in Block
      BY ChainAssumption DEF IInv, TypeOK
    <3> QED
      BY <3>1, TxsInAppend
  <2>2. CASE pc = "send"
    <3>1. Top \in Block
      BY <2>2 DEF IInv, TypeOK, PublishInv, Publishing, Top
    <3>2. Txs[Top] \in Nat /\ total_transactions = TxsIn(ingested) + Txs[Top]
      BY <2>2, <3>1, BoundAssumption DEF StatsInv
    <3> QED
      BY <2>1, <2>2, <3>2 DEF StatsCoverFeed, Awaits
  <2>3. CASE pc # "send"
    <3>1. total_transactions = TxsIn(ingested)
      BY <2>3 DEF StatsInv
    <3> QED
      BY <2>1, <3>1 DEF StatsCoverFeed
  <2> QED
    BY <2>2, <2>3
<1> QED
  BY <1>1, <1>2, StatsStep, Invariance, PTL DEF Spec

\* Publication stops only when the whole batch is out: no abort and no failed
\* request cuts it short.
THEOREM BatchComplete == Spec => BatchReachesItsTip
<1>1. ASSUME IInv, [Next]_vars, Publishing, ~Publishing'
      PROVE  stack[1] \in Range(ingested')
  <2>1. SendRecord /\ Len(stack) = 1
    BY <1>1 DEF Next, Scan, ConsensusInfo, StorageBlock, PollAgain, Respawn,
       RecordBlock, SendRecord, AbortLands, Awaits, RequestFails, RequestLost,
       Cleanup, ReceiverStep, TipMoves, taskVars, vars, Publishing
  <2>2. ingested \in Seq(Block) /\ Top \in Block /\ Top = stack[1]
    BY <1>1, <2>1, SendRecordFacts DEF Top, IInv, TypeOK
  <2>3. ingested' = Append(ingested, Top)
    BY <2>1 DEF SendRecord
  <2> HIDE DEF Top
  <2>4. Len(ingested) + 1 \in DOMAIN ingested' /\ ingested'[Len(ingested) + 1] = Top
    BY <2>2, <2>3
  <2> QED
    BY <2>2, <2>4 DEF Range
<1>2. IInv /\ [Next]_vars
        => [(Publishing /\ ~Publishing') => stack[1] \in Range(ingested')]_vars
  BY <1>1
<1> QED
  BY <1>2, Invariance, PTL DEF Spec, BatchReachesItsTip

\* The feed implements the abstract block stream: only sending a record
\* publishes, and retrying the spawn withdraws nothing.
THEOREM ImplementsStream == Spec => StreamSpec
<1>1. Init => Stream!Init
  BY DEF Init, Stream!Init
<1>2. IInv /\ [Next]_vars => [Stream!Next]_ingested
  <2> SUFFICES ASSUME IInv, [Next]_vars PROVE [Stream!Next]_ingested
    OBVIOUS
  <2>1. CASE SendRecord
    <3>1. /\ Top \in Block /\ Top # Genesis /\ Top \notin Range(ingested)
          /\ Parent[Top] \in Range(ingested) \cup {Genesis}
          /\ ingested' = Append(ingested, Top)
      BY <2>1, SendRecordFacts
    <3> HIDE DEF Top
    <3>2. Stream!Publish(Top)
      BY <3>1 DEF Stream!Publish, Range, Stream!Range
    <3> QED
      BY <3>1, <3>2 DEF Stream!Next
  <2>2. CASE Respawn
    BY <2>2 DEF Respawn, IInv, SpawnInv, Publishing, PublishInv
  <2>3. CASE \/ ConsensusInfo \/ StorageBlock \/ PollAgain \/ RecordBlock
             \/ AbortLands \/ RequestFails \/ Cleanup
             \/ \E r \in Receiver : ReceiverStep(r)
             \/ \E b \in Block : TipMoves(b)
             \/ UNCHANGED vars
    BY <2>3 DEF ConsensusInfo, StorageBlock, PollAgain, RecordBlock,
       AbortLands, RequestFails, RequestLost, Cleanup, ReceiverStep, TipMoves, vars, feedVars
  <2> QED
    BY <2>1, <2>2, <2>3 DEF Next, Scan
<1> QED
  BY <1>1, <1>2, Invariance, PTL DEF Spec, StreamSpec, Stream!Spec
==============================================================================
