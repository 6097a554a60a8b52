------------------------------ MODULE TxWorkload -----------------------------
(***************************************************************************)
(* The transaction workload and its inclusion expectation.  The capture    *)
(* task of the expectation reads the block feed from before the first      *)
(* submission on and counts the transactions that pay a planned account;   *)
(* the workload submits one transaction per planned account, each through  *)
(* the first client that takes it; the count is judged after the run.      *)
(*                                                                         *)
(* The feed is BlockStream: blocks of competing forks may both appear.     *)
(* What a block holds is the nodes' choice, constrained as the ledger      *)
(* constrains it: a transaction that was submitted, and is not in a block  *)
(* below it.                                                               *)
(***************************************************************************)
EXTENDS Integers, Sequences, FiniteSetsExt, Functions

CONSTANTS
  Block, Genesis, Parent,  \* the block tree, as in BlockStream
  Accounts,    \* wallet accounts 1 .. Accounts, all funded in genesis
  Validator,   \* clients of the validators
  Executor,    \* clients of the executors
  Rates,       \* values of txs_per_block
  Limits,      \* values of user_limit, 0 for None
  RunSlots,    \* the run's duration, in slots
  SlotCoeff,   \* active_slot_coeff, in percent
  Capacity     \* of the feed's broadcast channel

ASSUME TreeAssumption ==
  /\ Genesis \in Block
  /\ Parent \in [Block -> Block]

ASSUME WorkloadAssumption ==
  /\ {Accounts, RunSlots, Capacity} \subseteq Nat \ {0}
  /\ SlotCoeff \in 1 .. 100
  /\ Rates \subseteq Nat \ {0}
  /\ Limits \subseteq Nat

VARIABLES
  published,         \* the feed, as in BlockStream
  included,          \* the transactions in each block and the blocks below it
  tally,             \* history: inclusions in the first n blocks of the feed
  rate, user_limit,  \* txs_per_block and user_limit of this scenario
  pc,                \* where the run is
  plan,              \* Submission::plan, the account being submitted first
  untried,           \* clients left for the current submission
  mempool,           \* accounts whose transaction some node accepted
  next,              \* position of the capture task's receiver
  observed,          \* CaptureState::observed
  skipped,           \* records the capture task lost to Lagged
  verdict            \* of the expectation

confVars    == <<rate, user_limit>>
feedVars    == <<published, included, tally>>
submitVars  == <<plan, untried, mempool>>
captureVars == <<next, observed, skipped>>
vars == <<confVars, feedVars, pc, submitVars, captureVars, verdict>>

Feed == INSTANCE BlockStream

------------------------------------------------------------------------------
(* The plan, computed by the workload and again by the expectation.        *)

Account == 1 .. Accounts
Client == Validator \cup Executor

\* Mutant: the workload ignores the limit.
apply_user_limitIgnored == [i \in Account |-> i]

\* Workload::accounts: the wallet's accounts up to the limit.
apply_user_limit ==
  IF user_limit = 0 THEN [i \in Account |-> i]
  ELSE [i \in 1 .. Min({user_limit, Accounts}) |-> i]

limited_user_count ==
  IF user_limit = 0 THEN Accounts ELSE Min({user_limit, Accounts})

\* RunMetrics::block_interval_hint, in hundredths of a slot.
block_interval_hint == SlotCoeff

\* What submission_plan works out.  Its error for an empty plan and its way
\* without a block interval are left to ScenarioBuild, whose PlansAgree says
\* that a built scenario always has something to submit.
submission_plan(available) ==
  Min({(RunSlots * 100 * rate) \div block_interval_hint, available})

\* CaptureState::expected
expected == submission_plan(limited_user_count)

\* Mutant: the required number is rounded down.
requiredFloor == expected \div 2

\* Mutant: every planned transaction is required.
requiredAll == expected

\* MIN_INCLUSION_RATIO of the planned transactions, rounded up.
required == (expected + 1) \div 2

\* The keys the expectation looks for in outputs: the first planned
\* accounts of the wallet.
tracked == {a \in Account : a <= expected}

------------------------------------------------------------------------------
Init ==
  /\ Feed!Init /\ included = [b \in Block |-> {}]
  /\ tally = [n \in {0} |-> 0]
  /\ rate \in Rates /\ user_limit \in Limits
  /\ pc = "capture"
  /\ plan = << >> /\ untried = {} /\ mempool = {}
  /\ next = 0 /\ observed = 0 /\ skipped = 0
  /\ verdict = "none"

\* A block reaches the feed.
Publish(b) ==
  /\ pc \notin {"failed", "over"}
  /\ Feed!Publish(b)
  /\ \E txs \in SUBSET (mempool \ included[Parent[b]]) :
       /\ included' = [included EXCEPT ![b] = included[Parent[b]] \cup txs]
       /\ tally' = [n \in 0 .. Len(published) + 1 |->
                     IF n <= Len(published) THEN tally[n]
                     ELSE tally[Len(published)] + Cardinality(txs)]
  /\ UNCHANGED <<confVars, pc, submitVars, captureVars, verdict>>

------------------------------------------------------------------------------
(* The expectation's capture.                                              *)

\* start_capture subscribes; blocks published before are not delivered.
StartCapture ==
  /\ pc = "capture"
  /\ pc' = "start"
  /\ next' = Len(published)
  /\ UNCHANGED <<confVars, feedVars, submitVars, observed, skipped, verdict>>

Content(b) == included[b] \ included[Parent[b]]

\* Mutant: the first blocks of the chain are taken for the genesis block.
CountedSkipsFirst(b) == IF Parent[b] = Genesis THEN 0 ELSE Cardinality(Content(b) \cap tracked)

\* What one record adds: one for each transaction with a tracked output.
Counted(b) == Cardinality(Content(b) \cap tracked)

Listening == pc \notin {"capture", "failed", "over"}
Behind == Len(published) - next

Recv ==
  /\ Listening /\ Behind \in 1 .. Capacity
  /\ next' = next + 1
  /\ observed' = observed + Counted(published[next + 1])
  /\ UNCHANGED <<confVars, feedVars, pc, submitVars, skipped, verdict>>

\* RecvError::Lagged: the receiver goes to the oldest record still held; the
\* capture only logs it.
Lagged ==
  /\ Listening /\ Behind > Capacity
  /\ next' = Len(published) - Capacity
  /\ skipped' = skipped + Behind - Capacity
  /\ UNCHANGED <<confVars, feedVars, pc, submitVars, observed, verdict>>

------------------------------------------------------------------------------
(* Submission::execute.                                                    *)

\* The workload takes its own accounts, funded in genesis and limited, and
\* plans one transaction for each of the first ones.
Start ==
  /\ pc = "start"
  /\ pc' = "submit"
  /\ plan' = SubSeq(apply_user_limit, 1, submission_plan(Len(apply_user_limit)))
  /\ untried' = Client
  /\ UNCHANGED <<confVars, feedVars, mempool, captureVars, verdict>>

\* submit_transaction_via_cluster goes through the validators in some order,
\* then through the executors.
Candidates ==
  IF untried \cap Validator # {} THEN untried \cap Validator ELSE untried

SubmitOk ==
  /\ pc = "submit" /\ Candidates # {}
  /\ mempool' = mempool \cup {Head(plan)}
  /\ plan' = Tail(plan)
  /\ pc' = "sleep"
  /\ untried' = {}
  /\ UNCHANGED <<confVars, feedVars, captureVars, verdict>>

\* A request whose outcome the workload does not learn, or learns to be an
\* error, may have been carried out.
MayBeAccepted == mempool' \in {mempool, mempool \cup {Head(plan)}}

\* Client c answers with an error; the last one makes the workload fail, and
\* with it the run.
SubmitErr(c) ==
  /\ pc = "submit" /\ c \in Candidates
  /\ MayBeAccepted
  /\ untried' = untried \ {c}
  /\ pc' = IF untried = {c} THEN "failed" ELSE "submit"
  /\ UNCHANGED <<confVars, feedVars, plan, captureVars, verdict>>

\* The interval, which follows the last submission too.
Wake ==
  /\ pc = "sleep"
  /\ pc' = IF plan = << >> THEN "done" ELSE "submit"
  /\ untried' = IF plan = << >> THEN {} ELSE Client
  /\ UNCHANGED <<confVars, feedVars, plan, mempool, captureVars, verdict>>

\* The runner leaves the workload phase: on its timer it aborts the workload
\* at an await, possibly with a request under way; a workload that returned
\* has nothing to abort.
RunEnds ==
  /\ pc \in {"submit", "sleep", "done"}
  /\ pc' = "cooldown"
  /\ \/ pc = "submit" /\ MayBeAccepted
     \/ UNCHANGED mempool
  /\ UNCHANGED <<confVars, feedVars, plan, untried, captureVars, verdict>>

\* evaluate looks at the counter as it is, wherever the capture task is.
Evaluate ==
  /\ pc = "cooldown"
  /\ pc' = "over"
  /\ verdict' = IF observed >= required THEN "ok" ELSE "insufficient"
  /\ UNCHANGED <<confVars, feedVars, submitVars, captureVars>>

------------------------------------------------------------------------------
Workload == Start \/ SubmitOk \/ Wake

Next ==
  \/ \E b \in Block : Publish(b)
  \/ StartCapture \/ Recv \/ Lagged
  \/ Workload \/ \E c \in Client : SubmitErr(c)
  \/ RunEnds \/ Evaluate

Spec == Init /\ [][Next]_vars

------------------------------------------------------------------------------
(* Properties.                                                             *)

\* Type invariant of the plan, the feed and the capture.
TypeOK ==
  /\ published \in Seq(Block \ {Genesis})
  /\ included \in [Block -> SUBSET Account]
  /\ tally \in [0 .. Len(published) -> Nat]
  /\ rate \in Rates /\ user_limit \in Limits
  /\ pc \in {"capture", "start", "submit", "sleep", "done", "cooldown", "over", "failed"}
  /\ plan \in Seq(Account) /\ untried \subseteq Client /\ mempool \subseteq Account
  /\ next \in 0 .. Len(published) /\ observed \in Nat /\ skipped \in Nat
  /\ verdict \in {"none", "ok", "insufficient"}

\* Whatever the workload submits, in whatever order its requests succeed or
\* fail, pays an account the expectation tracks, although each of the two
\* computes the plan for itself.
OnlyTrackedSubmitted == mempool \cup Range(plan) \subseteq tracked

\* The capture misses nothing but what it was told it lost: unless it
\* lagged, its count is the number of inclusions in all blocks of the feed up
\* to its position, those published before it subscribed included.
CountsWhatItRead == skipped = 0 => observed = tally[next]

Read == {published[i] : i \in 1 .. next}
InBlocks(bs) == UNION {included[b] : b \in bs}

\* No false alarm: a capture that did not lag reports a shortfall only if
\* less than half of the planned transactions are in the blocks it read.
ShortfallIsReal ==
  verdict = "insufficient" /\ skipped = 0 => 2 * Cardinality(InBlocks(Read)) < expected

NoForkRepeats ==
  \A b, c \in Range(published) : b # c => Content(b) \cap Content(c) = {}

\* A satisfied expectation means that half of the planned transactions were
\* included, unless competing blocks hold the same transaction.
SatisfiedIsIncluded ==
  verdict = "ok" /\ NoForkRepeats => 2 * Cardinality(InBlocks(Range(published))) >= expected

\* A satisfied expectation means that half of the planned transactions were
\* included, forks or no forks.
SatisfiedDespiteForks ==
  verdict = "ok" => 2 * Cardinality(InBlocks(Range(published))) >= expected

==============================================================================
