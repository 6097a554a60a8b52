--------------------------- MODULE TxWorkloadProofs --------------------------
(***************************************************************************)
(* Proofs about the transaction workload and its inclusion expectation,    *)
(* for every block tree, number of accounts, set of clients, rate, limit,  *)
(* run length and capacity of the feed's channel.                          *)
(***************************************************************************)
EXTENDS TxWorkload, FiniteSetTheorems, SequenceTheorems, TLAPS

\* A submission is under way only while the plan has an account left.
PlanInv == pc = "submit" => plan # << >>

\* The blocks of the feed stand on published blocks or on genesis, once.
TreeInv ==
  /\ \A i \in 1 .. Len(published) : Parent[published[i]] \in Range(published) \cup {Genesis}
  /\ \A i, j \in 1 .. Len(published) : published[i] = published[j] => i = j

\* Blocks hold what the nodes accepted; the genesis block, nothing; and what
\* is in or below a published block is in one of the published blocks.
LedgerInv ==
  /\ \A b \in Block : included[b] \subseteq mempool
  /\ included[Genesis] = {}
  /\ \A a \in InBlocks(Range(published)) : \E b \in Range(published) : a \in Content(b)

\* The first n blocks of the feed.
First(n) == {published[i] : i \in 1 .. n}

\* The tally adds up the inclusions, so that it bounds the transactions in
\* the blocks read so far, and is their number unless forks repeat some.
TallyInv ==
  /\ tally[0] = 0
  /\ \A n \in 1 .. Len(published) :
       tally[n] = tally[n - 1] + Cardinality(Content(published[n]))
  /\ \A n, m \in 0 .. Len(published) : n <= m => tally[n] <= tally[m]
  /\ \A n \in 0 .. Len(published) : Cardinality(InBlocks(First(n))) <= tally[n]
  /\ NoForkRepeats => tally[Len(published)] = Cardinality(InBlocks(Range(published)))

\* Before the capture starts nothing was submitted, so the blocks that it
\* does not get to see hold nothing that it should count.
BeforeCapture ==
  pc = "capture" =>
    /\ mempool = {} /\ plan = << >>
    /\ next = 0 /\ observed = 0 /\ skipped = 0
    /\ \A n \in 0 .. Len(published) : tally[n] = 0

\* The verdict was given on the count that still stands.
VerdictInv ==
  /\ verdict # "none" => pc = "over"
  /\ verdict = "insufficient" => observed < required
  /\ verdict = "ok" => observed >= required

\* The inductive invariant.
IInv ==
  /\ TypeOK
  /\ PlanInv /\ OnlyTrackedSubmitted
  /\ TreeInv /\ LedgerInv /\ TallyInv
  /\ BeforeCapture
  /\ CountsWhatItRead /\ observed <= tally[next]
  /\ VerdictInv

------------------------------------------------------------------------------
(* The plan.                                                               *)

\* The smaller of two integers.
LEMMA MinOfTwo ==
  ASSUME NEW a \in Int, NEW b \in Int
  PROVE  Min({a, b}) = IF a <= b THEN a ELSE b
<1>1. \E x \in {a, b} : \A y \in {a, b} : x =< y
  OBVIOUS
<1> DEFINE m == Min({a, b})
<1>2. m \in {a, b} /\ \A y \in {a, b} : m =< y
  BY <1>1 DEF Min
<1> QED
  BY <1>2

\* The transactions that fit into the run are at least one.
LEMMA AtLeastOne ==
  ASSUME NEW r \in Rates
  PROVE  (RunSlots * 100 * r) \div block_interval_hint \in Nat \ {0}
<1> DEFINE x == RunSlots * 100 * r
<1>1. RunSlots \in Nat \ {0} /\ r \in Nat \ {0} /\ SlotCoeff \in 1 .. 100
  BY WorkloadAssumption
<1>2. x \in Nat /\ x >= 100
  <2>1. RunSlots * r \in Nat /\ RunSlots * r >= 1
    BY <1>1
  <2>2. x = 100 * (RunSlots * r)
    BY <1>1
  <2> HIDE DEF x
  <2> QED
    BY <2>1, <2>2
<1> HIDE DEF x
<1>3. x \div SlotCoeff \in Int /\ x >= SlotCoeff
  BY <1>1, <1>2
<1>4. x \div SlotCoeff >= 1
  BY <1>1, <1>2, <1>3
<1> QED
  BY <1>3, <1>4 DEF x, block_interval_hint

\* Both sides plan the same number of accounts, between one and all.
LEMMA PlanFacts ==
  ASSUME rate \in Rates, user_limit \in Limits
  PROVE  /\ limited_user_count \in 1 .. Accounts
         /\ apply_user_limit = [i \in 1 .. limited_user_count |-> i]
         /\ expected \in 1 .. limited_user_count
         /\ required \in Nat
<1>1. Accounts \in Nat \ {0} /\ user_limit \in Nat
  BY WorkloadAssumption
<1>2. Min({user_limit, Accounts}) = IF user_limit <= Accounts THEN user_limit ELSE Accounts
  BY <1>1, MinOfTwo
<1>3. limited_user_count \in 1 .. Accounts
  BY <1>1, <1>2 DEF limited_user_count
<1>4. apply_user_limit = [i \in 1 .. limited_user_count |-> i]
  BY <1>1 DEF apply_user_limit, limited_user_count, Account
<1>5. expected \in 1 .. limited_user_count
  <2> DEFINE q == (RunSlots * 100 * rate) \div block_interval_hint
  <2>1. q \in Nat \ {0}
    BY AtLeastOne
  <2>2. expected = Min({q, limited_user_count})
    BY DEF expected, submission_plan
  <2> HIDE DEF q
  <2>3. Min({q, limited_user_count}) = IF q <= limited_user_count THEN q ELSE limited_user_count
    BY <2>1, <1>3, <1>1, MinOfTwo
  <2> QED
    BY <2>1, <2>2, <2>3, <1>1, <1>3
<1>6. required \in Nat
  BY <1>1, <1>3, <1>5 DEF required
<1> QED
  BY <1>3, <1>4, <1>5, <1>6

\* Sets of accounts are finite.
LEMMA AccountsFinite ==
  ASSUME NEW S \in SUBSET Account
  PROVE  IsFiniteSet(S) /\ Cardinality(S) \in Nat
<1>1. IsFiniteSet(Account)
  BY WorkloadAssumption, FS_Interval DEF Account
<1> QED
  BY <1>1, FS_Subset, FS_CardinalityType

------------------------------------------------------------------------------
\* The initial states satisfy the inductive invariant.
LEMMA InitInv == Init => IInv
<1> SUFFICES ASSUME Init PROVE IInv
  OBVIOUS
<1>1. published = << >> /\ Len(published) = 0 /\ Range(published) = {}
  BY DEF Init, Feed!Init, Range
<1>2. \A n \in 0 .. Len(published) : n = 0
  BY <1>1
<1>3. tally \in [0 .. Len(published) -> Nat] /\ tally[0] = 0
  BY <1>1, <1>2 DEF Init
<1>4. TypeOK
  BY <1>1, <1>3 DEF Init, TypeOK
<1>5. OnlyTrackedSubmitted
  BY DEF Init, OnlyTrackedSubmitted, Range
<1>6. TreeInv
  BY <1>1 DEF TreeInv
<1>7. InBlocks({}) = {}
  BY DEF InBlocks
<1>8. LedgerInv
  BY <1>1, <1>7, TreeAssumption DEF Init, LedgerInv
<1>9. TallyInv
  <2>1. First(0) = {}
    BY DEF First
  <2> QED
    BY <1>1, <1>2, <1>3, <1>7, <2>1, FS_EmptySet DEF TallyInv
<1>10. BeforeCapture /\ CountsWhatItRead /\ observed <= tally[next]
  BY <1>2, <1>3 DEF Init, BeforeCapture, CountsWhatItRead
<1>11. PlanInv /\ VerdictInv
  BY DEF Init, PlanInv, VerdictInv
<1> QED
  BY <1>4, <1>5, <1>6, <1>8, <1>9, <1>10, <1>11 DEF IInv

------------------------------------------------------------------------------
(* A block reaches the feed.                                               *)

\* What Publish does to the feed, and that it changes nothing about the
\* blocks that are in it.
LEMMA PublishFacts ==
  ASSUME IInv, NEW b \in Block, Publish(b)
  PROVE  /\ b # Genesis /\ b \notin Range(published) /\ Parent[b] # b
         /\ Parent[b] \in Range(published) \cup {Genesis}
         /\ Len(published) \in Nat /\ Len(published') = Len(published) + 1
         /\ \A i \in 1 .. Len(published) : published'[i] = published[i]
         /\ published'[Len(published) + 1] = b
         /\ Range(published) = First(Len(published))
         /\ Range(published') = Range(published) \cup {b}
         /\ Range(published) \subseteq Block \ {Genesis}
         /\ \A c \in Block \ {b} : included'[c] = included[c]
         /\ \A c \in Range(published) : Content(c)' = Content(c)
         /\ included'[b] = included[Parent[b]] \cup Content(b)'
         /\ Content(b)' \subseteq mempool \ included[Parent[b]]
         /\ tally' = [n \in 0 .. Len(published) + 1 |->
                       IF n <= Len(published) THEN tally[n]
                       ELSE tally[Len(published)] + Cardinality(Content(b)')]
<1>1. /\ b # Genesis /\ b \notin Range(published)
      /\ Parent[b] \in Range(published) \cup {Genesis}
      /\ published' = Append(published, b)
  BY DEF Publish, Feed!Publish, Feed!Range, Range
<1>2. PICK txs \in SUBSET (mempool \ included[Parent[b]]) :
       /\ included' = [included EXCEPT ![b] = included[Parent[b]] \cup txs]
       /\ tally' = [n \in 0 .. Len(published) + 1 |->
                     IF n <= Len(published) THEN tally[n]
                     ELSE tally[Len(published)] + Cardinality(txs)]
  BY DEF Publish
<1>3. published \in Seq(Block \ {Genesis}) /\ included \in [Block -> SUBSET Account]
  BY DEF IInv, TypeOK
<1>4. /\ Len(published) \in Nat /\ Len(published') = Len(published) + 1
      /\ \A i \in 1 .. Len(published) : published'[i] = published[i]
      /\ published'[Len(published) + 1] = b
      /\ DOMAIN published = 1 .. Len(published)
      /\ DOMAIN published' = 1 .. Len(published) + 1
      /\ \A i \in 1 .. Len(published) : published[i] \in Block \ {Genesis}
  BY <1>1, <1>3
<1>5. Range(published) = First(Len(published)) /\ Range(published) \subseteq Block \ {Genesis}
  BY <1>4 DEF Range, First
<1>6. Range(published') = Range(published) \cup {b}
  BY <1>4 DEF Range
<1>7. Parent[b] # b
  BY <1>1
<1>8. /\ \A c \in Block \ {b} : included'[c] = included[c]
      /\ included'[b] = included[Parent[b]] \cup txs
  BY <1>2, <1>3
<1>9. Content(b)' = txs
  BY <1>2, <1>7, <1>8, TreeAssumption DEF Content
<1>10. \A c \in Range(published) : Content(c)' = Content(c)
  <2> SUFFICES ASSUME NEW c \in Range(published) PROVE Content(c)' = Content(c)
    OBVIOUS
  <2>1. c \in Block /\ c # b
    BY <1>1, <1>5
  <2>2. Parent[c] \in Range(published) \cup {Genesis}
    BY <1>4 DEF IInv, TreeInv, Range
  <2>3. Parent[c] \in Block /\ Parent[c] # b
    BY <1>1, <1>5, <2>2, TreeAssumption
  <2> QED
    BY <1>8, <2>1, <2>3 DEF Content
<1> QED
  BY <1>1, <1>2, <1>4, <1>5, <1>6, <1>7, <1>8, <1>9, <1>10

\* The blocks of the feed and the transactions in them after the step.
LEMMA PublishLedger ==
  ASSUME IInv, NEW b \in Block, Publish(b)
  PROVE  /\ TreeInv' /\ LedgerInv'
         /\ \A n \in 0 .. Len(published) : InBlocks(First(n))' = InBlocks(First(n))
         /\ Range(published') = First(Len(published))'
         /\ InBlocks(Range(published))' = InBlocks(Range(published)) \cup Content(b)'
<1> DEFINE L == Len(published)
<1> USE PublishFacts
<1>1. TreeInv'
  <2>1. \A i \in 1 .. L : published[i] \in Range(published) \/ L = 0
    BY DEF First
  <2>2. \A i \in 1 .. L + 1 : i \in 1 .. L \/ i = L + 1
    OBVIOUS
  <2>3. \A i \in 1 .. L + 1 : Parent[published'[i]] \in Range(published') \cup {Genesis}
    BY <2>2 DEF IInv, TreeInv
  <2>4. \A i, j \in 1 .. L + 1 : published'[i] = published'[j] => i = j
    BY <2>1, <2>2 DEF IInv, TreeInv
  <2> QED
    BY <2>3, <2>4 DEF TreeInv
<1>2. mempool' = mempool
  BY DEF Publish, submitVars
<1>3. \A n \in 0 .. L : First(n)' = First(n) /\ First(n) \subseteq Range(published)
  BY DEF First
<1>4. \A n \in 0 .. L : InBlocks(First(n))' = InBlocks(First(n))
  <2> SUFFICES ASSUME NEW n \in 0 .. L
               PROVE  InBlocks(First(n))' = InBlocks(First(n))
    OBVIOUS
  <2>1. First(n)' = First(n) /\ First(n) \subseteq Range(published)
    BY <1>3
  <2>2. \A c \in First(n) : included'[c] = included[c]
    BY <2>1
  <2> HIDE DEF First
  <2> QED
    BY <2>1, <2>2 DEF InBlocks
<1>5. InBlocks(Range(published))' = InBlocks(Range(published)) \cup Content(b)'
  <2>1. \A c \in Range(published) : included'[c] = included[c]
    OBVIOUS
  <2>2. included[Parent[b]] \subseteq InBlocks(Range(published))
    BY DEF IInv, LedgerInv, InBlocks
  <2>3. included'[b] = included[Parent[b]] \cup Content(b)'
    OBVIOUS
  <2>4. InBlocks(Range(published))' = UNION {included'[c] : c \in Range(published) \cup {b}}
    BY DEF InBlocks
  <2> QED
    BY <2>1, <2>2, <2>3, <2>4 DEF InBlocks
<1>6. Range(published') = First(Len(published))'
  <2>1. \A i \in 1 .. L + 1 : i \in 1 .. L \/ i = L + 1
    OBVIOUS
  <2> QED
    BY <2>1 DEF First
<1>7. LedgerInv'
  <2>1. \A c \in Block : included'[c] \subseteq mempool'
    <3> SUFFICES ASSUME NEW c \in Block PROVE included'[c] \subseteq mempool'
      OBVIOUS
    <3>1. included[c] \subseteq mempool /\ included[Parent[b]] \subseteq mempool
      BY TreeAssumption DEF IInv, LedgerInv
    <3> QED
      BY <1>2, <3>1
  <2>2. included'[Genesis] = {}
    BY TreeAssumption DEF IInv, LedgerInv
  <2>3. \A a \in InBlocks(Range(published))' : \E c \in Range(published') : a \in Content(c)'
    <3> SUFFICES ASSUME NEW a \in InBlocks(Range(published))'
                 PROVE  \E c \in Range(published') : a \in Content(c)'
      OBVIOUS
    <3>1. CASE a \in Content(b)'
      BY <3>1
    <3>2. CASE a \in InBlocks(Range(published))
      <4>1. PICK c \in Range(published) : a \in Content(c)
        BY <3>2 DEF IInv, LedgerInv
      <4> QED
        BY <4>1
    <3> QED
      BY <1>5, <3>1, <3>2
  <2> QED
    BY <2>1, <2>2, <2>3 DEF LedgerInv
<1> QED
  BY <1>1, <1>4, <1>5, <1>6, <1>7

\* The tally after the step.
LEMMA PublishTally ==
  ASSUME IInv, NEW b \in Block, Publish(b)
  PROVE  TallyInv' /\ tally' \in [0 .. Len(published') -> Nat]
<1> DEFINE L == Len(published)
           x == Content(b)'
           A == InBlocks(Range(published))
<1>1. /\ L \in Nat /\ Len(published') = L + 1
      /\ \A i \in 1 .. L : published'[i] = published[i]
      /\ published'[L + 1] = b
      /\ tally' = [n \in 0 .. L + 1 |->
                    IF n <= L THEN tally[n] ELSE tally[L] + Cardinality(x)]
  BY PublishFacts
<1>2. x \subseteq Account /\ A \subseteq Account
  <2>1. x \subseteq mempool /\ Range(published) \subseteq Block
    BY PublishFacts
  <2>2. mempool \subseteq Account /\ included \in [Block -> SUBSET Account]
    BY DEF IInv, TypeOK
  <2> QED
    BY <2>1, <2>2 DEF InBlocks
<1>3. /\ IsFiniteSet(x) /\ IsFiniteSet(A)
      /\ Cardinality(x) \in Nat /\ Cardinality(A) \in Nat
  BY <1>2, AccountsFinite
<1>4. tally \in [0 .. L -> Nat]
  BY DEF IInv, TypeOK
<1>5. tally' \in [0 .. L + 1 -> Nat]
  BY <1>1, <1>3, <1>4
<1>6. /\ \A n \in 0 .. L : tally'[n] = tally[n]
      /\ tally'[L + 1] = tally[L] + Cardinality(x)
  BY <1>1
<1>7. \A n \in 1 .. L : published[n] \in Range(published)
  <2> SUFFICES ASSUME NEW n \in 1 .. L
               PROVE published[n] \in Range(published)
    OBVIOUS
  <2>1. published[n] \in First(L)
    BY DEF First
  <2> QED
    BY <2>1, PublishFacts
<1>8. \A n \in 1 .. L + 1 :
        tally'[n] = tally'[n - 1] + Cardinality(Content(published[n])')
  <2> SUFFICES ASSUME NEW n \in 1 .. L + 1
               PROVE  tally'[n] = tally'[n - 1] + Cardinality(Content(published[n])')
    OBVIOUS
  <2>1. CASE n = L + 1
    BY <1>1, <1>6, <2>1 DEF Content
  <2>2. CASE n \in 1 .. L
    <3>1. published'[n] = published[n] /\ published[n] \in Range(published)
      BY <1>1, <1>7, <2>2
    <3>2. Content(published[n])' = Content(published[n])
      <4> DEFINE c == published[n]
      <4>1. included'[c] \ included'[Parent[c]] = included[c] \ included[Parent[c]]
        BY <3>1, PublishFacts DEF Content
      <4> QED
        BY <3>1, <4>1 DEF Content
    <3>3. tally[n] = tally[n - 1] + Cardinality(Content(published[n]))
      BY <2>2 DEF IInv, TallyInv
    <3>4. n - 1 \in 0 .. L
      BY <2>2
    <3> QED
      BY <1>6, <2>2, <3>2, <3>3, <3>4
  <2> QED
    BY <1>1, <2>1, <2>2
<1>9. \A n, m \in 0 .. L + 1 : n <= m => tally'[n] <= tally'[m]
  <2> SUFFICES ASSUME NEW n \in 0 .. L + 1, NEW m \in 0 .. L + 1, n <= m
               PROVE  tally'[n] <= tally'[m]
    OBVIOUS
  <2>1. \A i, j \in 0 .. L : i <= j => tally[i] <= tally[j]
    BY DEF IInv, TallyInv
  <2> HIDE DEF x
  <2>2. CASE m = L + 1 /\ n \in 0 .. L
    <3>1. tally[n] <= tally[L] /\ tally[n] \in Nat /\ tally[L] \in Nat
      BY <1>1, <1>4, <2>1, <2>2
    <3> QED
      BY <1>3, <1>6, <2>2, <3>1
  <2>3. CASE m = L + 1 /\ n = L + 1
    BY <1>1, <1>5, <2>3
  <2>4. CASE m \in 0 .. L
    BY <1>1, <1>6, <2>1, <2>4
  <2> QED
    BY <1>1, <2>2, <2>3, <2>4
<1>10. InBlocks(Range(published))' = A \cup x
  BY PublishLedger
<1>11. Cardinality(A) <= tally[L]
  BY <1>1, PublishFacts DEF IInv, TallyInv
<1>12. Cardinality(A \cup x) = Cardinality(A) + Cardinality(x) - Cardinality(A \cap x)
       /\ Cardinality(A \cap x) \in Nat
  <2>1. IsFiniteSet(A \cap x) /\ Cardinality(A \cap x) \in Nat
    BY <1>2, AccountsFinite
  <2> HIDE DEF A, x
  <2> QED
    BY <1>3, <2>1, FS_Union
<1>13. \A n \in 0 .. L + 1 : Cardinality(InBlocks(First(n))') <= tally'[n]
  <2> SUFFICES ASSUME NEW n \in 0 .. L + 1
               PROVE  Cardinality(InBlocks(First(n))') <= tally'[n]
    OBVIOUS
  <2>1. CASE n \in 0 .. L
    <3>1. InBlocks(First(n))' = InBlocks(First(n))
      BY <2>1, PublishLedger
    <3> QED
      BY <1>6, <2>1, <3>1 DEF IInv, TallyInv
  <2>2. CASE n = L + 1
    <3>1. First(n)' = Range(published')
      BY <1>1, <2>2, PublishLedger DEF First
    <3>2. InBlocks(First(n))' = A \cup x
      BY <1>10, <3>1 DEF InBlocks
    <3>3. tally[L] \in Nat
      BY <1>1, <1>4
    <3>4. Cardinality(A \cup x) <= tally'[L + 1]
      <4> HIDE DEF A, x
      <4> QED
        BY <1>3, <1>6, <1>11, <1>12, <3>3
    <3> QED
      BY <2>2, <3>2, <3>4, Zenon
  <2> QED
    BY <1>1, <2>1, <2>2
<1>14. ASSUME NoForkRepeats'
       PROVE  tally'[L + 1] = Cardinality(A \cup x)
  <2>1. \A c, d \in Range(published) \cup {b} : c # d => Content(c)' \cap Content(d)' = {}
    BY <1>14, PublishFacts DEF NoForkRepeats
  <2>2. \A c \in Range(published) : c # b /\ Content(c)' = Content(c)
    BY PublishFacts
  <2>3. NoForkRepeats
    BY <2>1, <2>2 DEF NoForkRepeats
  <2>4. A \cap x = {}
    <3> SUFFICES ASSUME NEW a \in A, a \in x PROVE FALSE
      OBVIOUS
    <3>1. PICK c \in Range(published) : a \in Content(c)
      BY DEF IInv, LedgerInv
    <3> QED
      BY <2>1, <2>2, <3>1
  <2>5. tally[L] = Cardinality(A)
    BY <2>3 DEF IInv, TallyInv
  <2> HIDE DEF A, x
  <2>6. Cardinality(A \cap x) = 0
    BY <2>4, FS_EmptySet
  <2> QED
    BY <1>3, <1>6, <1>12, <2>5, <2>6
<1>15. tally'[0] = 0
  BY <1>1, <1>6 DEF IInv, TallyInv
<1>16. TallyInv'
  BY <1>1, <1>8, <1>9, <1>10, <1>13, <1>14, <1>15 DEF TallyInv
<1> QED
  BY <1>1, <1>5, <1>16

\* A new block keeps the invariant: it counts for the tally and not yet for
\* the capture.
LEMMA PublishStep ==
  ASSUME IInv, NEW b \in Block, Publish(b)
  PROVE  IInv'
<1>1. /\ UNCHANGED <<confVars, pc, submitVars, captureVars, verdict>>
      /\ pc \notin {"failed", "over"}
  BY DEF Publish
<1>2. /\ b # Genesis /\ Len(published) \in Nat /\ Len(published') = Len(published) + 1
      /\ \A c \in Block \ {b} : included'[c] = included[c]
      /\ included'[b] = included[Parent[b]] \cup Content(b)'
      /\ Content(b)' \subseteq mempool \ included[Parent[b]]
      /\ tally' = [n \in 0 .. Len(published) + 1 |->
                    IF n <= Len(published) THEN tally[n]
                    ELSE tally[Len(published)] + Cardinality(Content(b)')]
  BY PublishFacts
<1>3. TypeOK'
  <2>1. published' \in Seq(Block \ {Genesis})
    BY <1>2 DEF Publish, Feed!Publish, IInv, TypeOK
  <2>2. included' \in [Block -> SUBSET Account]
    <3>1. PICK txs \in SUBSET (mempool \ included[Parent[b]]) :
             included' = [included EXCEPT ![b] = included[Parent[b]] \cup txs]
      BY DEF Publish
    <3>2. /\ included \in [Block -> SUBSET Account] /\ mempool \subseteq Account
          /\ included[Parent[b]] \subseteq Account
      BY TreeAssumption DEF IInv, TypeOK
    <3>3. included[Parent[b]] \cup txs \in SUBSET Account
      BY <3>1, <3>2
    <3> QED
      BY <3>1, <3>2, <3>3
  <2>3. tally' \in [0 .. Len(published') -> Nat]
    BY PublishTally
  <2>4. next \in 0 .. Len(published')
    BY <1>2 DEF IInv, TypeOK
  <2> QED
    BY <1>1, <2>1, <2>2, <2>3, <2>4
    DEF IInv, TypeOK, confVars, submitVars, captureVars
<1>4. expected' = expected /\ tracked' = tracked /\ required' = required
  BY <1>1 DEF confVars, expected, tracked, required, submission_plan, limited_user_count
<1>5. PlanInv' /\ OnlyTrackedSubmitted'
  BY <1>1, <1>4 DEF IInv, PlanInv, OnlyTrackedSubmitted, submitVars
<1>6. next' = next /\ next \in 0 .. Len(published) /\ tally'[next] = tally[next]
  BY <1>1, <1>2 DEF captureVars, IInv, TypeOK
<1>7. CountsWhatItRead' /\ observed' <= tally'[next']
  BY <1>1, <1>6 DEF IInv, CountsWhatItRead, captureVars
<1>8. BeforeCapture'
  <2> SUFFICES ASSUME pc = "capture"
               PROVE  \A n \in 0 .. Len(published) + 1 : tally'[n] = 0
    BY <1>1, <1>2 DEF IInv, BeforeCapture, submitVars, captureVars
  <2>1. mempool = {} /\ \A n \in 0 .. Len(published) : tally[n] = 0
    BY DEF IInv, BeforeCapture
  <2>2. Cardinality(Content(b)') = 0
    <3>1. Content(b)' = {}
      BY <1>2, <2>1
    <3> QED
      BY <3>1, FS_EmptySet
  <2> QED
    BY <1>2, <2>1, <2>2
<1>9. VerdictInv'
  BY <1>1, <1>4 DEF IInv, VerdictInv, captureVars
<1>10. TreeInv' /\ LedgerInv' /\ TallyInv'
  BY PublishLedger, PublishTally
<1> QED
  BY <1>3, <1>5, <1>7, <1>8, <1>9, <1>10 DEF IInv

------------------------------------------------------------------------------
(* Steps that leave the feed alone.                                        *)

\* The scenario's parameters do not change, so neither does the plan's size.
LEMMA ConfKept ==
  ASSUME UNCHANGED confVars
  PROVE  /\ expected' = expected /\ tracked' = tracked /\ required' = required
         /\ rate' = rate /\ user_limit' = user_limit
  BY DEF confVars, expected, tracked, required, submission_plan, limited_user_count

\* What the feed holds stays within a mempool that grows.
LEMMA FeedKept ==
  ASSUME IInv, UNCHANGED feedVars, mempool \subseteq mempool'
  PROVE  /\ TreeInv' /\ LedgerInv' /\ TallyInv'
         /\ published' = published /\ included' = included /\ tally' = tally
<1>1. published' = published /\ included' = included /\ tally' = tally
  BY DEF feedVars
<1>2. TreeInv'
  BY <1>1 DEF IInv, TreeInv
<1>3. LedgerInv'
  BY <1>1 DEF IInv, LedgerInv, InBlocks, Content
<1>4. TallyInv'
  <2>1. InBlocks(Range(published))' = InBlocks(Range(published))
    BY <1>1 DEF InBlocks
  <2>2. \A n \in 0 .. Len(published) : InBlocks(First(n))' = InBlocks(First(n))
    BY <1>1 DEF InBlocks, First
  <2>3. \A n \in 1 .. Len(published) : Content(published[n])' = Content(published[n])
    BY <1>1 DEF Content
  <2>4. NoForkRepeats' <=> NoForkRepeats
    BY <1>1 DEF NoForkRepeats, Content
  <2> QED
    BY <1>1, <2>1, <2>2, <2>3, <2>4 DEF IInv, TallyInv
<1> QED
  BY <1>1, <1>2, <1>3, <1>4

\* The capture task subscribes and reads.
LEMMA CaptureStep ==
  ASSUME IInv, StartCapture \/ Recv \/ Lagged
  PROVE  IInv'
<1>1. UNCHANGED <<confVars, feedVars, submitVars, verdict>>
  BY DEF StartCapture, Recv, Lagged
<1>2. plan' = plan /\ untried' = untried /\ mempool' = mempool /\ verdict' = verdict
  BY <1>1 DEF submitVars
<1>3. /\ published' = published /\ included' = included /\ tally' = tally
      /\ TreeInv' /\ LedgerInv' /\ TallyInv'
  BY <1>1, <1>2, FeedKept
<1>4. expected' = expected /\ tracked' = tracked /\ required' = required
      /\ rate' = rate /\ user_limit' = user_limit
  BY <1>1, ConfKept
<1>5. /\ Len(published) \in Nat /\ tally \in [0 .. Len(published) -> Nat]
      /\ next \in 0 .. Len(published) /\ observed \in Nat /\ skipped \in Nat
      /\ Capacity \in Nat \ {0}
  BY WorkloadAssumption DEF IInv, TypeOK
<1>6. pc' \in {"start", pc} /\ (pc' = pc => pc # "capture") /\ (pc' # pc => pc = "capture")
  BY DEF StartCapture, Recv, Lagged, Listening
<1>7. /\ next' \in 0 .. Len(published) /\ observed' \in Nat /\ skipped' \in Nat
      /\ skipped' = 0 => observed' = tally[next']
      /\ observed' <= tally[next']
  <2>1. CASE StartCapture
    <3>1. observed = 0 /\ skipped = 0 /\ \A n \in 0 .. Len(published) : tally[n] = 0
      BY <2>1 DEF StartCapture, IInv, BeforeCapture
    <3> QED
      BY <1>5, <2>1, <3>1 DEF StartCapture
  <2>2. CASE Recv
    <3>1. /\ next + 1 \in 1 .. Len(published) /\ next' = next + 1 /\ skipped' = skipped
          /\ observed' = observed + Counted(published[next + 1])
      BY <1>5, <2>2 DEF Recv, Behind
    <3> DEFINE b == published[next + 1]
    <3>2. b \in Block
      BY <3>1 DEF IInv, TypeOK
    <3>3. Content(b) \subseteq tracked /\ Content(b) \subseteq Account
      <4>1. included[b] \subseteq mempool /\ mempool \subseteq tracked
        BY <3>2 DEF IInv, LedgerInv, OnlyTrackedSubmitted
      <4> QED
        BY <4>1 DEF Content, tracked
    <3>4. Counted(b) = Cardinality(Content(b)) /\ Cardinality(Content(b)) \in Nat
      <4>1. Content(b) \cap tracked = Content(b)
        BY <3>3
      <4> QED
        BY <3>3, <4>1, AccountsFinite DEF Counted
    <3>5. tally[next + 1] = tally[next] + Cardinality(Content(b))
      BY <1>5, <3>1 DEF IInv, TallyInv
    <3>6. /\ skipped = 0 => observed = tally[next]
          /\ observed <= tally[next] /\ tally[next] \in Nat
      BY <1>5 DEF IInv, CountsWhatItRead
    <3>7. observed' = observed + Cardinality(Content(b))
      BY <3>1, <3>4
    <3> HIDE DEF b
    <3> QED
      BY <1>5, <3>1, <3>4, <3>5, <3>6, <3>7
  <2>3. CASE Lagged
    <3>1. /\ next' = Len(published) - Capacity /\ observed' = observed
          /\ skipped' = skipped + (Len(published) - next) - Capacity
          /\ Len(published) - next > Capacity
      BY <2>3 DEF Lagged, Behind
    <3>2. next' \in 0 .. Len(published) /\ next <= next' /\ skipped' \in Nat /\ skipped' # 0
      BY <1>5, <3>1
    <3>3. tally[next] <= tally[next']
      BY <1>5, <3>2 DEF IInv, TallyInv
    <3>4. observed <= tally[next] /\ tally[next] \in Nat /\ tally[next'] \in Nat
      BY <1>5, <3>2 DEF IInv
    <3> QED
      BY <1>5, <3>1, <3>2, <3>3, <3>4
  <2> QED
    BY <2>1, <2>2, <2>3
<1>8. TypeOK'
  BY <1>2, <1>3, <1>4, <1>6, <1>7 DEF IInv, TypeOK
<1>9. PlanInv' /\ OnlyTrackedSubmitted'
  BY <1>2, <1>4, <1>6 DEF IInv, PlanInv, OnlyTrackedSubmitted
<1>10. BeforeCapture'
  BY <1>6 DEF BeforeCapture
<1>11. CountsWhatItRead' /\ observed' <= tally'[next']
  BY <1>3, <1>7 DEF CountsWhatItRead
<1>12. VerdictInv'
  <2>1. verdict = "none"
    BY DEF StartCapture, Recv, Lagged, Listening, IInv, VerdictInv
  <2> QED
    BY <1>2, <2>1 DEF VerdictInv
<1> QED
  BY <1>3, <1>8, <1>9, <1>10, <1>11, <1>12 DEF IInv

\* A step that leaves feed, capture and verdict alone, starts no capture and
\* keeps plan and mempool among the tracked accounts, keeps the invariant.
LEMMA SubmissionKeeps ==
  ASSUME IInv,
         UNCHANGED <<confVars, feedVars, captureVars, verdict>>,
         pc \notin {"capture", "over"},
         pc' \in {"submit", "sleep", "done", "cooldown", "failed"},
         plan' \in Seq(Account), untried' \subseteq Client,
         pc' = "submit" => plan' # << >>,
         mempool \subseteq mempool',
         mempool' \cup Range(plan') \subseteq tracked
  PROVE  IInv'
<1>1. /\ published' = published /\ included' = included /\ tally' = tally
      /\ TreeInv' /\ LedgerInv' /\ TallyInv'
  BY FeedKept
<1>2. expected' = expected /\ tracked' = tracked /\ required' = required
      /\ rate' = rate /\ user_limit' = user_limit
  BY ConfKept
<1>3. next' = next /\ observed' = observed /\ skipped' = skipped /\ verdict' = verdict
  BY DEF captureVars
<1>4. mempool' \subseteq Account
  BY DEF tracked
<1>5. TypeOK'
  BY <1>1, <1>2, <1>3, <1>4 DEF IInv, TypeOK
<1>6. PlanInv' /\ OnlyTrackedSubmitted'
  BY <1>2 DEF PlanInv, OnlyTrackedSubmitted
<1>7. BeforeCapture' /\ CountsWhatItRead' /\ observed' <= tally'[next']
  BY <1>1, <1>3 DEF IInv, BeforeCapture, CountsWhatItRead
<1>8. VerdictInv'
  BY <1>3 DEF IInv, VerdictInv
<1> QED
  BY <1>1, <1>5, <1>6, <1>7, <1>8 DEF IInv

\* The first account of a plan that is not empty, and the rest.
LEMMA HeadTail ==
  ASSUME IInv, plan # << >>
  PROVE  /\ Head(plan) \in tracked
         /\ Tail(plan) \in Seq(Account) /\ Range(Tail(plan)) \subseteq tracked
         /\ Range(plan) \subseteq tracked
<1>1. plan \in Seq(Account) /\ Range(plan) \subseteq tracked
  BY DEF IInv, TypeOK, OnlyTrackedSubmitted
<1>2. Len(plan) \in Nat /\ Len(plan) >= 1 /\ DOMAIN plan = 1 .. Len(plan)
  BY <1>1
<1>3. /\ Tail(plan) \in Seq(Account) /\ Len(Tail(plan)) = Len(plan) - 1
      /\ \A i \in 1 .. Len(Tail(plan)) : Tail(plan)[i] = plan[i + 1]
  BY <1>1, <1>2
<1>4. DOMAIN Tail(plan) = 1 .. Len(plan) - 1
  BY <1>3, <1>2
<1>5. \A i \in 1 .. Len(plan) : plan[i] \in tracked
  BY <1>1, <1>2 DEF Range
<1>6. Range(Tail(plan)) \subseteq tracked
  BY <1>2, <1>3, <1>4, <1>5 DEF Range
<1> QED
  BY <1>1, <1>2, <1>3, <1>5, <1>6

\* The workload plans: as many accounts as the expectation tracks, and the
\* same ones.
LEMMA StartStep ==
  ASSUME IInv, Start
  PROVE  IInv'
<1>1. /\ pc = "start" /\ pc' = "submit" /\ untried' = Client /\ mempool' = mempool
      /\ UNCHANGED <<confVars, feedVars, captureVars, verdict>>
  BY DEF Start
<1>2. /\ limited_user_count \in 1 .. Accounts
      /\ apply_user_limit = [i \in 1 .. limited_user_count |-> i]
      /\ expected \in 1 .. limited_user_count
      /\ Accounts \in Nat
  BY PlanFacts, WorkloadAssumption DEF IInv, TypeOK
<1>3. /\ apply_user_limit \in Seq(Account)
      /\ Len(apply_user_limit) = limited_user_count
      /\ \A i \in 1 .. limited_user_count : apply_user_limit[i] = i
  BY <1>2 DEF Account
<1>4. plan' = SubSeq(apply_user_limit, 1, expected)
  BY <1>3 DEF Start, expected
<1>5. /\ plan' \in Seq(Account) /\ Len(plan') = expected
      /\ \A i \in 1 .. expected : plan'[i] = i
  BY <1>2, <1>3, <1>4
<1>6. DOMAIN plan' = 1 .. expected
  BY <1>5
<1>7. Range(plan') \subseteq tracked
  BY <1>2, <1>5, <1>6 DEF Range, tracked, Account
<1>8. plan' # << >>
  BY <1>2, <1>5
<1>9. mempool \subseteq tracked
  BY DEF IInv, OnlyTrackedSubmitted
<1> QED
  BY <1>1, <1>5, <1>7, <1>8, <1>9, SubmissionKeeps

\* The submissions, their failures, the interval and the end of the run.
LEMMA SubmitStep ==
  ASSUME IInv,
         SubmitOk \/ Wake \/ RunEnds \/ \E c \in Client : SubmitErr(c)
  PROVE  IInv'
<1>1. /\ plan \in Seq(Account) /\ untried \subseteq Client
      /\ mempool \subseteq tracked /\ Range(plan) \subseteq tracked
      /\ pc = "submit" => plan # << >>
  BY DEF IInv, TypeOK, OnlyTrackedSubmitted, PlanInv
<1>2. /\ pc \notin {"capture", "over"}
      /\ UNCHANGED <<confVars, feedVars, captureVars, verdict>>
  BY DEF SubmitOk, Wake, RunEnds, SubmitErr
<1>3. CASE SubmitOk
  <2>1. /\ pc = "submit" /\ pc' = "sleep" /\ plan' = Tail(plan) /\ untried' = {}
        /\ mempool' = mempool \cup {Head(plan)}
    BY <1>3 DEF SubmitOk
  <2> QED
    BY <1>1, <1>2, <2>1, HeadTail, SubmissionKeeps
<1>4. CASE Wake
  <2>1. /\ plan' = plan /\ mempool' = mempool
        /\ pc' \in {"done", "submit"} /\ (pc' = "submit" => plan # << >>)
        /\ untried' \subseteq Client
    BY <1>4 DEF Wake
  <2> QED
    BY <1>1, <1>2, <2>1, SubmissionKeeps
<1>5. CASE RunEnds
  <2>1. plan' = plan /\ untried' = untried /\ pc' = "cooldown"
    BY <1>5 DEF RunEnds
  <2>2. mempool' = mempool \/ (pc = "submit" /\ mempool' = mempool \cup {Head(plan)})
    BY <1>5 DEF RunEnds, MayBeAccepted
  <2>3. mempool \subseteq mempool' /\ mempool' \subseteq tracked
    BY <1>1, <2>2, HeadTail
  <2> QED
    BY <1>1, <1>2, <2>1, <2>3, SubmissionKeeps
<1>6. CASE \E c \in Client : SubmitErr(c)
  <2>1. PICK c \in Client : SubmitErr(c)
    BY <1>6
  <2>2. /\ pc = "submit" /\ plan' = plan /\ untried' = untried \ {c}
        /\ pc' \in {"failed", "submit"}
        /\ mempool' \in {mempool, mempool \cup {Head(plan)}}
    BY <2>1 DEF SubmitErr, MayBeAccepted
  <2>3. mempool \subseteq mempool' /\ mempool' \subseteq tracked
    BY <1>1, <2>2, HeadTail
  <2> QED
    BY <1>1, <1>2, <2>2, <2>3, SubmissionKeeps
<1> QED
  BY <1>3, <1>4, <1>5, <1>6

\* The verdict, on the count as it is.
LEMMA EvaluateStep ==
  ASSUME IInv, Evaluate
  PROVE  IInv'
<1>1. /\ pc = "cooldown" /\ pc' = "over"
      /\ UNCHANGED <<confVars, feedVars, submitVars, captureVars>>
  BY DEF Evaluate
<1>2. /\ plan' = plan /\ untried' = untried /\ mempool' = mempool
      /\ next' = next /\ observed' = observed /\ skipped' = skipped
  BY <1>1 DEF submitVars, captureVars
<1>3. /\ published' = published /\ included' = included /\ tally' = tally
      /\ TreeInv' /\ LedgerInv' /\ TallyInv'
  BY <1>1, <1>2, FeedKept
<1>4. expected' = expected /\ tracked' = tracked /\ required' = required
      /\ rate' = rate /\ user_limit' = user_limit
  BY <1>1, ConfKept
<1>5. observed \in Nat /\ required \in Nat
  BY PlanFacts DEF IInv, TypeOK
<1>6. VerdictInv' /\ verdict' \in {"ok", "insufficient"}
  BY <1>1, <1>2, <1>4, <1>5 DEF Evaluate, VerdictInv
<1>7. TypeOK'
  BY <1>1, <1>2, <1>3, <1>4, <1>6 DEF IInv, TypeOK
<1>8. PlanInv' /\ OnlyTrackedSubmitted'
  BY <1>1, <1>2, <1>4 DEF IInv, PlanInv, OnlyTrackedSubmitted
<1>9. BeforeCapture' /\ CountsWhatItRead' /\ observed' <= tally'[next']
  BY <1>1, <1>2, <1>3 DEF IInv, BeforeCapture, CountsWhatItRead
<1> QED
  BY <1>3, <1>6, <1>7, <1>8, <1>9 DEF IInv

\* A step that changes nothing.
LEMMA StutterStep ==
  ASSUME IInv, UNCHANGED vars
  PROVE  IInv'
<1>1. /\ published' = published /\ included' = included /\ tally' = tally
      /\ pc' = pc /\ verdict' = verdict /\ UNCHANGED <<confVars, feedVars>>
      /\ plan' = plan /\ untried' = untried /\ mempool' = mempool
      /\ next' = next /\ observed' = observed /\ skipped' = skipped
  BY DEF vars, feedVars, submitVars, captureVars
<1>2. TreeInv' /\ LedgerInv' /\ TallyInv'
  BY <1>1, FeedKept
<1>3. expected' = expected /\ tracked' = tracked /\ required' = required
      /\ rate' = rate /\ user_limit' = user_limit
  BY <1>1, ConfKept
<1>4. TypeOK' /\ PlanInv' /\ OnlyTrackedSubmitted'
  BY <1>1, <1>3 DEF IInv, TypeOK, PlanInv, OnlyTrackedSubmitted
<1>5. BeforeCapture' /\ CountsWhatItRead' /\ VerdictInv' /\ observed' <= tally'[next']
  BY <1>1, <1>3 DEF IInv, BeforeCapture, CountsWhatItRead, VerdictInv
<1> QED
  BY <1>2, <1>4, <1>5 DEF IInv

------------------------------------------------------------------------------
(* The theorems.                                                           *)

\* The inductive invariant holds of every run of workload and expectation.
THEOREM Invariance == Spec => []IInv
<1>1. IInv /\ [Next]_vars => IInv'
  <2> SUFFICES ASSUME IInv, [Next]_vars PROVE IInv'
    OBVIOUS
  <2>1. CASE \E b \in Block : Publish(b)
    BY <2>1, PublishStep
  <2>2. CASE StartCapture \/ Recv \/ Lagged
    BY <2>2, CaptureStep
  <2>3. CASE Start
    BY <2>3, StartStep
  <2>4. CASE SubmitOk \/ Wake \/ RunEnds \/ \E c \in Client : SubmitErr(c)
    BY <2>4, SubmitStep
  <2>5. CASE Evaluate
    BY <2>5, EvaluateStep
  <2>6. CASE UNCHANGED vars
    BY <2>6, StutterStep
  <2> QED
    BY <2>1, <2>2, <2>3, <2>4, <2>5, <2>6 DEF Next, Workload
<1> QED
  BY <1>1, InitInv, PTL DEF Spec

\* The types of the plan, the feed and the capture, CaptureState and the
\* workload's pending submissions included.
THEOREM TypeCorrect == Spec => []TypeOK
<1>1. IInv => TypeOK
  BY DEF IInv
<1> QED
  BY <1>1, Invariance, PTL

\* Workload and expectation plan separately, and agree: every transaction
\* that is planned, under way or accepted pays an account that the
\* expectation looks for.
THEOREM SubmissionsTracked == Spec => []OnlyTrackedSubmitted
<1>1. IInv => OnlyTrackedSubmitted
  BY DEF IInv
<1> QED
  BY <1>1, Invariance, PTL

\* A capture task that never got Lagged has counted every inclusion of the
\* feed up to its position, blocks published before it subscribed included.
THEOREM CaptureCounts == Spec => []CountsWhatItRead
<1>1. IInv => CountsWhatItRead
  BY DEF IInv
<1> QED
  BY <1>1, Invariance, PTL

\* The expectation raises no false alarm: InsufficientInclusions without a
\* lag means that the blocks read hold less than half of the plan.
THEOREM NoFalseAlarm == Spec => []ShortfallIsReal
<1>1. IInv => ShortfallIsReal
  <2> SUFFICES ASSUME IInv, verdict = "insufficient", skipped = 0
               PROVE  2 * Cardinality(InBlocks(Read)) < expected
    BY DEF ShortfallIsReal
  <2>1. Read = First(next)
    BY DEF Read, First
  <2>2. observed < required /\ observed = tally[next] /\ observed \in Nat
    BY DEF IInv, VerdictInv, CountsWhatItRead, TypeOK
  <2>3. Cardinality(InBlocks(Read)) <= tally[next]
    BY <2>1 DEF IInv, TallyInv, TypeOK
  <2>4. Cardinality(InBlocks(Read)) \in Nat
    <3>1. next \in 0 .. Len(published) /\ published \in Seq(Block \ {Genesis})
          /\ included \in [Block -> SUBSET Account]
      BY DEF IInv, TypeOK
    <3>2. Read \subseteq Block
      BY <3>1 DEF Read
    <3>3. InBlocks(Read) \subseteq Account
      <4>1. \A b \in Read : included[b] \subseteq Account
        BY <3>1, <3>2
      <4> HIDE DEF Read
      <4> QED
        BY <4>1, Zenon DEF InBlocks
    <3> QED
      BY <3>3, AccountsFinite
  <2>5. expected \in Nat
    BY PlanFacts, WorkloadAssumption DEF IInv, TypeOK
  <2> QED
    BY <2>2, <2>3, <2>4, <2>5 DEF required
<1> QED
  BY <1>1, Invariance, PTL

\* A satisfied expectation means what it says when forks repeat nothing: at
\* least half of the planned transactions are in published blocks.
THEOREM SatisfiedMeansIncluded == Spec => []SatisfiedIsIncluded
<1>1. IInv => SatisfiedIsIncluded
  <2> SUFFICES ASSUME IInv, verdict = "ok", NoForkRepeats
               PROVE  2 * Cardinality(InBlocks(Range(published))) >= expected
    BY DEF SatisfiedIsIncluded
  <2>1. /\ next \in 0 .. Len(published) /\ Len(published) \in Nat
        /\ tally \in [0 .. Len(published) -> Nat] /\ observed \in Nat
    BY DEF IInv, TypeOK
  <2>2. required <= observed /\ observed <= tally[next]
    BY DEF IInv, VerdictInv
  <2>3. tally[next] <= tally[Len(published)]
    BY <2>1 DEF IInv, TallyInv
  <2>4. tally[Len(published)] = Cardinality(InBlocks(Range(published)))
    BY DEF IInv, TallyInv
  <2>5. expected \in Nat
    BY PlanFacts, WorkloadAssumption DEF IInv, TypeOK
  <2>6. required <= tally[Len(published)] /\ tally[Len(published)] \in Nat
    <3>1. required \in Nat
      BY PlanFacts DEF IInv, TypeOK
    <3>2. tally[next] \in Nat /\ tally[Len(published)] \in Nat
      BY <2>1
    <3> QED
      BY <2>1, <2>2, <2>3, <3>1, <3>2
  <2> QED
    BY <2>4, <2>5, <2>6 DEF required
<1> QED
  BY <1>1, Invariance, PTL
==============================================================================
