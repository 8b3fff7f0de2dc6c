--------------------------- MODULE Webhooks_proofs ---------------------------
(***************************************************************************)
(* The safety properties of the notifications, for any runs, dispatchers,  *)
(* limits, budgets and delays, and for any places to die.                  *)
(***************************************************************************)
EXTENDS Webhooks, FiniteSetTheorems, TLAPS

Sending == {"claimed", "answered"}         \* the request is or was on its way
AtItem == {"item"} \cup Sending            \* a delivery is at hand

\* A dispatcher that runs holds the sender lock; what it saw of the deliveries still ahead is
\* what the files say, and none of them is listed twice.
Copies(d) ==
  pc[d] # "idle" =>
    LET todo == local[d].todo
    IN  /\ lock = d /\ local[d].now <= clock /\ local[d].max \in Range(Budget)
        /\ \A k \in DOMAIN todo : /\ delivery[todo[k]] = local[d].seen[todo[k]]
                                  /\ delivery[todo[k]].status # "none"
        /\ \A j, k \in DOMAIN todo : j # k => todo[j] # todo[k]
        /\ pc[d] \in AtItem => todo # <<>>
        /\ pc[d] \in Sending => Item(d).status = "sending"
        /\ pc[d] = "claimed" => posts[Head(todo)] < Item(d).attempts

\* A record's attempts stay within its budgets, and its retry history dates the last of them.
Budgeted(x) ==
  /\ x.attempts_at_retry <= x.attempts
  /\ Since(x) <= LargestBudget
  /\ x.status = "sending" => Since(x) > 0
  /\ x.attempts_at_retry <= LargestBudget * Len(x.retries)
  /\ x.retries # <<>> => x.attempts_at_retry = Last(x.retries)

\* A pending record whose last answer was saved waits for the backoff.
Paced(x) ==
  x.status = "pending" /\ Since(x) > 0 /\ ~x.unacknowledged =>
    x.next_attempt_at >= x.last_attempt_at + Backoff(Since(x))

Recorded(i) ==
  LET x == delivery[i]
  IN  /\ x.status = "none" => x = Unfinished
      /\ posts[i] <= x.attempts /\ x.last_attempt_at <= clock
      /\ Budgeted(x) /\ Paced(x)

IInv ==
  /\ TypeOK
  /\ \A d \in Dispatchers : Copies(d)
  /\ \A i \in RunIds : Recorded(i)

-----------------------------------------------------------------------------
(* The operators.                                                          *)

\* A power of two counts the subsets of a finite set, so it is a number.
LEMMA PowerType == \A k \in Nat : 2^k \in Nat
<1> SUFFICES ASSUME NEW k \in Nat PROVE 2^k \in Nat OBVIOUS
<1>1. IsFiniteSet(1 .. k) /\ Cardinality(1 .. k) = k
  BY FS_Interval
<1>2. IsFiniteSet(SUBSET (1 .. k)) /\ Cardinality(SUBSET (1 .. k)) = 2^k
  BY <1>1, FS_SUBSET
<1> QED BY <1>2, FS_CardinalityType

\* The wait after an attempt is a number of clock units, the receiver's wish too.
LEMMA BackoffType ==
  ASSUME NEW k \in Nat \ {0}
  PROVE  /\ Backoff(k) \in Nat
         /\ \A r \in Nat : Larger(Backoff(k), r) \in Nat /\ Larger(Backoff(k), r) >= Backoff(k)
<1>1. k - 1 \in Nat
  OBVIOUS
<1>2. 2^(k - 1) \in Nat
  BY <1>1, PowerType
<1>3. Backoff(k) \in Nat
  <2>1. \A n \in Nat : RetryDelay * n \in Nat
    BY WebhooksAssumption
  <2>2. RetryDelay * 2^(k - 1) \in Nat
    BY <1>2, <2>1
  <2> QED BY <2>2, WebhooksAssumption DEF Backoff, Smaller
<1> QED BY <1>3 DEF Larger

\* The largest budget is one of them, and none is larger.
LEMMA LargestBudgetBounds ==
  LargestBudget \in Nat /\ \A b \in Range(Budget) : b \in Nat /\ b <= LargestBudget
<1> DEFINE Left == {20 - b : b \in Range(Budget)}
<1>1. Range(Budget) \subseteq 1 .. 20 /\ Range(Budget) # {}
  BY WebhooksAssumption DEF Range
<1>2. Left \subseteq Nat /\ Left # {}
  BY <1>1
<1>3. PICK m \in Left : \A n \in Left : ~(<<n, m>> \in OpToRel(<, Nat))
  BY <1>2, NatLessThanWellFounded, WFMin
<1>4. \A n \in Left : ~(n < m)
  BY <1>2, <1>3, Zenon DEF OpToRel
<1>5. 20 - m \in Range(Budget) /\ \A b \in Range(Budget) : 20 - m >= b
  <2>1. PICK c \in Range(Budget) : m = 20 - c
    OBVIOUS
  <2>2. ASSUME NEW b \in Range(Budget) PROVE c >= b
    <3>1. 20 - b \in Left
      OBVIOUS
    <3>2. ~(20 - b < 20 - c)
      BY <1>4, <2>1, <3>1
    <3>3. b \in Int /\ c \in Int
      BY <1>1
    <3> QED BY <3>2, <3>3
  <2>3. 20 - m = c
    BY <1>1, <2>1
  <2> QED BY <2>2, <2>3
<1>6. LargestBudget \in Range(Budget) /\ \A b \in Range(Budget) : LargestBudget >= b
  BY <1>5 DEF LargestBudget, Max
<1> QED BY <1>1, <1>6

\* A listing is a sequence of runs that have a delivery, each once.
LEMMA ListingsType ==
  ASSUME TypeOK, NEW todo \in Listings
  PROVE  /\ todo \in Seq(RunIds)
         /\ \A k \in DOMAIN todo : delivery[todo[k]].status # "none"
         /\ \A j, k \in DOMAIN todo : j # k => todo[j] # todo[k]
<1> DEFINE eligible == {i \in RunIds : delivery[i].status # "none"}
<1>1. Cardinality(eligible) \in Nat
  BY WebhooksAssumption, FS_Subset, FS_CardinalityType
<1>2. /\ todo \in [1 .. Cardinality(eligible) -> eligible]
      /\ \A j, k \in DOMAIN todo : j < k => Before(todo[j], todo[k])
  BY DEF Listings
<1>3. \A i \in RunIds : ~Before(i, i)
  BY WebhooksAssumption DEF TypeOK, Delivery, Before
<1>4. todo \in Seq(RunIds)
  <2> DEFINE n == Cardinality(eligible)
  <2>1. todo \in [1 .. n -> RunIds] /\ n \in Nat
    BY <1>1, <1>2
  <2> HIDE DEF n
  <2> QED BY <2>1
<1>5. ASSUME NEW j \in DOMAIN todo, NEW k \in DOMAIN todo, j # k PROVE todo[j] # todo[k]
  <2>1. j \in Int /\ k \in Int /\ todo[j] \in RunIds /\ todo[k] \in RunIds
    BY <1>1, <1>2
  <2>2. j < k \/ k < j
    BY <2>1, <1>5
  <2> QED BY <1>2, <1>3, <2>1, <2>2
<1> QED BY <1>2, <1>4, <1>5

\* The head of what is left to do is one of it; the tail is the rest.
LEMMA HeadAndTail ==
  ASSUME NEW S, NEW todo \in Seq(S), todo # <<>>
  PROVE  /\ 1 \in DOMAIN todo /\ Head(todo) = todo[1] /\ Head(todo) \in S
         /\ Tail(todo) \in Seq(S)
         /\ \A k \in DOMAIN Tail(todo) :
              /\ k + 1 \in DOMAIN todo /\ k + 1 # 1 /\ Tail(todo)[k] = todo[k + 1]
  OBVIOUS

-----------------------------------------------------------------------------
(* Types.                                                                  *)

\* What dispatchers and users write over a record is a record.
LEMMA RecordUpdates ==
  ASSUME TypeOK, NEW x \in Delivery
  PROVE  /\ \A s \in {"pending", "delivered", "failed"}, b \in BOOLEAN :
              /\ [x EXCEPT !.status = s] \in Delivery
              /\ [x EXCEPT !.unacknowledged = b] \in Delivery
         /\ \A n \in Nat : [x EXCEPT !.status = "pending", !.next_attempt_at = n] \in Delivery
         /\ Claimed(x) \in Delivery
         /\ Requeued(x) \in Delivery
<1>1. \A s \in {"pending", "delivered", "failed"}, b \in BOOLEAN :
        /\ [x EXCEPT !.status = s] \in Delivery
        /\ [x EXCEPT !.unacknowledged = b] \in Delivery
  BY DEF Delivery
<1>2. \A n \in Nat : [x EXCEPT !.status = "pending", !.next_attempt_at = n] \in Delivery
  BY DEF Delivery
<1>3. Claimed(x) \in Delivery
  <2>1. clock \in Nat /\ x.attempts + 1 \in Nat
    BY DEF TypeOK, Delivery
  <2>2. \A n, c \in Nat :
          [x EXCEPT !.status = "sending", !.attempts = n, !.last_attempt_at = c] \in Delivery
    BY DEF Delivery
  <2> QED BY <2>1, <2>2 DEF Claimed
<1>4. Requeued(x) \in Delivery
  <2>1. Append(x.retries, x.attempts) \in Seq(Nat)
    BY DEF Delivery
  <2>2. clock \in Nat
    BY DEF TypeOK
  <2> QED BY <2>1, <2>2 DEF Delivery, Requeued
<1> QED BY <1>1, <1>2, <1>3, <1>4

\* A dispatcher's memory keeps its shape.
LEMMA LocalUpdates ==
  ASSUME NEW l \in Local
  PROVE  /\ \A i \in RunIds, x \in Delivery : [l EXCEPT !.seen[i] = x] \in Local
         /\ l.todo # <<>> => /\ [l EXCEPT !.todo = Tail(@)] \in Local
                             /\ [l EXCEPT !.todo = Tail(@), !.sent = @ + 1,
                                          !.answer = NoAnswer] \in Local
         /\ \A answer \in Answers : [l EXCEPT !.answer = answer] \in Local
<1>1. \A i \in RunIds, x \in Delivery : [l EXCEPT !.seen[i] = x] \in Local
  BY DEF Local
<1>2. \A answer \in Answers : [l EXCEPT !.answer = answer] \in Local
  BY DEF Local
<1>3. l.todo # <<>> => Tail(l.todo) \in Seq(RunIds)
  BY DEF Local
<1>4. NoAnswer \in Answers
  BY WebhooksAssumption DEF NoAnswer, Answers
<1>5. l.todo # <<>> => [l EXCEPT !.todo = Tail(@)] \in Local
  BY <1>3 DEF Local
<1>6. l.todo # <<>> =>
        [l EXCEPT !.todo = Tail(@), !.sent = @ + 1, !.answer = NoAnswer] \in Local
  <2>1. l.sent + 1 \in Nat
    BY DEF Local
  <2>2. \A t \in Seq(RunIds), n \in Nat, answer \in Answers :
          [l EXCEPT !.todo = t, !.sent = n, !.answer = answer] \in Local
    BY DEF Local
  <2> QED BY <1>3, <1>4, <2>1, <2>2
<1> QED BY <1>1, <1>2, <1>5, <1>6

\* A dispatcher with a delivery at hand has one that is stored, is listed, and is its run's.
LEMMA AtHand ==
  ASSUME TypeOK, NEW d \in Dispatchers, Copies(d), pc[d] \in AtItem
  PROVE  LET i == Head(local[d].todo)
         IN  /\ local[d] \in Local /\ local[d].todo # <<>> /\ local[d].todo \in Seq(RunIds)
             /\ i \in RunIds /\ Item(d) = delivery[i] /\ delivery[i].status # "none"
             /\ Item(d) \in Delivery
<1>1. local[d] \in Local /\ local[d].todo \in Seq(RunIds) /\ local[d].todo # <<>>
  BY DEF TypeOK, Copies, AtItem, Sending, Local
<1>2. Head(local[d].todo) \in RunIds /\ 1 \in DOMAIN local[d].todo
      /\ Head(local[d].todo) = local[d].todo[1]
  BY <1>1, HeadAndTail
<1>3. /\ delivery[local[d].todo[1]] = local[d].seen[local[d].todo[1]]
      /\ delivery[local[d].todo[1]].status # "none"
  BY <1>2 DEF Copies, AtItem, Sending
<1> QED BY <1>1, <1>2, <1>3 DEF Item, TypeOK

\* Writing the delivery at hand keeps the shape of the files and of the dispatcher's memory.
LEMMA WriteType ==
  ASSUME TypeOK, NEW d \in Dispatchers, Copies(d), pc[d] \in AtItem, NEW x \in Delivery
  PROVE  /\ \A place \in AtItem : Write(d, x, place) =>
              /\ delivery' \in [RunIds -> Delivery] /\ local' \in [Dispatchers -> Local]
              /\ pc' \in [Dispatchers -> {"idle", "scan", "item", "claimed", "answered"}]
         /\ WriteAndGoOn(d, x) =>
              /\ delivery' \in [RunIds -> Delivery] /\ local' \in [Dispatchers -> Local]
              /\ pc' \in [Dispatchers -> {"idle", "scan", "item", "claimed", "answered"}]
<1>1. local[d] \in Local /\ local[d].todo # <<>> /\ Head(local[d].todo) \in RunIds
  BY AtHand
<1>2. /\ [local[d] EXCEPT !.seen[Head(local[d].todo)] = x] \in Local
      /\ [local[d] EXCEPT !.todo = Tail(@), !.sent = @ + 1, !.answer = NoAnswer] \in Local
  BY <1>1, LocalUpdates
<1>3. ASSUME NEW place \in AtItem, Write(d, x, place)
      PROVE  /\ delivery' \in [RunIds -> Delivery] /\ local' \in [Dispatchers -> Local]
             /\ pc' \in [Dispatchers -> {"idle", "scan", "item", "claimed", "answered"}]
  <2>1. delivery' \in [RunIds -> Delivery]
    BY <1>3 DEF Write, TypeOK
  <2>2. local' \in [Dispatchers -> Local]
    BY <1>2, <1>3 DEF Write, TypeOK
  <2>3. pc' \in [Dispatchers -> {"idle", "scan", "item", "claimed", "answered"}]
    BY <1>3 DEF Write, TypeOK, AtItem, Sending
  <2> QED BY <2>1, <2>2, <2>3
<1>4. ASSUME WriteAndGoOn(d, x)
      PROVE  /\ delivery' \in [RunIds -> Delivery] /\ local' \in [Dispatchers -> Local]
             /\ pc' \in [Dispatchers -> {"idle", "scan", "item", "claimed", "answered"}]
  <2>1. delivery' \in [RunIds -> Delivery]
    BY <1>4 DEF WriteAndGoOn, TypeOK
  <2>2. local' \in [Dispatchers -> Local]
    BY <1>2, <1>4 DEF WriteAndGoOn, TypeOK
  <2>3. pc' \in [Dispatchers -> {"idle", "scan", "item", "claimed", "answered"}]
    BY <1>4 DEF WriteAndGoOn, TypeOK
  <2> QED BY <2>1, <2>2, <2>3
<1> QED BY <1>3, <1>4

\* A dispatcher that is not dispatching keeps nothing in memory.
LEMMA QuietType == Quiet \in Local /\ Unfinished \in Delivery
<1>1. Unfinished \in Delivery
  BY DEF Unfinished, Delivery
<1>2. NoAnswer \in Answers
  BY WebhooksAssumption DEF NoAnswer, Answers
<1>3. [i \in RunIds |-> Unfinished] \in [RunIds -> Delivery] /\ <<>> \in Seq(RunIds)
  BY <1>1
<1> QED BY <1>1, <1>2, <1>3 DEF Quiet, Local

\* An answer makes a record of one that has been attempted in its budget.
LEMMA SettledType ==
  ASSUME TypeOK, NEW x \in Delivery, Since(x) > 0, NEW answer \in Answers, NEW max
  PROVE  Settled(x, answer, max) \in Delivery
<1> DEFINE y == [x EXCEPT !.unacknowledged = FALSE]
<1>1. y \in Delivery
  BY RecordUpdates
<1>2. Since(y) \in Nat \ {0}
  BY DEF Since, Delivery
<1>3. answer.retry_after \in Nat /\ clock \in Nat
  <2>1. answer.retry_after \in RetryAfters
    BY DEF Answers
  <2>2. RetryAfters \subseteq Nat
    BY WebhooksAssumption
  <2> QED BY <2>1, <2>2 DEF TypeOK
<1>4. Larger(Backoff(Since(y)), answer.retry_after) \in Nat
  BY <1>2, <1>3, BackoffType
<1>5. clock + Larger(Backoff(Since(y)), answer.retry_after) \in Nat
  BY <1>3, <1>4
<1> HIDE DEF y
<1>6. /\ [y EXCEPT !.status = "delivered"] \in Delivery
      /\ [y EXCEPT !.status = "failed"] \in Delivery
      /\ [y EXCEPT !.status = "pending",
                   !.next_attempt_at = clock + Larger(Backoff(Since(y)), answer.retry_after)]
           \in Delivery
  BY <1>1, <1>5, RecordUpdates
<1> QED BY <1>6 DEF Settled, y

-----------------------------------------------------------------------------
(* What the writers do to one record.                                      *)

\* Multiplication distributes over one more.
LEMMA Distribute == \A a, n \in Nat : a * n \in Nat /\ a * (n + 1) = a * n + a /\ a * n <= a * (n + 1)
OBVIOUS

\* The budgets of a record, for use by arithmetic.
LEMMA Bounds ==
  ASSUME NEW x \in Delivery
  PROVE  /\ x.attempts \in Nat /\ x.attempts_at_retry \in Nat /\ Len(x.retries) \in Nat
         /\ x.next_attempt_at \in Nat /\ x.last_attempt_at \in Nat /\ LargestBudget \in Nat
         /\ LargestBudget * Len(x.retries) \in Nat
         /\ LargestBudget * (Len(x.retries) + 1) = LargestBudget * Len(x.retries) + LargestBudget
<1>1. /\ x.attempts \in Nat /\ x.attempts_at_retry \in Nat /\ Len(x.retries) \in Nat
      /\ x.next_attempt_at \in Nat /\ x.last_attempt_at \in Nat
  BY DEF Delivery
<1> QED BY <1>1, LargestBudgetBounds, Distribute

\* The relation of the property HistoryKept between a record and what replaces it.
History(x, y) ==
  /\ y.attempts >= x.attempts
  /\ IsPrefix(x.retries, y.retries)
  /\ y.attempts_at_retry # x.attempts_at_retry => y.retries # x.retries
  /\ y.retries # <<>> => y.attempts_at_retry = Last(y.retries)
  /\ x.status = "failed" /\ y # x => Len(y.retries) = Len(x.retries) + 1
  /\ x.status = "delivered" => y = x

\* A record that is not at rest may be replaced by one with the same attempts and retries.
LEMMA SameAttempts ==
  ASSUME NEW x \in Delivery, NEW y \in Delivery, Budgeted(x), x.status \notin {"failed", "delivered"},
         y.status \in {"pending", "delivered", "failed"},
         y.attempts = x.attempts, y.attempts_at_retry = x.attempts_at_retry, y.retries = x.retries
  PROVE  Budgeted(y) /\ History(x, y)
<1>1. IsPrefix(x.retries, x.retries)
  BY DEF Delivery, IsPrefix
<1>2. Since(y) = Since(x) /\ y.status # "sending"
  BY DEF Since
<1>3. Budgeted(y)
  BY <1>2 DEF Budgeted
<1>4. y.attempts >= x.attempts
  BY Bounds
<1>5. History(x, y)
  BY <1>1, <1>4 DEF Budgeted, History
<1> QED BY <1>3, <1>5

\* A claim spends one attempt of a budget that is not used up.
LEMMA ClaimedKeeps ==
  ASSUME TypeOK, NEW x \in Delivery, Budgeted(x), x.status = "pending",
         NEW max \in Range(Budget), ~Spent(x, max)
  PROVE  /\ Budgeted(Claimed(x)) /\ Paced(Claimed(x)) /\ History(x, Claimed(x))
         /\ Claimed(x).attempts = x.attempts + 1 /\ Claimed(x).status = "sending"
         /\ Claimed(x).last_attempt_at = clock
<1>1. /\ Claimed(x).status = "sending" /\ Claimed(x).attempts = x.attempts + 1
      /\ Claimed(x).attempts_at_retry = x.attempts_at_retry /\ Claimed(x).retries = x.retries
      /\ Claimed(x).last_attempt_at = clock
  BY DEF Claimed, Delivery
<1>2. IsPrefix(x.retries, x.retries)
  BY DEF Delivery, IsPrefix
<1>3. max \in Nat /\ max <= LargestBudget
  BY LargestBudgetBounds
<1>4. Since(x) < max
  BY <1>3, Bounds DEF Spent, Since
<1>5. Budgeted(Claimed(x))
  <2>1. x.attempts_at_retry <= x.attempts /\ x.attempts \in Nat /\ x.attempts_at_retry \in Nat
    BY Bounds DEF Budgeted
  <2>2. Since(Claimed(x)) = Since(x) + 1 /\ Since(x) \in Nat
    BY <1>1, <2>1 DEF Since
  <2>3. Since(Claimed(x)) <= LargestBudget /\ Since(Claimed(x)) > 0
    BY <1>3, <1>4, <2>2, LargestBudgetBounds
  <2>4. Claimed(x).attempts_at_retry <= Claimed(x).attempts
    BY <1>1, <2>1
  <2> QED BY <1>1, <2>3, <2>4 DEF Budgeted
<1>6. History(x, Claimed(x))
  BY <1>1, <1>2, Bounds DEF Budgeted, History
<1> QED BY <1>1, <1>5, <1>6 DEF Paced

\* A saved answer leaves the attempts as they are and starts the backoff when it retries.
LEMMA SettledKeeps ==
  ASSUME TypeOK, NEW x \in Delivery, Budgeted(x), x.status = "sending", x.last_attempt_at <= clock,
         NEW answer \in Answers, NEW max
  PROVE  LET y == Settled(x, answer, max)
         IN  /\ y \in Delivery /\ Budgeted(y) /\ Paced(y) /\ History(x, y)
             /\ y.attempts = x.attempts /\ y.last_attempt_at = x.last_attempt_at
             /\ y.status # "none"
<1> DEFINE y == Settled(x, answer, max)
           z == [x EXCEPT !.unacknowledged = FALSE]
<1>1. Since(x) > 0
  BY DEF Budgeted
<1>2. y \in Delivery
  BY <1>1, SettledType
<1>3. z \in Delivery /\ Since(z) = Since(x) /\ z.last_attempt_at = x.last_attempt_at
  BY RecordUpdates DEF Since, Delivery
<1>4. /\ y.status \in {"pending", "delivered", "failed"} /\ y.attempts = x.attempts
      /\ y.attempts_at_retry = x.attempts_at_retry /\ y.retries = x.retries
      /\ y.last_attempt_at = x.last_attempt_at
  BY DEF Settled, Delivery
<1>5. Budgeted(y) /\ History(x, y)
  BY <1>2, <1>4, SameAttempts
<1>6. y.status = "pending" =>
        y.next_attempt_at = clock + Larger(Backoff(Since(x)), answer.retry_after)
  BY <1>3 DEF Settled, Delivery
<1>7. Since(x) \in Nat \ {0}
  <2>1. Since(x) \in Int
    BY Bounds DEF Since
  <2> QED BY <1>1, <2>1
<1>8. answer.retry_after \in Nat
  <2>1. answer.retry_after \in RetryAfters
    BY DEF Answers
  <2>2. RetryAfters \subseteq Nat
    BY WebhooksAssumption
  <2> QED BY <2>1, <2>2
<1>9. /\ Backoff(Since(x)) \in Nat /\ Larger(Backoff(Since(x)), answer.retry_after) \in Nat
      /\ Larger(Backoff(Since(x)), answer.retry_after) >= Backoff(Since(x))
  BY <1>7, <1>8, BackoffType
<1>10. Since(y) = Since(x)
  BY <1>4 DEF Since
<1>11. clock \in Nat /\ x.last_attempt_at \in Nat
  BY Bounds DEF TypeOK
<1>12. Paced(y)
  BY <1>4, <1>6, <1>9, <1>10, <1>11 DEF Paced
<1> QED BY <1>2, <1>4, <1>5, <1>12

\* A manual retry starts a new budget at the attempts so far and remembers it.
LEMMA RequeuedKeeps ==
  ASSUME TypeOK, NEW x \in Delivery, Budgeted(x), x.status = "failed"
  PROVE  LET y == Requeued(x)
         IN  /\ Budgeted(y) /\ Paced(y) /\ History(x, y)
             /\ y.attempts = x.attempts /\ y.last_attempt_at = x.last_attempt_at
             /\ y.status = "pending"
<1> DEFINE y == Requeued(x)
<1>1. /\ y.status = "pending" /\ y.attempts = x.attempts /\ y.attempts_at_retry = x.attempts
      /\ y.retries = Append(x.retries, x.attempts) /\ y.last_attempt_at = x.last_attempt_at
  BY DEF Requeued, Delivery
<1>2. x.retries \in Seq(Nat) /\ x.attempts \in Nat
  BY DEF Delivery
<1>3. /\ Len(y.retries) = Len(x.retries) + 1 /\ Last(y.retries) = x.attempts
      /\ SubSeq(x.retries, 1, Len(x.retries)) = SubSeq(y.retries, 1, Len(x.retries))
      /\ y.retries # x.retries
  BY <1>1, <1>2 DEF Last
<1>4. Since(y) = 0
  BY <1>1, <1>2 DEF Since
<1>5. Budgeted(y)
  <2>1. /\ x.attempts_at_retry <= x.attempts /\ x.attempts \in Nat /\ x.attempts_at_retry \in Nat
        /\ Since(x) <= LargestBudget /\ x.attempts_at_retry <= LargestBudget * Len(x.retries)
    BY Bounds DEF Budgeted
  <2>2. x.attempts <= LargestBudget * Len(x.retries) + LargestBudget
    BY <2>1, Bounds DEF Since
  <2>3. y.attempts_at_retry <= LargestBudget * Len(y.retries)
    BY <1>1, <1>3, <2>2, Bounds
  <2> QED BY <1>1, <1>3, <1>4, <2>1, <2>3, Bounds DEF Budgeted
<1>6. IsPrefix(x.retries, y.retries)
  BY <1>2, <1>3 DEF IsPrefix
<1>7. History(x, y)
  BY <1>1, <1>3, <1>6, Bounds DEF History
<1> QED BY <1>1, <1>4, <1>5, <1>7 DEF Paced

-----------------------------------------------------------------------------
(* The inductive step.                                                     *)

\* What may replace the record of run i.
Fits(i, x) ==
  /\ x \in Delivery /\ x.status # "none"
  /\ posts[i] <= x.attempts /\ x.last_attempt_at <= clock
  /\ Budgeted(x) /\ Paced(x)

\* The ways a dispatcher saves the delivery at hand.
Saves(d, x) ==
  \/ WriteAndGoOn(d, x)
  \/ Write(d, x, "item")
  \/ Write(d, x, "claimed") /\ x.status = "sending" /\ posts[Head(local[d].todo)] < x.attempts

\* Every action of a dispatcher that saves a delivery replaces a listed record by one that fits
\* and continues its history; it attempts only what is due.
LEMMA Writer ==
  ASSUME IInv, NEW d \in Dispatchers, Revive(d) \/ Exhaust(d) \/ Claim(d) \/ Settle(d)
  PROVE  /\ pc[d] \in AtItem /\ UNCHANGED posts
         /\ \E x : /\ Fits(Head(local[d].todo), x) /\ History(Item(d), x) /\ Saves(d, x)
                   /\ x.attempts > Item(d).attempts => Due(d)
<1> DEFINE i == Head(local[d].todo)
           x == Item(d)
           Goal == \E y : Fits(i, y) /\ History(x, y) /\ Saves(d, y)
                          /\ (y.attempts > x.attempts => Due(d))
<1>1. TypeOK /\ Copies(d)
  BY DEF IInv
<1>2. pc[d] \in AtItem /\ UNCHANGED posts
  BY DEF Revive, Exhaust, Claim, Settle, AtItem, Sending
<1>3. i \in RunIds /\ x = delivery[i] /\ x \in Delivery /\ x.status # "none" /\ local[d] \in Local
  BY <1>1, <1>2, AtHand
<1>4. Recorded(i)
  BY <1>3 DEF IInv
<1>5. posts[i] <= x.attempts /\ x.last_attempt_at <= clock /\ Budgeted(x) /\ Paced(x)
  BY <1>3, <1>4 DEF Recorded
<1>6. posts[i] \in Nat /\ x.attempts \in Nat
  BY <1>3 DEF TypeOK, Delivery, IInv
<1>7. ASSUME Revive(d) PROVE Goal
  <2> DEFINE y == [x EXCEPT !.unacknowledged = TRUE]
  <2>1. /\ y \in Delivery /\ y.status = "sending" /\ y.attempts = x.attempts /\ y.unacknowledged
        /\ y.attempts_at_retry = x.attempts_at_retry /\ y.retries = x.retries
        /\ y.last_attempt_at = x.last_attempt_at /\ x.status = "sending"
    BY <1>1, <1>3, <1>7, RecordUpdates DEF Revive, Delivery
  <2>2. ASSUME NEW s \in {"pending", "failed"}
        PROVE  LET z == [y EXCEPT !.status = s]
               IN  Fits(i, z) /\ History(x, z) /\ ~(z.attempts > x.attempts)
    <3> DEFINE z == [y EXCEPT !.status = s]
    <3> HIDE DEF y
    <3>1. /\ z.status = s /\ z.attempts = x.attempts /\ z.unacknowledged
          /\ z.attempts_at_retry = x.attempts_at_retry /\ z.retries = x.retries
          /\ z.last_attempt_at = x.last_attempt_at
      BY <2>1 DEF Delivery
    <3>2. z \in Delivery
      BY <1>1, <2>1, RecordUpdates
    <3>3. Budgeted(z) /\ History(x, z)
      BY <1>3, <1>5, <2>1, <3>1, <3>2, SameAttempts
    <3>4. Fits(i, z)
      BY <1>5, <3>1, <3>2, <3>3 DEF Fits, Paced
    <3> QED BY <1>6, <3>1, <3>3, <3>4
  <2>3. \/ WriteAndGoOn(d, [y EXCEPT !.status = "failed"])
        \/ Write(d, [y EXCEPT !.status = "pending"], "item")
    BY <1>7 DEF Revive
  <2> HIDE DEF y
  <2> QED BY <2>2, <2>3 DEF Saves
<1>8. ASSUME Exhaust(d) PROVE Goal
  <2> DEFINE z == [x EXCEPT !.status = "failed"]
  <2>1. /\ z \in Delivery /\ z.status = "failed" /\ z.attempts = x.attempts
        /\ z.attempts_at_retry = x.attempts_at_retry /\ z.retries = x.retries
        /\ z.last_attempt_at = x.last_attempt_at /\ x.status = "pending" /\ Due(d)
    BY <1>1, <1>3, <1>8, RecordUpdates DEF Exhaust, Delivery, Due
  <2>2. WriteAndGoOn(d, z)
    BY <1>8 DEF Exhaust
  <2> HIDE DEF z
  <2>3. Budgeted(z) /\ History(x, z)
    BY <1>3, <1>5, <2>1, SameAttempts
  <2>4. Fits(i, z)
    BY <1>5, <2>1, <2>3 DEF Fits, Paced
  <2> QED BY <2>1, <2>2, <2>3, <2>4 DEF Saves
<1>9. ASSUME Claim(d) PROVE Goal
  <2>1. Due(d) /\ x.status = "pending" /\ ~Spent(x, local[d].max) /\ Write(d, Claimed(x), "claimed")
    BY <1>9 DEF Claim, Due
  <2>2. local[d].max \in Range(Budget)
    BY <1>1, <1>2 DEF Copies, AtItem, Sending
  <2>3. /\ Budgeted(Claimed(x)) /\ Paced(Claimed(x)) /\ History(x, Claimed(x))
        /\ Claimed(x).attempts = x.attempts + 1 /\ Claimed(x).status = "sending"
        /\ Claimed(x).last_attempt_at = clock
    BY <1>1, <1>3, <1>5, <2>1, <2>2, ClaimedKeeps
  <2>4. Claimed(x) \in Delivery /\ clock \in Nat
    <3>1. Claimed(x) \in Delivery
      BY <1>1, <1>3, RecordUpdates
    <3> QED BY <1>1, <3>1 DEF TypeOK
  <2>5. posts[i] < Claimed(x).attempts
    BY <1>5, <1>6, <2>3
  <2>6. Fits(i, Claimed(x))
    BY <1>6, <2>3, <2>4, <2>5 DEF Fits
  <2> QED BY <2>1, <2>3, <2>5, <2>6 DEF Saves
<1>10. ASSUME Settle(d) PROVE Goal
  <2> DEFINE y == Settled(x, local[d].answer, local[d].max)
  <2>1. x.status = "sending"
    BY <1>1, <1>10 DEF Settle, Copies, Sending
  <2>2. local[d].answer \in Answers
    BY <1>3 DEF Local
  <2>3. /\ y \in Delivery /\ Budgeted(y) /\ Paced(y) /\ History(x, y)
        /\ y.attempts = x.attempts /\ y.last_attempt_at = x.last_attempt_at
        /\ y.status # "none"
    BY <1>1, <1>3, <1>5, <2>1, <2>2, SettledKeeps
  <2>4. WriteAndGoOn(d, y)
    BY <1>10 DEF Settle
  <2> HIDE DEF y
  <2>5. Fits(i, y)
    BY <1>5, <2>3 DEF Fits
  <2> QED BY <1>6, <2>3, <2>4, <2>5 DEF Saves
<1> QED BY <1>2, <1>7, <1>8, <1>9, <1>10

\* The records stay well kept when one of them is replaced by one that fits.
LEMMA ReplacedKeeps ==
  ASSUME IInv, NEW i \in RunIds, NEW x, Fits(i, x), delivery' = [delivery EXCEPT ![i] = x],
         UNCHANGED <<posts, clock>>
  PROVE  \A j \in RunIds : Recorded(j)'
<1> SUFFICES ASSUME NEW j \in RunIds PROVE Recorded(j)'
  OBVIOUS
<1>1. Recorded(j)
  BY DEF IInv
<1>2. delivery'[j] = IF j = i THEN x ELSE delivery[j]
  BY DEF IInv, TypeOK
<1> QED BY <1>1, <1>2 DEF Recorded, Fits, Budgeted, Paced, Since

\* A dispatcher other than the one that runs is idle.
LEMMA OthersIdle ==
  ASSUME IInv, NEW d \in Dispatchers, pc[d] # "idle", NEW e \in Dispatchers, e # d
  PROVE  pc[e] = "idle"
BY DEF IInv, Copies

\* Saving the delivery at hand keeps the dispatchers' copies true.
LEMMA SavesCopies ==
  ASSUME IInv, NEW d \in Dispatchers, pc[d] \in AtItem, UNCHANGED posts,
         NEW x, Fits(Head(local[d].todo), x), Saves(d, x)
  PROVE  \A e \in Dispatchers : Copies(e)'
<1> DEFINE i == Head(local[d].todo)
           todo == local[d].todo
<1>1. TypeOK /\ Copies(d) /\ pc[d] # "idle"
  BY DEF IInv, AtItem, Sending
<1>2. /\ local[d] \in Local /\ todo # <<>> /\ todo \in Seq(RunIds) /\ i \in RunIds
  BY <1>1, AtHand
<1>3. /\ 1 \in DOMAIN todo /\ i = todo[1]
      /\ Tail(todo) \in Seq(RunIds)
      /\ \A k \in DOMAIN todo : todo[k] \in RunIds
      /\ \A k \in DOMAIN Tail(todo) :
           k + 1 \in DOMAIN todo /\ k + 1 # 1 /\ Tail(todo)[k] = todo[k + 1]
  BY <1>2, HeadAndTail
<1>4. /\ lock = d /\ local[d].now <= clock /\ local[d].max \in Range(Budget)
      /\ \A k \in DOMAIN todo : /\ delivery[todo[k]] = local[d].seen[todo[k]]
                                /\ delivery[todo[k]].status # "none"
      /\ \A j, k \in DOMAIN todo : j # k => todo[j] # todo[k]
  BY <1>1 DEF Copies
<1>5. delivery' = [delivery EXCEPT ![i] = x] /\ UNCHANGED <<lock, clock>> /\ x.status # "none"
  BY DEF Saves, Write, WriteAndGoOn, Fits
<1>6. \A j \in RunIds : delivery'[j] = IF j = i THEN x ELSE delivery[j]
  BY <1>1, <1>5 DEF TypeOK
<1>7. ASSUME NEW e \in Dispatchers, e # d PROVE Copies(e)'
  <2>1. pc[e] = "idle"
    BY <1>1, <1>7, OthersIdle
  <2>2. pc'[e] = pc[e]
    BY <1>1, <1>7 DEF Saves, Write, WriteAndGoOn, TypeOK
  <2> QED BY <2>1, <2>2 DEF Copies
<1>8. ASSUME NEW place \in {"item", "claimed"}, Write(d, x, place),
             place = "claimed" => x.status = "sending" /\ posts[i] < x.attempts
      PROVE  Copies(d)'
  <2>1. pc'[d] = place /\ local' = [local EXCEPT ![d].seen[i] = x]
    BY <1>1, <1>8 DEF Write, TypeOK
  <2>2. local'[d] = [local[d] EXCEPT !.seen[i] = x]
    BY <1>1, <2>1 DEF TypeOK
  <2>3. /\ local'[d].todo = todo /\ local'[d].now = local[d].now /\ local'[d].max = local[d].max
        /\ local'[d].seen = [local[d].seen EXCEPT ![i] = x]
    BY <1>2, <2>2 DEF Local
  <2>4. \A j \in RunIds : local'[d].seen[j] = IF j = i THEN x ELSE local[d].seen[j]
    BY <1>2, <2>3 DEF Local
  <2>5. \A k \in DOMAIN todo : /\ delivery'[todo[k]] = local'[d].seen[todo[k]]
                               /\ delivery'[todo[k]].status # "none"
    BY <1>3, <1>4, <1>5, <1>6, <2>4
  <2>6. Item(d)' = x
    BY <1>2, <2>3, <2>4 DEF Item
  <2>7. place \notin {"idle", "answered"}
    OBVIOUS
  <2> HIDE DEF todo
  <2>8. Copies(d)' <=>
          (/\ lock' = d /\ local'[d].now <= clock' /\ local'[d].max \in Range(Budget)
           /\ \A k \in DOMAIN todo : /\ delivery'[todo[k]] = local'[d].seen[todo[k]]
                                     /\ delivery'[todo[k]].status # "none"
           /\ \A j, k \in DOMAIN todo : j # k => todo[j] # todo[k]
           /\ place \in AtItem => todo # <<>>
           /\ place \in Sending => x.status = "sending"
           /\ place = "claimed" => posts'[Head(todo)] < x.attempts)
    BY <2>1, <2>3, <2>6, <2>7 DEF Copies
  <2>9. place \in Sending => place = "claimed"
    BY DEF Sending
  <2> QED BY <1>2, <1>4, <1>5, <1>8, <2>3, <2>5, <2>8, <2>9 DEF todo
<1>9. ASSUME WriteAndGoOn(d, x) PROVE Copies(d)'
  <2>1. pc'[d] = "scan"
    BY <1>1, <1>9 DEF WriteAndGoOn, TypeOK
  <2>2. local'[d] = [local[d] EXCEPT !.todo = Tail(@), !.sent = @ + 1, !.answer = NoAnswer]
    BY <1>1, <1>9 DEF WriteAndGoOn, TypeOK
  <2>3. /\ local'[d].todo = Tail(todo) /\ local'[d].now = local[d].now
        /\ local'[d].max = local[d].max /\ local'[d].seen = local[d].seen
    BY <1>2, <2>2 DEF Local
  <2>4. \A k \in DOMAIN Tail(todo) : /\ delivery'[Tail(todo)[k]] = local[d].seen[Tail(todo)[k]]
                                     /\ delivery'[Tail(todo)[k]].status # "none"
    BY <1>3, <1>4, <1>6
  <2>5. \A j, k \in DOMAIN Tail(todo) : j # k => Tail(todo)[j] # Tail(todo)[k]
    <3>1. ASSUME NEW j \in DOMAIN Tail(todo), NEW k \in DOMAIN Tail(todo), j # k
          PROVE  Tail(todo)[j] # Tail(todo)[k]
      <4>1. j + 1 \in DOMAIN todo /\ k + 1 \in DOMAIN todo
        BY <1>3
      <4>2. j + 1 # k + 1
        BY <1>3, <3>1
      <4> QED BY <1>3, <1>4, <4>1, <4>2
    <3> QED BY <3>1
  <2> QED BY <1>4, <1>5, <2>1, <2>3, <2>4, <2>5 DEF Copies, AtItem, Sending
<1> QED BY <1>7, <1>8, <1>9 DEF Saves

\* The first two parts of the invariant, for the actions that save no delivery.
LEMMA QuietStep ==
  ASSUME IInv, NEW d \in Dispatchers,
         Begin(d) \/ Return(d) \/ Die(d) \/ Consider(d) \/ PassOver(d) \/ Send(d) \/ Shutdown(d)
  PROVE  TypeOK' /\ \A e \in Dispatchers : Copies(e)'
<1>1. TypeOK /\ Copies(d) /\ local[d] \in Local
  BY DEF IInv, TypeOK
<1>2. ASSUME NEW e \in Dispatchers, e # d, pc[d] # "idle" \/ lock = NoLock PROVE Copies(e)'
  <2>1. pc[e] = "idle"
    <3>1. CASE pc[d] # "idle"
      BY <1>2, <3>1, OthersIdle
    <3>2. CASE lock = NoLock
      BY <3>2, WebhooksAssumption DEF IInv, Copies
    <3> QED BY <1>2, <3>1, <3>2
  <2>2. pc'[e] = pc[e]
    BY <1>1, <1>2 DEF Begin, Return, Die, Leave, Consider, PassOver, Send, Shutdown, TypeOK
  <2> QED BY <2>1, <2>2 DEF Copies
<1>3. CASE Begin(d)
  <2>1. PICK todo \in Listings :
          local' = [local EXCEPT ![d] = [Quiet EXCEPT !.seen = delivery, !.todo = todo,
                                                      !.now = clock, !.limit = Limit[d],
                                                      !.max = Budget[d]]]
    BY <1>3 DEF Begin
  <2>2. /\ todo \in Seq(RunIds)
        /\ \A k \in DOMAIN todo : delivery[todo[k]].status # "none"
        /\ \A j, k \in DOMAIN todo : j # k => todo[j] # todo[k]
    BY <1>1, ListingsType
  <2>3. Budget[d] \in Range(Budget) /\ Limit[d] \in Range(Limit)
    BY WebhooksAssumption DEF Range
  <2>4. delivery \in [RunIds -> Delivery] /\ clock \in Nat
    BY <1>1 DEF TypeOK
  <2> DEFINE l == [Quiet EXCEPT !.seen = delivery, !.todo = todo, !.now = clock,
                                !.limit = Limit[d], !.max = Budget[d]]
  <2>5. /\ l \in Local /\ l.seen = delivery /\ l.todo = todo /\ l.now = clock
        /\ l.max = Budget[d]
    <3>1. Quiet \in Local
      BY QuietType
    <3> QED BY <2>2, <2>3, <2>4, <3>1 DEF Local
  <2> HIDE DEF l
  <2>6. local' = [local EXCEPT ![d] = l]
    BY <2>1 DEF l
  <2>7. local' \in [Dispatchers -> Local] /\ local'[d] = l
    BY <1>1, <2>5, <2>6 DEF TypeOK
  <2>8. /\ pc'[d] = "scan" /\ lock' = d /\ lock = NoLock
        /\ UNCHANGED <<delivery, stopping, clock, posts, interruptions>>
        /\ pc' \in [Dispatchers -> {"idle", "scan", "item", "claimed", "answered"}]
    BY <1>1, <1>3 DEF Begin, LockFree, TypeOK
  <2>9. TypeOK'
    BY <1>1, <2>7, <2>8 DEF TypeOK
  <2>10. Copies(d)'
    <3>1. /\ pc'[d] = "scan" /\ lock' = d /\ local'[d].now = clock' /\ clock' \in Nat
          /\ local'[d].max \in Range(Budget) /\ local'[d].todo = todo
          /\ local'[d].seen = delivery'
      BY <2>3, <2>4, <2>5, <2>7, <2>8
    <3>2. \A k \in DOMAIN todo : delivery'[todo[k]].status # "none"
      BY <2>2, <2>8
    <3> QED BY <2>2, <3>1, <3>2 DEF Copies, AtItem, Sending
  <2> QED BY <1>2, <2>8, <2>9, <2>10
<1>4. CASE Return(d) \/ Die(d)
  <2>1. pc[d] # "idle" /\ Leave(d) /\ interruptions' \in Nat
    BY <1>1, <1>4 DEF Return, Die, TypeOK
  <2>2. pc'[d] = "idle"
    BY <1>1, <2>1 DEF Leave, TypeOK
  <2>3. TypeOK'
    <3>1. local' \in [Dispatchers -> Local]
      BY <1>1, <2>1, QuietType DEF Leave, TypeOK
    <3> QED BY <1>1, <2>1, <3>1 DEF Leave, TypeOK
  <2> QED BY <1>2, <2>1, <2>2, <2>3 DEF Copies
<1>5. CASE Consider(d)
  <2>1. /\ pc[d] = "scan" /\ pc'[d] = "item" /\ local[d].todo # <<>>
        /\ UNCHANGED <<delivery, lock, local, stopping, clock, posts, interruptions>>
        /\ pc' \in [Dispatchers -> {"idle", "scan", "item", "claimed", "answered"}]
    BY <1>1, <1>5 DEF Consider, Over, TypeOK
  <2>2. TypeOK'
    BY <1>1, <2>1 DEF TypeOK
  <2>3. Copies(d)'
    BY <1>1, <2>1 DEF Copies, AtItem, Sending, Item
  <2> QED BY <1>2, <2>1, <2>2, <2>3
<1>6. CASE PassOver(d)
  <2>1. /\ pc[d] = "item" /\ local' = [local EXCEPT ![d].todo = Tail(@)]
        /\ pc'[d] = "scan"
        /\ UNCHANGED <<delivery, lock, stopping, clock, posts, interruptions>>
        /\ pc' \in [Dispatchers -> {"idle", "scan", "item", "claimed", "answered"}]
    BY <1>1, <1>6 DEF PassOver, TypeOK
  <2>2. local[d].todo # <<>> /\ local[d].todo \in Seq(RunIds)
    BY <1>1, <2>1, AtHand DEF AtItem
  <2>3. [local[d] EXCEPT !.todo = Tail(@)] \in Local
    BY <1>1, <2>2, LocalUpdates
  <2>4. /\ local' \in [Dispatchers -> Local]
        /\ local'[d] = [local[d] EXCEPT !.todo = Tail(@)]
    BY <1>1, <2>1, <2>3 DEF TypeOK
  <2>5. TypeOK'
    BY <1>1, <2>1, <2>4 DEF TypeOK
  <2>6. /\ local'[d].todo = Tail(local[d].todo) /\ local'[d].now = local[d].now
        /\ local'[d].max = local[d].max /\ local'[d].seen = local[d].seen
    BY <1>1, <2>4 DEF Local
  <2>7. /\ lock = d /\ local[d].now <= clock /\ local[d].max \in Range(Budget)
        /\ \A k \in DOMAIN local[d].todo :
             /\ delivery[local[d].todo[k]] = local[d].seen[local[d].todo[k]]
             /\ delivery[local[d].todo[k]].status # "none"
        /\ \A j, k \in DOMAIN local[d].todo : j # k => local[d].todo[j] # local[d].todo[k]
    BY <1>1, <2>1 DEF Copies
  <2>8. \A k \in DOMAIN Tail(local[d].todo) :
          k \in Int /\ k + 1 \in DOMAIN local[d].todo /\ Tail(local[d].todo)[k] = local[d].todo[k + 1]
    BY <2>2, HeadAndTail
  <2>9. \A j, k \in DOMAIN Tail(local[d].todo) :
          j # k => Tail(local[d].todo)[j] # Tail(local[d].todo)[k]
    <3>1. ASSUME NEW j \in DOMAIN Tail(local[d].todo), NEW k \in DOMAIN Tail(local[d].todo), j # k
          PROVE  Tail(local[d].todo)[j] # Tail(local[d].todo)[k]
      <4>1. j + 1 # k + 1
        BY <2>8, <3>1
      <4> QED BY <2>7, <2>8, <4>1
    <3> QED BY <3>1
  <2>10. Copies(d)'
    BY <2>1, <2>6, <2>7, <2>8, <2>9 DEF Copies, AtItem, Sending
  <2> QED BY <1>2, <2>1, <2>5, <2>10
<1>7. CASE Send(d)
  <2>1. PICK answer \in Answers : local' = [local EXCEPT ![d].answer = answer]
    BY <1>7 DEF Send
  <2>2. /\ pc[d] = "claimed" /\ pc'[d] = "answered"
        /\ posts' = [posts EXCEPT ![Head(local[d].todo)] = @ + 1]
        /\ UNCHANGED <<delivery, lock, stopping, clock, interruptions>>
        /\ pc' \in [Dispatchers -> {"idle", "scan", "item", "claimed", "answered"}]
    BY <1>1, <1>7 DEF Send, TypeOK
  <2>3. Head(local[d].todo) \in RunIds
    BY <1>1, <2>2, AtHand DEF AtItem, Sending
  <2>4. [local[d] EXCEPT !.answer = answer] \in Local
    BY <1>1, LocalUpdates
  <2>5. /\ local' \in [Dispatchers -> Local]
        /\ local'[d] = [local[d] EXCEPT !.answer = answer]
    BY <1>1, <2>1, <2>4 DEF TypeOK
  <2>6. posts' \in [RunIds -> Nat]
    <3>1. posts \in [RunIds -> Nat] /\ posts[Head(local[d].todo)] + 1 \in Nat
      BY <1>1, <2>3 DEF TypeOK
    <3> QED BY <2>2, <3>1
  <2>7. TypeOK'
    BY <1>1, <2>2, <2>5, <2>6 DEF TypeOK
  <2>8. /\ local'[d].todo = local[d].todo /\ local'[d].now = local[d].now
        /\ local'[d].max = local[d].max /\ local'[d].seen = local[d].seen
    BY <1>1, <2>5 DEF Local
  <2>9. Copies(d)'
    BY <1>1, <2>2, <2>8 DEF Copies, AtItem, Sending, Item
  <2> QED BY <1>2, <2>2, <2>7, <2>9
<1>8. CASE Shutdown(d)
  <2>1. /\ pc[d] # "idle" /\ UNCHANGED <<delivery, lock, pc, local, clock, posts>>
        /\ stopping' \subseteq Dispatchers /\ interruptions' \in Nat
    BY <1>1, <1>8 DEF Shutdown, TypeOK
  <2>2. TypeOK'
    BY <1>1, <2>1 DEF TypeOK
  <2>3. Copies(d)'
    BY <1>1, <2>1 DEF Copies, Item
  <2> QED BY <1>2, <2>1, <2>2, <2>3
<1> QED BY <1>3, <1>4, <1>5, <1>6, <1>7, <1>8

\* Finishing a run and requeueing a delivery replace one record, of which no dispatcher that
\* runs has a copy to write: the first was not listed, the second needs the lock.
LEMMA Outside ==
  ASSUME IInv, NEW i \in RunIds, Finish(i) \/ Retry(i)
  PROVE  /\ TypeOK' /\ (\A e \in Dispatchers : Copies(e)') /\ UNCHANGED <<posts, clock>>
         /\ \E x : /\ Fits(i, x) /\ History(delivery[i], x)
                   /\ delivery' = [delivery EXCEPT ![i] = x]
                   /\ x.attempts = delivery[i].attempts
<1>1. TypeOK /\ delivery[i] \in Delivery /\ Recorded(i) /\ clock \in Nat
  BY DEF IInv, TypeOK
<1>2. UNCHANGED <<lock, pc, local, stopping, clock, posts, interruptions>>
  BY DEF Finish, Retry
<1>3. \E x : /\ Fits(i, x) /\ History(delivery[i], x)
             /\ delivery' = [delivery EXCEPT ![i] = x] /\ x.attempts = delivery[i].attempts
  <2>1. CASE Finish(i)
    <3> DEFINE x == [delivery[i] EXCEPT !.status = "pending", !.next_attempt_at = clock]
    <3>1. delivery[i] = Unfinished /\ delivery[i].status = "none"
      BY <1>1, <2>1 DEF Finish, Recorded
    <3>2. delivery' = [delivery EXCEPT ![i] = x]
      BY <1>1, <2>1 DEF Finish, TypeOK
    <3>3. x \in Delivery
      BY <1>1, RecordUpdates
    <3>4. /\ x.status = "pending" /\ x.attempts = delivery[i].attempts
          /\ x.attempts_at_retry = delivery[i].attempts_at_retry
          /\ x.retries = delivery[i].retries /\ x.last_attempt_at = delivery[i].last_attempt_at
          /\ Since(x) = 0
      BY <3>1 DEF Unfinished, Since
    <3> HIDE DEF x
    <3>5. Budgeted(x) /\ History(delivery[i], x)
      BY <1>1, <3>1, <3>3, <3>4, SameAttempts DEF Recorded
    <3>6. Fits(i, x)
      BY <1>1, <3>3, <3>4, <3>5 DEF Fits, Recorded, Paced
    <3> QED BY <3>2, <3>4, <3>5, <3>6
  <2>2. CASE Retry(i)
    <3> DEFINE x == Requeued(delivery[i])
    <3>1. delivery[i].status = "failed" /\ delivery' = [delivery EXCEPT ![i] = x]
      BY <2>2 DEF Retry, Retryable
    <3>2. /\ Budgeted(x) /\ Paced(x) /\ History(delivery[i], x)
          /\ x.attempts = delivery[i].attempts /\ x.last_attempt_at = delivery[i].last_attempt_at
          /\ x.status = "pending"
      BY <1>1, <3>1, RequeuedKeeps DEF Recorded
    <3>3. x \in Delivery
      BY <1>1, RecordUpdates
    <3> HIDE DEF x
    <3>4. Fits(i, x)
      BY <1>1, <3>2, <3>3 DEF Fits, Recorded
    <3> QED BY <3>1, <3>2, <3>4
  <2> QED BY <2>1, <2>2
<1>4. PICK x : Fits(i, x) /\ delivery' = [delivery EXCEPT ![i] = x]
  BY <1>3
<1>5. TypeOK'
  BY <1>1, <1>2, <1>4 DEF TypeOK, Fits
<1>6. ASSUME NEW e \in Dispatchers PROVE Copies(e)'
  <2>1. CASE pc[e] = "idle"
    BY <1>2, <2>1 DEF Copies
  <2>2. CASE pc[e] # "idle"
    <3>1. Copies(e) /\ lock # NoLock
      BY <2>2, WebhooksAssumption DEF IInv, Copies
    <3>2. delivery[i].status = "none"
      BY <3>1 DEF Finish, Retry
    <3>3. \A j : j # i => delivery'[j] = delivery[j]
      BY <1>1, <1>4 DEF TypeOK
    <3>4. \A k \in DOMAIN local[e].todo : local[e].todo[k] # i
      BY <2>2, <3>1, <3>2 DEF Copies
    <3> QED BY <1>2, <2>2, <3>1, <3>3, <3>4 DEF Copies, Item
  <2> QED BY <2>1, <2>2
<1> QED BY <1>2, <1>3, <1>5, <1>6

\* Time and requests: a request is counted only after its attempt was saved.
LEMMA CountedStep ==
  ASSUME IInv, Next,
         \/ UNCHANGED <<delivery, posts, clock>>
         \/ \E d \in Dispatchers : Send(d)
         \/ Tick
  PROVE  \A i \in RunIds : Recorded(i)'
<1> SUFFICES ASSUME NEW i \in RunIds PROVE Recorded(i)'
  OBVIOUS
<1>1. TypeOK /\ Recorded(i) /\ clock \in Nat /\ posts[i] \in Nat /\ delivery[i] \in Delivery
  BY DEF IInv, TypeOK
<1>2. CASE UNCHANGED <<delivery, posts, clock>>
  BY <1>1, <1>2 DEF Recorded
<1>3. ASSUME NEW d \in Dispatchers, Send(d) PROVE Recorded(i)'
  <2>1. /\ pc[d] = "claimed" /\ posts' = [posts EXCEPT ![Head(local[d].todo)] = @ + 1]
        /\ UNCHANGED <<delivery, clock>>
    BY <1>3 DEF Send
  <2>2. posts[Head(local[d].todo)] < Item(d).attempts /\ Item(d) = delivery[Head(local[d].todo)]
    <3>1. Copies(d)
      BY DEF IInv
    <3> QED BY <1>1, <2>1, <3>1, AtHand DEF Copies, AtItem, Sending
  <2>3. delivery[i].attempts \in Nat
    BY <1>1 DEF Delivery
  <2>4. posts'[i] <= delivery[i].attempts
    <3>1. CASE i = Head(local[d].todo)
      BY <1>1, <2>1, <2>2, <2>3, <3>1 DEF TypeOK
    <3>2. CASE i # Head(local[d].todo)
      BY <1>1, <2>1, <3>2 DEF TypeOK, Recorded
    <3> QED BY <3>1, <3>2
  <2> QED BY <1>1, <2>1, <2>4 DEF Recorded
<1>4. CASE Tick
  <2>1. delivery' = delivery /\ posts' = posts /\ clock' = clock + 1
    BY <1>4 DEF Tick
  <2>2. delivery[i].last_attempt_at \in Nat
    BY <1>1 DEF Delivery
  <2>3. delivery[i].last_attempt_at <= clock'
    BY <1>1, <2>1, <2>2 DEF Recorded
  <2> QED BY <1>1, <2>1, <2>3 DEF Recorded
<1> QED BY <1>2, <1>3, <1>4

\* A step of the clock changes no dispatcher's copies.
LEMMA TickStep ==
  ASSUME IInv, Tick
  PROVE  TypeOK' /\ \A e \in Dispatchers : Copies(e)'
<1>1. /\ UNCHANGED <<delivery, lock, pc, local, stopping, posts, interruptions>>
      /\ clock' = clock + 1
  BY DEF Tick
<1>2. TypeOK'
  BY <1>1 DEF IInv, TypeOK
<1>3. ASSUME NEW e \in Dispatchers PROVE Copies(e)'
  <2>1. Copies(e) /\ clock \in Nat /\ local[e].now \in Nat
    BY DEF IInv, TypeOK, Local
  <2>2. local[e].now <= clock => local[e].now <= clock'
    BY <1>1, <2>1
  <2> QED BY <1>1, <2>1, <2>2 DEF Copies, Item
<1> QED BY <1>2, <1>3

\* The initial states satisfy the invariant.
LEMMA InitIInv == Init => IInv
<1> SUFFICES ASSUME Init PROVE IInv
  OBVIOUS
<1>1. TypeOK
  <2>1. local \in [Dispatchers -> Local] /\ delivery \in [RunIds -> Delivery]
    BY QuietType DEF Init
  <2> QED BY <2>1 DEF Init, TypeOK
<1>2. \A d \in Dispatchers : Copies(d)
  BY DEF Init, Copies
<1>3. ASSUME NEW i \in RunIds PROVE Recorded(i)
  <2>1. delivery[i] = Unfinished /\ posts[i] = 0 /\ clock = 0
    BY DEF Init
  <2>2. LargestBudget * 0 = 0 /\ LargestBudget >= 0
    BY LargestBudgetBounds
  <2>3. Budgeted(Unfinished) /\ Paced(Unfinished)
    BY <2>2 DEF Budgeted, Paced, Unfinished, Since
  <2>4. Unfinished.attempts = 0 /\ Unfinished.last_attempt_at = 0
    BY DEF Unfinished
  <2> QED BY <2>1, <2>3, <2>4 DEF Recorded
<1> QED BY <1>1, <1>2, <1>3 DEF IInv

\* What a step can be: it leaves the files alone, or it replaces one record by one that fits
\* and continues its history, and that has more attempts only if it was due.
LEMMA Steps ==
  ASSUME IInv, Next
  PROVE  /\ \/ UNCHANGED delivery
            \/ \E i \in RunIds, x \in Delivery :
                 /\ Fits(i, x) /\ History(delivery[i], x)
                 /\ delivery' = [delivery EXCEPT ![i] = x]
                 /\ UNCHANGED <<posts, clock>>
                 /\ x.attempts > delivery[i].attempts =>
                      delivery[i].status = "pending" /\ delivery[i].next_attempt_at <= clock
         /\ IInv'
<1>1. TypeOK
  BY DEF IInv
<1>2. ASSUME NEW d \in Dispatchers, Revive(d) \/ Exhaust(d) \/ Claim(d) \/ Settle(d)
      PROVE  /\ \E i \in RunIds, x \in Delivery :
                  /\ Fits(i, x) /\ History(delivery[i], x)
                  /\ delivery' = [delivery EXCEPT ![i] = x]
                  /\ UNCHANGED <<posts, clock>>
                  /\ x.attempts > delivery[i].attempts =>
                       delivery[i].status = "pending" /\ delivery[i].next_attempt_at <= clock
             /\ IInv'
  <2> DEFINE i == Head(local[d].todo)
  <2>1. pc[d] \in AtItem /\ UNCHANGED posts /\ Copies(d)
    BY <1>2, Writer DEF IInv
  <2>2. PICK x : /\ Fits(i, x) /\ History(Item(d), x) /\ Saves(d, x)
                 /\ x.attempts > Item(d).attempts => Due(d)
    BY <1>2, Writer
  <2>3. i \in RunIds /\ Item(d) = delivery[i] /\ x \in Delivery /\ delivery[i] \in Delivery
    BY <1>1, <2>1, <2>2, AtHand DEF Fits
  <2>4. /\ delivery' = [delivery EXCEPT ![i] = x]
        /\ UNCHANGED <<lock, stopping, clock, interruptions>>
    BY <2>2 DEF Saves, Write, WriteAndGoOn
  <2>5. Due(d) => delivery[i].status = "pending" /\ delivery[i].next_attempt_at <= clock
    <3>1. /\ local[d].now \in Nat /\ local[d].now <= clock /\ clock \in Nat
          /\ delivery[i].next_attempt_at \in Nat
      BY <1>1, <2>1, <2>3 DEF Copies, TypeOK, Local, AtItem, Sending, Delivery
    <3>2. Due(d) => delivery[i].status = "pending" /\ delivery[i].next_attempt_at <= local[d].now
      BY <2>3 DEF Due
    <3> QED BY <3>1, <3>2
  <2>6. \A j \in RunIds : Recorded(j)'
    BY <2>1, <2>2, <2>3, <2>4, ReplacedKeeps
  <2>7. \A e \in Dispatchers : Copies(e)'
    BY <2>1, <2>2, SavesCopies
  <2>8. TypeOK'
    <3>1. /\ delivery' \in [RunIds -> Delivery] /\ local' \in [Dispatchers -> Local]
          /\ pc' \in [Dispatchers -> {"idle", "scan", "item", "claimed", "answered"}]
      <4>1. "item" \in AtItem /\ "claimed" \in AtItem
        BY DEF AtItem, Sending
      <4> QED BY <1>1, <2>1, <2>2, <2>3, <4>1, WriteType DEF Saves
    <3> QED BY <1>1, <2>1, <2>4, <3>1 DEF TypeOK
  <2> HIDE DEF i
  <2>9. IInv'
    BY <2>6, <2>7, <2>8 DEF IInv
  <2>10. Fits(i, x) /\ History(delivery[i], x) /\ UNCHANGED <<posts, clock>>
    BY <2>1, <2>2, <2>3, <2>4
  <2>11. x.attempts > delivery[i].attempts =>
           delivery[i].status = "pending" /\ delivery[i].next_attempt_at <= clock
    BY <2>2, <2>3, <2>5
  <2> QED BY <2>3, <2>4, <2>9, <2>10, <2>11
<1>3. ASSUME NEW d \in Dispatchers,
             \/ Begin(d) \/ Return(d) \/ Die(d) \/ Consider(d) \/ PassOver(d) \/ Send(d)
             \/ Shutdown(d)
      PROVE  UNCHANGED delivery /\ IInv'
  <2>1. /\ UNCHANGED <<delivery, clock>>
        /\ Send(d) \/ UNCHANGED posts
    BY <1>3 DEF Begin, Return, Die, Leave, Consider, PassOver, Send, Shutdown
  <2>2. \A i \in RunIds : Recorded(i)'
    BY <2>1, CountedStep
  <2> QED BY <1>3, <2>1, <2>2, QuietStep DEF IInv
<1>4. ASSUME NEW i \in RunIds, Finish(i) \/ Retry(i)
      PROVE  /\ \E x \in Delivery :
                       /\ Fits(i, x) /\ History(delivery[i], x)
                       /\ delivery' = [delivery EXCEPT ![i] = x]
                       /\ UNCHANGED <<posts, clock>>
                       /\ ~(x.attempts > delivery[i].attempts)
             /\ IInv'
  <2>1. /\ TypeOK' /\ (\A e \in Dispatchers : Copies(e)') /\ UNCHANGED <<posts, clock>>
    BY <1>4, Outside
  <2>2. PICK x \in Delivery : /\ Fits(i, x) /\ History(delivery[i], x)
                              /\ delivery' = [delivery EXCEPT ![i] = x]
                              /\ x.attempts = delivery[i].attempts
    BY <1>4, Outside DEF Fits
  <2>3. \A j \in RunIds : Recorded(j)'
    BY <2>1, <2>2, ReplacedKeeps
  <2>4. ~(x.attempts > delivery[i].attempts)
    <3>1. delivery[i].attempts \in Nat
      BY <1>1 DEF TypeOK, Delivery
    <3> QED BY <2>2, <3>1
  <2> QED BY <2>1, <2>2, <2>3, <2>4 DEF IInv
<1>5. CASE Tick
  <2>1. \A i \in RunIds : Recorded(i)'
    BY <1>5, CountedStep
  <2> QED BY <1>5, <2>1, TickStep DEF IInv, Tick
<1> QED BY <1>2, <1>3, <1>4, <1>5 DEF Next, Dispatch, Work

\* The inductive invariant holds in every reachable state.
THEOREM IInvariant == Spec => []IInv
<1>1. IInv /\ UNCHANGED vars => IInv'
  <2> SUFFICES ASSUME IInv, UNCHANGED vars PROVE IInv'
    OBVIOUS
  <2> QED BY DEF IInv, vars, TypeOK, Copies, Item, Recorded
<1>2. IInv /\ [Next]_vars => IInv'
  BY <1>1, Steps
<1> QED BY <1>2, InitIInv, PTL DEF Spec

-----------------------------------------------------------------------------
(* The theorems.                                                           *)

\* Types: the delivery files and the dispatchers' copies are always well formed.
THEOREM TypeCorrect == Spec => []TypeOK
<1>1. IInv => TypeOK
  BY DEF IInv
<1> QED BY <1>1, IInvariant, PTL

\* The promise to receivers: whoever dies when, a run's receiver gets at most the largest
\* configured number of requests, and as many again for each manual retry.
THEOREM BudgetIsKept == Spec => []BudgetKept
<1>1. ASSUME IInv, NEW i \in RunIds
      PROVE  /\ posts[i] <= delivery[i].attempts
             /\ posts[i] <= LargestBudget * (1 + Len(delivery[i].retries))
  <2> DEFINE x == delivery[i]
  <2>1. x \in Delivery /\ posts[i] \in Nat /\ Recorded(i)
    BY <1>1 DEF IInv, TypeOK
  <2>2. /\ posts[i] <= x.attempts /\ Since(x) <= LargestBudget
        /\ x.attempts_at_retry <= LargestBudget * Len(x.retries)
    BY <2>1 DEF Recorded, Budgeted
  <2> HIDE DEF x
  <2>3. /\ x.attempts \in Nat /\ x.attempts_at_retry \in Nat /\ Len(x.retries) \in Nat
        /\ LargestBudget \in Nat /\ LargestBudget * Len(x.retries) \in Nat
        /\ LargestBudget * (Len(x.retries) + 1) = LargestBudget * Len(x.retries) + LargestBudget
    BY <2>1, Bounds
  <2>4. Len(x.retries) + 1 = 1 + Len(x.retries)
    BY <2>3
  <2>5. posts[i] <= LargestBudget * Len(x.retries) + LargestBudget
    BY <2>1, <2>2, <2>3 DEF Since
  <2> QED BY <2>2, <2>3, <2>4, <2>5 DEF x
<1>2. IInv => BudgetKept
  BY <1>1 DEF BudgetKept
<1> QED BY <1>2, IInvariant, PTL

\* The delivery files are a history: no crash, retry or concurrent dispatcher takes an attempt
\* or a retry back, or touches an acknowledged delivery.
THEOREM HistoryIsKept == Spec => HistoryKept
<1> DEFINE Step == \A i \in RunIds : History(delivery[i], delivery'[i])
<1>1. ASSUME IInv, Next, delivery' # delivery PROVE Step
  <2>1. TypeOK
    BY <1>1 DEF IInv
  <2>2. PICK j \in RunIds, x \in Delivery :
          /\ Fits(j, x) /\ History(delivery[j], x)
          /\ delivery' = [delivery EXCEPT ![j] = x]
    BY <1>1, Steps
  <2>3. ASSUME NEW i \in RunIds, i # j PROVE History(delivery[i], delivery'[i])
    <3>1. delivery'[i] = delivery[i] /\ delivery[i] \in Delivery /\ Recorded(i)
      BY <1>1, <2>1, <2>2, <2>3 DEF TypeOK, IInv
    <3>2. IsPrefix(delivery[i].retries, delivery[i].retries)
      BY <3>1 DEF Delivery, IsPrefix
    <3>3. delivery[i].attempts >= delivery[i].attempts
      BY <3>1, Bounds
    <3> QED BY <3>1, <3>2, <3>3 DEF History, Recorded, Budgeted
  <2> QED BY <2>1, <2>2, <2>3 DEF TypeOK
<1>2. IInv /\ [Next]_vars => [Step]_delivery
  BY <1>1 DEF vars
<1>3. Spec => [][Step]_delivery
  BY <1>2, IInvariant, PTL DEF Spec
<1> QED BY <1>3 DEF HistoryKept, History

\* The receiver is given time: within a budget, an attempt waits for the backoff of the one
\* before it, unless that one's sender died without saving an answer.
THEOREM RetriesArePatient == Spec => PatientRetries
<1> DEFINE Step ==
      \A i \in RunIds :
        LET x == delivery[i]
        IN  (/\ delivery'[i].attempts > x.attempts
             /\ Since(x) > 0
             /\ ~x.unacknowledged) =>
               clock - x.last_attempt_at >= Smaller(RetryDelay * 2^(Since(x) - 1), MaxDelay)
<1>1. ASSUME IInv, Next, delivery' # delivery PROVE Step
  <2> SUFFICES ASSUME NEW i \in RunIds, delivery'[i].attempts > delivery[i].attempts,
                      Since(delivery[i]) > 0, ~delivery[i].unacknowledged
               PROVE  clock - delivery[i].last_attempt_at >= Backoff(Since(delivery[i]))
    BY DEF Backoff
  <2> DEFINE x == delivery[i]
  <2>1. TypeOK /\ x \in Delivery /\ Recorded(i) /\ clock \in Nat
    BY <1>1 DEF IInv, TypeOK
  <2>2. x.attempts \in Nat /\ x.next_attempt_at \in Nat /\ x.last_attempt_at \in Nat
        /\ Since(x) \in Nat \ {0}
    <3>1. /\ x.attempts \in Nat /\ x.attempts_at_retry \in Nat
          /\ x.next_attempt_at \in Nat /\ x.last_attempt_at \in Nat
      BY <2>1, Bounds
    <3> QED BY <3>1 DEF Since
  <2>3. PICK j \in RunIds, y \in Delivery :
          /\ delivery' = [delivery EXCEPT ![j] = y]
          /\ y.attempts > delivery[j].attempts =>
               delivery[j].status = "pending" /\ delivery[j].next_attempt_at <= clock
    BY <1>1, Steps
  <2>4. i = j
    <3>1. ASSUME i # j PROVE FALSE
      <4>1. delivery'[i] = x
        BY <2>1, <2>3, <3>1 DEF TypeOK
      <4>2. ~(x.attempts > x.attempts)
        BY <2>2
      <4> QED BY <4>1, <4>2
    <3> QED BY <3>1
  <2>5. delivery'[i] = y
    BY <2>1, <2>3, <2>4 DEF TypeOK
  <2>6. x.status = "pending" /\ x.next_attempt_at <= clock
    BY <2>3, <2>4, <2>5
  <2>7. x.next_attempt_at >= x.last_attempt_at + Backoff(Since(x))
    BY <2>1, <2>6 DEF Recorded, Paced
  <2>8. Backoff(Since(x)) \in Nat
    BY <2>2, BackoffType
  <2> QED BY <2>1, <2>2, <2>6, <2>7, <2>8
<1>2. IInv /\ [Next]_vars => [Step]_delivery
  BY <1>1 DEF vars
<1>3. Spec => [][Step]_delivery
  BY <1>2, IInvariant, PTL DEF Spec
<1> QED BY <1>3 DEF PatientRetries

-----------------------------------------------------------------------------
(* What a notification promises, abstractly.                               *)

Attempts == [i \in RunIds |-> delivery[i].attempts]
Past == [i \in RunIds |-> delivery[i].retries]

\* What StateOf says of each status, before and after a step.
LEMMA StateIs ==
  ASSUME NEW i \in RunIds
  PROVE  /\ delivery[i].status = "pending" => StateOf(i) = "waiting"
         /\ delivery[i].status \in {"none", "delivered", "failed"} =>
              StateOf(i) = delivery[i].status
         /\ delivery[i].status = "sending" =>
              /\ At(i, "claimed") => StateOf(i) = "claimed"
              /\ ~At(i, "claimed") /\ At(i, "answered") => StateOf(i) = "posted"
              /\ ~At(i, "claimed") /\ ~At(i, "answered") => StateOf(i) = "lost"
         /\ delivery'[i].status = "pending" => StateOf(i)' = "waiting"
         /\ delivery'[i].status \in {"none", "delivered", "failed"} =>
              StateOf(i)' = delivery'[i].status
         /\ delivery'[i].status = "sending" =>
              /\ At(i, "claimed")' => StateOf(i)' = "claimed"
              /\ ~At(i, "claimed")' /\ At(i, "answered")' => StateOf(i)' = "posted"
              /\ ~At(i, "claimed")' /\ ~At(i, "answered")' => StateOf(i)' = "lost"
<1>1. delivery[i].status = "pending" => StateOf(i) = "waiting"
  BY DEF StateOf
<1>2. delivery[i].status \in {"none", "delivered", "failed"} => StateOf(i) = delivery[i].status
  BY DEF StateOf
<1>3. delivery[i].status = "sending" =>
        /\ At(i, "claimed") => StateOf(i) = "claimed"
        /\ ~At(i, "claimed") /\ At(i, "answered") => StateOf(i) = "posted"
        /\ ~At(i, "claimed") /\ ~At(i, "answered") => StateOf(i) = "lost"
  BY DEF StateOf
<1>4. delivery'[i].status = "pending" => StateOf(i)' = "waiting"
  BY DEF StateOf
<1>5. delivery'[i].status \in {"none", "delivered", "failed"} => StateOf(i)' = delivery'[i].status
  BY DEF StateOf
<1>6. delivery'[i].status = "sending" =>
        /\ At(i, "claimed")' => StateOf(i)' = "claimed"
        /\ ~At(i, "claimed")' /\ At(i, "answered")' => StateOf(i)' = "posted"
        /\ ~At(i, "claimed")' /\ ~At(i, "answered")' => StateOf(i)' = "lost"
  BY DEF StateOf
<1> QED BY <1>1, <1>2, <1>3, <1>4, <1>5, <1>6

\* While only one dispatcher is at work, a request is in flight exactly if it is that one's.
LEMMA InFlight ==
  ASSUME NEW d \in Dispatchers, NEW j \in RunIds,
         \A e \in Dispatchers \ {d} : pc[e] = "idle" /\ pc'[e] = "idle"
  PROVE  \A place \in Sending :
           /\ At(j, place) <=> pc[d] = place /\ Head(local[d].todo) = j
           /\ At(j, place)' <=> pc'[d] = place /\ Head(local'[d].todo) = j
BY DEF At, Sending

\* A run whose file keeps its status stays where it is, unless its request sets out or ends.
LEMMA StateStays ==
  ASSUME NEW d \in Dispatchers, NEW j \in RunIds,
         \A e \in Dispatchers \ {d} : pc[e] = "idle" /\ pc'[e] = "idle",
         delivery'[j].status = delivery[j].status,
         pc[d] \in Sending => Head(local[d].todo) # j,
         pc'[d] \in Sending => Head(local'[d].todo) # j
  PROVE  StateOf(j)' = StateOf(j)
<1>1. "claimed" \in Sending /\ "answered" \in Sending
  BY DEF Sending
<1>2. /\ ~At(j, "claimed") /\ ~At(j, "answered")
      /\ ~At(j, "claimed")' /\ ~At(j, "answered")'
  BY <1>1, InFlight
<1> QED BY <1>2 DEF StateOf

\* The dispatchers other than the one that takes a step are idle, before and after.
LEMMA Alone ==
  ASSUME IInv, NEW d \in Dispatchers, Begin(d) \/ Work(d) \/ Shutdown(d) \/ Die(d)
  PROVE  \A e \in Dispatchers \ {d} : pc[e] = "idle" /\ pc'[e] = "idle"
<1> SUFFICES ASSUME NEW e \in Dispatchers, e # d PROVE pc[e] = "idle" /\ pc'[e] = "idle"
  OBVIOUS
<1>1. pc'[e] = pc[e]
  BY DEF IInv, TypeOK, Begin, Work, Return, Consider, Revive, PassOver, Exhaust, Claim, Send, Settle,
         Shutdown, Die, Leave, Write, WriteAndGoOn
<1>2. CASE Begin(d)
  <2>1. lock = NoLock
    BY <1>2 DEF Begin, LockFree
  <2> QED BY <1>1, <2>1, WebhooksAssumption DEF IInv, Copies
<1>3. CASE Work(d) \/ Shutdown(d) \/ Die(d)
  <2>1. pc[d] # "idle"
    BY <1>3 DEF Work, Return, Consider, Revive, PassOver, Exhaust, Claim, Send, Settle, Shutdown, Die
  <2> QED BY <1>1, <2>1, OthersIdle
<1> QED BY <1>2, <1>3

\* The attempts of the present budget are those since the retry.
LEMMA UsedIs ==
  ASSUME IInv, NEW i \in RunIds
  PROVE  Promise!Used(i) = Since(delivery[i])
<1>1. Budgeted(delivery[i]) /\ delivery[i] \in Delivery
  BY DEF IInv, Recorded, TypeOK
<1>2. CASE delivery[i].retries = <<>>
  <2>1. Len(delivery[i].retries) = 0
    BY <1>2
  <2>2. LargestBudget * 0 = 0
    BY LargestBudgetBounds
  <2>3. delivery[i].attempts_at_retry <= 0 /\ delivery[i].attempts_at_retry \in Nat
    <3>1. delivery[i].attempts_at_retry <= LargestBudget * Len(delivery[i].retries)
      BY <1>1 DEF Budgeted
    <3>2. LargestBudget * Len(delivery[i].retries) = 0
      BY <2>1, <2>2
    <3> QED BY <1>1, <3>1, <3>2, Bounds
  <2>4. delivery[i].attempts_at_retry = 0 /\ Past[i] = <<>>
    BY <1>2, <2>3 DEF Past
  <2> QED BY <2>4 DEF Promise!Used, Since, Past
<1>3. CASE delivery[i].retries # <<>>
  <2>1. delivery[i].attempts_at_retry = delivery[i].retries[Len(delivery[i].retries)]
    BY <1>1, <1>3 DEF Budgeted, Last
  <2> QED BY <1>3, <2>1 DEF Promise!Used, Promise!Last, Since
<1> QED BY <1>2, <1>3

\* One run changes its state, and no other does.
LEMMA OneMoves ==
  ASSUME NEW i \in RunIds, NEW to, StateOf(i)' = to,
         \A j \in RunIds \ {i} : StateOf(j)' = StateOf(j)
  PROVE  Promise!Moves(i, to)
BY DEF Promise!Moves

\* A step that replaces one record moves that run only, and counts what the record counts.
LEMMA RunMoves ==
  ASSUME IInv, NEW i \in RunIds, NEW x, delivery' = [delivery EXCEPT ![i] = x],
         NEW to, StateOf(i)' = to, \A j \in RunIds \ {i} : StateOf(j)' = StateOf(j)
  PROVE  /\ Promise!Moves(i, to)
         /\ x.attempts = delivery[i].attempts => UNCHANGED Attempts
         /\ x.attempts = delivery[i].attempts + 1 => Attempts' = [Attempts EXCEPT ![i] = @ + 1]
         /\ x.retries = delivery[i].retries => UNCHANGED Past
         /\ x.retries = Append(delivery[i].retries, delivery[i].attempts) =>
              Past' = [Past EXCEPT ![i] = Append(@, Attempts[i])]
<1>1. \A j \in RunIds : delivery'[j] = IF j = i THEN x ELSE delivery[j]
  BY DEF IInv, TypeOK
<1>2. Promise!Moves(i, to)
  BY OneMoves
<1>3. x.attempts = delivery[i].attempts => UNCHANGED Attempts
  BY <1>1 DEF Attempts
<1>4. x.attempts = delivery[i].attempts + 1 => Attempts' = [Attempts EXCEPT ![i] = @ + 1]
  <2> SUFFICES ASSUME x.attempts = delivery[i].attempts + 1
               PROVE  Attempts' = [Attempts EXCEPT ![i] = @ + 1]
    OBVIOUS
  <2>1. \A j \in RunIds : delivery'[j].attempts =
                            IF j = i THEN delivery[i].attempts + 1 ELSE delivery[j].attempts
    BY <1>1
  <2> QED BY <2>1 DEF Attempts
<1>5. x.retries = delivery[i].retries => UNCHANGED Past
  BY <1>1 DEF Past
<1>6. x.retries = Append(delivery[i].retries, delivery[i].attempts) =>
        Past' = [Past EXCEPT ![i] = Append(@, Attempts[i])]
  <2> SUFFICES ASSUME x.retries = Append(delivery[i].retries, delivery[i].attempts)
               PROVE  Past' = [Past EXCEPT ![i] = Append(@, Attempts[i])]
    OBVIOUS
  <2>1. Past[i] = delivery[i].retries /\ Attempts[i] = delivery[i].attempts
    BY DEF Attempts, Past
  <2> DEFINE longer == Append(Past[i], Attempts[i])
  <2>2. x.retries = longer
    BY <2>1
  <2>3. [Past EXCEPT ![i] = Append(@, Attempts[i])] = [Past EXCEPT ![i] = longer]
    OBVIOUS
  <2> HIDE DEF longer
  <2>4. \A j \in RunIds : delivery'[j].retries = IF j = i THEN longer ELSE delivery[j].retries
    BY <1>1, <2>2
  <2>5. Past' = [Past EXCEPT ![i] = longer]
    BY <2>4 DEF Past
  <2> QED BY <2>3, <2>5
<1> QED BY <1>2, <1>3, <1>4, <1>5, <1>6

\* A step that changes neither files, requests nor what is in flight is none of the promise's.
LEMMA PromiseStutters ==
  ASSUME UNCHANGED <<delivery, posts>>, \A j \in RunIds : StateOf(j)' = StateOf(j)
  PROVE  UNCHANGED Promise!vars
BY DEF Promise!vars

\* What a dispatcher saves moves the notification at hand, as Notification allows.
LEMMA ItemPromises ==
  ASSUME IInv, NEW d \in Dispatchers, Revive(d) \/ Exhaust(d) \/ Claim(d) \/ Settle(d),
         NEW i \in RunIds, Head(local[d].todo) = i
  PROVE  Promise!Next
<1>1. TypeOK /\ Copies(d) /\ pc[d] \in AtItem /\ UNCHANGED posts
  BY DEF IInv, Revive, Exhaust, Claim, Settle, AtItem, Sending
<1>2. Item(d) = delivery[i] /\ delivery[i] \in Delivery /\ local[d] \in Local
  BY <1>1, AtHand
<1>3. \A e \in Dispatchers \ {d} : pc[e] = "idle" /\ pc'[e] = "idle"
  BY Alone DEF Work
<1>4. ASSUME NEW y, delivery' = [delivery EXCEPT ![i] = y],
             pc'[d] \in Sending => Head(local'[d].todo) = i
      PROVE  \A j \in RunIds \ {i} : StateOf(j)' = StateOf(j)
  <2> SUFFICES ASSUME NEW j \in RunIds, j # i PROVE StateOf(j)' = StateOf(j)
    OBVIOUS
  <2>1. delivery'[j] = delivery[j]
    BY <1>1, <1>2, <1>4 DEF TypeOK
  <2> QED BY <1>3, <1>4, <2>1, StateStays
<1>5. "claimed" \in Sending /\ "answered" \in Sending /\ "scan" \notin Sending /\ "item" \notin Sending
  BY DEF Sending
<1>6. /\ pc[d] = "item" => ~At(i, "claimed") /\ ~At(i, "answered")
      /\ pc[d] = "answered" => ~At(i, "claimed") /\ At(i, "answered")
      /\ pc'[d] = "claimed" /\ Head(local'[d].todo) = i => At(i, "claimed")'
  BY <1>2, <1>3, <1>5, InFlight
<1>7. /\ local[d].max \in Nat \ {0} /\ local[d].max <= LargestBudget /\ LargestBudget \in Nat
      /\ Since(delivery[i]) \in Int
  <2>1. local[d].max \in Range(Budget)
    BY <1>1 DEF Copies, AtItem, Sending
  <2>2. Range(Budget) \subseteq 1 .. 20
    BY WebhooksAssumption DEF Range
  <2>3. Since(delivery[i]) \in Int
    BY <1>2, Bounds DEF Since
  <2> QED BY <2>1, <2>2, <2>3, LargestBudgetBounds
<1>8. Promise!Used(i) = Since(delivery[i])
  BY <1>2, UsedIs
<1>9. ASSUME Revive(d) PROVE Promise!Recover(i)
  <2>1. PICK s \in {"pending", "failed"} :
          LET y == [[delivery[i] EXCEPT !.unacknowledged = TRUE] EXCEPT !.status = s]
          IN  WriteAndGoOn(d, y) \/ Write(d, y, "item")
    BY <1>2, <1>9 DEF Revive, Delivery
  <2> DEFINE y == [[delivery[i] EXCEPT !.unacknowledged = TRUE] EXCEPT !.status = s]
  <2>2. y.status = s /\ y.attempts = delivery[i].attempts /\ y.retries = delivery[i].retries
    BY <1>2 DEF Delivery
  <2>3. delivery[i].status = "sending" /\ pc[d] = "item"
    BY <1>2, <1>9 DEF Revive, Delivery
  <2> HIDE DEF y
  <2>4. delivery' = [delivery EXCEPT ![i] = y] /\ pc'[d] \in {"scan", "item"}
    BY <1>1, <2>1 DEF Write, WriteAndGoOn, TypeOK, y
  <2>5. delivery'[i] = y
    BY <1>1, <1>2, <2>4 DEF TypeOK
  <2>6. StateOf(i) = "lost"
    BY <1>2, <1>6, <2>3, StateIs
  <2>7. PICK to \in {"waiting", "failed"} : StateOf(i)' = to
    BY <1>2, <2>2, <2>5, StateIs
  <2>8. \A j \in RunIds \ {i} : StateOf(j)' = StateOf(j)
    BY <1>4, <1>5, <2>4
  <2>9. Promise!Moves(i, to) /\ UNCHANGED <<Attempts, Past>>
    BY <1>2, <2>2, <2>4, <2>7, <2>8, RunMoves
  <2> QED BY <1>1, <1>2, <2>6, <2>9 DEF Promise!Recover, Attempts, Past
<1>10. ASSUME Exhaust(d) PROVE Promise!GiveUp(i)
  <2> DEFINE y == [delivery[i] EXCEPT !.status = "failed"]
  <2>1. y.status = "failed" /\ y.attempts = delivery[i].attempts /\ y.retries = delivery[i].retries
    BY <1>2 DEF Delivery
  <2>2. delivery[i].status = "pending" /\ Spent(delivery[i], local[d].max) /\ WriteAndGoOn(d, y)
    BY <1>2, <1>10 DEF Exhaust, Due
  <2> HIDE DEF y
  <2>3. delivery' = [delivery EXCEPT ![i] = y] /\ pc'[d] = "scan"
    BY <1>1, <2>2 DEF WriteAndGoOn, TypeOK
  <2>4. delivery'[i] = y
    BY <1>1, <1>2, <2>3 DEF TypeOK
  <2>5. StateOf(i) = "waiting" /\ StateOf(i)' = "failed"
    BY <1>2, <2>1, <2>2, <2>4, StateIs
  <2>6. \A j \in RunIds \ {i} : StateOf(j)' = StateOf(j)
    BY <1>4, <1>5, <2>3
  <2>7. Promise!Moves(i, "failed") /\ UNCHANGED <<Attempts, Past>>
    BY <1>2, <2>1, <2>3, <2>5, <2>6, RunMoves
  <2>8. Promise!Used(i) > 0
    BY <1>7, <1>8, <2>2 DEF Spent
  <2> QED BY <1>1, <1>2, <2>5, <2>7, <2>8 DEF Promise!GiveUp, Attempts, Past
<1>11. ASSUME Claim(d) PROVE Promise!Claim(i)
  <2> DEFINE y == Claimed(delivery[i])
  <2>1. y.status = "sending" /\ y.attempts = delivery[i].attempts + 1 /\ y.retries = delivery[i].retries
    BY <1>2 DEF Claimed, Delivery
  <2>2. delivery[i].status = "pending" /\ ~Spent(delivery[i], local[d].max) /\ Write(d, y, "claimed")
    BY <1>2, <1>11 DEF Claim, Due
  <2> HIDE DEF y
  <2>3. delivery' = [delivery EXCEPT ![i] = y] /\ pc'[d] = "claimed"
    BY <1>1, <2>2 DEF Write, TypeOK
  <2>4. Head(local'[d].todo) = i
    BY <1>1, <1>2, <2>2 DEF Write, TypeOK, Local
  <2>5. delivery'[i] = y
    BY <1>1, <1>2, <2>3 DEF TypeOK
  <2>6. StateOf(i) = "waiting" /\ StateOf(i)' = "claimed"
    BY <1>2, <1>6, <2>1, <2>2, <2>3, <2>4, <2>5, StateIs
  <2>7. \A j \in RunIds \ {i} : StateOf(j)' = StateOf(j)
    BY <1>4, <2>3, <2>4
  <2>8. /\ Promise!Moves(i, "claimed") /\ UNCHANGED Past
        /\ Attempts' = [Attempts EXCEPT ![i] = @ + 1]
    BY <1>2, <2>1, <2>3, <2>6, <2>7, RunMoves
  <2>9. Promise!Used(i) < LargestBudget
    BY <1>7, <1>8, <2>2 DEF Spent
  <2> QED BY <1>1, <1>2, <2>6, <2>8, <2>9 DEF Promise!Claim, Attempts, Past
<1>12. ASSUME Settle(d) PROVE Promise!Settle(i)
  <2> DEFINE y == Settled(delivery[i], local[d].answer, local[d].max)
  <2>1. /\ y.status \in {"pending", "delivered", "failed"}
        /\ y.attempts = delivery[i].attempts /\ y.retries = delivery[i].retries
    BY <1>2 DEF Settled, Delivery
  <2>2. pc[d] = "answered" /\ delivery[i].status = "sending" /\ WriteAndGoOn(d, y)
    BY <1>1, <1>2, <1>12 DEF Settle, Copies, Sending
  <2> HIDE DEF y
  <2>3. delivery' = [delivery EXCEPT ![i] = y] /\ pc'[d] = "scan"
    BY <1>1, <2>2 DEF WriteAndGoOn, TypeOK
  <2>4. delivery'[i] = y
    BY <1>1, <1>2, <2>3 DEF TypeOK
  <2>5. StateOf(i) = "posted"
    BY <1>2, <1>6, <2>2, StateIs
  <2>6. PICK to \in {"delivered", "waiting", "failed"} : StateOf(i)' = to
    BY <1>2, <2>1, <2>4, StateIs
  <2>7. \A j \in RunIds \ {i} : StateOf(j)' = StateOf(j)
    BY <1>4, <1>5, <2>3
  <2>8. Promise!Moves(i, to) /\ UNCHANGED <<Attempts, Past>>
    BY <1>2, <2>1, <2>3, <2>6, <2>7, RunMoves
  <2> QED BY <1>1, <1>2, <2>5, <2>8 DEF Promise!Settle, Attempts, Past
<1> QED BY <1>2, <1>9, <1>10, <1>11, <1>12 DEF Promise!Next

\* The notification at hand is that of some run.
LEMMA WriterPromises ==
  ASSUME IInv, NEW d \in Dispatchers, Revive(d) \/ Exhaust(d) \/ Claim(d) \/ Settle(d)
  PROVE  Promise!Next
<1>1. Copies(d) /\ TypeOK /\ pc[d] \in AtItem
  BY DEF IInv, Revive, Exhaust, Claim, Settle, AtItem, Sending
<1>2. PICK i \in RunIds : Head(local[d].todo) = i
  BY <1>1, AtHand
<1> QED BY <1>2, ItemPromises

\* A request goes out, or its sender dies with it.
LEMMA FlightPromises ==
  ASSUME IInv, NEW d \in Dispatchers, Send(d) \/ Die(d), pc[d] \in Sending,
         NEW i \in RunIds, Head(local[d].todo) = i
  PROVE  Promise!Next
<1>1. TypeOK /\ Copies(d) /\ pc[d] \in AtItem /\ delivery' = delivery
  BY DEF IInv, AtItem, Send, Die, Leave
<1>2. \A e \in Dispatchers \ {d} : pc[e] = "idle" /\ pc'[e] = "idle"
  BY Alone DEF Work
<1>3. /\ "claimed" \in Sending /\ "answered" \in Sending /\ "idle" \notin Sending
      /\ pc[d] = "claimed" \/ pc[d] = "answered"
  BY DEF Sending
<1>4. delivery[i] \in Delivery /\ Item(d) = delivery[i]
  BY <1>1, AtHand
<1>5. delivery[i].status = "sending" /\ delivery'[i].status = "sending"
  BY <1>1, <1>3, <1>4 DEF Copies
<1>6. CASE Send(d)
  <2>1. pc[d] = "claimed" /\ pc'[d] = "answered" /\ posts' = [posts EXCEPT ![i] = @ + 1]
    BY <1>1, <1>6 DEF Send, TypeOK
  <2>2. Head(local'[d].todo) = i
    BY <1>1, <1>6 DEF Send, TypeOK, Local
  <2>3. At(i, "claimed") /\ ~At(i, "claimed")' /\ At(i, "answered")'
    BY <1>2, <1>3, <2>1, <2>2, InFlight
  <2>4. StateOf(i) = "claimed" /\ StateOf(i)' = "posted"
    BY <1>5, <2>3, StateIs
  <2>5. \A j \in RunIds \ {i} : StateOf(j)' = StateOf(j)
    BY <1>1, <1>2, <2>2, StateStays
  <2>6. Promise!Moves(i, "posted")
    BY <2>4, <2>5, OneMoves
  <2>7. Promise!Post(i)
    BY <1>1, <2>1, <2>4, <2>6 DEF Promise!Post
  <2> QED BY <2>7 DEF Promise!Next
<1>7. CASE Die(d)
  <2>1. pc'[d] = "idle" /\ posts' = posts
    BY <1>1, <1>7 DEF Die, Leave, TypeOK
  <2>2. At(i, "claimed") \/ At(i, "answered")
    BY <1>2, <1>3, InFlight
  <2>3. ~At(i, "claimed")' /\ ~At(i, "answered")'
    BY <1>2, <1>3, <2>1, InFlight
  <2>4. StateOf(i) \in {"claimed", "posted"} /\ StateOf(i)' = "lost"
    BY <1>5, <2>2, <2>3, StateIs
  <2>5. \A j \in RunIds \ {i} : StateOf(j)' = StateOf(j)
    BY <1>1, <1>2, <1>3, <2>1, StateStays
  <2>6. Promise!Moves(i, "lost")
    BY <2>4, <2>5, OneMoves
  <2>7. Promise!Lose(i)
    BY <1>1, <2>1, <2>4, <2>6 DEF Promise!Lose
  <2> QED BY <2>7 DEF Promise!Next
<1> QED BY <1>6, <1>7

\* The steps that save nothing: a request goes out, its sender dies, or nothing of it changes.
LEMMA QuietPromises ==
  ASSUME IInv, NEW d \in Dispatchers,
         \/ Begin(d) \/ Return(d) \/ Consider(d) \/ PassOver(d) \/ Send(d) \/ Shutdown(d) \/ Die(d)
  PROVE  [Promise!Next]_(Promise!vars)
<1>1. TypeOK /\ Copies(d)
  BY DEF IInv
<1>2. \A e \in Dispatchers \ {d} : pc[e] = "idle" /\ pc'[e] = "idle"
  BY Alone DEF Work
<1>3. delivery' = delivery
  BY DEF Begin, Return, Consider, PassOver, Send, Shutdown, Die, Leave
<1>4. ASSUME pc[d] \notin Sending, pc'[d] \notin Sending, posts' = posts
      PROVE  [Promise!Next]_(Promise!vars)
  <2>1. \A j \in RunIds : StateOf(j)' = StateOf(j)
    BY <1>2, <1>3, <1>4, StateStays
  <2> QED BY <1>3, <1>4, <2>1, PromiseStutters
<1>5. CASE Shutdown(d)
  <2>1. UNCHANGED <<delivery, posts, pc, local>>
    BY <1>5 DEF Shutdown
  <2>2. \A j \in RunIds : StateOf(j)' = StateOf(j)
    BY <2>1 DEF StateOf, At
  <2> QED BY <2>1, <2>2, PromiseStutters
<1>6. CASE Begin(d) \/ Return(d) \/ Consider(d) \/ PassOver(d)
  <2>1. pc[d] \in {"idle", "scan", "item"} /\ pc'[d] \in {"idle", "scan", "item"} /\ posts' = posts
    BY <1>1, <1>6 DEF Begin, LockFree, Return, Consider, PassOver, Leave, TypeOK
  <2> QED BY <1>4, <2>1 DEF Sending
<1>7. CASE (Send(d) \/ Die(d)) /\ pc[d] \in Sending
  <2>1. PICK i \in RunIds : Head(local[d].todo) = i
    BY <1>1, <1>7, AtHand DEF AtItem
  <2> QED BY <1>7, <2>1, FlightPromises
<1>8. CASE (Send(d) \/ Die(d)) /\ pc[d] \notin Sending
  <2>1. pc'[d] = "idle" /\ posts' = posts
    BY <1>1, <1>8 DEF Send, Die, Leave, TypeOK, Sending
  <2> QED BY <1>4, <1>8, <2>1 DEF Sending
<1> QED BY <1>5, <1>6, <1>7, <1>8

\* A run that ends has a notification; a failed one may be requeued by hand.
LEMMA OutsidePromises ==
  ASSUME IInv, NEW i \in RunIds, Finish(i) \/ Retry(i)
  PROVE  Promise!Next
<1>1. TypeOK /\ delivery[i] \in Delivery
  BY DEF IInv, TypeOK
<1>2. UNCHANGED <<pc, local, posts>>
  BY DEF Finish, Retry
<1>3. ASSUME NEW x, delivery' = [delivery EXCEPT ![i] = x]
      PROVE  delivery'[i] = x /\ \A j \in RunIds \ {i} : StateOf(j)' = StateOf(j)
  <2>1. \A j \in RunIds : delivery'[j] = IF j = i THEN x ELSE delivery[j]
    BY <1>1, <1>3 DEF TypeOK
  <2> QED BY <1>2, <2>1 DEF StateOf, At
<1>4. ASSUME Finish(i) PROVE Promise!Arise(i)
  <2> DEFINE x == [delivery[i] EXCEPT !.status = "pending", !.next_attempt_at = clock]
  <2>1. delivery[i].status = "none" /\ delivery' = [delivery EXCEPT ![i] = x]
    BY <1>1, <1>4 DEF Finish, TypeOK
  <2>2. /\ x.status = "pending" /\ x.attempts = delivery[i].attempts
        /\ x.retries = delivery[i].retries
    BY <1>1 DEF Delivery
  <2> HIDE DEF x
  <2>3. StateOf(i) = "none" /\ StateOf(i)' = "waiting"
    BY <1>3, <2>1, <2>2, StateIs
  <2>4. Promise!Moves(i, "waiting") /\ UNCHANGED <<Attempts, Past>>
    BY <1>3, <2>1, <2>2, <2>3, RunMoves
  <2> QED BY <1>2, <2>3, <2>4 DEF Promise!Arise, Attempts, Past
<1>5. ASSUME Retry(i) PROVE Promise!Retry(i)
  <2> DEFINE x == Requeued(delivery[i])
  <2>1. delivery[i].status = "failed" /\ delivery' = [delivery EXCEPT ![i] = x]
    BY <1>5 DEF Retry, Retryable
  <2>2. /\ x.status = "pending" /\ x.attempts = delivery[i].attempts
        /\ x.retries = Append(delivery[i].retries, delivery[i].attempts)
    BY <1>1 DEF Requeued, Delivery
  <2> HIDE DEF x
  <2>3. StateOf(i) = "failed" /\ StateOf(i)' = "waiting"
    BY <1>3, <2>1, <2>2, StateIs
  <2>4. /\ Promise!Moves(i, "waiting") /\ UNCHANGED Attempts
        /\ Past' = [Past EXCEPT ![i] = Append(@, Attempts[i])]
    BY <1>3, <2>1, <2>2, <2>3, RunMoves
  <2> QED BY <1>2, <2>3, <2>4 DEF Promise!Retry, Attempts, Past
<1> QED BY <1>4, <1>5 DEF Promise!Next

\* Every notification goes the way of Notification, whoever dispatches, dies and retries, and
\* under whatever budgets (dispatch, retry).
THEOREM NotificationsKeepPromise == Spec => KeepsPromise
<1>1. Init => Promise!Init
  BY DEF Init, Promise!Init, StateOf, Unfinished
<1>2. IInv /\ [Next]_vars => [Promise!Next]_(Promise!vars)
  <2> SUFFICES ASSUME IInv, [Next]_vars PROVE [Promise!Next]_(Promise!vars)
    OBVIOUS
  <2>1. ASSUME UNCHANGED <<delivery, pc, local, posts>> PROVE UNCHANGED Promise!vars
    <3>1. \A j \in RunIds : StateOf(j)' = StateOf(j)
      BY <2>1 DEF StateOf, At
    <3> QED BY <2>1, <3>1, PromiseStutters
  <2>2. CASE Tick \/ UNCHANGED vars
    BY <2>1, <2>2 DEF Tick, vars
  <2> QED BY <2>2, WriterPromises, QuietPromises, OutsidePromises DEF Next, Dispatch, Work
<1> QED BY <1>1, <1>2, IInvariant, PTL DEF Spec, Promise!Spec, KeepsPromise
=============================================================================
