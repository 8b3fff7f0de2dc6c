------------------------------ MODULE Webhooks ------------------------------
(***************************************************************************)
(* Run notifications (src/webhooks.rs).  Dispatchers (the gateway's        *)
(* notifier thread and `webhooks dispatch`) share one sender lock, claim a *)
(* delivery on disk before each HTTP request and settle it afterwards; a   *)
(* process may die between any two writes, an answer may be lost, and a    *)
(* user may requeue a failed delivery.                                     *)
(***************************************************************************)
EXTENDS Integers, Sequences, SequencesExt, FiniteSets

CONSTANTS
  RunIds,                \* opted-in runs; a delivery's id is its run's
  Dispatchers,
  Limit,                 \* Limit[d]: the limit d calls dispatch with (the notifier's is 1)
  Budget,                \* Budget[d]: max_attempts in d's configuration; it may differ
  RetryDelay, MaxDelay,  \* retry_delay and the cap of one hour
  RetryAfters,           \* seconds a receiver may ask for (0 when it does not)
  MaxRetries,            \* bound: manual retries, of all deliveries together
  MaxInterruptions       \* bound: deaths of dispatchers and shutdown requests

NoLock == "none"

ASSUME WebhooksAssumption ==
  /\ RunIds \subseteq Nat /\ IsFiniteSet(RunIds)
  /\ NoLock \notin Dispatchers /\ Dispatchers # {}
  /\ Limit \in [Dispatchers -> Nat \ {0}] /\ Budget \in [Dispatchers -> 1..20]
  /\ RetryDelay \in Nat \ {0} /\ MaxDelay \in Nat /\ RetryDelay <= MaxDelay
  /\ 0 \in RetryAfters /\ RetryAfters \subseteq 0..MaxDelay
  /\ MaxRetries \in Nat /\ MaxInterruptions \in Nat

VARIABLES
  delivery,              \* delivery[i]: webhooks/i.json, or what list() shows without it
  lock,                  \* holder of .webhooks.lock
  pc, local,             \* the dispatch call of each dispatcher
  stopping,              \* the dispatchers whose ExecutionControl was cancelled
  clock,
  posts,                 \* history: requests put on the wire, which all may have arrived
  interruptions

vars == <<delivery, lock, pc, local, stopping, clock, posts, interruptions>>

Delivery == [status : {"none", "pending", "sending", "delivered", "failed"},
             attempts : Nat, attempts_at_retry : Nat, retries : Seq(Nat),
             next_attempt_at : Nat, last_attempt_at : Nat, unacknowledged : BOOLEAN]
Answers == [kind : {"accepted", "retryable", "refused"}, retry_after : RetryAfters]
Local == [seen : [RunIds -> Delivery], todo : Seq(RunIds), sent : Nat, now : Nat,
          limit : Range(Limit) \cup {1}, max : Range(Budget) \cup {1}, answer : Answers]

\* A run that has not ended has no delivery; Delivery::for_run is the pending one.
Unfinished == [status |-> "none", attempts |-> 0, attempts_at_retry |-> 0, retries |-> <<>>,
               next_attempt_at |-> 0, last_attempt_at |-> 0, unacknowledged |-> FALSE]
NoAnswer == [kind |-> "refused", retry_after |-> 0]
Quiet == [seen |-> [i \in RunIds |-> Unfinished], todo |-> <<>>, sent |-> 0, now |-> 0,
          limit |-> 1, max |-> 1, answer |-> NoAnswer]

Init ==
  /\ delivery = [i \in RunIds |-> Unfinished]
  /\ lock = NoLock
  /\ pc = [d \in Dispatchers |-> "idle"]
  /\ local = [d \in Dispatchers |-> Quiet]
  /\ stopping = {}
  /\ clock = 0
  /\ posts = [i \in RunIds |-> 0]
  /\ interruptions = 0

-----------------------------------------------------------------------------
\* attempts_since_retry.
Since(x) == x.attempts - x.attempts_at_retry

\* The budget of a delivery is used up.  Mutant: off by one.
SpentLate(x, max) == Since(x) > max
Spent(x, max) == Since(x) >= max

Smaller(a, b) == IF a < b THEN a ELSE b
Larger(a, b) == IF a > b THEN a ELSE b

\* The wait after the k-th attempt of a budget.  Mutant: it does not grow.
BackoffConstant(k) == Smaller(RetryDelay, MaxDelay)
Backoff(k) == Smaller(RetryDelay * 2^(k - 1), MaxDelay)

\* list(): the eligible deliveries by (next_attempt_at, id), which leaves one order.
Before(i, j) ==
  LET a == delivery[i].next_attempt_at
      b == delivery[j].next_attempt_at
  IN  a < b \/ (a = b /\ i < j)
Listings ==
  LET eligible == {i \in RunIds : delivery[i].status # "none"}
  IN  {todo \in [1 .. Cardinality(eligible) -> eligible] :
         \A j, k \in DOMAIN todo : j < k => Before(todo[j], todo[k])}

\* Mutant: the sender lock is not looked at.
LockFreeIgnored(d) == pc[d] = "idle"
LockFree(d) == pc[d] = "idle" /\ lock = NoLock

\* A run reaches a terminal status with finished_at set: from now on it is listed.
Finish(i) ==
  /\ delivery[i].status = "none"
  /\ delivery' = [delivery EXCEPT ![i].status = "pending", ![i].next_attempt_at = clock]
  /\ UNCHANGED <<lock, pc, local, stopping, clock, posts, interruptions>>

-----------------------------------------------------------------------------
(* dispatch.                                                               *)

\* The lock, the deliveries and the time, all read once.
Begin(d) ==
  /\ LockFree(d)
  /\ lock' = d
  /\ \E todo \in Listings :
       local' = [local EXCEPT ![d] = [Quiet EXCEPT !.seen = delivery, !.todo = todo,
                                                   !.now = clock, !.limit = Limit[d],
                                                   !.max = Budget[d]]]
  /\ pc' = [pc EXCEPT ![d] = "scan"]
  /\ UNCHANGED <<delivery, stopping, clock, posts, interruptions>>

\* The call returns, or the process dies: either way the lock is dropped.
Leave(d) ==
  /\ lock' = IF lock = d THEN NoLock ELSE lock
  /\ pc' = [pc EXCEPT ![d] = "idle"]
  /\ local' = [local EXCEPT ![d] = Quiet]
  /\ stopping' = stopping \ {d}
  /\ UNCHANGED <<delivery, clock, posts>>

\* Top of the loop: a shutdown, the limit or the end of the list ends the call.
Over(d) == d \in stopping \/ local[d].sent >= local[d].limit \/ local[d].todo = <<>>

Return(d) ==
  /\ pc[d] = "scan"
  /\ Over(d)
  /\ Leave(d)
  /\ UNCHANGED interruptions

Consider(d) ==
  /\ pc[d] = "scan"
  /\ ~Over(d)
  /\ pc' = [pc EXCEPT ![d] = "item"]
  /\ UNCHANGED <<delivery, lock, local, stopping, clock, posts, interruptions>>

Item(d) == local[d].seen[Head(local[d].todo)]

\* Write x as the delivery at hand and stay with it in the place named, or go on to the next.
Write(d, x, place) ==
  LET i == Head(local[d].todo)
  IN  /\ delivery' = [delivery EXCEPT ![i] = x]
      /\ local' = [local EXCEPT ![d].seen[i] = x]
      /\ pc' = [pc EXCEPT ![d] = place]
      /\ UNCHANGED <<lock, stopping, clock, interruptions>>
WriteAndGoOn(d, x) ==
  /\ delivery' = [delivery EXCEPT ![Head(local[d].todo)] = x]
  /\ local' = [local EXCEPT ![d].todo = Tail(@), ![d].sent = @ + 1, ![d].answer = NoAnswer]
  /\ pc' = [pc EXCEPT ![d] = "scan"]
  /\ UNCHANGED <<lock, stopping, clock, interruptions>>

\* A delivery found sending: its sender died, and its attempt counts.  Mutant: it is passed over.
ReviveNever(d) ==
  /\ pc[d] = "item"
  /\ Item(d).status = "sending"
  /\ local' = [local EXCEPT ![d].todo = Tail(@)]
  /\ pc' = [pc EXCEPT ![d] = "scan"]
  /\ UNCHANGED <<delivery, lock, stopping, clock, posts, interruptions>>
Revive(d) ==
  LET x == [Item(d) EXCEPT !.unacknowledged = TRUE]
  IN  /\ pc[d] = "item"
      /\ x.status = "sending"
      /\ IF Spent(x, local[d].max)
         THEN WriteAndGoOn(d, [x EXCEPT !.status = "failed"])
         ELSE Write(d, [x EXCEPT !.status = "pending"], "item")
      /\ UNCHANGED posts

Due(d) == Item(d).status = "pending" /\ Item(d).next_attempt_at <= local[d].now

PassOver(d) ==
  /\ pc[d] = "item"
  /\ Item(d).status # "sending" /\ ~Due(d)
  /\ local' = [local EXCEPT ![d].todo = Tail(@)]
  /\ pc' = [pc EXCEPT ![d] = "scan"]
  /\ UNCHANGED <<delivery, lock, stopping, clock, posts, interruptions>>

\* max_attempts was lowered, or the last answer was never saved.
Exhaust(d) ==
  /\ pc[d] = "item"
  /\ Due(d) /\ Spent(Item(d), local[d].max)
  /\ WriteAndGoOn(d, [Item(d) EXCEPT !.status = "failed"])
  /\ UNCHANGED posts

\* What a claim does to a delivery; it is saved before the request is sent.
Claimed(x) == [x EXCEPT !.status = "sending", !.attempts = @ + 1, !.last_attempt_at = clock]

Claim(d) ==
  /\ pc[d] = "item"
  /\ Due(d) /\ ~Spent(Item(d), local[d].max)
  /\ Write(d, Claimed(Item(d)), "claimed")
  /\ UNCHANGED posts

\* The request.  A retryable outcome is also a request or an answer that got lost on the way,
\* so what the receiver saw is at most what was sent.
Send(d) ==
  /\ pc[d] = "claimed"
  /\ posts' = [posts EXCEPT ![Head(local[d].todo)] = @ + 1]
  /\ \E answer \in Answers :
       /\ answer.retry_after > 0 => answer.kind = "retryable"
       /\ local' = [local EXCEPT ![d].answer = answer]
  /\ pc' = [pc EXCEPT ![d] = "answered"]
  /\ UNCHANGED <<delivery, lock, stopping, clock, interruptions>>

\* What an answer makes of a delivery.
Settled(sent, answer, max) ==
  LET x == [sent EXCEPT !.unacknowledged = FALSE]
  IN  IF answer.kind = "accepted" THEN [x EXCEPT !.status = "delivered"]
      ELSE IF answer.kind = "retryable" /\ ~Spent(x, max)
           THEN [x EXCEPT !.status = "pending",
                          !.next_attempt_at =
                             clock + Larger(Backoff(Since(x)), answer.retry_after)]
           ELSE [x EXCEPT !.status = "failed"]

\* The answer is saved.
Settle(d) ==
  /\ pc[d] = "answered"
  /\ WriteAndGoOn(d, Settled(Item(d), local[d].answer, local[d].max))
  /\ UNCHANGED posts

-----------------------------------------------------------------------------
(* Around it.                                                              *)

Retryable(x) == x.status = "failed"

Requeued(x) == [x EXCEPT !.status = "pending", !.retries = Append(@, x.attempts),
                         !.attempts_at_retry = x.attempts, !.next_attempt_at = clock,
                         !.unacknowledged = FALSE]

\* The manual retries so far, of all runs together.
ManualRetries == FoldFunction(LAMBDA x, n : Len(x.retries) + n, 0, delivery)

\* The whole of retry() is under the sender lock, which it waits for briefly.
Retry(i) ==
  /\ lock = NoLock
  /\ Retryable(delivery[i])
  /\ ManualRetries < MaxRetries
  /\ delivery' = [delivery EXCEPT ![i] = Requeued(delivery[i])]
  /\ UNCHANGED <<lock, pc, local, stopping, clock, posts, interruptions>>

\* Ctrl+C in a dispatcher's process.
Shutdown(d) ==
  /\ pc[d] # "idle" /\ d \notin stopping
  /\ interruptions < MaxInterruptions
  /\ stopping' = stopping \cup {d}
  /\ interruptions' = interruptions + 1
  /\ UNCHANGED <<delivery, lock, pc, local, clock, posts>>

\* The process dies, or a write fails and `?` ends the call.
Die(d) ==
  /\ pc[d] # "idle"
  /\ interruptions < MaxInterruptions
  /\ interruptions' = interruptions + 1
  /\ Leave(d)

\* Time passes only towards a delivery that waits for it.
Tick ==
  /\ \E i \in RunIds : delivery[i].status \in {"pending", "sending"} /\
                       delivery[i].next_attempt_at > clock
  /\ clock' = clock + 1
  /\ UNCHANGED <<delivery, lock, pc, local, stopping, posts, interruptions>>

-----------------------------------------------------------------------------
Work(d) ==
  \/ Return(d) \/ Consider(d) \/ Revive(d) \/ PassOver(d) \/ Exhaust(d)
  \/ Claim(d) \/ Send(d) \/ Settle(d)

Dispatch(d) == Begin(d)

Next ==
  \/ \E d \in Dispatchers : Dispatch(d) \/ Work(d) \/ Shutdown(d) \/ Die(d)
  \/ \E i \in RunIds : Finish(i) \/ Retry(i)
  \/ Tick

Spec == Init /\ [][Next]_vars

\* The notifier thread calls dispatch over and over, and every call that started goes on:
\* requests have a timeout.  Somebody dispatches; nobody has to run, finish or retry.
Fairness ==
  /\ WF_vars(\E d \in Dispatchers : Dispatch(d))
  /\ \A d \in Dispatchers : WF_vars(Work(d))
  /\ WF_vars(Tick)
FairSpec == Spec /\ Fairness

-----------------------------------------------------------------------------
(* Properties.                                                             *)

\* The delivery files and the dispatchers' copies of them are well formed.
TypeOK ==
  /\ delivery \in [RunIds -> Delivery]
  /\ lock \in Dispatchers \cup {NoLock}
  /\ pc \in [Dispatchers -> {"idle", "scan", "item", "claimed", "answered"}]
  /\ local \in [Dispatchers -> Local]
  /\ stopping \subseteq Dispatchers
  /\ clock \in Nat /\ interruptions \in Nat
  /\ posts \in [RunIds -> Nat]

\* Attempts count every request that was sent, whoever died when, and a receiver gets at most
\* max_attempts requests for the run, and as many again for each manual retry: deaths and
\* configuration changes grant none.
LargestBudget == Max(Range(Budget))
BudgetKept ==
  \A i \in RunIds : /\ posts[i] <= delivery[i].attempts
                    /\ posts[i] <= LargestBudget * (1 + Len(delivery[i].retries))

\* Whoever sends, retries or dies, attempts only grow, the retry history is append-only and
\* dates each budget by the total it started at, failed is left only through such a retry,
\* and an acknowledged delivery is never touched again.
HistoryKept ==
  [][\A i \in RunIds :
       LET x == delivery[i]
           y == delivery'[i]
       IN  /\ y.attempts >= x.attempts
           /\ IsPrefix(x.retries, y.retries)
           /\ y.attempts_at_retry # x.attempts_at_retry => y.retries # x.retries
           /\ y.retries # <<>> => y.attempts_at_retry = Last(y.retries)
           /\ x.status = "failed" /\ y # x => Len(y.retries) = Len(x.retries) + 1
           /\ x.status = "delivered" => y = x]_delivery

\* Within a budget an attempt waits for the exponential backoff of the one before it, unless
\* that one's sender died without saving an answer.
PatientRetries ==
  [][\A i \in RunIds :
       LET x == delivery[i]
       IN  (/\ delivery'[i].attempts > x.attempts
            /\ Since(x) > 0
            /\ ~x.unacknowledged) =>
              clock - x.last_attempt_at >= Smaller(RetryDelay * 2^(Since(x) - 1), MaxDelay)]_delivery

\* What the files and the dispatcher at work say of a notification: a claim whose sender is gone
\* is one nobody knows the outcome of.
At(i, place) == \E d \in Dispatchers : pc[d] = place /\ Head(local[d].todo) = i
StateOf(i) ==
  CASE delivery[i].status = "pending" -> "waiting"
    [] delivery[i].status = "sending" -> IF At(i, "claimed") THEN "claimed"
                                         ELSE IF At(i, "answered") THEN "posted" ELSE "lost"
    [] OTHER -> delivery[i].status

\* Whichever processes dispatch, die and retry, and under whatever budgets, each notification
\* goes the way of Notification.
Promise == INSTANCE Notification WITH
             Runs <- RunIds, Most <- LargestBudget, state <- [i \in RunIds |-> StateOf(i)],
             attempts <- [i \in RunIds |-> delivery[i].attempts],
             past <- [i \in RunIds |-> delivery[i].retries]
KeepsPromise == Promise!Spec

\* Every ended run's notification comes to rest, delivered or failed, however many answers
\* are lost, as long as interruptions stop.
EveryRunSettles ==
  \A i \in RunIds : (delivery[i].status # "none") ~> (delivery[i].status \in {"delivered", "failed"})
=============================================================================
