----------------------------- MODULE MCWebhooks -----------------------------
EXTENDS Webhooks, TLC

CONSTANTS d1, d2

\* The gateway's notifier and a `webhooks dispatch` under a lowered max_attempts.
MCDispatchers == {d1, d2}
MCLimit == d1 :> 1 @@ d2 :> 2
MCBudget == d1 :> 4 @@ d2 :> 2

\* Bounds.  Two notifications compete for two attempts of a budget each; a single one may use
\* up all of it, so that its waits grow and reach their cap, before and after a manual retry.
Alone == \E i \in RunIds : delivery[i].status = "none"

\* A run ends before the other's notification was attempted twice.
EndsInTime ==
  \A i, j \in RunIds :
    delivery[i].status = "none" /\ delivery'[i].status # "none" => delivery[j].attempts <= 1

\* Receivers of two notifications ask for one more attempt only.
AsksOnce ==
  \A d \in Dispatchers :
    (/\ pc[d] = "claimed" /\ pc'[d] = "answered"
     /\ local'[d].answer.kind = "retryable" /\ Since(Item(d)) >= 2) => Alone

\* What fairness obliges stays possible: a receiver may always give an answer that is final.
MCSpec == Init /\ [][Next /\ EndsInTime /\ AsksOnce]_vars /\ Fairness
=============================================================================
