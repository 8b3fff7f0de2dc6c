---------------------------- MODULE Notification ----------------------------
(***************************************************************************)
(* What the dispatchers promise about the notification of a run, without   *)
(* saying who sends it or when: every attempt is claimed before its one    *)
(* request, within a budget that only a manual retry of a failed           *)
(* notification renews; an attempt whose sender died counts; and only the  *)
(* receiver's answer makes a notification delivered, which is the end of   *)
(* it (docs/webhooks.md).                                                  *)
(***************************************************************************)
EXTENDS Naturals, Sequences, SequencesExt

CONSTANTS Runs,          \* the runs that may end
          Most           \* attempts a budget allows at most

VARIABLES
  state,                 \* state[i]: where the notification of run i is
  attempts,              \* attempts[i]: the attempts claimed
  past,                  \* past[i]: the attempts there were at each manual retry
  posts                  \* posts[i]: the requests sent

vars == <<state, attempts, past, posts>>

Init ==
  /\ state = [i \in Runs |-> "none"]
  /\ attempts = [i \in Runs |-> 0]
  /\ past = [i \in Runs |-> <<>>]
  /\ posts = [i \in Runs |-> 0]

\* The attempts of the present budget.
Used(i) == attempts[i] - (IF past[i] = <<>> THEN 0 ELSE Last(past[i]))

Moves(i, to) == state' = [state EXCEPT ![i] = to]

\* The run has ended.
Arise(i) == state[i] = "none" /\ Moves(i, "waiting") /\ UNCHANGED <<attempts, past, posts>>

Claim(i) ==
  /\ state[i] = "waiting" /\ Used(i) < Most
  /\ Moves(i, "claimed")
  /\ attempts' = [attempts EXCEPT ![i] = @ + 1]
  /\ UNCHANGED <<past, posts>>

Post(i) ==
  /\ state[i] = "claimed"
  /\ Moves(i, "posted")
  /\ posts' = [posts EXCEPT ![i] = @ + 1]
  /\ UNCHANGED <<attempts, past>>

\* What becomes of a request is known.
Settle(i) ==
  /\ state[i] = "posted"
  /\ \E to \in {"delivered", "waiting", "failed"} : Moves(i, to)
  /\ UNCHANGED <<attempts, past, posts>>

\* The sender dies: nobody knows whether the request arrived, or was sent.
Lose(i) ==
  /\ state[i] \in {"claimed", "posted"} /\ Moves(i, "lost")
  /\ UNCHANGED <<attempts, past, posts>>

Recover(i) ==
  /\ state[i] = "lost"
  /\ \E to \in {"waiting", "failed"} : Moves(i, to)
  /\ UNCHANGED <<attempts, past, posts>>

\* Nobody gives up before an attempt was made.
GiveUp(i) ==
  /\ state[i] = "waiting" /\ Used(i) > 0
  /\ Moves(i, "failed")
  /\ UNCHANGED <<attempts, past, posts>>

Retry(i) ==
  /\ state[i] = "failed"
  /\ Moves(i, "waiting")
  /\ past' = [past EXCEPT ![i] = Append(@, attempts[i])]
  /\ UNCHANGED <<attempts, posts>>

Next ==
  \E i \in Runs : \/ Arise(i) \/ Claim(i) \/ Post(i) \/ Settle(i) \/ Lose(i) \/ Recover(i)
                  \/ GiveUp(i) \/ Retry(i)

Spec == Init /\ [][Next]_vars
=============================================================================
