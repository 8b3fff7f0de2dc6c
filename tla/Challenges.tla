----------------------------- MODULE Challenges -----------------------------
(***************************************************************************)
(* Recovery challenges (src/challenges.rs): comparisons of many trials     *)
(* that a runner claims and evaluates one after the other, while clients   *)
(* submit and cancel, a monitor thread carries a cancellation into the     *)
(* active trial, signals arrive and processes die.  The runner is the      *)
(* gateway's worker, or `challenges run`, which evaluates the one          *)
(* comparison it creates; both hold `.runner.lock`.                        *)
(*                                                                         *)
(* A critical section under `.challenges.lock` writes one file and is one  *)
(* step; only recovery writes several, and excludes everybody meanwhile.   *)
(***************************************************************************)
EXTENDS Naturals

CONSTANTS
  Ids,                   \* the comparisons that may be submitted
  Runners,               \* the processes that may act as runner
  N,                     \* trials per comparison
  Modes,                 \* how runners are started
  Results,               \* how a trial that is not cancelled may end
  ReadsMayFail           \* whether the monitor may fail to read the comparison

Nobody == "nobody"       \* no runner holds `.runner.lock`
None == "none"           \* no comparison

ASSUME ChallengesAssumption ==
  /\ N \in Nat \ {0}
  /\ Modes \subseteq {"serve", "once"}
  /\ Results \subseteq {"completed", "failed", "timed_out"}
  /\ ReadsMayFail \in BOOLEAN
  /\ Nobody \notin Runners /\ None \notin Ids

VARIABLES
  challenge,             \* challenge[c]: the stored challenge.json
  lease,                 \* the holder of `.runner.lock`
  pc,                    \* pc[r]: where runner r is
  mode,                  \* mode[r]: "serve" (gateway serve) or "once" (challenges run)
  shutdown,              \* shutdown[r]: the process was told to stop
  mine,                  \* mine[r]: the comparison the runner picked
  at,                    \* at[r]: the trial it is at, the loop's index
  control,               \* control[r]: the trial's control is cancelled
  outcome,               \* outcome[r]: how the trial ended
  begun                  \* history: begun[c][i], how often trial i of c began

process == <<lease, pc, mode, shutdown, mine, at, control, outcome>>
vars == <<challenge, process, begun>>

Evaluated == {"completed", "failed", "timed_out", "cancelled"}
TrialStatuses == {"queued", "running", "interrupted"} \cup Evaluated
Statuses == {"absent", "queued", "running", "completed", "cancelled", "interrupted"}
Places == {"down", "recover", "loop", "picked", "trial", "running", "ran", "closing"}
Trials == 1 .. N

TypeOK ==
  /\ challenge \in [Ids -> [status : Statuses, cancel_requested : BOOLEAN,
                            trials : [Trials -> TrialStatuses]]]
  /\ lease \in Runners \cup {Nobody}
  /\ pc \in [Runners -> Places]
  /\ mode \in [Runners -> {"serve", "once"}]
  /\ shutdown \in [Runners -> BOOLEAN]
  /\ mine \in [Runners -> Ids \cup {None}]
  /\ at \in [Runners -> 1 .. (N + 1)]
  /\ control \in [Runners -> BOOLEAN]
  /\ outcome \in [Runners -> Evaluated]
  /\ begun \in [Ids -> [Trials -> Nat]]

All(status) == [i \in Trials |-> status]
NoChallenge == [status |-> "absent", cancel_requested |-> FALSE, trials |-> All("queued")]

Init ==
  /\ challenge = [c \in Ids |-> NoChallenge]
  /\ lease = Nobody
  /\ pc = [r \in Runners |-> "down"]
  /\ mode = [r \in Runners |-> "serve"]
  /\ shutdown = [r \in Runners |-> FALSE]
  /\ mine = [r \in Runners |-> None]
  /\ at = [r \in Runners |-> 1]
  /\ control = [r \in Runners |-> FALSE]
  /\ outcome = [r \in Runners |-> "failed"]
  /\ begun = [c \in Ids |-> [i \in Trials |-> 0]]

\* `.challenges.lock` is held across steps by recovery only.
LockFree == \A r \in Runners : pc[r] # "recover"

-----------------------------------------------------------------------------
(* Clients.                                                                *)

Queue(c) ==
  /\ LockFree
  /\ challenge[c].status = "absent"
  /\ challenge' = [challenge EXCEPT ![c].status = "queued"]

Create(c) == Queue(c) /\ UNCHANGED <<process, begun>>

\* A queued comparison is cancelled with all its trials, of a running one only the
\* request is kept, and one that ended stays as it is.
AfterCancel(f) ==
  CASE f.status = "queued"  -> [status |-> "cancelled", cancel_requested |-> TRUE,
                                trials |-> All("cancelled")]
    [] f.status = "running" -> [f EXCEPT !.cancel_requested = TRUE]
    [] OTHER                -> f

Cancel(c) ==
  /\ LockFree
  /\ challenge[c].status # "absent"
  /\ challenge' = [challenge EXCEPT ![c] = AfterCancel(@)]
  /\ UNCHANGED <<process, begun>>

-----------------------------------------------------------------------------
(* A runner: start, recovery, end.                                         *)

Launch(r, m) ==
  /\ pc[r] = "down"
  /\ lease = Nobody /\ LockFree
  /\ lease' = r
  /\ mode' = [mode EXCEPT ![r] = m]
  /\ pc' = [pc EXCEPT ![r] = "recover"]
  /\ UNCHANGED <<challenge, shutdown, mine, at, control, outcome, begun>>

\* Mutant: the active trial goes back in the queue with its comparison.
Requeued(f) ==
  [f EXCEPT !.status = "queued",
            !.trials = [i \in Trials |-> IF @[i] = "running" THEN "queued" ELSE @[i]]]
Interrupted(f) ==
  [f EXCEPT !.status = "interrupted",
            !.trials = [i \in Trials |-> IF @[i] = "running" THEN "interrupted" ELSE @[i]]]

Recover(r, c) ==
  /\ pc[r] = "recover"
  /\ challenge[c].status = "running"
  /\ challenge' = [challenge EXCEPT ![c] = Interrupted(@)]
  /\ UNCHANGED <<process, begun>>

RecoveryDone(r) ==
  /\ pc[r] = "recover"
  /\ \A c \in Ids : challenge[c].status # "running"
  /\ pc' = [pc EXCEPT ![r] = "loop"]
  /\ UNCHANGED <<challenge, lease, mode, shutdown, mine, at, control, outcome, begun>>

\* The process ends: its lease goes with it, and so does all it had in memory.
Gone(r) ==
  /\ pc' = [pc EXCEPT ![r] = "down"]
  /\ lease' = IF lease = r THEN Nobody ELSE lease
  /\ mode' = [mode EXCEPT ![r] = "serve"]
  /\ shutdown' = [shutdown EXCEPT ![r] = FALSE]
  /\ mine' = [mine EXCEPT ![r] = None]
  /\ at' = [at EXCEPT ![r] = 1]
  /\ control' = [control EXCEPT ![r] = FALSE]
  /\ outcome' = [outcome EXCEPT ![r] = "failed"]

\* Death at any step.  A failed read or write, or a lock that stays busy, ends the
\* worker and with it the gateway, and leaves the files the same way.
Crash(r) ==
  /\ pc[r] # "down"
  /\ Gone(r)
  /\ UNCHANGED <<challenge, begun>>

Signal(r) ==
  /\ pc[r] # "down"
  /\ ~shutdown[r]
  /\ shutdown' = [shutdown EXCEPT ![r] = TRUE]
  /\ UNCHANGED <<challenge, lease, pc, mode, mine, at, control, outcome, begun>>

-----------------------------------------------------------------------------
(* Picking and claiming.                                                   *)

\* claim_next reads all comparisons without a lock and picks a queued one.
Pick(r, c) ==
  /\ pc[r] = "loop" /\ mode[r] = "serve"
  /\ ~shutdown[r]
  /\ challenge[c].status = "queued"
  /\ mine' = [mine EXCEPT ![r] = c]
  /\ pc' = [pc EXCEPT ![r] = "picked"]
  /\ UNCHANGED <<challenge, lease, mode, shutdown, at, control, outcome, begun>>

\* `challenges run` creates the comparison it will claim; clients can see it.
CreateOwn(r, c) ==
  /\ pc[r] = "loop" /\ mode[r] = "once"
  /\ Queue(c)
  /\ mine' = [mine EXCEPT ![r] = c]
  /\ pc' = [pc EXCEPT ![r] = "picked"]
  /\ UNCHANGED <<lease, mode, shutdown, at, control, outcome, begun>>

Stop(r) ==
  /\ pc[r] = "loop" /\ mode[r] = "serve"
  /\ shutdown[r]
  /\ Gone(r)
  /\ UNCHANGED <<challenge, begun>>

\* Mutant: claim what was picked without looking at it again.
PickTrusted(r) == TRUE
StillQueued(r) == challenge[mine[r]].status = "queued"

Claim(r) ==
  /\ pc[r] = "picked" /\ LockFree
  /\ StillQueued(r)
  /\ challenge' = [challenge EXCEPT ![mine[r]].status = "running"]
  /\ pc' = [pc EXCEPT ![r] = "trial"]
  /\ at' = [at EXCEPT ![r] = 1]
  /\ UNCHANGED <<lease, mode, shutdown, mine, control, outcome, begun>>

\* Cancelled meanwhile: claim fails, and its error ends the worker or the command.
ClaimFails(r) ==
  /\ pc[r] = "picked" /\ LockFree
  /\ ~StillQueued(r)
  /\ Gone(r)
  /\ UNCHANGED <<challenge, begun>>

-----------------------------------------------------------------------------
(* execute: one trial after the other.                                     *)

StopWanted(r) == challenge[mine[r]].cancel_requested \/ shutdown[r]

\* Each trial has a control of its own.
BeginTrial(r) ==
  LET c == mine[r]
      i == at[r]
  IN  /\ pc[r] = "trial" /\ LockFree
      /\ i <= N
      /\ ~StopWanted(r)
      /\ challenge[c].trials[i] = "queued"
      /\ challenge' = [challenge EXCEPT ![c].trials[i] = "running"]
      /\ begun' = [begun EXCEPT ![c][i] = @ + 1]
      /\ control' = [control EXCEPT ![r] = FALSE]
      /\ pc' = [pc EXCEPT ![r] = "running"]
      /\ UNCHANGED <<lease, mode, shutdown, mine, at, outcome>>

\* Mutant: off by one.
PastLastByOne(r) == at[r] > N + 1
PastLast(r) == at[r] > N

\* The loop is left by its index or by the break.
LeaveLoop(r) ==
  /\ pc[r] = "trial"
  /\ PastLast(r) \/ (LockFree /\ StopWanted(r))
  /\ pc' = [pc EXCEPT ![r] = "closing"]
  /\ UNCHANGED <<challenge, lease, mode, shutdown, mine, at, control, outcome, begun>>

\* The monitor takes a comparison it cannot read for a cancelled one.
Monitor(r) ==
  /\ pc[r] = "running"
  /\ ~control[r]
  /\ StopWanted(r) \/ ReadsMayFail
  /\ control' = [control EXCEPT ![r] = TRUE]
  /\ UNCHANGED <<challenge, lease, pc, mode, shutdown, mine, at, outcome, begun>>

\* run_trial returns (see Trial); an error of it counts as failed.
Finish(r, o) ==
  /\ pc[r] = "running"
  /\ o \in IF control[r] THEN {"cancelled", "failed"} ELSE Results \cup {"failed"}
  /\ outcome' = [outcome EXCEPT ![r] = o]
  /\ pc' = [pc EXCEPT ![r] = "ran"]
  /\ UNCHANGED <<challenge, lease, mode, shutdown, mine, at, control, begun>>

\* The outcome goes into the record as it is now.  Mutant: into the record as it was
\* when the trial began, which forgets a cancellation.
SaveOverRequest(f, i, o) == [f EXCEPT !.trials[i] = o, !.cancel_requested = FALSE]
Saved(f, i, o) == [f EXCEPT !.trials[i] = o]

SaveTrial(r) ==
  /\ pc[r] = "ran" /\ LockFree
  /\ challenge' = [challenge EXCEPT ![mine[r]] = Saved(@, at[r], outcome[r])]
  /\ at' = [at EXCEPT ![r] = @ + 1]
  /\ pc' = [pc EXCEPT ![r] = "trial"]
  /\ control' = [control EXCEPT ![r] = FALSE]
  /\ outcome' = [outcome EXCEPT ![r] = "failed"]
  /\ UNCHANGED <<lease, mode, shutdown, mine, begun>>

\* Mutant: the trials left over stay queued.
ClosedKeepingTrials(r, f) ==
  [f EXCEPT !.status = IF f.cancel_requested \/ shutdown[r] THEN "cancelled" ELSE "completed"]
Closed(r, f) ==
  [f EXCEPT !.status = IF f.cancel_requested \/ shutdown[r] THEN "cancelled" ELSE "completed",
            !.trials = [i \in Trials |-> IF @[i] = "queued" THEN "cancelled" ELSE @[i]]]

Settle(r) ==
  /\ pc[r] = "closing" /\ LockFree
  /\ challenge' = [challenge EXCEPT ![mine[r]] = Closed(r, @)]

\* The gateway's worker looks for more; `challenges run` exits.
Close(r) ==
  /\ mode[r] = "serve"
  /\ Settle(r)
  /\ pc' = [pc EXCEPT ![r] = "loop"]
  /\ mine' = [mine EXCEPT ![r] = None]
  /\ at' = [at EXCEPT ![r] = 1]
  /\ UNCHANGED <<lease, mode, shutdown, control, outcome, begun>>

CloseAndExit(r) ==
  /\ mode[r] = "once"
  /\ Settle(r)
  /\ Gone(r)
  /\ UNCHANGED begun

-----------------------------------------------------------------------------
Client == \E c \in Ids : Create(c) \/ Cancel(c)

\* What the runner's thread does by itself.
RunnerStep(r) ==
  \/ \E c \in Ids : Recover(r, c) \/ Pick(r, c) \/ CreateOwn(r, c)
  \/ RecoveryDone(r) \/ Stop(r) \/ Claim(r) \/ ClaimFails(r)
  \/ BeginTrial(r) \/ LeaveLoop(r) \/ SaveTrial(r) \/ Close(r) \/ CloseAndExit(r)
  \/ \E o \in Evaluated : Finish(r, o)

Runner(r) ==
  \/ \E m \in Modes : Launch(r, m)
  \/ RunnerStep(r)
  \/ Monitor(r) \/ Signal(r) \/ Crash(r)

Next == Client \/ \E r \in Runners : Runner(r)

Spec == Init /\ [][Next]_vars

\* The worker and the monitor are threads that never block for good: every trial has a
\* deadline of at most a minute.  Nothing obliges clients, signals or an operator.
FairSpec == Spec /\ \A r \in Runners : WF_vars(RunnerStep(r)) /\ WF_vars(Monitor(r))

-----------------------------------------------------------------------------
(* Safety.                                                                 *)

\* No trial is ever evaluated twice, through crashes, recoveries and later runners: a
\* second evaluation would let a strategy win on a lucky repeat.
TrialsOnce == \A c \in Ids : \A i \in Trials : begun[c][i] <= 1

\* From claim to close the stored comparison is running, belongs to the lease holder, and
\* its trials are exactly as far as the holder's loop: those before are evaluated, the
\* current one is running while it runs, those after are untouched.
LoopMatchesFile ==
  \A r \in Runners : pc[r] \in {"trial", "running", "ran", "closing"} =>
     LET f == challenge[mine[r]]
     IN  /\ lease = r /\ f.status = "running"
         /\ \A i \in Trials :
               /\ i < at[r] => f.trials[i] \in Evaluated
               /\ i > at[r] => f.trials[i] = "queued"
               /\ i = at[r] => f.trials[i] = IF pc[r] \in {"running", "ran"} THEN "running"
                                                                            ELSE "queued"

\* The comparison's status and its trials tell one story, whatever happened on the way: a
\* report never calls a comparison ended while one of its trials still looks active, a
\* completed one left no trial out, and an interrupted one keeps the verdicts it had.
Without(f, statuses) == \A i \in Trials : f.trials[i] \notin statuses
Coherent(f) ==
  /\ f.status \in {"absent", "queued"} => f.trials = All("queued") /\ ~f.cancel_requested
  /\ f.status = "running"     => Without(f, {"interrupted"})
  /\ f.status = "completed"   => Without(f, {"queued", "running", "interrupted"})
                                /\ ~f.cancel_requested
  /\ f.status = "cancelled"   => Without(f, {"queued", "running", "interrupted"})
  /\ f.status = "interrupted" => Without(f, {"running"})

ReportCoherent == \A c \in Ids : Coherent(challenge[c])

\* A verdict is final: no later trial, cancellation, close or recovery rewrites it.
VerdictsFinal ==
  [][\A c \in Ids : \A i \in Trials :
        challenge[c].trials[i] \in Evaluated \cup {"interrupted"} =>
           challenge'[c].trials[i] = challenge[c].trials[i]]_challenge

\* Once a cancellation is acknowledged it is not forgotten, no further trial begins, and
\* the comparison does not end as completed.
CancelStopsTrials ==
  [][\A c \in Ids : challenge[c].cancel_requested =>
        /\ challenge'[c].cancel_requested
        /\ begun'[c] = begun[c]
        /\ challenge'[c].status # "completed"]_<<challenge, begun>>

-----------------------------------------------------------------------------
(* What a comparison promises, abstractly: each of its trials is a piece   *)
(* of work with one slot, granted when the comparison is created and taken *)
(* with all the others by the claim.                                       *)

SlotOf(f, i) ==
  CASE f.status = "absent"  -> "none"
    [] f.status = "queued"  -> "open"
    [] f.status = "running" /\ f.trials[i] \in {"queued", "running"} -> "taken"
    [] OTHER                -> "closed"

Promise(c, i) == INSTANCE AtMostOnce WITH
                   Work <- {i}, slot <- [w \in {i} |-> SlotOf(challenge[c], w)],
                   starts <- [w \in {i} |-> begun[c][w]], renewals <- [w \in {i} |-> 0]

\* Every trial begins at most once, after the claim that is durable before anything moves, and
\* never again once its comparison or its verdict closed it, through crashes and recoveries.
TrialsKeepPromise ==
  /\ \A c \in Ids : \A i \in Trials : Promise(c, i)!Init
  /\ [][\A c \in Ids : \A i \in Trials : [Promise(c, i)!Next]_(Promise(c, i)!vars)]_vars

-----------------------------------------------------------------------------
(* Liveness.                                                               *)

Serving == \E r \in Runners : pc[r] # "down" /\ mode[r] = "serve" /\ ~shutdown[r]

\* Comparisons move on: while a gateway serves (and has no due job), a queued one is taken
\* up, and a running one ends, soon when told to, unless its runner dies.
ComparisonsMoveOn ==
  \A c \in Ids :
     /\ challenge[c].status = "queued" ~> challenge[c].status # "queued" \/ ~Serving
     /\ challenge[c].status = "running" ~> challenge[c].status # "running" \/ lease = Nobody

=============================================================================
