------------------------------- MODULE Server -------------------------------
(***************************************************************************)
(* The local gateway (src/server.rs): one process that takes the runner    *)
(* lease, recovers what the previous runner left, binds, and then runs a   *)
(* worker, an optional webhook notifier and HTTP handlers side by side     *)
(* until a signal, a worker error or a panic ends them all.                *)
(*                                                                         *)
(* Jobs and comparisons are reduced to where they stand in the worker's    *)
(* queue; modules Jobs, Challenges and Webhooks say what becomes of them.  *)
(***************************************************************************)
EXTENDS Naturals, FiniteSets

CONSTANTS
  H,                     \* how many HTTP handlers are spawned (4 in the code)
  Jobs, Repeating,       \* requests that submit a job; the ones whose job repeats
  Comparisons,           \* requests that submit a comparison
  Stored,                \* the jobs and comparisons submitted before, without the gateway
  Reads,                 \* requests that change nothing
  Notifies,              \* whether a webhook is configured
  MayFail,               \* the threads that may end by themselves
  Endless,               \* jobs whose execution need not end unless it is told to stop
  Withheld               \* requests whose client may keep back the body it has announced

Requests == ((Jobs \cup Comparisons) \ Stored) \cup Reads
Handlers == 1 .. H

ASSUME ServerAssumption ==
  /\ H \in Nat \ {0}
  /\ Repeating \subseteq Jobs /\ Stored \subseteq Jobs \cup Comparisons
  /\ Jobs \cap Comparisons = {} /\ Jobs \cap Reads = {} /\ Comparisons \cap Reads = {}
  /\ Notifies \in BOOLEAN
  /\ MayFail \subseteq {"worker", "notifier", "handler"}
  /\ Endless \subseteq Jobs /\ Withheld \subseteq Requests

None == "none"
ASSUME NoneAssumption == None \notin Jobs \cup Comparisons \cup Reads

VARIABLES
  main,                  \* where serve is
  lease,                 \* whether the process holds `.runner.lock`
  cancelled,             \* the shutdown control is cancelled
  worker, mine,          \* the worker thread, and the item it executes
  notifier,              \* the webhook thread
  handler, serving,      \* each handler, and the request it answers
  joined,                \* how many handlers serve has joined
  result,                \* what serve returned last
  request,               \* request[q]: where a client's request is
  work,                  \* work[q]: what became of the job or comparison q submitted
  late                   \* history: items claimed since the shutdown was cancelled

threads == <<worker, mine, notifier, handler, serving>>
serve == <<main, lease, joined, result>>
vars == <<serve, cancelled, threads, request, work, late>>

Over == {"off", "ended", "failed"}   \* a thread that is not spawned, returned, or failed

TypeOK ==
  /\ main \in {"down", "jobs", "challenges", "bind", "worker", "notifier", "handlers", "scope"}
  /\ lease \in BOOLEAN /\ cancelled \in BOOLEAN
  /\ worker \in Over \cup {"look", "due", "next", "execute", "wait"}
  /\ mine \in Jobs \cup Comparisons \cup {None}
  /\ notifier \in Over \cup {"look", "dispatch", "wait"}
  /\ handler \in [Handlers -> Over \cup {"look", "receive", "respond", "reply"}]
  /\ serving \in [Handlers -> Requests \cup {None}]
  /\ joined \in 0 .. H
  /\ result \in {"none", "ok", "error"}
  /\ request \in [Requests -> {"unsent", "waiting", "taken", "answered", "dropped"}]
  /\ work \in [Jobs \cup Comparisons -> {"none", "queued", "later", "running", "ended"}]
  /\ late \in Nat

Init ==
  /\ main = "down" /\ lease = FALSE /\ joined = 0 /\ result = "none"
  /\ cancelled = FALSE
  /\ worker = "off" /\ mine = None /\ notifier = "off"
  /\ handler = [h \in Handlers |-> "off"] /\ serving = [h \in Handlers |-> None]
  /\ request = [q \in Requests |-> "unsent"]
  /\ work = [q \in Jobs \cup Comparisons |-> IF q \in Stored THEN "queued" ELSE "none"]
  /\ late = 0

-----------------------------------------------------------------------------
(* serve up to the scope: any `?` on the way drops the lease.              *)

\* A process has its threads and its control for itself: it begins, and dies, with none.
NoThreads ==
  /\ worker' = "off" /\ mine' = None /\ notifier' = "off"
  /\ handler' = [h \in Handlers |-> "off"] /\ serving' = [h \in Handlers |-> None]
  /\ joined' = 0 /\ cancelled' = FALSE /\ late' = 0

\* What an earlier process left of its threads is none of this one's.
Launch ==
  /\ main = "down"
  /\ main' = "jobs" /\ lease' = TRUE /\ result' = "none"
  /\ NoThreads
  /\ UNCHANGED <<request, work>>

Interrupt(items) ==
  work' = [q \in DOMAIN work |->
             IF q \in items /\ work[q] = "running" THEN "ended" ELSE work[q]]

RecoverJobs ==
  /\ main = "jobs" /\ main' = "challenges"
  /\ Interrupt(Jobs)
  /\ UNCHANGED <<lease, joined, result, cancelled, threads, request, late>>

RecoverChallenges ==
  /\ main = "challenges" /\ main' = "bind"
  /\ Interrupt(Comparisons)
  /\ UNCHANGED <<lease, joined, result, cancelled, threads, request, late>>

\* Bind and spawn the threads.
Spawn ==
  /\ main = "bind" /\ main' = "worker"
  /\ worker' = "look" /\ mine' = None
  /\ notifier' = IF Notifies THEN "look" ELSE "off"
  /\ handler' = [h \in Handlers |-> "look"]
  /\ serving' = [h \in Handlers |-> None]
  /\ UNCHANGED <<lease, joined, result, cancelled, request, work, late>>

\* Recovery or the bind fails: serve returns the error before any thread exists.
RefuseToStart ==
  /\ main \in {"jobs", "challenges", "bind"}
  /\ main' = "down" /\ lease' = FALSE /\ result' = "error" /\ cancelled' = FALSE
  /\ UNCHANGED <<joined, threads, request, work, late>>

-----------------------------------------------------------------------------
(* The worker: due jobs first, then the oldest comparison, then 100 ms.    *)

WorkerKeepsOn == UNCHANGED <<serve, cancelled, notifier, handler, serving, request>>

\* Mutant of Look: only an idle worker looks at the shutdown.
LookWhenIdle ==
  /\ worker = "look"
  /\ worker' = IF cancelled /\ \A q \in Jobs : work[q] # "queued" THEN "ended" ELSE "due"
  /\ UNCHANGED <<mine, work, late>> /\ WorkerKeepsOn

Look ==
  /\ worker = "look"
  /\ worker' = IF cancelled THEN "ended" ELSE "due"
  /\ UNCHANGED <<mine, work, late>> /\ WorkerKeepsOn

Queued(items) == {q \in items : work[q] = "queued"}

Take(q) ==
  /\ work' = [work EXCEPT ![q] = "running"]
  /\ mine' = q
  /\ worker' = "execute"
  /\ late' = IF cancelled THEN late + 1 ELSE late

\* Mutant of ClaimDue: no comparison is looked for.
ClaimDueOnly ==
  /\ worker = "due"
  /\ IF Queued(Jobs) # {}
     THEN \E q \in Queued(Jobs) : Take(q)
     ELSE worker' = "wait" /\ UNCHANGED <<mine, work, late>>
  /\ WorkerKeepsOn

ClaimDue ==
  /\ worker = "due"
  /\ IF Queued(Jobs) # {}
     THEN \E q \in Queued(Jobs) : Take(q)
     ELSE worker' = "next" /\ UNCHANGED <<mine, work, late>>
  /\ WorkerKeepsOn

ClaimNext ==
  /\ worker = "next"
  /\ IF Queued(Comparisons) # {}
     THEN \E q \in Queued(Comparisons) : Take(q)
     ELSE worker' = "wait" /\ UNCHANGED <<mine, work, late>>
  /\ WorkerKeepsOn

\* The execution ends by itself or because the shutdown reached it; a repeating job that
\* was not stopped waits for its next due time.
Execute ==
  /\ worker = "execute" /\ worker' = "look" /\ mine' = None
  /\ work' = [work EXCEPT ![mine] =
       IF mine \in Repeating /\ ~cancelled THEN "later" ELSE "ended"]
  /\ UNCHANGED late /\ WorkerKeepsOn

WaitOver ==
  /\ worker = "wait" /\ worker' = "look"
  /\ UNCHANGED <<mine, work, late>> /\ WorkerKeepsOn

\* An error of a claim or of an execution is the worker's result; a panic is the same to
\* serve.  A job it had begun stays `running` in its file.
WorkerFails ==
  /\ "worker" \in MayFail
  /\ worker \in {"due", "next", "execute"}
  /\ worker' = "failed" /\ mine' = None
  /\ UNCHANGED <<work, late>> /\ WorkerKeepsOn

-----------------------------------------------------------------------------
(* The notifier: CancelOnExit cancels the shutdown however the thread ends. *)

NotifierKeepsOn == UNCHANGED <<serve, worker, mine, handler, serving, request, work, late>>

NotifierLooks ==
  /\ notifier = "look"
  /\ notifier' = IF cancelled THEN "ended" ELSE "dispatch"
  /\ UNCHANGED cancelled /\ NotifierKeepsOn

\* dispatch(1) delivered, found nothing or failed: a wait in each case.
Dispatch ==
  /\ notifier = "dispatch" /\ notifier' = "wait"
  /\ UNCHANGED cancelled /\ NotifierKeepsOn

NotifierWaits ==
  /\ notifier = "wait" /\ notifier' = "look"
  /\ UNCHANGED cancelled /\ NotifierKeepsOn

NotifierPanics ==
  /\ "notifier" \in MayFail
  /\ notifier = "dispatch" /\ notifier' = "failed"
  /\ cancelled' = TRUE
  /\ NotifierKeepsOn

-----------------------------------------------------------------------------
(* The handlers.                                                           *)

HandlerKeepsOn == UNCHANGED <<serve, cancelled, worker, mine, notifier, late>>

HandlerLooks(h) ==
  /\ handler[h] = "look"
  /\ handler' = [handler EXCEPT ![h] = IF cancelled THEN "ended" ELSE "receive"]
  /\ UNCHANGED <<serving, request, work>> /\ HandlerKeepsOn

\* recv_timeout: a waiting request, or nothing for 100 ms.
Receive(h) ==
  /\ handler[h] = "receive"
  /\ \/ /\ \A q \in Requests : request[q] # "waiting"
        /\ handler' = [handler EXCEPT ![h] = "look"]
        /\ UNCHANGED <<serving, request>>
     \/ \E q \in Requests :
          /\ request[q] = "waiting"
          /\ request' = [request EXCEPT ![q] = "taken"]
          /\ serving' = [serving EXCEPT ![h] = q]
          /\ handler' = [handler EXCEPT ![h] = "respond"]
  /\ UNCHANGED work /\ HandlerKeepsOn

\* Mutant of Respond: submissions wait for the item the worker executes.
RespondBetweenItems(h) ==
  /\ handler[h] = "respond" /\ worker # "execute"
  /\ handler' = [handler EXCEPT ![h] = "reply"]
  /\ work' = [q \in DOMAIN work |-> IF q = serving[h] THEN "queued" ELSE work[q]]
  /\ UNCHANGED <<serving, request>> /\ HandlerKeepsOn

\* respond calls api, which reads the body to its end: a submission is on disk before
\* anything is answered.
Respond(h) ==
  /\ handler[h] = "respond" /\ handler' = [handler EXCEPT ![h] = "reply"]
  /\ work' = [q \in DOMAIN work |-> IF q = serving[h] THEN "queued" ELSE work[q]]
  /\ UNCHANGED <<serving, request>> /\ HandlerKeepsOn

Reply(h) ==
  /\ handler[h] = "reply" /\ handler' = [handler EXCEPT ![h] = "look"]
  /\ request' = [request EXCEPT ![serving[h]] = "answered"]
  /\ serving' = [serving EXCEPT ![h] = None]
  /\ UNCHANGED work /\ HandlerKeepsOn

\* recv_timeout fails, or respond panics and its request is never answered.
HandlerFails(h) ==
  /\ "handler" \in MayFail
  /\ handler[h] \in {"receive", "respond", "reply"}
  /\ handler' = [handler EXCEPT ![h] = "failed"]
  /\ serving' = [serving EXCEPT ![h] = None]
  /\ request' = [q \in Requests |-> IF q = serving[h] THEN "dropped" ELSE request[q]]
  /\ UNCHANGED work /\ HandlerKeepsOn

-----------------------------------------------------------------------------
(* serve in the scope: join the worker, cancel, join the others; an early  *)
(* return leaves the remaining threads to the scope, which joins them too. *)

Ends(place, outcome) ==
  /\ main' = place
  /\ result' = outcome
  /\ UNCHANGED <<lease, threads, request, work, late>>

\* Mutant of JoinWorker: the other threads are not told.
JoinWorkerOnly ==
  /\ main = "worker" /\ worker \in Over
  /\ Ends("notifier", "none") /\ UNCHANGED <<joined, cancelled>>

JoinWorker ==
  /\ main = "worker" /\ worker \in Over
  /\ cancelled' = TRUE
  /\ Ends("notifier", "none") /\ UNCHANGED joined

\* Mutant of JoinNotifier: its panic is swallowed.
JoinNotifierQuietly ==
  /\ main = "notifier" /\ notifier \in Over
  /\ Ends("handlers", "none") /\ UNCHANGED <<joined, cancelled>>

JoinNotifier ==
  /\ main = "notifier" /\ notifier \in Over
  /\ IF notifier = "failed" THEN Ends("scope", "error") ELSE Ends("handlers", "none")
  /\ UNCHANGED <<joined, cancelled>>

JoinHandler ==
  /\ main = "handlers" /\ joined < H /\ handler[joined + 1] \in Over
  /\ joined' = joined + 1
  /\ IF handler[joined + 1] = "failed" THEN Ends("scope", "error") ELSE Ends("handlers", "none")
  /\ UNCHANGED cancelled

WorkerResult ==
  /\ main = "handlers" /\ joined = H
  /\ Ends("scope", IF worker = "failed" THEN "error" ELSE "ok")
  /\ UNCHANGED <<joined, cancelled>>

Leave ==
  /\ main = "scope" /\ main' = "down" /\ lease' = FALSE
  /\ request' = [q \in Requests |-> IF request[q] = "waiting" THEN "dropped" ELSE request[q]]
  /\ joined' = 0
  /\ UNCHANGED <<threads, result, cancelled, work, late>>

\* Mutant of Return: the scope does not join what an early return left running.
ReturnEarly == Leave

\* The scope's own join; then the listener and the lease are dropped.
Return ==
  /\ worker \in Over /\ notifier \in Over /\ \A h \in Handlers : handler[h] \in Over
  /\ Leave

-----------------------------------------------------------------------------
(* The outside: clients, signals, the clock and the death of the process.  *)

Send(q) ==
  /\ main \in {"worker", "notifier", "handlers", "scope"}
  /\ request[q] = "unsent"
  /\ request' = [request EXCEPT ![q] = "waiting"]
  /\ UNCHANGED <<serve, cancelled, threads, work, late>>

Signal ==
  /\ main # "down" /\ ~cancelled
  /\ cancelled' = TRUE
  /\ UNCHANGED <<serve, threads, request, work, late>>

FallDue(q) ==
  /\ work[q] = "later"
  /\ work' = [work EXCEPT ![q] = "queued"]
  /\ UNCHANGED <<serve, cancelled, threads, request, late>>

Die ==
  /\ main # "down"
  /\ main' = "down" /\ lease' = FALSE /\ result' = "none"
  /\ request' = [q \in Requests |->
       IF request[q] \in {"waiting", "taken"} THEN "dropped" ELSE request[q]]
  /\ NoThreads /\ UNCHANGED work

Main == RecoverJobs \/ RecoverChallenges \/ Spawn \/ JoinWorker \/ JoinNotifier
          \/ JoinHandler \/ WorkerResult \/ Return
Worker == Look \/ ClaimDue \/ ClaimNext \/ Execute \/ WaitOver
Notifier == NotifierLooks \/ Dispatch \/ NotifierWaits
Handler(h) == HandlerLooks(h) \/ Receive(h) \/ Respond(h) \/ Reply(h)

Next ==
  \/ Launch \/ RefuseToStart \/ Main
  \/ Worker \/ WorkerFails
  \/ Notifier \/ NotifierPanics
  \/ \E h \in Handlers : Handler(h) \/ HandlerFails(h)
  \/ \E q \in Requests : Send(q)
  \/ \E q \in Repeating : FallDue(q)
  \/ Signal \/ Die

Spec == Init /\ [][Next]_vars

\* The handler reads a body that need not come: no timeout ends the read.
Held(h) == handler[h] = "respond" /\ serving[h] \in Withheld

\* Every thread keeps running: an execution ends unless it is endless and not told to stop,
\* a delivery ends by its request timeout, a request when its client has sent all of it.
Fairness ==
  /\ WF_vars(Main) /\ WF_vars(Notifier)
  /\ WF_vars(Worker /\ (mine \in Endless => cancelled))
  /\ \A h \in Handlers : WF_vars(Handler(h) /\ ~Held(h))

FairSpec == Spec /\ Fairness

-----------------------------------------------------------------------------
(* What serve promises.                                                    *)

\* The runner lease outlives every thread: whoever may take it next finds no worker, no
\* delivery and no handler of this process still at work (scope and join order of serve).
LeaseCovers ==
  ~lease => /\ worker \in Over /\ notifier \in Over
            /\ \A h \in Handlers : handler[h] \in Over

\* The shutdown is looked at before an item is claimed, not under the same lock: at most
\* the one claim that was already under way comes after it.
OneLateClaim == late <= 1

\* serve returns success exactly when none of its threads failed, whichever it joins first
\* and although a notifier's panic hides the worker's error.
ResultHonest ==
  main = "scope" =>
    (result = "ok" <=> /\ worker # "failed" /\ notifier # "failed"
                       /\ \A h \in Handlers : handler[h] # "failed")

\* serve waits for nothing but clients that keep their bodies back.
Stuck ==
  /\ main \in {"handlers", "scope"}
  /\ worker \in Over /\ notifier \in Over
  /\ \A h \in Handlers : handler[h] \in Over \/ Held(h)
  /\ \E h \in Handlers : Held(h)

\* A signal, the end of the worker or a notifier's panic ends the whole process: every
\* thread stops, all are joined and the lease is released.  Only a client that announced a
\* body and keeps it back can hold the process up, by the handler that reads it, and then
\* every other thread is over.
EndsWhole ==
  main # "down" /\ (cancelled \/ worker = "failed" \/ notifier = "failed") ~>
    (main = "down" \/ Stuck)

\* The worker prefers due jobs, so a queued comparison can be starved, but only by a job
\* that repeats and is executed again and again, or by one execution that never ends: in
\* every other behaviour it is taken or the worker stops.
ComparisonServed ==
  \A q \in Comparisons :
    \/ \E r \in Repeating : []<>(mine = r)
    \/ \E e \in Endless : <>[](mine = e)
    \/ (main = "worker" /\ work[q] = "queued") ~> (work[q] # "queued" \/ main # "worker")

\* A request whose client sends all of it is answered: once a handler has taken it, unless
\* that handler fails or the process dies; while it waits, unless the gateway goes down, or
\* every handler has failed or reads a body that is kept back, or such a read holds up the
\* end.  No handler waits for the worker.
RequestServed ==
  \A q \in Requests \ Withheld :
    /\ request[q] = "taken" ~> request[q] \in {"answered", "dropped"}
    /\ request[q] = "waiting" ~>
         \/ request[q] \in {"answered", "dropped"}
         \/ \A h \in Handlers : handler[h] = "failed" \/ Held(h)
         \/ Stuck
=============================================================================
