--------------------------- MODULE Programs_proofs ---------------------------
(***************************************************************************)
(* The safety properties of two programs.  The first part is about the     *)
(* local gateway (Server), for any number of handlers, any requests, with  *)
(* or without a notifier, whichever threads may fail; the second about the *)
(* experiments program (Experiments), for any number of invocations and    *)
(* edits, failing anywhere.                                                *)
(***************************************************************************)
EXTENDS Server, Experiments, TLAPS

-----------------------------------------------------------------------------
(* The local gateway.                                                      *)

Fine == {"off", "ended"}         \* a thread that is over and did not fail

\* The lease is held exactly while serve runs; before it spawns its threads there is none,
\* and all of them are over when it has returned.
Whole ==
  /\ lease <=> main # "down"
  /\ main \in {"jobs", "challenges", "bind"} =>
       /\ worker = "off" /\ notifier = "off" /\ late = 0
       /\ \A h \in Handlers : handler[h] = "off"
  /\ main = "down" =>
       /\ worker \in Over /\ notifier \in Over
       /\ \A h \in Handlers : handler[h] \in Over
  /\ main \notin {"handlers", "scope"} => joined = 0

\* A worker about to claim has not claimed since the shutdown.
Claims ==
  /\ late <= 1
  /\ worker \in {"due", "next"} => late = 0
  /\ late > 0 => cancelled

\* What serve has joined is over, and its result tells whether a thread has failed.
Joins ==
  /\ main \in {"notifier", "handlers"} => worker \in Over
  /\ main = "handlers" => /\ notifier \in Fine
                          /\ \A h \in 1 .. joined : handler[h] \in Fine
  /\ main = "scope" =>
       \/ /\ result = "ok" /\ worker \in Fine /\ notifier \in Fine
          /\ \A h \in Handlers : handler[h] \in Fine
       \/ /\ result = "error"
          /\ \/ worker = "failed" \/ notifier = "failed"
             \/ \E h \in Handlers : handler[h] = "failed"

IInv == TypeOK /\ Whole /\ Claims /\ Joins

-----------------------------------------------------------------------------
\* Without threads a process has the shape it has at the start.
LEMMA NoThreadsType ==
  ASSUME NoThreads
  PROVE  /\ worker' \in Over \cup {"look", "due", "next", "execute", "wait"}
         /\ mine' \in Jobs \cup Comparisons \cup {None}
         /\ notifier' \in Over \cup {"look", "dispatch", "wait"}
         /\ handler' \in [Handlers -> Over \cup {"look", "receive", "respond", "reply"}]
         /\ serving' \in [Handlers -> Requests \cup {None}]
         /\ joined' \in 0 .. H /\ cancelled' \in BOOLEAN /\ late' \in Nat
<1>1. handler' \in [Handlers -> Over \cup {"look", "receive", "respond", "reply"}]
  BY DEF NoThreads, Over
<1>2. serving' \in [Handlers -> Requests \cup {None}] BY DEF NoThreads
<1>3. joined' \in 0 .. H /\ late' \in Nat BY ServerAssumption DEF NoThreads
<1> QED BY <1>1, <1>2, <1>3 DEF NoThreads, Over

\* Before the first launch there is no thread, no lease and nothing to join.
LEMMA InitIInv == Init => IInv
<1> USE ServerAssumption DEF Init
<1>1. Init => TypeOK
  <2> SUFFICES ASSUME Init PROVE TypeOK OBVIOUS
  <2>1. handler \in [Handlers -> Over \cup {"look", "receive", "respond", "reply"}] BY DEF Over
  <2>2. serving \in [Handlers -> Requests \cup {None}] OBVIOUS
  <2>3. request \in [Requests -> {"unsent", "waiting", "taken", "answered", "dropped"}] OBVIOUS
  <2>4. joined \in 0 .. H /\ late \in Nat OBVIOUS
  <2> QED BY <2>1, <2>2, <2>3, <2>4 DEF TypeOK, Over
<1>2. Init => Whole BY DEF Whole, Over
<1>3. Init => Claims BY DEF Claims
<1>4. Init => Joins BY DEF Joins
<1> QED BY <1>1, <1>2, <1>3, <1>4 DEF IInv

\* Every variable keeps its shape.
LEMMA TypeStep == ASSUME TypeOK, [Next]_vars PROVE TypeOK'
<1> USE ServerAssumption DEF TypeOK, Over, Requests, Handlers
<1>1. CASE Launch
  <2>1. main' = "jobs" /\ lease' = TRUE /\ result' = "none" /\ NoThreads
        /\ UNCHANGED <<request, work>>
    BY <1>1 DEF Launch
  <2> QED BY <2>1, NoThreadsType
<1>2. CASE RefuseToStart BY <1>2 DEF RefuseToStart, threads
<1>3. CASE Main
  <2>1. CASE RecoverJobs BY <2>1 DEF RecoverJobs, Interrupt, threads
  <2>2. CASE RecoverChallenges BY <2>2 DEF RecoverChallenges, Interrupt, threads
  <2>3. CASE Spawn BY <2>3 DEF Spawn
  <2>4. CASE JoinWorker BY <2>4 DEF JoinWorker, Ends, threads
  <2>5. CASE JoinNotifier BY <2>5 DEF JoinNotifier, Ends, threads
  <2>6. CASE JoinHandler BY <2>6 DEF JoinHandler, Ends, threads
  <2>7. CASE WorkerResult BY <2>7 DEF WorkerResult, Ends, threads
  <2>8. CASE Return
    <3>1. request' \in [Requests -> {"unsent", "waiting", "taken", "answered", "dropped"}]
      BY <2>8 DEF Return, Leave
    <3>2. UNCHANGED <<worker, mine, notifier, handler, serving, result, cancelled, work, late>>
      BY <2>8 DEF Return, Leave, threads
    <3>3. main' = "down" /\ lease' = FALSE /\ joined' \in 0 .. H
      BY <2>8 DEF Return, Leave
    <3> QED BY <3>1, <3>2, <3>3
  <2> QED BY <1>3, <2>1, <2>2, <2>3, <2>4, <2>5, <2>6, <2>7, <2>8 DEF Main
<1>4. CASE Worker
  <2> USE DEF WorkerKeepsOn, serve
  <2>1. CASE Look BY <2>1 DEF Look
  <2>2. ASSUME NEW q \in Jobs \cup Comparisons, Take(q), WorkerKeepsOn PROVE TypeOK'
    BY <2>2 DEF Take
  <2>3. CASE ClaimDue BY <2>3, <2>2 DEF ClaimDue, Queued
  <2>4. CASE ClaimNext BY <2>4, <2>2 DEF ClaimNext, Queued
  <2>5. CASE Execute BY <2>5 DEF Execute
  <2>6. CASE WaitOver BY <2>6 DEF WaitOver
  <2> QED BY <1>4, <2>1, <2>3, <2>4, <2>5, <2>6 DEF Worker
<1>5. CASE WorkerFails BY <1>5 DEF WorkerFails, WorkerKeepsOn, serve
<1>6. CASE Notifier
  BY <1>6 DEF Notifier, NotifierLooks, Dispatch, NotifierWaits, NotifierKeepsOn, serve
<1>7. CASE NotifierPanics BY <1>7 DEF NotifierPanics, NotifierKeepsOn, serve
<1>8. ASSUME NEW h \in Handlers, Handler(h) PROVE TypeOK'
  <2> USE DEF HandlerKeepsOn, serve
  <2>1. CASE HandlerLooks(h) BY <2>1 DEF HandlerLooks
  <2>2. CASE Receive(h)
    <3>1. CASE UNCHANGED <<serving, request>> /\ handler' = [handler EXCEPT ![h] = "look"]
      BY <2>2, <3>1 DEF Receive
    <3>2. ASSUME NEW q \in Requests, request' = [request EXCEPT ![q] = "taken"],
                 serving' = [serving EXCEPT ![h] = q], handler' = [handler EXCEPT ![h] = "respond"]
          PROVE  TypeOK'
      BY <2>2, <3>2 DEF Receive
    <3> QED BY <2>2, <3>1, <3>2 DEF Receive
  <2>3. CASE Respond(h) BY <2>3 DEF Respond
  <2>4. CASE Reply(h)
    <3>1. request' \in [Requests -> {"unsent", "waiting", "taken", "answered", "dropped"}]
      BY <2>4 DEF Reply
    <3>2. serving' \in [Handlers -> Requests \cup {None}]
      BY <2>4 DEF Reply
    <3>3. handler' \in [Handlers -> Over \cup {"look", "receive", "respond", "reply"}]
      BY <2>4 DEF Reply
    <3> QED BY <2>4, <3>1, <3>2, <3>3 DEF Reply
  <2> QED BY <1>8, <2>1, <2>2, <2>3, <2>4 DEF Handler
<1>9. ASSUME NEW h \in Handlers, HandlerFails(h) PROVE TypeOK'
  BY <1>9 DEF HandlerFails, HandlerKeepsOn, serve
<1>10. ASSUME NEW q \in Requests, Send(q) PROVE TypeOK' BY <1>10 DEF Send, serve, threads
<1>11. ASSUME NEW q \in Repeating, FallDue(q) PROVE TypeOK' BY <1>11 DEF FallDue, serve, threads
<1>12. CASE Signal BY <1>12 DEF Signal, serve, threads
<1>13. CASE Die
  <2>1. request' \in [Requests -> {"unsent", "waiting", "taken", "answered", "dropped"}]
    BY <1>13 DEF Die
  <2>2. UNCHANGED work /\ main' = "down" /\ lease' = FALSE /\ result' = "none" /\ NoThreads
    BY <1>13 DEF Die
  <2> QED BY <2>1, <2>2, NoThreadsType
<1>14. CASE UNCHANGED vars BY <1>14 DEF vars, serve, threads
<1> QED
  BY <1>1, <1>2, <1>3, <1>4, <1>5, <1>6, <1>7, <1>8, <1>9, <1>10, <1>11, <1>12, <1>13, <1>14
     DEF Next

\* The steps of serve itself.
LEMMA MainStep == ASSUME IInv, Main \/ Launch \/ RefuseToStart PROVE (Whole /\ Claims /\ Joins)'
<1> USE ServerAssumption DEF IInv, TypeOK, Whole, Claims, Joins, Over, Fine, Handlers, threads
<1>1. CASE Launch BY <1>1 DEF Launch, NoThreads
<1>2. CASE RefuseToStart BY <1>2 DEF RefuseToStart
<1>3. CASE RecoverJobs BY <1>3 DEF RecoverJobs, Interrupt
<1>4. CASE RecoverChallenges BY <1>4 DEF RecoverChallenges, Interrupt
<1>5. CASE Spawn BY <1>5 DEF Spawn
<1>6. CASE JoinWorker BY <1>6 DEF JoinWorker, Ends
<1>7. CASE JoinNotifier
  <2> USE <1>7 DEF JoinNotifier, Ends
  <2>1. CASE notifier = "failed" BY <2>1
  <2>2. CASE notifier # "failed" BY <2>2
  <2> QED BY <2>1, <2>2
<1>8. CASE JoinHandler
  <2> USE <1>8 DEF JoinHandler, Ends
  <2>1. joined + 1 \in Handlers BY DEF Handlers
  <2>2. CASE handler[joined + 1] = "failed" BY <2>1, <2>2
  <2>3. CASE handler[joined + 1] # "failed"
    <3>1. main' = "handlers" /\ joined' = joined + 1 /\ UNCHANGED <<cancelled, lease, threads, late>>
      BY <2>3
    <3>2. \A h \in 1 .. joined' : handler'[h] \in Fine
      BY <2>1, <2>3, <3>1
    <3> QED BY <3>1, <3>2
  <2> QED BY <2>2, <2>3
<1>9. CASE WorkerResult BY <1>9 DEF WorkerResult, Ends
<1>10. CASE Return BY <1>10 DEF Return, Leave
<1> QED BY <1>1, <1>2, <1>3, <1>4, <1>5, <1>6, <1>7, <1>8, <1>9, <1>10 DEF Main

\* The steps of the worker and of the notifier, which are not over when they take one.
LEMMA ThreadStep ==
  ASSUME IInv, Worker \/ WorkerFails \/ Notifier \/ NotifierPanics
  PROVE  (Whole /\ Claims /\ Joins)'
<1> USE DEF IInv, TypeOK, Whole, Claims, Joins, Over, Fine, serve
<1>1. CASE Look BY <1>1 DEF Look, WorkerKeepsOn
<1>2. CASE ClaimDue BY <1>2 DEF ClaimDue, Take, WorkerKeepsOn
<1>3. CASE ClaimNext BY <1>3 DEF ClaimNext, Take, WorkerKeepsOn
<1>4. CASE Execute BY <1>4 DEF Execute, WorkerKeepsOn
<1>5. CASE WaitOver BY <1>5 DEF WaitOver, WorkerKeepsOn
<1>6. CASE WorkerFails BY <1>6 DEF WorkerFails, WorkerKeepsOn
<1>7. CASE NotifierLooks BY <1>7 DEF NotifierLooks, NotifierKeepsOn
<1>8. CASE Dispatch BY <1>8 DEF Dispatch, NotifierKeepsOn
<1>9. CASE NotifierWaits BY <1>9 DEF NotifierWaits, NotifierKeepsOn
<1>10. CASE NotifierPanics BY <1>10 DEF NotifierPanics, NotifierKeepsOn
<1> QED
  BY <1>1, <1>2, <1>3, <1>4, <1>5, <1>6, <1>7, <1>8, <1>9, <1>10 DEF Worker, Notifier

\* The steps of a handler: it is not over, so neither joined as fine nor part of a success.
LEMMA HandlerStep ==
  ASSUME IInv, NEW h \in Handlers, Handler(h) \/ HandlerFails(h)
  PROVE  (Whole /\ Claims /\ Joins)'
<1> USE ServerAssumption
    DEF IInv, TypeOK, Whole, Claims, Joins, Over, Fine, Handlers, HandlerKeepsOn, serve
<1>1. CASE HandlerLooks(h) BY <1>1 DEF HandlerLooks
<1>2. CASE Receive(h) BY <1>2 DEF Receive
<1>3. CASE Respond(h) BY <1>3 DEF Respond
<1>4. CASE Reply(h) BY <1>4 DEF Reply
<1>5. CASE HandlerFails(h) BY <1>5 DEF HandlerFails
<1> QED BY <1>1, <1>2, <1>3, <1>4, <1>5 DEF Handler

\* Clients, signals, the clock and the death of the process.
LEMMA OutsideStep ==
  ASSUME IInv, Signal \/ Die \/ (\E q \in Requests : Send(q)) \/ (\E q \in Repeating : FallDue(q))
  PROVE  (Whole /\ Claims /\ Joins)'
<1> USE DEF IInv, TypeOK, Whole, Claims, Joins, serve, threads
<1>1. CASE Signal BY <1>1 DEF Signal
<1>2. CASE Die BY <1>2, ServerAssumption DEF Die, NoThreads, Handlers, Over
<1>3. ASSUME NEW q \in Requests, Send(q) PROVE (Whole /\ Claims /\ Joins)' BY <1>3 DEF Send
<1>4. ASSUME NEW q \in Repeating, FallDue(q) PROVE (Whole /\ Claims /\ Joins)' BY <1>4 DEF FallDue
<1> QED BY <1>1, <1>2, <1>3, <1>4

\* Every step of the gateway and of its surroundings keeps the invariant.
LEMMA IInvStep == ASSUME IInv, [Next]_vars PROVE IInv'
<1>1. TypeOK' BY TypeStep DEF IInv
<1>2. (Whole /\ Claims /\ Joins)'
  <2>1. CASE UNCHANGED vars
    BY <2>1 DEF IInv, Whole, Claims, Joins, vars, serve, threads
  <2> QED BY <2>1, MainStep, ThreadStep, HandlerStep, OutsideStep DEF Next
<1> QED BY <1>1, <1>2 DEF IInv

-----------------------------------------------------------------------------
\* The inductive invariant of the gateway.
THEOREM IInvariant == Spec => []IInv
BY InitIInv, IInvStep, PTL DEF Spec

\* Every variable of the gateway keeps its shape.
THEOREM TypeCorrect == Spec => []TypeOK
<1>1. IInv => TypeOK BY DEF IInv
<1> QED BY <1>1, IInvariant, PTL

\* No thread of a gateway outlives its runner lease, however serve ends: whichever error makes
\* serve leave its scope early, the lease is dropped only after every thread is over.
THEOREM LeaseOutlivesThreads == Spec => []LeaseCovers
<1>1. IInv => LeaseCovers BY DEF IInv, Whole, LeaseCovers
<1> QED BY <1>1, IInvariant, PTL

\* At most one item is claimed after the shutdown was cancelled.
THEOREM LateClaimsBounded == Spec => []OneLateClaim
<1>1. IInv => OneLateClaim BY DEF IInv, Claims, OneLateClaim
<1> QED BY <1>1, IInvariant, PTL

\* serve returns success exactly when none of its threads failed.
THEOREM ResultIsHonest == Spec => []ResultHonest
<1>1. IInv => ResultHonest BY DEF IInv, Joins, Fine, ResultHonest
<1> QED BY <1>1, IInvariant, PTL

-----------------------------------------------------------------------------
(* The experiments program.                                                *)

\* The three documents.
Files == 1..3

\* A run is counted before it writes anything, and the last one that ended well is one of them.
RunsCounted ==
  /\ runs \in Nat /\ finished \in Nat
  /\ phase \in {"off", "running", "writing", "truncated"}
  /\ phase = "off" => finished <= runs
  /\ phase # "off" => finished < runs

\* Every document is of a run that was, and none of this one before it writes.
DocsDated ==
  /\ DOMAIN docs = Files
  /\ \A d \in Files : docs[d].by \in Nat /\ docs[d].by <= runs
  /\ phase = "running" => \A d \in Files : docs[d].by < runs

\* What this run wrote whole are the reports it holds; only within a write is one cut short.
DocsOfRun ==
  /\ phase \in {"writing", "truncated"} =>
       \A d \in Files : docs[d].by = runs /\ docs[d].whole => docs[d].reports = reports
  /\ phase = "truncated" => \E d \in Files : ~docs[d].whole

DocsInv == RunsCounted /\ DocsDated /\ DocsOfRun /\ DocsAgree

\* What is written next is the first document that is not this run's: all before it are.
LEMMA NextIsFirst ==
  ASSUME DocsInv, Outdated # {}
  PROVE  /\ NextDocument \in Files
         /\ \A d \in Files : d < NextDocument => docs[d].by = runs /\ docs[d].whole
<1>1. Outdated \subseteq Files
  BY DEF Outdated, DocsInv, DocsDated
<1>2. \E d \in Outdated : \A e \in Outdated : d <= e
  <2>1. \A e \in Outdated : e \in {1, 2, 3}
    BY <1>1 DEF Files
  <2>2. CASE 1 \in Outdated
    BY <2>1, <2>2
  <2>3. CASE 1 \notin Outdated /\ 2 \in Outdated
    BY <2>1, <2>3
  <2>4. CASE 1 \notin Outdated /\ 2 \notin Outdated
    BY <2>1, <2>4
  <2> QED BY <2>2, <2>3, <2>4
<1>3. /\ NextDocument \in Outdated
      /\ \A e \in Outdated : NextDocument <= e
  BY <1>2 DEF NextDocument
<1>4. \A d \in Files : d \notin Outdated => docs[d].by = runs /\ docs[d].whole
  BY DEF Outdated, DocsInv, DocsDated
<1>5. \A d \in Files : d < NextDocument => d \notin Outdated
  BY <1>1, <1>3 DEF Files
<1> QED BY <1>1, <1>3, <1>4, <1>5

\* A document of this run may take the place of the next one: the order of their ages, and
\* what whole documents of one run show, stay.
LEMMA WriteKeepsOrder ==
  ASSUME DocsInv, Outdated # {}, phase \in {"writing", "truncated"},
         NEW whole \in BOOLEAN, NEW text, whole => text = reports,
         docs' = [docs EXCEPT ![NextDocument] =
                    [by |-> runs, reports |-> text, whole |-> whole]],
         UNCHANGED <<runs, finished, reports>>
  PROVE  /\ DocsDated' \/ phase' = "running"
         /\ \A d \in Files : docs'[d].by = runs /\ docs'[d].whole => docs'[d].reports = reports
         /\ DocsAgree'
         /\ docs'[NextDocument].whole = whole /\ NextDocument \in Files
<1> DEFINE n == NextDocument
<1>1. n \in Files /\ \A d \in Files : d < n => docs[d].by = runs
  BY NextIsFirst
<1> HIDE DEF n
<1>2. DOMAIN docs = Files /\ DOMAIN docs' = Files
  BY DEF DocsInv, DocsDated, n
<1>3. /\ docs'[n].by = runs /\ docs'[n].whole = whole /\ docs'[n].reports = text
      /\ \A d \in Files \ {n} : docs'[d] = docs[d]
  BY <1>1, <1>2 DEF n
<1>4. /\ runs \in Nat /\ finished \in Nat /\ finished < runs
      /\ \A d \in Files : docs[d].by \in Nat /\ docs[d].by <= runs
      /\ \A d \in Files : docs[d].by = runs /\ docs[d].whole => docs[d].reports = reports
  BY DEF DocsInv, RunsCounted, DocsDated, DocsOfRun
<1>5. \A d \in Files : docs'[d].by \in Nat /\ docs'[d].by <= runs
  BY <1>3, <1>4
<1>6. \A d \in Files : docs'[d].by = runs /\ docs'[d].whole => docs'[d].reports = reports
  BY <1>3, <1>4
<1>7. \A d, e \in Files : d < e => docs'[e].by <= docs'[d].by
  <2> TAKE d, e \in Files
  <2> HAVE d < e
  <2>1. docs[e].by <= docs[d].by
    BY <1>2 DEF DocsInv, DocsAgree
  <2>2. CASE d = n
    BY <1>3, <1>5, <2>2
  <2>3. CASE e = n
    BY <1>1, <1>3, <1>4, <2>3
  <2>4. CASE d # n /\ e # n
    BY <1>3, <2>1, <2>4
  <2> QED BY <2>2, <2>3, <2>4
<1>8. \A d, e \in Files : docs'[d].by = docs'[e].by /\ docs'[d].whole /\ docs'[e].whole
                            => docs'[d].reports = docs'[e].reports
  <2> TAKE d, e \in Files
  <2> HAVE docs'[d].by = docs'[e].by /\ docs'[d].whole /\ docs'[e].whole
  <2>1. CASE d = n \/ e = n
    BY <1>3, <1>6, <2>1
  <2>2. CASE d # n /\ e # n
    BY <1>2, <1>3, <2>2 DEF DocsInv, DocsAgree
  <2> QED BY <2>1, <2>2
<1>9. ~(\A d \in Files : docs'[d].by <= finished)
  BY <1>1, <1>3, <1>4
<1>10. DocsAgree'
  BY <1>2, <1>7, <1>8, <1>9 DEF DocsAgree
<1> QED BY <1>1, <1>2, <1>3, <1>5, <1>6, <1>10 DEF DocsDated, n

\* Every step of the program, and every edit, keeps the documents together.
LEMMA DocsInvStep ==
  ASSUME DocsInv, [ProgramNext]_allVars
  PROVE  DocsInv'
<1> USE DEF DocsInv
<1>0. ASSUME UNCHANGED <<docs, finished>> PROVE DocsAgree'
  BY <1>0 DEF DocsAgree
<1>1. CASE Start
  BY <1>0, <1>1 DEF Start, RunsCounted, DocsDated, DocsOfRun
<1>2. CASE RunSuite
  BY <1>0, <1>2 DEF RunSuite, RunsCounted, DocsDated, DocsOfRun
<1>3. CASE Summarise
  BY <1>0, <1>3 DEF Summarise, RunsCounted, DocsDated, DocsOfRun
<1>4. CASE Truncate
  <2>1. /\ phase = "writing" /\ Outdated # {} /\ phase' = "truncated"
        /\ docs' = [docs EXCEPT ![NextDocument] =
                      [by |-> runs, reports |-> <<>>, whole |-> FALSE]]
        /\ UNCHANGED <<runs, finished, reports>>
    BY <1>4 DEF Truncate
  <2>2. /\ DocsDated' /\ DocsAgree' /\ NextDocument \in Files
        /\ ~docs'[NextDocument].whole
        /\ \A d \in Files : docs'[d].by = runs /\ docs'[d].whole => docs'[d].reports = reports
    BY <2>1, WriteKeepsOrder
  <2> QED BY <2>1, <2>2 DEF RunsCounted, DocsOfRun
<1>5. CASE Fill
  <2>1. /\ phase = "truncated" /\ phase' = "writing"
        /\ docs' = [docs EXCEPT ![NextDocument] =
                      [by |-> runs, reports |-> reports, whole |-> TRUE]]
        /\ UNCHANGED <<runs, finished, reports>>
    BY <1>5 DEF Fill, Rendered
  <2>2. Outdated # {}
    BY <2>1 DEF DocsOfRun, DocsDated, Outdated
  <2>3. /\ DocsDated' /\ DocsAgree'
        /\ \A d \in Files : docs'[d].by = runs /\ docs'[d].whole => docs'[d].reports = reports
    BY <2>1, <2>2, WriteKeepsOrder
  <2> QED BY <2>1, <2>3 DEF RunsCounted, DocsOfRun
<1>6. CASE Succeed
  <2>1. \A d \in Files : docs[d].by = runs /\ docs[d].whole
    BY <1>6 DEF Succeed, Outdated, DocsDated
  <2>2. UNCHANGED <<docs, runs, reports>> /\ phase' = "off" /\ finished' = runs
    BY <1>6 DEF Succeed
  <2>3. DocsAgree'
    <3>1. \A d, e \in Files : d < e => docs[e].by <= docs[d].by
      BY DEF DocsDated, DocsAgree
    <3>2. \A d, e \in Files : docs[d].by = docs[e].by /\ docs[d].whole /\ docs[e].whole
                                => docs[d].reports = docs[e].reports
      BY DEF DocsDated, DocsAgree
    <3> QED BY <2>1, <2>2, <3>1, <3>2 DEF DocsDated, DocsAgree
  <2> QED BY <2>2, <2>3 DEF RunsCounted, DocsDated, DocsOfRun
<1>7. CASE Fail
  BY <1>0, <1>7 DEF Fail, RunsCounted, DocsDated, DocsOfRun
<1>8. CASE Edit
  BY <1>0, <1>8 DEF Edit, program, RunsCounted, DocsDated, DocsOfRun
<1>9. CASE UNCHANGED allVars
  BY <1>0, <1>9 DEF allVars, RunsCounted, DocsDated, DocsOfRun
<1> QED BY <1>1, <1>2, <1>3, <1>4, <1>5, <1>6, <1>7, <1>8, <1>9 DEF ProgramNext

\* Every document that main wrote to the end tells of one run, whatever failed and whoever
\* edited the sources meanwhile: for any number of invocations, kills and edits the documents
\* never disagree without a run having failed, and then none is newer than one before it.
THEOREM DocumentsAgree == ProgramSpec => []DocsAgree
<1>1. ProgramInit => DocsInv
  BY DEF ProgramInit, Committed, Documents, Files, DocsInv, RunsCounted, DocsDated, DocsOfRun,
     DocsAgree
<1>2. DocsInv /\ [ProgramNext]_allVars => DocsInv'
  BY DocsInvStep
<1> QED BY <1>1, <1>2, PTL DEF ProgramSpec, DocsInv
==============================================================================
