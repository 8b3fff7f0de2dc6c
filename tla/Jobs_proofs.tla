---------------------------- MODULE Jobs_proofs ----------------------------
(***************************************************************************)
(* Proofs about the job store for any jobs, runners, schedules and bounds: *)
(* types, the durability of a claim, no automatic replay, that the store   *)
(* implements AtMostOnce, and that a record's status, outcome, error and   *)
(* slots tell one story.                                                   *)
(***************************************************************************)
EXTENDS Jobs, TLAPS

(***************************************************************************)
(* Operators on one stored record keep its type.                           *)
(***************************************************************************)

\* Every computed due time is representable.
LEMMA NextDueInTimes ==
  ASSUME NEW f, clock \in Times
  PROVE  NextDue(f) \subseteq Times
BY JobsAssumption DEF NextDue, NextAfter, LaterSlots, Times

\* What clients and runners write over a record is a record.
LEMMA RecordUpdates ==
  ASSUME NEW f \in Job
  PROVE  /\ AfterCancel(f) \in Job
         /\ Interrupted(f) \in Job
         /\ Claimed(f) \in Job
         /\ \A o \in Outcomes : Finished(f, o) \in Job
<1>1. AfterCancel(f) \in Job
  BY DEF AfterCancel, Job, Statuses
<1>2. Interrupted(f) \in Job
  BY DEF Interrupted, Job, Statuses
<1>3. Claimed(f) \in Job
  <2>1. f.run_id + 1 \in Nat
    BY DEF Job
  <2>2. \A n \in Nat : [f EXCEPT !.status = "running", !.result = 0, !.error = FALSE,
                                 !.run_id = n] \in Job
    BY DEF Job, Statuses
  <2> QED BY <2>1, <2>2 DEF Claimed
<1>4. ASSUME NEW o \in Outcomes PROVE Finished(f, o) \in Job
  BY DEF Finished, Job, Statuses, Outcomes
<1> QED BY <1>1, <1>2, <1>3, <1>4

\* The commit rewrites status, last status, result and error, and nothing else.
LEMMA FinishedFields ==
  ASSUME NEW f \in Job, NEW o \in Outcomes
  PROVE  /\ Finished(f, o) \in Job
         /\ Finished(f, o).status \notin {"absent", "queued", "running"}
         /\ Finished(f, o).cancel_requested = f.cancel_requested
         /\ Finished(f, o).kind = f.kind
<1>1. Finished(f, o) \in Job
  BY RecordUpdates
<1>2. Finished(f, o).status = IF o = "error" THEN "failed" ELSE o
  BY DEF Finished, Job
<1>3. Finished(f, o).cancel_requested = f.cancel_requested /\ Finished(f, o).kind = f.kind
  BY DEF Finished, Job
<1> QED BY <1>1, <1>2, <1>3 DEF Outcomes

\* A process that ends leaves typed memory behind.
LEMMA GoneTyped ==
  ASSUME TypeOK, NEW r \in Runners, Gone(r)
  PROVE  /\ lease' \in Runners \cup {Nobody}
         /\ pc' \in [Runners -> {"down", "recover", "loop", "claim", "claimed", "running", "ran"}]
         /\ mode' \in [Runners -> {"serve", "batch"}]
         /\ shutdown' \in [Runners -> BOOLEAN]
         /\ processed' \in [Runners -> Seq(JobIds)]
         /\ mine' \in [Runners -> [id : JobIds \cup {"none"}, run_id : Nat]]
         /\ control' \in [Runners -> BOOLEAN]
         /\ outcome' \in [Runners -> Outcomes]
BY DEF TypeOK, Gone, NoClaim, Outcomes

(***************************************************************************)
(* What the other invariants need: who holds the runner lease, whose claim *)
(* the stored record is, and how starts, renewals and run ids relate.      *)
(***************************************************************************)

\* A live runner holds the runner lease, so there is one at most.
OneRunner == \A r \in Runners : pc[r] # "down" => lease = r

\* From claim to commit the stored record is the runner's claim.
ClaimsHeld == \A r \in Runners : pc[r] \in {"claimed", "running", "ran"} => HoldsClaim(r)

\* A queued job has used every slot it was granted, a running one is using the last.
Counted ==
  \A j \in JobIds :
     /\ starts[j] <= renewals[j] + 1
     /\ job[j].status = "absent" => starts[j] = 0 /\ renewals[j] = 0
     /\ job[j].status = "queued" => starts[j] = renewals[j]

\* The run a runner is about to start has not been started; the one it executes has.
StartsOfClaim ==
  \A r \in Runners :
     /\ pc[r] = "claimed" => starts[mine[r].id] = renewals[mine[r].id]
     /\ pc[r] \in {"running", "ran"} => starts[mine[r].id] = renewals[mine[r].id] + 1

IInv == TypeOK /\ OneRunner /\ ClaimsHeld /\ Counted /\ StartsOfClaim

-----------------------------------------------------------------------------
\* An empty store with no runner is in the invariant.
LEMMA InitIInv == Init => IInv
<1> SUFFICES ASSUME Init PROVE IInv
  OBVIOUS
<1>1. TypeOK
  <2>1. NoJob \in Job
    BY JobsAssumption DEF NoJob, Job, Statuses, Kinds, Times, Outcomes
  <2>2. 0 \in Times
    BY JobsAssumption DEF Times
  <2>3. NoClaim \in [id : JobIds \cup {"none"}, run_id : Nat]
    BY DEF NoClaim
  <2>4. <<>> \in Seq(JobIds)
    OBVIOUS
  <2> QED BY <2>1, <2>2, <2>3, <2>4 DEF Init, TypeOK, Outcomes
<1>2. OneRunner /\ ClaimsHeld /\ StartsOfClaim
  BY DEF Init, OneRunner, ClaimsHeld, StartsOfClaim
<1>3. Counted
  BY DEF Init, Counted, NoJob
<1> QED BY <1>1, <1>2, <1>3 DEF IInv

\* Types are preserved by every step.
LEMMA NextTypeOK == TypeOK /\ [Next]_vars => TypeOK'
<1> SUFFICES ASSUME TypeOK, [Next]_vars PROVE TypeOK'
  OBVIOUS
<1> USE DEF files, process
<1>1. ASSUME NEW j \in JobIds, NEW kind \in Kinds, NEW due \in Times, Enqueue(j, kind, due)
      PROVE  TypeOK'
  <2>1. [NoJob EXCEPT !.status = "queued", !.kind = kind, !.due_at = due] \in Job
    BY JobsAssumption DEF NoJob, Job, Statuses, Kinds, Times, Outcomes
  <2> QED BY <1>1, <2>1 DEF Enqueue, TypeOK
<1>2. ASSUME NEW j \in JobIds, Cancel(j) PROVE TypeOK'
  BY <1>2, RecordUpdates DEF Cancel, TypeOK
<1>3. ASSUME NEW r \in Runners, NEW m \in Modes, Launch(r, m) PROVE TypeOK'
  BY <1>3, JobsAssumption DEF Launch, TypeOK
<1>31. ASSUME NEW r \in Runners, RecoveryDone(r) \/ KeepGoing(r) \/ IdleServe(r) PROVE TypeOK'
  BY <1>31 DEF RecoveryDone, KeepGoing, IdleServe, TypeOK
<1>32. ASSUME NEW r \in Runners, Signal(r) \/ Monitor(r) PROVE TypeOK'
  BY <1>32 DEF Signal, Monitor, TypeOK
<1>33. ASSUME NEW r \in Runners, NEW o \in Outcomes, Finish(r, o) PROVE TypeOK'
  BY <1>33 DEF Finish, TypeOK
<1>4. ASSUME NEW r \in Runners, Crash(r) \/ Stop(r) \/ IdleBatch(r) PROVE TypeOK'
  BY <1>4, GoneTyped DEF Crash, Stop, IdleBatch, TypeOK
<1>5. ASSUME NEW r \in Runners, NEW j \in JobIds, RecoverJob(r, j) PROVE TypeOK'
  BY <1>5, RecordUpdates DEF RecoverJob, TypeOK
<1>6. ASSUME NEW r \in Runners, NEW j \in JobIds, Claim(r, j) PROVE TypeOK'
  <2>1. job' \in [JobIds -> Job]
    BY <1>6, RecordUpdates DEF Claim, Granted, TypeOK
  <2>2. mine' \in [Runners -> [id : JobIds \cup {"none"}, run_id : Nat]]
    BY <1>6 DEF Claim, Granted, TypeOK, Job
  <2>3. processed' \in [Runners -> Seq(JobIds)]
    BY <1>6 DEF Claim, Granted, TypeOK
  <2> QED BY <1>6, <2>1, <2>2, <2>3 DEF Claim, Granted, TypeOK
<1>7. ASSUME NEW r \in Runners, Start(r) PROVE TypeOK'
  <2>1. control' \in [Runners -> BOOLEAN]
    BY <1>7 DEF Start, HoldsClaim, TypeOK, Job
  <2>2. starts' \in [JobIds -> Nat]
    BY <1>7 DEF Start, HoldsClaim, TypeOK
  <2> QED BY <1>7, <2>1, <2>2 DEF Start, TypeOK
<1>8. ASSUME NEW r \in Runners, CommitFinal(r) PROVE TypeOK'
  <2>1. job' \in [JobIds -> Job]
    <3> DEFINE j == mine[r].id
               f == Finished(job[j], outcome[r])
    <3>1. CASE j \in JobIds
      <4>1. f \in Job
        BY <3>1, RecordUpdates DEF TypeOK
      <4>2. [f EXCEPT !.status = "failed", !.error = TRUE] \in Job
        BY <4>1 DEF Job, Statuses
      <4> QED BY <1>8, <4>1, <4>2 DEF CommitFinal, TypeOK
    <3>2. CASE j \notin JobIds
      BY <1>8, <3>2 DEF CommitFinal, TypeOK
    <3> QED BY <3>1, <3>2
  <2>2. mine' \in [Runners -> [id : JobIds \cup {"none"}, run_id : Nat]]
    BY <1>8 DEF CommitFinal, Released, NoClaim, TypeOK
  <2> QED BY <1>8, <2>1, <2>2 DEF CommitFinal, Released, TypeOK, Outcomes
<1>9. ASSUME NEW r \in Runners, CommitAgain(r) PROVE TypeOK'
  <2>1. job' \in [JobIds -> Job]
    <3> DEFINE j == mine[r].id
               f == Finished(job[j], outcome[r])
    <3>0. PICK due \in NextDue(job[j]) :
             job' = [job EXCEPT ![j] = [f EXCEPT !.status = "queued", !.due_at = due]]
      BY <1>9 DEF CommitAgain
    <3>1. CASE j \in JobIds
      <4>1. f \in Job
        BY <3>1, RecordUpdates DEF TypeOK
      <4>2. due \in Times
        BY NextDueInTimes DEF TypeOK
      <4>3. [f EXCEPT !.status = "queued", !.due_at = due] \in Job
        BY <4>1, <4>2 DEF Job, Statuses
      <4> QED BY <3>0, <4>3 DEF TypeOK
    <3>2. CASE j \notin JobIds
      BY <3>0, <3>2 DEF TypeOK
    <3> QED BY <3>1, <3>2
  <2>2. mine' \in [Runners -> [id : JobIds \cup {"none"}, run_id : Nat]]
    BY <1>9 DEF CommitAgain, Released, NoClaim, TypeOK
  <2>3. renewals' \in [JobIds -> Nat]
    <3>1. CASE mine[r].id \in JobIds
      BY <1>9, <3>1 DEF CommitAgain, TypeOK
    <3>2. CASE mine[r].id \notin JobIds
      BY <1>9, <3>2 DEF CommitAgain, TypeOK
    <3> QED BY <3>1, <3>2
  <2> QED BY <1>9, <2>1, <2>2, <2>3 DEF CommitAgain, Released, TypeOK, Outcomes
<1>10. CASE Tick \/ StepBack
  BY <1>10, JobsAssumption DEF Tick, StepBack, TypeOK, Times
<1>11. CASE UNCHANGED vars
  BY <1>11 DEF vars, TypeOK
<1> QED
  BY <1>1, <1>2, <1>3, <1>31, <1>32, <1>33, <1>4, <1>5, <1>6, <1>7, <1>8, <1>9, <1>10, <1>11
  DEF Next, Client, Runner, RunnerStep

-----------------------------------------------------------------------------
\* Every step keeps the lease, the claims and the counters in step.
LEMMA NextIInv == IInv /\ [Next]_vars => IInv'
<1> SUFFICES ASSUME IInv, [Next]_vars PROVE IInv'
  OBVIOUS
<1> USE DEF IInv, files, process
<1>0. TypeOK'
  BY NextTypeOK
<1> DEFINE Rest == OneRunner /\ ClaimsHeld /\ Counted /\ StartsOfClaim
<1>1. ASSUME NEW j \in JobIds, NEW kind \in Kinds, NEW due \in Times, Enqueue(j, kind, due)
      PROVE  Rest'
  <2>1. job' = [job EXCEPT ![j] = [NoJob EXCEPT !.status = "queued", !.kind = kind,
                                                !.due_at = due]]
    BY <1>1 DEF Enqueue
  <2>2. job[j].status = "absent" /\ job'[j].status = "queued"
    BY <1>1, <2>1 DEF Enqueue, NoJob, TypeOK
  <2>3. \A i \in JobIds : i # j => job'[i] = job[i]
    BY <2>1 DEF TypeOK
  <2>4. \A r \in Runners : HoldsClaim(r) => HoldsClaim(r)'
    BY <1>1, <2>2, <2>3 DEF HoldsClaim, Enqueue
  <2>5. Counted'
    BY <1>1, <2>2, <2>3 DEF Counted, Enqueue
  <2> QED BY <1>1, <2>4, <2>5 DEF Enqueue, OneRunner, ClaimsHeld, StartsOfClaim
<1>2. ASSUME NEW j \in JobIds, Cancel(j) PROVE Rest'
  <2>1. /\ job'[j].run_id = job[j].run_id
        /\ job'[j].status \in {job[j].status, "cancelled"}
        /\ job[j].status = "running" => job'[j].status = "running"
    BY <1>2 DEF Cancel, AfterCancel, TypeOK, Job
  <2>2. \A i \in JobIds : i # j => job'[i] = job[i]
    BY <1>2 DEF Cancel, TypeOK
  <2>3. \A r \in Runners : HoldsClaim(r) => HoldsClaim(r)'
    BY <1>2, <2>1, <2>2 DEF HoldsClaim, Cancel
  <2>4. Counted'
    BY <1>2, <2>1, <2>2 DEF Counted, Cancel
  <2> QED BY <1>2, <2>3, <2>4 DEF Cancel, OneRunner, ClaimsHeld, StartsOfClaim
<1>3. ASSUME NEW r \in Runners, NEW m \in Modes, Launch(r, m) PROVE Rest'
  <2>1. /\ \A q \in Runners : pc[q] = "down"
        /\ pc'[r] = "recover" /\ lease' = r
        /\ \A q \in Runners : q # r => pc'[q] = "down"
        /\ UNCHANGED files
    BY <1>3, NobodyAssumption DEF Launch, LeaseFree, TypeOK, OneRunner
  <2> QED BY <2>1 DEF OneRunner, ClaimsHeld, Counted, StartsOfClaim
<1>4. ASSUME NEW r \in Runners, NEW j \in JobIds, RecoverJob(r, j) PROVE Rest'
  <2>1. \A q \in Runners : pc[q] \notin {"claimed", "running", "ran"}
    BY <1>4 DEF RecoverJob, OneRunner
  <2>2. job'[j].status = "interrupted" /\ \A i \in JobIds : i # j => job'[i] = job[i]
    BY <1>4 DEF RecoverJob, Interrupted, TypeOK, Job
  <2>3. Counted'
    BY <1>4, <2>2 DEF Counted, RecoverJob
  <2> QED BY <1>4, <2>1, <2>3 DEF RecoverJob, OneRunner, ClaimsHeld, StartsOfClaim
<1>5. ASSUME NEW r \in Runners, RecoveryDone(r) \/ KeepGoing(r) \/ IdleServe(r) PROVE Rest'
  <2>1. /\ pc[r] # "down" /\ pc'[r] \in {"loop", "claim"}
        /\ \A q \in Runners : q # r => pc'[q] = pc[q]
        /\ UNCHANGED <<files, lease, mine>>
    BY <1>5 DEF RecoveryDone, KeepGoing, IdleServe, TypeOK
  <2>2. OneRunner' /\ StartsOfClaim'
    BY <2>1 DEF OneRunner, StartsOfClaim
  <2>3. ClaimsHeld'
    BY <2>1 DEF ClaimsHeld, HoldsClaim
  <2> QED BY <2>1, <2>2, <2>3 DEF Counted
<1>6. ASSUME NEW r \in Runners, Crash(r) \/ Stop(r) \/ IdleBatch(r) PROVE Rest'
  <2>1. /\ pc[r] # "down" /\ pc'[r] = "down"
        /\ \A q \in Runners : q # r => pc[q] = "down" /\ pc'[q] = "down"
        /\ UNCHANGED files
    BY <1>6 DEF Crash, Stop, IdleBatch, Gone, TypeOK, OneRunner
  <2> QED BY <2>1 DEF OneRunner, ClaimsHeld, Counted, StartsOfClaim
<1>7. ASSUME NEW r \in Runners, Signal(r) \/ Monitor(r) PROVE Rest'
  BY <1>7 DEF Signal, Monitor, OneRunner, ClaimsHeld, Counted, StartsOfClaim, HoldsClaim
<1>8. ASSUME NEW r \in Runners, NEW j \in JobIds, Claim(r, j) PROVE Rest'
  <2>1. /\ job[j].status = "queued"
        /\ job'[j].status = "running" /\ job'[j].run_id = job[j].run_id + 1
        /\ \A i \in JobIds : i # j => job'[i] = job[i]
    BY <1>8 DEF Claim, Granted, Due, Queued, Claimed, TypeOK, Job
  <2>2. /\ mine'[r] = [id |-> j, run_id |-> job[j].run_id + 1]
        /\ pc[r] = "claim" /\ pc'[r] = "claimed"
        /\ \A q \in Runners : q # r => pc[q] = "down" /\ pc'[q] = "down"
    BY <1>8 DEF Claim, Granted, TypeOK, OneRunner
  <2>3. ClaimsHeld'
    BY <2>1, <2>2 DEF ClaimsHeld, HoldsClaim
  <2>4. Counted'
    BY <1>8, <2>1 DEF Counted, Claim, Granted
  <2>5. StartsOfClaim'
    BY <1>8, <2>1, <2>2 DEF StartsOfClaim, Counted, Claim, Granted
  <2> QED BY <1>8, <2>2, <2>3, <2>4, <2>5 DEF Claim, Granted, OneRunner
<1>9. ASSUME NEW r \in Runners, Start(r) PROVE Rest'
  <2> DEFINE j == mine[r].id
  <2>1. /\ j \in JobIds /\ job[j].status = "running" /\ starts[j] = renewals[j]
        /\ starts'[j] = starts[j] + 1
        /\ \A i \in JobIds : i # j => starts'[i] = starts[i]
    BY <1>9 DEF Start, HoldsClaim, TypeOK, StartsOfClaim
  <2>2. /\ pc'[r] = "running"
        /\ \A q \in Runners : q # r => pc[q] = "down" /\ pc'[q] = "down"
    BY <1>9 DEF Start, TypeOK, OneRunner
  <2>3. Counted'
    BY <1>9, <2>1 DEF Counted, Start, TypeOK
  <2>4. StartsOfClaim'
    BY <1>9, <2>1, <2>2 DEF StartsOfClaim, Start
  <2> QED BY <1>9, <2>2, <2>3, <2>4 DEF Start, OneRunner, ClaimsHeld, HoldsClaim
<1>10. ASSUME NEW r \in Runners, NEW o \in Outcomes, Finish(r, o) PROVE Rest'
  BY <1>10 DEF Finish, TypeOK, OneRunner, ClaimsHeld, Counted, StartsOfClaim, HoldsClaim
<1>11. ASSUME NEW r \in Runners, CommitFinal(r) \/ CommitAgain(r) PROVE Rest'
  <2> DEFINE j == mine[r].id
  <2>1. /\ j \in JobIds /\ job[j].status = "running"
        /\ starts[j] = renewals[j] + 1
    BY <1>11 DEF CommitFinal, CommitAgain, ClaimsHeld, HoldsClaim, StartsOfClaim
  <2>2. /\ pc'[r] = "loop"
        /\ \A q \in Runners : q # r => pc[q] = "down" /\ pc'[q] = "down"
    BY <1>11 DEF CommitFinal, CommitAgain, TypeOK, OneRunner
  <2>3. \A i \in JobIds : i # j => job'[i] = job[i] /\ renewals'[i] = renewals[i]
    BY <1>11 DEF CommitFinal, CommitAgain, TypeOK
  <2>4. Counted'
    <3>1. CASE CommitFinal(r)
      <4>1. job'[j].status \notin {"absent", "queued"}
        <5> DEFINE f == Finished(job[j], outcome[r])
        <5>1. f.status \notin {"absent", "queued"}
          <6>1. job[j] \in Job /\ outcome[r] \in Outcomes
            BY <2>1 DEF TypeOK
          <6> QED BY <6>1, FinishedFields
        <5>2. job'[j] = f \/ job'[j] = [f EXCEPT !.status = "failed", !.error = TRUE]
          BY <2>1, <3>1 DEF CommitFinal, TypeOK
        <5>3. [f EXCEPT !.status = "failed", !.error = TRUE].status = "failed"
          BY <2>1, RecordUpdates DEF TypeOK, Job
        <5> QED BY <5>1, <5>2, <5>3
      <4> QED BY <2>1, <2>3, <3>1, <4>1 DEF Counted, CommitFinal
    <3>2. CASE CommitAgain(r)
      <4>1. job'[j].status = "queued" /\ renewals'[j] = renewals[j] + 1 /\ starts' = starts
        BY <2>1, <3>2 DEF CommitAgain, Finished, TypeOK, Job
      <4>2. starts'[j] <= renewals'[j] + 1 /\ starts'[j] = renewals'[j]
        BY <2>1, <4>1 DEF TypeOK
      <4> QED BY <2>3, <4>1, <4>2 DEF Counted
    <3> QED BY <1>11, <3>1, <3>2
  <2> QED BY <1>11, <2>2, <2>4 DEF CommitFinal, CommitAgain, OneRunner, ClaimsHeld, StartsOfClaim
<1>12. ASSUME Tick \/ StepBack \/ UNCHANGED vars PROVE Rest'
  <2>1. UNCHANGED files /\ UNCHANGED process
    BY <1>12 DEF Tick, StepBack, vars
  <2> QED BY <2>1 DEF OneRunner, ClaimsHeld, Counted, StartsOfClaim, HoldsClaim
<1>13. Rest'
  BY <1>1, <1>2, <1>3, <1>4, <1>5, <1>6, <1>7, <1>8, <1>9, <1>10, <1>11, <1>12
  DEF Next, Client, Runner, RunnerStep
<1> QED BY <1>0, <1>13

\* The inductive invariant holds in every reachable state.
THEOREM IInvariant == Spec => []IInv
BY InitIInv, NextIInv, PTL DEF Spec

\* Every variable keeps its type (src/jobs.rs and its runner processes).
THEOREM TypeCorrect == Spec => []TypeOK
<1>1. IInv => TypeOK
  BY DEF IInv
<1> QED BY IInvariant, <1>1, PTL

\* No job begins more often than slots it was granted, whatever crashes.
THEOREM NeverReplayed == Spec => []NoAutoReplay
<1>1. IInv => NoAutoReplay
  BY DEF IInv, Counted, NoAutoReplay
<1> QED BY IInvariant, <1>1, PTL

\* From claim to commit nobody else changes the claimed job's verdict.
THEOREM ClaimDurable == Spec => []ClaimIsDurable
<1>1. IInv => ClaimIsDurable
  BY DEF IInv, OneRunner, ClaimsHeld, ClaimIsDurable
<1> QED BY IInvariant, <1>1, PTL

-----------------------------------------------------------------------------
(***************************************************************************)
(* Action properties.  Every step that writes a job file is one of five,   *)
(* which the next lemma lists once for the theorems below.                 *)
(***************************************************************************)

\* What one step may do to the stored jobs and the counters.
LEMMA StoreSteps ==
  ASSUME IInv, [Next]_vars
  PROVE  \/ UNCHANGED files
         \/ \E j \in JobIds, kind \in Kinds, due \in Times : Enqueue(j, kind, due)
         \/ \E j \in JobIds : Cancel(j)
         \/ \E r \in Runners, j \in JobIds : RecoverJob(r, j) \/ Claim(r, j)
         \/ \E r \in Runners : Start(r) \/ CommitFinal(r) \/ CommitAgain(r)
<1> USE DEF files, process
<1>1. CASE UNCHANGED vars \/ Tick \/ StepBack
  BY <1>1 DEF vars, Tick, StepBack
<1>2. CASE Client
  BY <1>2 DEF Client
<1>3. ASSUME NEW r \in Runners, NEW m \in Modes, Launch(r, m) PROVE UNCHANGED files
  BY <1>3 DEF Launch
<1>4. ASSUME NEW r \in Runners, NEW o \in Outcomes, Finish(r, o) PROVE UNCHANGED files
  BY <1>4 DEF Finish
<1>5. ASSUME NEW r \in Runners,
             \/ RecoveryDone(r) \/ KeepGoing(r) \/ IdleServe(r) \/ Signal(r)
             \/ Monitor(r) \/ Crash(r) \/ Stop(r) \/ IdleBatch(r)
      PROVE  UNCHANGED files
  BY <1>5 DEF RecoveryDone, KeepGoing, IdleServe, Signal, Monitor, Crash, Stop, IdleBatch
<1> QED BY <1>1, <1>2, <1>3, <1>4, <1>5 DEF Next, Runner, RunnerStep

\* Inductive companion of CancelSticks: a cancelled job is not waiting in the queue.
CancelledIsNotQueued ==
  \A j \in JobIds : job[j].cancel_requested => job[j].status \notin {"absent", "queued"}

\* One step of the store keeps an acknowledged cancellation and never undoes it.
LEMMA CancelStep ==
  ASSUME IInv, CancelledIsNotQueued, [Next]_vars
  PROVE  /\ CancelledIsNotQueued'
         /\ \A j \in JobIds : job[j].cancel_requested =>
              /\ job'[j].cancel_requested
              /\ job'[j].status # "queued"
              /\ job'[j].status = "running" => job[j].status = "running"
<1> DEFINE Sticks(i) == job[i].cancel_requested =>
              /\ job'[i].cancel_requested
              /\ job'[i].status # "queued"
              /\ job'[i].status = "running" => job[i].status = "running"
           Fine(i) == job'[i].cancel_requested => job'[i].status \notin {"absent", "queued"}
<1> SUFFICES ASSUME NEW i \in JobIds PROVE Sticks(i) /\ Fine(i)
  BY DEF CancelledIsNotQueued
<1>0. job[i] \in Job /\ job[i].cancel_requested \in BOOLEAN
  BY DEF IInv, TypeOK, Job
<1>1. CASE job'[i] = job[i]
  BY <1>1 DEF CancelledIsNotQueued
<1>2. ASSUME NEW j \in JobIds, NEW kind \in Kinds, NEW due \in Times, Enqueue(j, kind, due),
             job'[i] # job[i]
      PROVE  Sticks(i) /\ Fine(i)
  <2>1. i = j /\ job[i].status = "absent"
    BY <1>2 DEF Enqueue, IInv, TypeOK
  <2>2. ~job'[i].cancel_requested
    BY <1>2, <2>1 DEF Enqueue, NoJob, IInv, TypeOK
  <2> QED BY <2>1, <2>2 DEF CancelledIsNotQueued
<1>3. ASSUME NEW j \in JobIds, Cancel(j), job'[i] # job[i] PROVE Sticks(i) /\ Fine(i)
  <2>1. i = j /\ job'[i] = AfterCancel(job[i]) /\ job[i].status # "absent"
    BY <1>3 DEF Cancel, IInv, TypeOK
  <2>2. AfterCancel(job[i]).status = IF job[i].status = "queued" THEN "cancelled"
                                                                ELSE job[i].status
    BY <1>0 DEF AfterCancel, Job
  <2>3. job[i].cancel_requested => AfterCancel(job[i]).cancel_requested
    BY <1>0 DEF AfterCancel, Job
  <2> QED BY <2>1, <2>2, <2>3 DEF CancelledIsNotQueued
<1>4. ASSUME NEW r \in Runners, NEW j \in JobIds, RecoverJob(r, j), job'[i] # job[i]
      PROVE  Sticks(i) /\ Fine(i)
  <2>1. i = j /\ job'[i] = Interrupted(job[i])
    BY <1>4 DEF RecoverJob, IInv, TypeOK
  <2>2. /\ Interrupted(job[i]).status = "interrupted"
        /\ Interrupted(job[i]).cancel_requested = job[i].cancel_requested
    BY <1>0 DEF Interrupted, Job
  <2> QED BY <2>1, <2>2
<1>5. ASSUME NEW r \in Runners, NEW j \in JobIds, Claim(r, j), job'[i] # job[i]
      PROVE  Sticks(i) /\ Fine(i)
  <2>1. i = j /\ job'[i] = Claimed(job[i]) /\ job[i].status = "queued"
    BY <1>5 DEF Claim, Granted, Due, Queued, IInv, TypeOK
  <2>2. Claimed(job[i]).cancel_requested = job[i].cancel_requested
    BY <1>0 DEF Claimed, Job
  <2> QED BY <2>1, <2>2 DEF CancelledIsNotQueued
<1>6. ASSUME NEW r \in Runners, CommitFinal(r), job'[i] # job[i]
      PROVE  Sticks(i) /\ Fine(i)
  <2> DEFINE f == Finished(job[i], outcome[r])
  <2>1. /\ i = mine[r].id
        /\ job'[i] = f \/ job'[i] = [f EXCEPT !.status = "failed", !.error = TRUE]
    <3> DEFINE g == Finished(job[mine[r].id], outcome[r])
    <3>1. \/ job' = [job EXCEPT ![mine[r].id] = g]
          \/ job' = [job EXCEPT ![mine[r].id] =
                                     [g EXCEPT !.status = "failed", !.error = TRUE]]
      BY <1>6 DEF CommitFinal
    <3>2. job \in [JobIds -> Job]
      BY DEF IInv, TypeOK
    <3>3. i = mine[r].id
      <4> HIDE DEF g
      <4> QED BY <3>1, <3>2, <1>6
    <3>4. g = f
      BY <3>3
    <3> HIDE DEF f, g
    <3> QED BY <3>1, <3>2, <3>3, <3>4
  <2>2. /\ f \in Job
        /\ f.status \notin {"absent", "queued", "running"}
        /\ f.cancel_requested = job[i].cancel_requested
    <3>1. outcome[r] \in Outcomes
      BY DEF IInv, TypeOK
    <3> QED BY <1>0, <3>1, FinishedFields
  <2>3. /\ [f EXCEPT !.status = "failed", !.error = TRUE].status = "failed"
        /\ [f EXCEPT !.status = "failed", !.error = TRUE].cancel_requested = f.cancel_requested
    BY <2>2 DEF Job
  <2> HIDE DEF f
  <2> QED BY <2>1, <2>2, <2>3
<1>7. ASSUME NEW r \in Runners, CommitAgain(r), job'[i] # job[i]
      PROVE  Sticks(i) /\ Fine(i)
  <2>1. i = mine[r].id /\ ~job[i].cancel_requested
    BY <1>7 DEF CommitAgain, Repeats, IInv, TypeOK
  <2>2. job'[i].cancel_requested = job[i].cancel_requested
    <3> DEFINE f == Finished(job[i], outcome[r])
    <3>1. f \in Job /\ f.cancel_requested = job[i].cancel_requested
      <4>1. outcome[r] \in Outcomes
        BY DEF IInv, TypeOK
      <4> QED BY <1>0, <4>1, FinishedFields
    <3>2. \E due : job'[i] = [f EXCEPT !.status = "queued", !.due_at = due]
      <4>1. PICK due : job' = [job EXCEPT ![i] = [f EXCEPT !.status = "queued",
                                                           !.due_at = due]]
        BY <1>7, <2>1 DEF CommitAgain
      <4> HIDE DEF f
      <4>2. job'[i] = [f EXCEPT !.status = "queued", !.due_at = due]
        BY <4>1 DEF IInv, TypeOK
      <4> QED BY <4>2
    <3> HIDE DEF f
    <3> QED BY <3>1, <3>2 DEF Job
  <2> QED BY <2>1, <2>2
<1>8. ASSUME NEW r \in Runners, Start(r) PROVE job'[i] = job[i]
  BY <1>8 DEF Start
<1>9. CASE UNCHANGED files
  BY <1>9, <1>1 DEF files
<1> QED BY <1>1, <1>2, <1>3, <1>4, <1>5, <1>6, <1>7, <1>8, <1>9, StoreSteps

\* An acknowledged cancellation is never lost and nothing is queued or claimed after it.
THEOREM CancelIsFinal == Spec => CancelSticks
<1>1. Init => CancelledIsNotQueued
  BY DEF Init, NoJob, CancelledIsNotQueued
<1>2. IInv /\ CancelledIsNotQueued /\ [Next]_vars => CancelledIsNotQueued'
  BY CancelStep
<1>3. IInv /\ CancelledIsNotQueued /\ [Next]_vars =>
        [\A j \in JobIds : job[j].cancel_requested =>
              /\ job'[j].cancel_requested
              /\ job'[j].status # "queued"
              /\ job'[j].status = "running" => job[j].status = "running"]_job
  BY CancelStep
<1> QED BY <1>1, <1>2, <1>3, IInvariant, PTL DEF Spec, CancelSticks

\* A rescheduled job is due after now, and a cron slot after the one just served.
LEMMA NextDueLater ==
  ASSUME NEW f \in Job, clock \in Times, NEW due \in NextDue(f)
  PROVE  due > clock /\ (f.kind = "cron" => due > f.due_at)
BY JobsAssumption DEF NextDue, NextAfter, LaterSlots, Later, Times, Job

\* No burst of missed slots, and no cron slot twice, whatever the clock did.
THEOREM SlotsOnlyAdvance == Spec => SlotsAdvance
<1> DEFINE Advance(j) == renewals'[j] # renewals[j] =>
              /\ job'[j].due_at > clock
              /\ job[j].kind = "cron" => job'[j].due_at > job[j].due_at
<1>1. ASSUME IInv, [Next]_vars, NEW j \in JobIds PROVE Advance(j)
  <2>1. CASE renewals' = renewals
    BY <2>1
  <2>2. ASSUME NEW r \in Runners, CommitAgain(r), renewals'[j] # renewals[j] PROVE Advance(j)
    <3> DEFINE f == Finished(job[j], outcome[r])
    <3>1. j = mine[r].id
      BY <1>1, <2>2 DEF CommitAgain, IInv, TypeOK
    <3>2. PICK due \in NextDue(job[j]) :
             job'[j] = [f EXCEPT !.status = "queued", !.due_at = due]
      BY <1>1, <2>2, <3>1 DEF CommitAgain, IInv, TypeOK
    <3>3. job[j] \in Job /\ outcome[r] \in Outcomes /\ clock \in Times
      BY <1>1 DEF IInv, TypeOK
    <3>4. f \in Job
      BY <3>3, FinishedFields
    <3> HIDE DEF f
    <3>5. job'[j].due_at = due
      BY <3>2, <3>4 DEF Job
    <3> QED BY <3>3, <3>5, NextDueLater
  <2>3. \/ renewals' = renewals
        \/ \E r \in Runners : CommitAgain(r)
    BY <1>1, StoreSteps DEF files, Enqueue, Cancel, RecoverJob, Claim, Granted, Start, CommitFinal
  <2> QED BY <2>1, <2>2, <2>3
<1>2. IInv /\ [Next]_vars => [\A j \in JobIds : Advance(j)]_<<job, renewals>>
  BY <1>1
<1> QED BY <1>2, IInvariant, PTL DEF Spec, SlotsAdvance

-----------------------------------------------------------------------------
(***************************************************************************)
(* What a stored record tells: the inductive companion of OutcomeCoherent  *)
(* also says that a running job shows no result.                           *)
(***************************************************************************)

Story(f) ==
  /\ f.status = "queued" /\ f.run_id > 0 =>
       f.last_run_status = "completed" /\ f.result = f.run_id /\ ~f.error
  /\ f.status = "running" => f.result = 0
  /\ f.status = "interrupted" => f.error /\ f.result = 0
  /\ f.status = "failed" /\ f.last_run_status = "completed" =>
       f.kind # "once" /\ f.error /\ f.result = f.run_id
  /\ f.status = "completed" => ~f.error /\ f.result = f.run_id

Stories == \A j \in JobIds : Story(job[j])

\* Cancelling, recovering and claiming a record keep its story.
LEMMA StoryOfUpdates ==
  ASSUME NEW f \in Job, Story(f)
  PROVE  /\ Story(AfterCancel(f))
         /\ f.status = "running" => Story(Interrupted(f))
         /\ Story(Claimed(f))
<1>1. Story(AfterCancel(f))
  <2>1. /\ AfterCancel(f).status = IF f.status = "queued" THEN "cancelled" ELSE f.status
        /\ AfterCancel(f).last_run_status = f.last_run_status
        /\ AfterCancel(f).result = f.result
        /\ AfterCancel(f).error = f.error
        /\ AfterCancel(f).run_id = f.run_id
        /\ AfterCancel(f).kind = f.kind
    BY DEF AfterCancel, Job
  <2> QED BY <2>1 DEF Story
<1>2. f.status = "running" => Story(Interrupted(f))
  <2>1. /\ Interrupted(f).status = "interrupted"
        /\ Interrupted(f).error = TRUE
        /\ Interrupted(f).result = f.result
    BY DEF Interrupted, Job
  <2> QED BY <2>1 DEF Story
<1>3. Story(Claimed(f))
  <2>1. Claimed(f).status = "running" /\ Claimed(f).result = 0
    BY DEF Claimed, Job
  <2> QED BY <2>1 DEF Story
<1> QED BY <1>1, <1>2, <1>3

\* So do the three records a commit may write: the verdict of the run, the failure to
\* schedule a completed run again, and the next slot of a completed run.
LEMMA StoryOfCommits ==
  ASSUME NEW f \in Job, NEW o \in Outcomes, NEW due
  PROVE  /\ Story(Finished(f, o))
         /\ o = "completed" /\ f.kind # "once" =>
              Story([Finished(f, o) EXCEPT !.status = "failed", !.error = TRUE])
         /\ o = "completed" =>
              Story([Finished(f, o) EXCEPT !.status = "queued", !.due_at = due])
<1> DEFINE g == Finished(f, o)
<1>1. /\ g.status = IF o = "error" THEN "failed" ELSE o
      /\ g.last_run_status = g.status
      /\ g.result = IF o = "error" THEN 0 ELSE f.run_id
      /\ g.error = (o = "error")
      /\ g.run_id = f.run_id
      /\ g.kind = f.kind
  BY DEF Finished, Job
<1>2. g \in Job
  BY RecordUpdates
<1> HIDE DEF g
<1>3. Story(g)
  BY <1>1 DEF Story, Outcomes
<1>4. ASSUME o = "completed", f.kind # "once"
      PROVE  Story([g EXCEPT !.status = "failed", !.error = TRUE])
  <2> DEFINE h == [g EXCEPT !.status = "failed", !.error = TRUE]
  <2>1. /\ h.status = "failed" /\ h.error = TRUE
        /\ h.result = g.result /\ h.run_id = g.run_id /\ h.kind = g.kind
    BY <1>2 DEF Job
  <2> HIDE DEF h
  <2>2. Story(h)
    BY <2>1, <1>1, <1>4 DEF Story
  <2> QED BY <2>2 DEF h
<1>5. ASSUME o = "completed"
      PROVE  Story([g EXCEPT !.status = "queued", !.due_at = due])
  <2> DEFINE h == [g EXCEPT !.status = "queued", !.due_at = due]
  <2>1. /\ h.status = "queued" /\ h.error = g.error
        /\ h.last_run_status = g.last_run_status
        /\ h.result = g.result /\ h.run_id = g.run_id
    BY <1>2 DEF Job
  <2> HIDE DEF h
  <2>2. Story(h)
    BY <2>1, <1>1, <1>5 DEF Story
  <2> QED BY <2>2 DEF h
<1> QED BY <1>3, <1>4, <1>5 DEF g

\* One step of the store keeps every record's story.
LEMMA StoryStep ==
  ASSUME IInv, Stories, [Next]_vars
  PROVE  Stories'
<1> SUFFICES ASSUME NEW i \in JobIds PROVE Story(job'[i])
  BY DEF Stories, Story
<1>0. /\ job \in [JobIds -> Job] /\ job[i] \in Job /\ Story(job[i])
      /\ outcome \in [Runners -> Outcomes]
  BY DEF IInv, TypeOK, Stories
<1>1. CASE job'[i] = job[i]
  BY <1>0, <1>1
<1>2. ASSUME NEW j \in JobIds, NEW kind \in Kinds, NEW due \in Times, Enqueue(j, kind, due),
             job'[i] # job[i]
      PROVE  Story(job'[i])
  <2>1. job'[i] = [NoJob EXCEPT !.status = "queued", !.kind = kind, !.due_at = due]
    BY <1>0, <1>2 DEF Enqueue
  <2>2. job'[i].status = "queued" /\ job'[i].run_id = 0
    BY <2>1 DEF NoJob
  <2> QED BY <2>2 DEF Story
<1>3. ASSUME NEW j \in JobIds, Cancel(j), job'[i] # job[i] PROVE Story(job'[i])
  <2>1. job'[i] = AfterCancel(job[i])
    BY <1>0, <1>3 DEF Cancel
  <2> QED BY <1>0, <2>1, StoryOfUpdates
<1>4. ASSUME NEW r \in Runners, NEW j \in JobIds, RecoverJob(r, j) \/ Claim(r, j),
             job'[i] # job[i]
      PROVE  Story(job'[i])
  <2>1. \/ job'[i] = Interrupted(job[i]) /\ job[i].status = "running"
        \/ job'[i] = Claimed(job[i])
    BY <1>0, <1>4 DEF RecoverJob, Claim, Granted
  <2> QED BY <1>0, <2>1, StoryOfUpdates
<1>5. ASSUME NEW r \in Runners, CommitFinal(r), job'[i] # job[i] PROVE Story(job'[i])
  <2> DEFINE g(j) == Finished(job[j], outcome[r])
  <2>1. \/ job' = [job EXCEPT ![mine[r].id] = g(mine[r].id)]
        \/ /\ Repeats(r, job[mine[r].id])
           /\ job' = [job EXCEPT ![mine[r].id] =
                        [g(mine[r].id) EXCEPT !.status = "failed", !.error = TRUE]]
    BY <1>5 DEF CommitFinal
  <2> HIDE DEF g
  <2>2. i = mine[r].id
    BY <1>0, <1>5, <2>1
  <2>3. \/ job'[i] = g(i)
        \/ /\ outcome[r] = "completed" /\ job[i].kind # "once"
           /\ job'[i] = [g(i) EXCEPT !.status = "failed", !.error = TRUE]
    BY <1>0, <2>1, <2>2 DEF Repeats
  <2>4. /\ Story(g(i))
        /\ outcome[r] = "completed" /\ job[i].kind # "once" =>
             Story([g(i) EXCEPT !.status = "failed", !.error = TRUE])
    BY <1>0, StoryOfCommits DEF g
  <2> QED BY <2>3, <2>4
<1>6. ASSUME NEW r \in Runners, CommitAgain(r), job'[i] # job[i] PROVE Story(job'[i])
  <2> DEFINE g(j) == Finished(job[j], outcome[r])
  <2>1. PICK due : job' = [job EXCEPT ![mine[r].id] =
                             [g(mine[r].id) EXCEPT !.status = "queued", !.due_at = due]]
    BY <1>6 DEF CommitAgain
  <2>2. outcome[r] = "completed"
    BY <1>6 DEF CommitAgain, Repeats
  <2> HIDE DEF g
  <2>3. i = mine[r].id
    BY <1>0, <1>6, <2>1
  <2>4. job'[i] = [g(i) EXCEPT !.status = "queued", !.due_at = due]
    BY <1>0, <2>1, <2>3
  <2>5. Story([g(i) EXCEPT !.status = "queued", !.due_at = due])
    BY <1>0, <2>2, StoryOfCommits DEF g
  <2> QED BY <2>4, <2>5
<1>7. ASSUME NEW r \in Runners, Start(r) PROVE job'[i] = job[i]
  BY <1>7 DEF Start
<1>8. CASE UNCHANGED files
  BY <1>8, <1>1 DEF files
<1> QED BY <1>1, <1>2, <1>3, <1>4, <1>5, <1>6, <1>7, <1>8, StoreSteps

\* What a client reads of a job is one story, whoever wrote the record last and whatever
\* crashed in between.
THEOREM OutcomesAreCoherent == Spec => []OutcomeCoherent
<1>1. Init => Stories
  BY DEF Init, NoJob, Stories, Story
<1>2. IInv /\ Stories /\ [Next]_vars => Stories'
  BY StoryStep
<1>3. Stories => OutcomeCoherent
  BY DEF Stories, Story, OutcomeCoherent
<1> QED BY <1>1, <1>2, <1>3, IInvariant, PTL DEF Spec

-----------------------------------------------------------------------------
(***************************************************************************)
(* The store implements the promise: recovery and every final commit close *)
(* the slot, a repeating commit renews it, and all else is a stutter.      *)
(***************************************************************************)
Slot == [j \in JobIds |-> SlotOf(job[j])]

\* One step of the store is one step of the promise, or none.
LEMMA PromiseStep ==
  ASSUME IInv, [Next]_vars
  PROVE  [Promise!Next]_(Promise!vars)
<1> DEFINE Same == Slot' = Slot /\ UNCHANGED <<starts, renewals>>
           Change(j) == \/ Promise!Submit(j) \/ Promise!Take(j) \/ Promise!Begin(j)
                        \/ Promise!Renew(j) \/ Promise!Close(j)
<1> SUFFICES Same \/ \E j \in JobIds : Change(j)
  BY DEF Promise!Next, Promise!vars, Slot
<1>0. TypeOK /\ TypeOK'
  BY NextTypeOK DEF IInv
\* A step that writes one file changes that job's slot only.
<1>a. ASSUME NEW j \in JobIds, NEW g, job' = [job EXCEPT ![j] = g]
      PROVE  Slot' = [Slot EXCEPT ![j] = SlotOf(g)]
  BY <1>0, <1>a DEF Slot, TypeOK
<1>b. \A j \in JobIds : Slot[j] = SlotOf(job[j])
  BY DEF Slot
<1>1. CASE UNCHANGED files
  BY <1>1 DEF files, Slot
<1>2. ASSUME NEW j \in JobIds, NEW kind \in Kinds, NEW due \in Times, Enqueue(j, kind, due)
      PROVE  Promise!Submit(j)
  <2> DEFINE g == [NoJob EXCEPT !.status = "queued", !.kind = kind, !.due_at = due]
  <2>1. SlotOf(job[j]) = "none" /\ SlotOf(g) = "open"
    BY <1>2 DEF Enqueue, SlotOf, NoJob
  <2>2. job' = [job EXCEPT ![j] = g] /\ UNCHANGED <<starts, renewals>>
    BY <1>2 DEF Enqueue
  <2> HIDE DEF g
  <2>3. Slot' = [Slot EXCEPT ![j] = "open"] /\ Slot[j] = "none"
    <3>1. Slot' = [Slot EXCEPT ![j] = SlotOf(g)]
      BY <1>a, <2>2
    <3> QED BY <1>b, <3>1, <2>1
  <2> QED BY <2>2, <2>3 DEF Promise!Submit, Slot
<1>3. ASSUME NEW j \in JobIds, Cancel(j) PROVE Same \/ Promise!Close(j)
  <2> DEFINE g == AfterCancel(job[j])
  <2>1. job' = [job EXCEPT ![j] = g] /\ UNCHANGED <<starts, renewals>>
    BY <1>3 DEF Cancel
  <2>2. g.status = IF job[j].status = "queued" THEN "cancelled" ELSE job[j].status
    BY <1>0 DEF AfterCancel, TypeOK, Job
  <2> HIDE DEF g
  <2>3. CASE job[j].status = "queued"
    <3>1. SlotOf(job[j]) = "open" /\ SlotOf(g) = "closed"
      BY <2>2, <2>3 DEF SlotOf
    <3>2. Slot' = [Slot EXCEPT ![j] = "closed"] /\ Slot[j] = "open"
      <4>1. Slot' = [Slot EXCEPT ![j] = SlotOf(g)]
        BY <1>a, <2>1
      <4> QED BY <1>b, <3>1, <4>1
    <3> QED BY <2>1, <3>2 DEF Promise!Close, Slot
  <2>4. CASE job[j].status # "queued"
    <3>1. SlotOf(g) = Slot[j]
      BY <1>b, <2>2, <2>4 DEF SlotOf
    <3>2. Slot' = [Slot EXCEPT ![j] = Slot[j]]
      <4>1. Slot' = [Slot EXCEPT ![j] = SlotOf(g)]
        BY <1>a, <2>1
      <4> QED BY <3>1, <4>1
    <3> QED BY <2>1, <3>2 DEF Slot
  <2> QED BY <2>3, <2>4
<1>4. ASSUME NEW r \in Runners, NEW j \in JobIds, RecoverJob(r, j) PROVE Promise!Close(j)
  <2> DEFINE g == Interrupted(job[j])
  <2>1. job' = [job EXCEPT ![j] = g] /\ UNCHANGED <<starts, renewals>>
    BY <1>4 DEF RecoverJob
  <2>2. SlotOf(job[j]) = "taken" /\ SlotOf(g) = "closed"
    BY <1>0, <1>4 DEF RecoverJob, Interrupted, SlotOf, TypeOK, Job
  <2> HIDE DEF g
  <2>3. Slot' = [Slot EXCEPT ![j] = "closed"] /\ Slot[j] = "taken"
    <3>1. Slot' = [Slot EXCEPT ![j] = SlotOf(g)]
      BY <1>a, <2>1
    <3> QED BY <1>b, <3>1, <2>2
  <2> QED BY <2>1, <2>3 DEF Promise!Close, Slot
<1>5. ASSUME NEW r \in Runners, NEW j \in JobIds, Claim(r, j) PROVE Promise!Take(j)
  <2> DEFINE g == Claimed(job[j])
  <2>1. job' = [job EXCEPT ![j] = g] /\ UNCHANGED <<starts, renewals>>
    BY <1>5 DEF Claim, Granted
  <2>2. SlotOf(job[j]) = "open" /\ SlotOf(g) = "taken"
    BY <1>0, <1>5 DEF Claim, Granted, Due, Queued, Claimed, SlotOf, TypeOK, Job
  <2> HIDE DEF g
  <2>3. Slot' = [Slot EXCEPT ![j] = "taken"] /\ Slot[j] = "open"
    <3>1. Slot' = [Slot EXCEPT ![j] = SlotOf(g)]
      BY <1>a, <2>1
    <3> QED BY <1>b, <3>1, <2>2
  <2> QED BY <2>1, <2>3 DEF Promise!Take, Slot
<1>6. ASSUME NEW r \in Runners, Start(r) PROVE \E j \in JobIds : Promise!Begin(j)
  <2> DEFINE j == mine[r].id
  <2>1. /\ j \in JobIds /\ job[j].status = "running" /\ starts[j] = renewals[j]
        /\ job' = job /\ renewals' = renewals
        /\ starts' = [starts EXCEPT ![j] = @ + 1]
    BY <1>6 DEF Start, HoldsClaim, IInv, StartsOfClaim
  <2>2. SlotOf(job[j]) = "taken" /\ Slot' = Slot
    BY <2>1 DEF SlotOf, Slot
  <2>3. Promise!Begin(j)
    BY <2>1, <2>2 DEF Promise!Begin, Slot
  <2> QED BY <2>1, <2>3
<1>7. ASSUME NEW r \in Runners, CommitFinal(r) PROVE \E j \in JobIds : Promise!Close(j)
  <2> DEFINE j == mine[r].id
             f == Finished(job[j], outcome[r])
  <2>1. j \in JobIds /\ job[j].status = "running"
    BY <1>7 DEF CommitFinal, IInv, ClaimsHeld, HoldsClaim
  <2>2. job[j] \in Job /\ outcome[r] \in Outcomes
    BY <1>0, <2>1 DEF TypeOK
  <2>3. f \in Job /\ f.status \notin {"absent", "queued", "running"}
    BY <2>2, FinishedFields
  <2>4. PICK g : /\ job' = [job EXCEPT ![j] = g]
                 /\ g = f \/ g = [f EXCEPT !.status = "failed", !.error = TRUE]
    BY <1>7 DEF CommitFinal
  <2>5. UNCHANGED <<starts, renewals>>
    BY <1>7 DEF CommitFinal
  <2> HIDE DEF f
  <2>6. g.status \notin {"absent", "queued", "running"}
    BY <2>3, <2>4 DEF Job
  <2>7. SlotOf(job[j]) = "taken" /\ SlotOf(g) = "closed"
    BY <2>1, <2>6 DEF SlotOf
  <2>8. Slot' = [Slot EXCEPT ![j] = "closed"] /\ Slot[j] = "taken"
    <3> HIDE DEF j
    <3>1. Slot' = [Slot EXCEPT ![j] = SlotOf(g)]
      BY <1>a, <2>1, <2>4
    <3> QED BY <1>b, <2>1, <2>7, <3>1
  <2>9. Promise!Close(j)
    BY <2>5, <2>8 DEF Promise!Close, Slot
  <2> QED BY <2>1, <2>9
<1>8. ASSUME NEW r \in Runners, CommitAgain(r) PROVE \E j \in JobIds : Promise!Renew(j)
  <2> DEFINE j == mine[r].id
             f == Finished(job[j], outcome[r])
  <2>1. /\ j \in JobIds /\ job[j].status = "running" /\ starts[j] = renewals[j] + 1
        /\ starts' = starts /\ renewals' = [renewals EXCEPT ![j] = @ + 1]
    BY <1>8 DEF CommitAgain, IInv, ClaimsHeld, HoldsClaim, StartsOfClaim
  <2>2. job[j] \in Job /\ outcome[r] \in Outcomes
    BY <1>0, <2>1 DEF TypeOK
  <2>3. f \in Job
    BY <2>2, FinishedFields
  <2>4. PICK g : job' = [job EXCEPT ![j] = g] /\ g.status = "queued"
    <3>1. PICK due \in NextDue(job[j]) :
             job' = [job EXCEPT ![j] = [f EXCEPT !.status = "queued", !.due_at = due]]
      BY <1>8 DEF CommitAgain
    <3> HIDE DEF f
    <3>2. [f EXCEPT !.status = "queued", !.due_at = due].status = "queued"
      BY <2>3 DEF Job
    <3> QED BY <3>1, <3>2
  <2>5. SlotOf(job[j]) = "taken" /\ SlotOf(g) = "open"
    BY <2>1, <2>4 DEF SlotOf
  <2>6. Slot' = [Slot EXCEPT ![j] = "open"] /\ Slot[j] = "taken"
    <3> HIDE DEF j
    <3>1. Slot' = [Slot EXCEPT ![j] = SlotOf(g)]
      BY <1>a, <2>1, <2>4
    <3> QED BY <1>b, <2>1, <2>5, <3>1
  <2>7. Promise!Renew(j)
    BY <2>1, <2>6 DEF Promise!Renew, Slot
  <2> QED BY <2>1, <2>7
<1> QED BY <1>1, <1>2, <1>3, <1>4, <1>5, <1>6, <1>7, <1>8, StoreSteps

\* The store with its runners, crashes and clients implements AtMostOnce.
THEOREM StoreKeepsPromise == Spec => KeepsPromise
<1>1. Init => Promise!Init
  BY DEF Init, Promise!Init, SlotOf, NoJob
<1>2. IInv /\ [Next]_vars => [Promise!Next]_(Promise!vars)
  BY PromiseStep
<1> QED BY <1>1, <1>2, IInvariant, PTL DEF Spec, Promise!Spec, KeepsPromise
=============================================================================
