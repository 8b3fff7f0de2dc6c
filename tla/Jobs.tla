-------------------------------- MODULE Jobs --------------------------------
(***************************************************************************)
(* The durable job store and the processes that work on it (src/jobs.rs):  *)
(* clients that submit and cancel, runners (`gateway serve` or `jobs run`) *)
(* that recover, claim, execute and commit, the monitor thread that turns  *)
(* a persisted cancellation into a stop of the running execution, signals, *)
(* process death, and a wall clock that may step backwards.                *)
(*                                                                         *)
(* A critical section under `.jobs.lock` writes one file and is one step;  *)
(* only recovery writes several, so it is several steps during which the   *)
(* lock excludes everybody else.                                           *)
(***************************************************************************)
EXTENDS Integers, Sequences, FiniteSets

CONSTANTS
  JobIds,                \* the jobs that may be submitted
  Runners,               \* the processes that may act as runner
  Modes,                 \* how runners are started
  Interval,              \* interval_ms of interval jobs, in clock units
  DueTimes,              \* the due times clients ask for
  Results,               \* the statuses a run that is not cancelled may end with
  CronSlots,             \* the instants the cron expression matches
  EndOfTime,             \* stands for u64::MAX milliseconds; also bounds the clock
  Endless,               \* the jobs whose run ends only when it is told to stop
  Limit,                 \* --limit of `jobs run`
  MaxRuns,               \* bound: run ids drawn per job
  ClockMayStepBack       \* whether the wall clock may be set back

ASSUME JobsAssumption ==
  /\ Modes \subseteq {"serve", "batch"}
  /\ Interval \in Nat \ {0}
  /\ EndOfTime \in Nat
  /\ DueTimes \subseteq 0 .. EndOfTime
  /\ Results \subseteq {"completed", "failed", "timed_out"}
  /\ CronSlots \subseteq 0 .. EndOfTime
  /\ Endless \subseteq JobIds
  /\ Limit \in Nat \ {0}
  /\ MaxRuns \in Nat
  /\ ClockMayStepBack \in BOOLEAN

Nobody == "nobody"       \* no runner holds `.runner.lock`
ASSUME NobodyAssumption == Nobody \notin Runners

VARIABLES
  job,                   \* job[j]: the stored file jobs/j.json
  clock,                 \* now_millis()
  lease,                 \* the holder of `.runner.lock`
  pc,                    \* pc[r]: where runner r is
  mode,                  \* mode[r]: "serve" (gateway serve) or "batch" (jobs run)
  shutdown,              \* shutdown[r]: the process was told to stop
  processed,             \* processed[r]: the jobs claimed by this invocation of jobs run
  mine,                  \* mine[r]: the job record the runner claimed
  control,               \* control[r]: the execution's control is cancelled
  outcome,               \* outcome[r]: what the execution returned
  starts, renewals       \* history: executions begun and reschedules, per job

files == <<job, starts, renewals>>
process == <<lease, pc, mode, shutdown, processed, mine, control, outcome>>
vars == <<files, clock, process>>

Times == 0 .. EndOfTime
Kinds == {"once", "interval", "cron"}
Statuses == {"absent", "queued", "running", "completed", "failed", "cancelled",
             "timed_out", "interrupted"}
Outcomes == {"completed", "failed", "cancelled", "timed_out", "error"}

\* A run id, result or last status of 0 / "none" is the code's None.
Job == [status : Statuses, kind : Kinds, due_at : Times, run_id : Nat,
        last_run_status : Outcomes \cup {"none"}, result : Nat, error : BOOLEAN,
        cancel_requested : BOOLEAN]

NoJob == [status |-> "absent", kind |-> "once", due_at |-> 0, run_id |-> 0,
          last_run_status |-> "none", result |-> 0, error |-> FALSE,
          cancel_requested |-> FALSE]

TypeOK ==
  /\ job \in [JobIds -> Job]
  /\ clock \in Times
  /\ lease \in Runners \cup {Nobody}
  /\ pc \in [Runners -> {"down", "recover", "loop", "claim", "claimed", "running", "ran"}]
  /\ mode \in [Runners -> {"serve", "batch"}]
  /\ shutdown \in [Runners -> BOOLEAN]
  /\ processed \in [Runners -> Seq(JobIds)]
  /\ mine \in [Runners -> [id : JobIds \cup {"none"}, run_id : Nat]]
  /\ control \in [Runners -> BOOLEAN]
  /\ outcome \in [Runners -> Outcomes]
  /\ starts \in [JobIds -> Nat]
  /\ renewals \in [JobIds -> Nat]

NoClaim == [id |-> "none", run_id |-> 0]

Init ==
  /\ job = [j \in JobIds |-> NoJob]
  /\ clock = 0
  /\ lease = Nobody
  /\ pc = [r \in Runners |-> "down"]
  /\ mode = [r \in Runners |-> "serve"]
  /\ shutdown = [r \in Runners |-> FALSE]
  /\ processed = [r \in Runners |-> <<>>]
  /\ mine = [r \in Runners |-> NoClaim]
  /\ control = [r \in Runners |-> FALSE]
  /\ outcome = [r \in Runners |-> "error"]
  /\ starts = [j \in JobIds |-> 0]
  /\ renewals = [j \in JobIds |-> 0]

\* `.jobs.lock` is held across steps by recovery only.
LockFree == \A r \in Runners : pc[r] # "recover"

-----------------------------------------------------------------------------
(* Schedules (src/schedule.rs and the tail of execute).                    *)

LaterSlots(t) == {s \in CronSlots : s > t}
\* CronSchedule::next_after: the first slot strictly after t; empty is an error.
NextAfter(t) == {s \in LaterSlots(t) : \A u \in LaterSlots(t) : s <= u}

Later(a, b) == IF a < b THEN b ELSE a

\* Mutant of NextDue: a slot after completion only.
NextDueAfterNow(f) ==
  IF f.kind = "cron" THEN NextAfter(clock) ELSE {clock + Interval} \cap Times

\* The next due time of a job that just completed; empty is a scheduling error.
NextDue(f) ==
  IF f.kind = "cron" THEN NextAfter(Later(clock, f.due_at))
                     ELSE {clock + Interval} \cap Times

-----------------------------------------------------------------------------
(* Clients: any CLI invocation or gateway handler.                         *)

Enqueue(j, kind, due) ==
  /\ LockFree
  /\ job[j].status = "absent"
  /\ due \in IF kind = "cron" THEN NextAfter(clock) ELSE DueTimes
  /\ job' = [job EXCEPT ![j] = [NoJob EXCEPT !.status = "queued", !.kind = kind,
                                             !.due_at = due]]
  /\ UNCHANGED <<starts, renewals, clock, process>>

\* A queued job is cancelled at once; of a running one only the request is kept.
AfterCancel(f) ==
  LET status == IF f.status = "queued" THEN "cancelled" ELSE f.status
  IN  [f EXCEPT !.status = status,
                !.cancel_requested = @ \/ status \in {"running", "cancelled"}]

Cancel(j) ==
  /\ LockFree
  /\ job[j].status # "absent"
  /\ job' = [job EXCEPT ![j] = AfterCancel(@)]
  /\ UNCHANGED <<starts, renewals, clock, process>>

-----------------------------------------------------------------------------
(* A runner process: start and recovery.                                   *)

\* Mutant: start without taking `.runner.lock`.
LeaseIgnored == TRUE
LeaseFree == lease = Nobody

Launch(r, m) ==
  /\ pc[r] = "down"
  /\ LeaseFree /\ LockFree
  /\ lease' = r
  /\ mode' = [mode EXCEPT ![r] = m]
  /\ pc' = [pc EXCEPT ![r] = "recover"]
  /\ UNCHANGED <<files, clock, shutdown, processed, mine, control, outcome>>

\* Mutant: recovery puts the work back in the queue.
Requeued(f) == [f EXCEPT !.status = "queued", !.error = TRUE]
Interrupted(f) == [f EXCEPT !.status = "interrupted", !.error = TRUE]

RecoverJob(r, j) ==
  /\ pc[r] = "recover"
  /\ job[j].status = "running"
  /\ job' = [job EXCEPT ![j] = Interrupted(@)]
  /\ UNCHANGED <<starts, renewals, clock, process>>

RecoveryDone(r) ==
  /\ pc[r] = "recover"
  /\ \A j \in JobIds : job[j].status # "running"
  /\ pc' = [pc EXCEPT ![r] = "loop"]
  /\ UNCHANGED <<files, clock, lease, mode, shutdown, processed, mine, control, outcome>>

\* The process ends: its locks go with it, and so does all it had in memory.
Gone(r) ==
  /\ pc' = [pc EXCEPT ![r] = "down"]
  /\ lease' = IF lease = r THEN Nobody ELSE lease
  /\ mode' = [mode EXCEPT ![r] = "serve"]
  /\ shutdown' = [shutdown EXCEPT ![r] = FALSE]
  /\ processed' = [processed EXCEPT ![r] = <<>>]
  /\ mine' = [mine EXCEPT ![r] = NoClaim]
  /\ control' = [control EXCEPT ![r] = FALSE]
  /\ outcome' = [outcome EXCEPT ![r] = "error"]

\* Death at any step.  An error that ends the worker (a lock that stays busy, a
\* failed read or write) leaves the files the same way: the claim stays running.
Crash(r) ==
  /\ pc[r] # "down"
  /\ Gone(r)
  /\ UNCHANGED <<files, clock>>

Signal(r) ==
  /\ pc[r] # "down"
  /\ ~shutdown[r]
  /\ shutdown' = [shutdown EXCEPT ![r] = TRUE]
  /\ UNCHANGED <<files, clock, lease, pc, mode, processed, mine, control, outcome>>

-----------------------------------------------------------------------------
(* The runner's loop: check for a stop, claim, execute, commit.            *)

Goes(r) == ~shutdown[r] /\ (mode[r] = "batch" => Len(processed[r]) < Limit)

KeepGoing(r) ==
  /\ pc[r] = "loop"
  /\ Goes(r)
  /\ pc' = [pc EXCEPT ![r] = "claim"]
  /\ UNCHANGED <<files, clock, lease, mode, shutdown, processed, mine, control, outcome>>

Stop(r) ==
  /\ pc[r] = "loop"
  /\ ~Goes(r)
  /\ Gone(r)
  /\ UNCHANGED <<files, clock>>

Queued(j) == job[j].status = "queued"
Seen(r) == {processed[r][i] : i \in 1 .. Len(processed[r])}

Due(r) == {j \in JobIds \ Seen(r) : Queued(j) /\ job[j].due_at <= clock}

\* Mutant of Claimed: the old result is kept.
ClaimedKeepingResult(f) == [f EXCEPT !.status = "running", !.error = FALSE, !.run_id = @ + 1]
\* run_id is a fresh uuid: the number of the job's runs so far stands for it.
Claimed(f) == [f EXCEPT !.status = "running", !.result = 0, !.error = FALSE, !.run_id = @ + 1]

Granted(r, j) ==
  /\ pc[r] = "claim" /\ LockFree
  /\ j \in Due(r)
  /\ job[j].run_id < MaxRuns
  /\ job' = [job EXCEPT ![j] = Claimed(@)]
  /\ mine' = [mine EXCEPT ![r] = [id |-> j, run_id |-> job[j].run_id + 1]]
  /\ processed' = IF mode[r] = "batch" THEN [processed EXCEPT ![r] = Append(@, j)]
                                       ELSE processed
  /\ pc' = [pc EXCEPT ![r] = "claimed"]
  /\ UNCHANGED <<starts, renewals, clock, lease, mode, shutdown, control, outcome>>

\* Mutant of Claim: any due job, not the one that has been due longest.
ClaimAny(r, j) == Granted(r, j)

Claim(r, j) ==
  /\ \A i \in Due(r) : job[j].due_at <= job[i].due_at
  /\ Granted(r, j)

\* claim_due found nothing: the gateway looks again later, `jobs run` exits.
IdleServe(r) ==
  /\ pc[r] = "claim" /\ LockFree
  /\ Due(r) = {}
  /\ mode[r] = "serve"
  /\ pc' = [pc EXCEPT ![r] = "loop"]
  /\ UNCHANGED <<files, clock, lease, mode, shutdown, processed, mine, control, outcome>>

IdleBatch(r) ==
  /\ pc[r] = "claim" /\ LockFree
  /\ Due(r) = {}
  /\ mode[r] = "batch"
  /\ Gone(r)
  /\ UNCHANGED <<files, clock>>

\* The claim the runner holds is the stored one.
HoldsClaim(r) ==
  /\ mine[r].id \in JobIds
  /\ job[mine[r].id].status = "running"
  /\ job[mine[r].id].run_id = mine[r].run_id

\* execute checks the claim, reads both stop requests, then the run begins.
Start(r) ==
  /\ pc[r] = "claimed"
  /\ HoldsClaim(r)
  /\ control' = [control EXCEPT ![r] = shutdown[r] \/ job[mine[r].id].cancel_requested]
  /\ starts' = [starts EXCEPT ![mine[r].id] = @ + 1]
  /\ pc' = [pc EXCEPT ![r] = "running"]
  /\ UNCHANGED <<job, renewals, clock, lease, mode, shutdown, processed, mine, outcome>>

\* Mutant: the monitor polls one of the two requests only.
StopWantedByShutdown(r) == shutdown[r]
StopWanted(r) == shutdown[r] \/ job[mine[r].id].cancel_requested

\* The monitor thread, joined when the run returns.
Monitor(r) ==
  /\ pc[r] = "running"
  /\ ~control[r]
  /\ StopWanted(r)
  /\ control' = [control EXCEPT ![r] = TRUE]
  /\ UNCHANGED <<files, clock, lease, pc, mode, shutdown, processed, mine, outcome>>

\* run_with_id returns (external to this module: RunJournal and Mission).  Its last
\* stop check prefers cancellation to any result; "error" is an Err of the runtime.
Finish(r, o) ==
  /\ pc[r] = "running"
  /\ o \in IF control[r] THEN {"cancelled", "error"} ELSE Results \cup {"error"}
  /\ outcome' = [outcome EXCEPT ![r] = o]
  /\ pc' = [pc EXCEPT ![r] = "ran"]
  /\ UNCHANGED <<files, clock, lease, mode, shutdown, processed, mine, control>>

\* What the outcome makes of the stored record, re-read under the lock.
Finished(f, o) ==
  LET status == IF o = "error" THEN "failed" ELSE o
  IN  [f EXCEPT !.status = status, !.last_run_status = status,
                !.result = IF o = "error" THEN 0 ELSE f.run_id, !.error = (o = "error")]

\* Mutant: a cancellation that arrives after the monitor ended is not looked at.
RepeatsDespiteCancel(r, f) ==
  outcome[r] = "completed" /\ ~shutdown[r] /\ f.kind # "once"
\* Only success repeats, unless somebody asked for an end meanwhile.
Repeats(r, f) ==
  /\ outcome[r] = "completed"
  /\ ~f.cancel_requested
  /\ ~shutdown[r]
  /\ f.kind # "once"

\* execute returned: the claim, the control and the outcome go out of scope.
Released(r) ==
  /\ mine' = [mine EXCEPT ![r] = NoClaim]
  /\ control' = [control EXCEPT ![r] = FALSE]
  /\ outcome' = [outcome EXCEPT ![r] = "error"]

\* The run ends the job, or the next slot cannot be computed.
CommitFinal(r) ==
  LET j == mine[r].id
      f == Finished(job[j], outcome[r])
  IN  /\ pc[r] = "ran" /\ LockFree
      /\ \/ /\ ~Repeats(r, job[j])
            /\ job' = [job EXCEPT ![j] = f]
         \/ /\ Repeats(r, job[j])
            /\ NextDue(job[j]) = {}
            /\ job' = [job EXCEPT ![j] = [f EXCEPT !.status = "failed", !.error = TRUE]]
      /\ pc' = [pc EXCEPT ![r] = "loop"]
      /\ Released(r)
      /\ UNCHANGED <<starts, renewals, clock, lease, mode, shutdown, processed>>

CommitAgain(r) ==
  LET j == mine[r].id
      f == Finished(job[j], outcome[r])
  IN  /\ pc[r] = "ran" /\ LockFree
      /\ Repeats(r, job[j])
      /\ \E due \in NextDue(job[j]) :
            job' = [job EXCEPT ![j] = [f EXCEPT !.status = "queued", !.due_at = due]]
      /\ renewals' = [renewals EXCEPT ![j] = @ + 1]
      /\ pc' = [pc EXCEPT ![r] = "loop"]
      /\ Released(r)
      /\ UNCHANGED <<starts, clock, lease, mode, shutdown, processed>>

-----------------------------------------------------------------------------
Tick ==
  /\ clock < EndOfTime
  /\ clock' = clock + 1
  /\ UNCHANGED <<files, process>>

StepBack ==
  /\ ClockMayStepBack
  /\ \E t \in Times : t < clock /\ clock' = t
  /\ UNCHANGED <<files, process>>

Client ==
  \E j \in JobIds :
     \/ \E kind \in Kinds, due \in Times : Enqueue(j, kind, due)
     \/ Cancel(j)

\* What the runner process does by itself.
RunnerStep(r) ==
  \/ \E j \in JobIds : RecoverJob(r, j) \/ Claim(r, j)
  \/ RecoveryDone(r) \/ KeepGoing(r) \/ Stop(r)
  \/ IdleServe(r) \/ IdleBatch(r) \/ Start(r) \/ CommitFinal(r) \/ CommitAgain(r)

Runner(r) ==
  \/ \E m \in Modes : Launch(r, m)
  \/ RunnerStep(r)
  \/ Monitor(r)
  \/ \E o \in Outcomes : Finish(r, o)
  \/ Signal(r) \/ Crash(r)

Next == Client \/ (\E r \in Runners : Runner(r)) \/ Tick \/ StepBack

Spec == Init /\ [][Next]_vars

\* The worker and the monitor are threads that never block for good, and a run ends by
\* itself (its steps, retries and replans are bounded) unless it waits for something
\* that may never come; told to stop, every run ends, since each wait polls the control.
\* Nothing obliges clients, signals, the clock or an operator who starts a runner.
FinishFair(r) ==
  /\ control[r] \/ mine[r].id \notin Endless
  /\ \E o \in Outcomes : Finish(r, o)

Fairness ==
  \A r \in Runners :
     WF_vars(RunnerStep(r)) /\ WF_vars(Monitor(r)) /\ WF_vars(FinishFair(r))

FairSpec == Spec /\ Fairness

-----------------------------------------------------------------------------
(* Safety.                                                                 *)

\* Robot effects of a job begin at most once per slot it was granted, and another
\* slot is granted only by a completed run: neither a crash, nor recovery, nor a
\* second runner replays work ("with no automatic replay").
NoAutoReplay == \A j \in JobIds : starts[j] <= renewals[j] + 1

\* From claim to commit the stored record is the runner's own claim: neither a
\* client, nor recovery, nor another runner takes it away, so the bail at the head
\* of execute is unreachable and the commit overwrites nobody else's verdict.
ClaimIsDurable ==
  \A r \in Runners : pc[r] \in {"claimed", "running", "ran"} => lease = r /\ HoldsClaim(r)

\* What a client reads of a job is one story: a job waiting for its next slot shows the
\* completed run it last made, an interrupted one shows an error and no result, and a
\* job failed by its schedule still shows the completed run.
OutcomeCoherent ==
  \A j \in JobIds :
     LET f == job[j]
     IN  /\ f.status = "queued" /\ f.run_id > 0 =>
              f.last_run_status = "completed" /\ f.result = f.run_id /\ ~f.error
         /\ f.status = "interrupted" => f.error /\ f.result = 0
         /\ f.status = "failed" /\ f.last_run_status = "completed" =>
              f.kind # "once" /\ f.error /\ f.result = f.run_id
         /\ f.status = "completed" => ~f.error /\ f.result = f.run_id

\* Once a cancellation is acknowledged the request is never lost and the job is never
\* queued or claimed again, however late in the run it came.
CancelSticks ==
  [][\A j \in JobIds : job[j].cancel_requested =>
        /\ job'[j].cancel_requested
        /\ job'[j].status # "queued"
        /\ job'[j].status = "running" => job[j].status = "running"]_job

\* A repeating job is due again strictly after now, so no burst catches up on missed
\* slots, and a cron slot is never repeated even if the clock was set back.
SlotsAdvance ==
  [][\A j \in JobIds : renewals'[j] # renewals[j] =>
        /\ job'[j].due_at > clock
        /\ job[j].kind = "cron" => job'[j].due_at > job[j].due_at]_<<job, renewals>>

\* The store and the runners implement the at-most-once promise.
SlotOf(f) ==
  CASE f.status = "absent"  -> "none"
    [] f.status = "queued"  -> "open"
    [] f.status = "running" -> "taken"
    [] OTHER                -> "closed"
Promise == INSTANCE AtMostOnce WITH
             Work <- JobIds, slot <- [j \in JobIds |-> SlotOf(job[j])]
KeepsPromise == Promise!Spec

-----------------------------------------------------------------------------
(* Liveness.                                                               *)

Serving == \E r \in Runners : pc[r] # "down" /\ mode[r] = "serve" /\ ~shutdown[r]
Occupied == \E r \in Runners : pc[r] = "running" /\ mine[r].id \in Endless /\ ~control[r]

\* While a gateway serves, a due job leaves the queue, although a repeating job may be due
\* again whenever its run ends: the job that has been due longest goes first.  Only a run
\* that never ends by itself can hold it up.
DueJobDispatched ==
  \A j \in JobIds :
     (Queued(j) /\ job[j].due_at <= clock) ~> (~Queued(j) \/ ~Serving \/ Occupied)

\* Both ways of stopping take effect, even on a run that would never end by itself: a
\* cancellation of a running job ends its run, and a runner told to stop ends, whatever it
\* was doing.
StopsTakeEffect ==
  /\ \A j \in JobIds :
        (job[j].status = "running" /\ job[j].cancel_requested)
           ~> (job[j].status # "running" \/ lease = Nobody)
  /\ \A r \in Runners : shutdown[r] ~> pc[r] = "down"

-----------------------------------------------------------------------------
(* What the documentation says and the code does not do.                   *)

\* docs/robot-workspace.md: "Successful interval jobs return to `queued`".
SuccessfulRepeatingJobReturns ==
  \A j \in JobIds : job[j].status = "completed" /\ job[j].kind # "once" =>
                       job[j].cancel_requested
=============================================================================
