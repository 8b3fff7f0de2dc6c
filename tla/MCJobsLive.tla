----------------------------- MODULE MCJobsLive -----------------------------
(***************************************************************************)
(* Jobs that repeat for ever, in a finite instance: a window of time that  *)
(* moves along with the clock.  The steps of Jobs compare instants and run *)
(* numbers with each other and never with a fixed one, so that a state in  *)
(* which all of them are shifted alike goes on in the same way.            *)
(***************************************************************************)
EXTENDS MCJobs

\* The window moves by one instant: the jobs due before it stay due first, at its first
\* instant, and no job comes to be due together with one it was due after.
MoveTime ==
  /\ clock >= 2
  /\ \A j \in JobIds : Queued(j) => job[j].due_at # 1
  /\ clock' = clock - 1

\* A run is compared with its own claim only, and no step looks at what earlier runs left in
\* a record: each job's last run becomes its first, and the job as it was when it began.
Forget(f) ==
  [f EXCEPT !.due_at = IF @ = 0 THEN 0 ELSE @ - 1,
            !.run_id = IF f.status = "running" THEN 1 ELSE 0,
            !.result = 0, !.error = FALSE, !.last_run_status = "none"]

FirstRun(claim) == IF claim = NoClaim THEN NoClaim ELSE [claim EXCEPT !.run_id = 1]

Recenter ==
  /\ MoveTime
  /\ job' = [j \in JobIds |-> Forget(job[j])]
  /\ mine' = [r \in Runners |-> FirstRun(mine[r])]
  /\ starts' = [j \in JobIds |-> 0] /\ renewals' = [j \in JobIds |-> 0]
  /\ UNCHANGED <<lease, pc, mode, shutdown, processed, control, outcome>>

\* Bound: the endless job is one that repeats; the other may be of either kind.
Submitted == \A j \in Endless : job'[j].status = "absent" \/ job'[j].kind = "interval"

LiveSpec == Init /\ [][(Next /\ Submitted) \/ Recenter]_vars /\ Fairness
=============================================================================
