------------------------------ MODULE Mission -------------------------------
(***************************************************************************)
(* One instruction from plan to result: the gateway loop of crates/gateway *)
(* over the planner chain and the agent of crates/agent, which run skills  *)
(* step by step through the tool registry of crates/tools.  A failed skill *)
(* asks for a new plan, a recovery skill hands back to the instruction,    *)
(* and a skill may resume at a checkpoint.  The caller's ExecutionControl  *)
(* is cancelled or reaches its deadline at any moment.                     *)
(***************************************************************************)
EXTENDS Integers, FiniteSets

CONSTANTS
  Skills,
  Steps,                 \* Steps[s]: how many steps skill s has
  MaxRetries,            \* MaxRetries[s][k]: max_retries of step k
  Checkpoint,            \* Checkpoint[s][k]: resume_from_step of step k, k when it has none
  Resumable,             \* skills with supports_checkpoint_resume
  HandingBack,           \* skills with resume_original_instruction
  Denied,                \* steps <<s, k>> the tool policy or input validation rejects
  MaxReplans,            \* the largest max_replans of a mission
  Planners               \* how many candidates the fallback chain has

\* What SkillCatalog::validate and the config check, except the last conjunct: the catalog
\* shipped keeps checkpoints at or before their step, the code does not ask for it.
ASSUME MissionAssumption ==
  /\ "none" \notin Skills
  /\ Steps \in [Skills -> Nat]
  /\ \A s \in Skills : \A k \in 1..Steps[s] : MaxRetries[s][k] \in 0..100
  /\ Resumable \subseteq Skills /\ HandingBack \subseteq Skills
  /\ MaxReplans \in 0..10
  /\ Planners \in Nat \ {0}
ASSUME CheckpointsLookBack ==
  \A s \in Skills : \A k \in 1..Steps[s] : Checkpoint[s][k] \in 1..k

VARIABLES
  cancelled, expired,    \* the ExecutionControl: its flag, and whether its deadline passed
  pc,
  planning,              \* the planning instruction: the original one, or a request to replan
  candidate,             \* the planner being asked
  max_replans,           \* the mission's budget of replans
  replans, reports,      \* replans made and reports collected
  resume,                \* resume_context
  skill, from,           \* the decision, and the step it starts at
  step, attempts,        \* where the agent is, and the attempts made of that step
  status, failed_step,   \* of the current report
  result,                \* the status returned, or "error"
  done,                  \* done[s]: the steps of s that ever succeeded in this mission
  late                   \* external calls begun after the control stopped

control == <<cancelled, expired>>
gateway == <<planning, max_replans, replans, reports, resume>>
agent == <<skill, from, step, attempts, status, failed_step>>
vars == <<control, pc, gateway, candidate, agent, result, done, late>>

NoStep == 0
NoContext == [skill |-> "none", step |-> NoStep]

Init ==
  /\ cancelled = FALSE /\ expired = FALSE
  /\ pc = "loop"
  /\ planning = "original"
  /\ candidate = 1
  /\ max_replans \in 0..MaxReplans
  /\ replans = 0 /\ reports = 0
  /\ resume = NoContext
  /\ skill = "none" /\ from = 1
  /\ step = 1 /\ attempts = 0
  /\ status = "completed" /\ failed_step = NoStep
  /\ result = "none"
  /\ done = [s \in Skills |-> {}]
  /\ late = 0

-----------------------------------------------------------------------------
(* ExecutionControl.                                                       *)

\* stop_reason() is some: a clone was cancelled or the deadline passed; it stays so.
\* Mutant: the deadline is not looked at.
StoppedIgnoringDeadline == cancelled
Stopped == cancelled \/ expired

\* Cancellation wins.
Reason == IF cancelled THEN "cancelled" ELSE "timed_out"

Cancel == ~cancelled /\ cancelled' = TRUE /\ UNCHANGED <<expired, pc, gateway, candidate,
                                                         agent, result, done, late>>
Expire == ~expired /\ expired' = TRUE /\ UNCHANGED <<cancelled, pc, gateway, candidate,
                                                     agent, result, done, late>>

\* A request to a planner, or an operation of a tool, begins.
CallOut == late' = late + (IF cancelled \/ expired THEN 1 ELSE 0)

Return(r) == pc' = "done" /\ result' = r

-----------------------------------------------------------------------------
(* Planning.                                                               *)

\* Top of the gateway loop; the chain starts at its first candidate on every turn.
Turn ==
  /\ pc = "loop"
  /\ candidate' = 1
  /\ \/ Stopped /\ Return(Reason)
     \/ ~Stopped /\ pc' = "candidate" /\ UNCHANGED result
  /\ UNCHANGED <<control, gateway, agent, done, late>>

AskCandidate ==
  /\ pc = "candidate"
  /\ \/ Stopped /\ Return(Reason)
     \/ ~Stopped /\ pc' = "request" /\ UNCHANGED result
  /\ UNCHANGED <<control, gateway, candidate, agent, done, late>>

\* The candidate answers with a skill of the catalog, or with an error.
Plan ==
  /\ pc = "request"
  /\ CallOut
  /\ \/ \E s \in Skills : skill' = s /\ pc' = "decided"
     \/ pc' = "refused" /\ UNCHANGED skill
  /\ UNCHANGED <<control, gateway, candidate, from, step, attempts, status, failed_step,
                 result, done>>

\* An error is final only when the chain is exhausted or the control stopped.
FallBack ==
  /\ pc = "refused"
  /\ \/ Stopped /\ Return(Reason) /\ UNCHANGED candidate
     \/ /\ ~Stopped /\ candidate < Planners
        /\ candidate' = candidate + 1
        /\ pc' = "candidate" /\ UNCHANGED result
     \/ ~Stopped /\ candidate = Planners /\ Return("error") /\ UNCHANGED candidate
  /\ UNCHANGED <<control, gateway, agent, done, late>>

\* The checkpoint is taken only for the original instruction and the same skill.
Resumes(s) == planning = "original" /\ resume.skill = s /\ s \in Resumable

Decide ==
  /\ pc = "decided"
  /\ \/ Stopped /\ Return(Reason) /\ UNCHANGED <<from, step, status, failed_step>>
     \/ /\ ~Stopped
        /\ pc' = "preflight"
        /\ from' = IF Resumes(skill) THEN resume.step ELSE 1
        /\ step' = from'
        /\ status' = "completed" /\ failed_step' = NoStep
        /\ UNCHANGED result
  /\ UNCHANGED <<control, gateway, candidate, skill, attempts, done, late>>

-----------------------------------------------------------------------------
(* The agent: run_with_decision_with_control.                              *)

\* The steps validated before the first operation.
ToValidate == from..Steps[skill]

\* A stop ends the preflight early; the first step then sees it.
Preflight ==
  /\ pc = "preflight"
  /\ \/ ~Stopped /\ (\E k \in ToValidate : <<skill, k>> \in Denied) /\ Return("error")
     \/ /\ Stopped \/ \A k \in ToValidate : <<skill, k>> \notin Denied
        /\ pc' = "step" /\ UNCHANGED result
  /\ UNCHANGED <<control, gateway, candidate, agent, done, late>>

Stop == status' = Reason /\ pc' = "finish"

\* Next step of the suffix.
NextStep ==
  /\ pc = "step"
  /\ attempts' = 0
  /\ \/ step > Steps[skill] /\ pc' = "finish" /\ UNCHANGED status
     \/ step <= Steps[skill] /\ Stopped /\ Stop
     \/ step <= Steps[skill] /\ ~Stopped /\ pc' = "attempt" /\ UNCHANGED status
  /\ UNCHANGED <<control, gateway, candidate, skill, from, step, failed_step, result, done, late>>

\* tool_invoked is remembered.  Mutant: the attempt is not counted.
AttemptUncounted ==
  /\ pc = "attempt"
  /\ \/ Stopped /\ Stop
     \/ ~Stopped /\ pc' = "invoke" /\ UNCHANGED status
  /\ UNCHANGED <<control, gateway, candidate, skill, from, step, attempts, failed_step, result,
                 done, late>>
Attempt ==
  /\ pc = "attempt"
  /\ \/ Stopped /\ Stop /\ UNCHANGED attempts
     \/ ~Stopped /\ attempts' = attempts + 1 /\ pc' = "invoke" /\ UNCHANGED status
  /\ UNCHANGED <<control, gateway, candidate, skill, from, step, failed_step, result, done, late>>

\* execute_with_control checks the control and the policy once more.
Invoke ==
  /\ pc = "invoke"
  /\ \/ Stopped /\ Stop /\ UNCHANGED result
     \/ ~Stopped /\ <<skill, step>> \in Denied /\ pc' = "erred" /\ UNCHANGED <<status, result>>
     \/ ~Stopped /\ <<skill, step>> \notin Denied /\ pc' = "operate" /\ UNCHANGED <<status, result>>
  /\ UNCHANGED <<control, gateway, candidate, skill, from, step, attempts, failed_step, done, late>>

\* The tool runs: its output meets the expectation, or not, or it returns an error.
Operate ==
  /\ pc = "operate"
  /\ CallOut
  /\ \/ done' = [done EXCEPT ![skill] = @ \cup {step}] /\ pc' = "succeeded"
     \/ pc' \in {"mismatched", "erred"} /\ UNCHANGED done
  /\ UNCHANGED <<control, gateway, candidate, agent, result>>

\* An error is a stop when the control stopped; any other ends the mission.
Error ==
  /\ pc = "erred"
  /\ \/ Stopped /\ Stop /\ UNCHANGED result
     \/ ~Stopped /\ Return("error") /\ UNCHANGED status
  /\ UNCHANGED <<control, gateway, candidate, skill, from, step, attempts, failed_step, done, late>>

Succeed ==
  /\ pc = "succeeded"
  /\ \/ Stopped /\ Stop /\ UNCHANGED step
     \/ ~Stopped /\ step' = step + 1 /\ pc' = "step" /\ UNCHANGED status
  /\ UNCHANGED <<control, gateway, candidate, skill, from, attempts, failed_step, result, done, late>>

\* Attempts 0..=max_retries.
RetriesLeft == attempts <= MaxRetries[skill][step]

\* The retries are used up.  Mutant: the last mismatch counts as success.
GiveUpAsIfDone == step' = step + 1 /\ pc' = "step" /\ UNCHANGED <<status, failed_step>>
GiveUp == status' = "failed" /\ failed_step' = step /\ pc' = "finish" /\ UNCHANGED step

Mismatch ==
  /\ pc = "mismatched"
  /\ \/ Stopped /\ Stop /\ UNCHANGED <<step, failed_step>>
     \/ ~Stopped /\ RetriesLeft /\ pc' = "attempt" /\ UNCHANGED <<status, step, failed_step>>
     \/ ~Stopped /\ ~RetriesLeft /\ GiveUp
  /\ UNCHANGED <<control, gateway, candidate, skill, from, attempts, result, done, late>>

\* The last look at the control overrides the status; the report is handed over.
Finish ==
  /\ pc = "finish"
  /\ status' = IF Stopped THEN Reason ELSE status
  /\ reports' = reports + 1
  /\ pc' = "reported"
  /\ UNCHANGED <<control, planning, max_replans, replans, resume, candidate, skill, from,
                 step, attempts, failed_step, result, done, late>>

-----------------------------------------------------------------------------
(* The gateway on a report.                                                *)

\* checkpoint_resume_context.  Mutants: the step after the failed one; the failed step itself.
ContextAfter ==
  IF skill \in Resumable THEN [skill |-> skill, step |-> failed_step + 1] ELSE NoContext
ContextAtFailure ==
  IF skill \in Resumable THEN [skill |-> skill, step |-> failed_step] ELSE NoContext
Context ==
  IF skill \in Resumable THEN [skill |-> skill, step |-> Checkpoint[skill][failed_step]]
                         ELSE NoContext

MayReplan == replans < max_replans

\* A recovery skill completed.  Mutant: also when it was chosen for the instruction itself.
HandsBackAlways == status = "completed" /\ skill \in HandingBack
HandsBack == status = "completed" /\ skill \in HandingBack /\ planning # "original"

\* A report that stopped, or a control that stopped since, ends the mission.
ReportStopped ==
  /\ pc = "reported"
  /\ \/ status \in {"cancelled", "timed_out"} /\ Return(status)
     \/ status \notin {"cancelled", "timed_out"} /\ Stopped /\ Return(Reason)
  /\ UNCHANGED <<control, gateway, candidate, agent, done, late>>

Live == pc = "reported" /\ status \in {"completed", "failed"} /\ ~Stopped

HandBack ==
  /\ Live /\ HandsBack
  /\ planning' = "original"
  /\ pc' = "loop"
  /\ UNCHANGED <<control, max_replans, replans, reports, resume, candidate, agent, result,
                 done, late>>

Conclude ==
  /\ Live /\ ~HandsBack
  /\ status = "completed" \/ ~MayReplan
  /\ Return(status)
  /\ UNCHANGED <<control, gateway, candidate, agent, done, late>>

Replan ==
  /\ Live /\ status = "failed" /\ MayReplan
  /\ replans' = replans + 1
  /\ planning' = "replan"
  /\ resume' = Context
  /\ pc' = "loop"
  /\ UNCHANGED <<control, max_replans, reports, candidate, agent, result, done, late>>

\* A memory, observer or publishing error ends the mission with `?`.
IOError ==
  /\ pc \in {"loop", "candidate", "preflight", "attempt", "succeeded", "mismatched", "finish",
             "reported"}
  /\ Return("error")
  /\ UNCHANGED <<control, gateway, candidate, agent, done, late>>

-----------------------------------------------------------------------------
Progress ==
  \/ Turn \/ AskCandidate \/ Plan \/ FallBack \/ Decide
  \/ Preflight \/ NextStep \/ Attempt \/ Invoke \/ Operate \/ Error
  \/ Succeed \/ Mismatch \/ Finish
  \/ ReportStopped \/ HandBack \/ Conclude \/ Replan

Next == Progress \/ IOError \/ Cancel \/ Expire

Spec == Init /\ [][Next]_vars

\* The thread keeps running; planners and tools return.
FairSpec == Spec /\ WF_vars(Progress)

-----------------------------------------------------------------------------
(* Properties.                                                             *)

AgentPlaces == {"preflight", "step", "attempt", "invoke", "operate", "erred", "succeeded",
                "mismatched", "finish", "reported"}
Places == {"loop", "candidate", "request", "refused", "decided", "done"} \cup AgentPlaces
Stops == {"cancelled", "timed_out"}

\* The gateway's and the agent's variables are well formed; attempts stay within retries.
TypeOK ==
  /\ cancelled \in BOOLEAN /\ expired \in BOOLEAN
  /\ pc \in Places
  /\ planning \in {"original", "replan"}
  /\ candidate \in 1..Planners
  /\ max_replans \in 0..MaxReplans /\ replans \in 0..max_replans /\ reports \in Nat
  /\ resume = NoContext \/ (/\ resume.skill \in Skills
                            /\ resume.step \in 1..Steps[resume.skill])
  /\ skill \in Skills \cup {"none"}
  /\ from \in Nat \ {0} /\ step \in Nat \ {0} /\ attempts \in Nat
  /\ status \in {"completed", "failed"} \cup Stops
  /\ failed_step \in Nat
  /\ result \in {"none", "completed", "failed", "error"} \cup Stops
  /\ done \in [Skills -> SUBSET Nat]
  /\ late \in Nat

\* However plans fail, recover and fail again, a mission runs at most one skill more than
\* twice its replans: every replan pays for one skill and one return to the instruction.
ReportsBounded == reports <= 2 * max_replans + 1

\* Once the control stopped, at most one call already past its last check still begins, and a
\* mission with such a call reports neither success nor failure.
OneLateCall ==
  /\ late <= 1
  /\ late = 1 => result \notin {"completed", "failed"}

\* The steps a run leaves out because it resumed had all succeeded earlier in this mission,
\* through any number of replans, recoveries and resumptions of resumptions.
ResumeSkipsOnlyDone ==
  pc \in AgentPlaces => 1..(from - 1) \subseteq done[skill]

\* A mission is called completed only if every step of the skill it ended with succeeded.
CompletedMeansDone ==
  result = "completed" => 1..Steps[skill] \subseteq done[skill]

\* No operation of a skill begins while a later step of it would be rejected: a preflight cut
\* short by a stop lets nothing through.
NothingDeniedAhead ==
  pc = "operate" => \A k \in step..Steps[skill] : <<skill, k>> \notin Denied

\* Every mission ends.
Terminates == <>(pc = "done")
=============================================================================
