--------------------------- MODULE Mission_proofs ---------------------------
(***************************************************************************)
(* Proofs about Mission for every catalog, policy, chain of planners and   *)
(* number of replans.  One invariant, IInv, carries them all; each lemma   *)
(* shows that every action keeps one of its parts.                         *)
(***************************************************************************)
EXTENDS Mission, TLAPS

USE MissionAssumption, CheckpointsLookBack

-----------------------------------------------------------------------------
(* The inductive invariant.                                                *)

\* A result is there exactly when the mission is done.
Ended == (pc = "done") <=> (result # "none")

\* A replan pays for the skill it asked for; the return to the instruction is paid by it too.
Budget ==
  LET spent == IF pc \in {"reported", "done"} THEN reports - 1 ELSE reports
  IN  /\ planning = "original" => spent <= 2 * replans
      /\ planning = "replan" => replans >= 1 /\ spent <= 2 * replans - 1

\* Where the agent is in the skill, and what its status says of it.
Running == {"attempt", "invoke", "operate", "erred", "succeeded", "mismatched"}
Position ==
  /\ pc \in AgentPlaces \cup {"decided"} => skill \in Skills
  /\ pc \in AgentPlaces => from <= step
  /\ pc \in Running => step \in 1..Steps[skill]
  /\ pc \in {"preflight", "step"} \cup Running => status = "completed"
  /\ pc \in {"finish", "reported"} =>
       /\ status = "completed" => step > Steps[skill]
       /\ status = "failed" => failed_step = step /\ step \in 1..Steps[skill]

\* Every step before the current one, and before the checkpoint, has succeeded.
Behind ==
  /\ pc \in AgentPlaces => \A k \in 1..(step - 1) : k \in done[skill]
  /\ pc = "succeeded" => step \in done[skill]
  /\ resume # NoContext => \A k \in 1..(resume.step - 1) : k \in done[resume.skill]
  /\ result = "completed" => \A k \in 1..Steps[skill] : k \in done[skill]

\* The only call begun after the stop is the one just made, and it is followed by a stop.
Lateness ==
  /\ late <= 1
  /\ late = 1 =>
       /\ Stopped
       /\ pc \in {"refused", "decided", "erred", "succeeded", "mismatched", "finish", "reported",
                  "done"}
       /\ pc = "reported" => status \in Stops
       /\ result \notin {"completed", "failed"}

\* The validated suffix is clear, or the control has stopped before its next operation.
Clear == \A k \in from..Steps[skill] : <<skill, k>> \notin Denied
Validated ==
  /\ pc \in {"step", "succeeded", "mismatched", "attempt", "invoke"} => Stopped \/ Clear
  /\ pc = "operate" => Clear

IInv == TypeOK /\ Ended /\ Budget /\ Position /\ Behind /\ Lateness /\ Validated

-----------------------------------------------------------------------------
(* Every action keeps every part.                                          *)

\* Every action of the mission keeps the variables well formed.
LEMMA TypeOKStep ==
  ASSUME IInv, [Next]_vars
  PROVE  TypeOK'
<1> USE DEF IInv, TypeOK, Position, Places, AgentPlaces, Running, Stops, Reason, NoContext, NoStep
<1>1. CASE Turn
  BY <1>1 DEF Turn, Return, control, gateway, agent
<1>2. CASE AskCandidate
  BY <1>2 DEF AskCandidate, Return, control, gateway, agent
<1>3. CASE Plan
  BY <1>3 DEF Plan, CallOut, control, gateway, agent
<1>4. CASE FallBack
  BY <1>4 DEF FallBack, Return, control, gateway, agent
<1>5. CASE Decide
  BY <1>5 DEF Decide, Return, Resumes, control, gateway, agent
<1>6. CASE Preflight
  BY <1>6 DEF Preflight, Return, ToValidate, control, gateway, agent
<1>7. CASE NextStep
  BY <1>7 DEF NextStep, Stop, control, gateway, agent
<1>8. CASE Attempt
  BY <1>8 DEF Attempt, Stop, control, gateway, agent
<1>9. CASE Invoke
  BY <1>9 DEF Invoke, Stop, control, gateway, agent
<1>10. CASE Operate
  BY <1>10 DEF Operate, CallOut, control, gateway, agent
<1>11. CASE Error
  BY <1>11 DEF Error, Stop, Return, control, gateway, agent
<1>12. CASE Succeed
  BY <1>12 DEF Succeed, Stop, control, gateway, agent
<1>13. CASE Mismatch
  BY <1>13 DEF Mismatch, Stop, RetriesLeft, GiveUp, control, gateway, agent
<1>14. CASE Finish
  BY <1>14 DEF Finish, control, gateway, agent
<1>15. CASE ReportStopped
  BY <1>15 DEF ReportStopped, Return, control, gateway, agent
<1>16. CASE HandBack
  BY <1>16 DEF HandBack, Live, HandsBack, control, gateway, agent
<1>17. CASE Conclude
  BY <1>17 DEF Conclude, Live, HandsBack, MayReplan, Return, control, gateway, agent
<1>18. CASE Replan
  BY <1>18 DEF Replan, Live, MayReplan, Context, control, gateway, agent
<1>19. CASE IOError
  BY <1>19 DEF IOError, Return, control, gateway, agent
<1>20. CASE Cancel
  BY <1>20 DEF Cancel, control, gateway, agent
<1>21. CASE Expire
  BY <1>21 DEF Expire, control, gateway, agent
<1>22. CASE UNCHANGED vars
  BY <1>22 DEF vars, control, gateway, agent
<1> QED
  BY <1>1, <1>2, <1>3, <1>4, <1>5, <1>6, <1>7, <1>8, <1>9, <1>10, <1>11, <1>12,
     <1>13, <1>14, <1>15, <1>16, <1>17, <1>18, <1>19, <1>20, <1>21, <1>22 DEF Next, Progress

\* A result is returned by the step that ends the mission, and by no other.
LEMMA EndedStep ==
  ASSUME IInv, [Next]_vars
  PROVE  Ended'
<1> USE DEF IInv, TypeOK, Ended, Places, AgentPlaces, Stops, Reason
<1>1. CASE Turn
  BY <1>1 DEF Turn, Return, control, gateway, agent
<1>2. CASE AskCandidate
  BY <1>2 DEF AskCandidate, Return, control, gateway, agent
<1>3. CASE Plan
  BY <1>3 DEF Plan, CallOut, control, gateway, agent
<1>4. CASE FallBack
  BY <1>4 DEF FallBack, Return, control, gateway, agent
<1>5. CASE Decide
  BY <1>5 DEF Decide, Return, Resumes, control, gateway, agent
<1>6. CASE Preflight
  BY <1>6 DEF Preflight, Return, ToValidate, control, gateway, agent
<1>7. CASE NextStep
  BY <1>7 DEF NextStep, Stop, control, gateway, agent
<1>8. CASE Attempt
  BY <1>8 DEF Attempt, Stop, control, gateway, agent
<1>9. CASE Invoke
  BY <1>9 DEF Invoke, Stop, control, gateway, agent
<1>10. CASE Operate
  BY <1>10 DEF Operate, CallOut, control, gateway, agent
<1>11. CASE Error
  BY <1>11 DEF Error, Stop, Return, control, gateway, agent
<1>12. CASE Succeed
  BY <1>12 DEF Succeed, Stop, control, gateway, agent
<1>13. CASE Mismatch
  BY <1>13 DEF Mismatch, Stop, RetriesLeft, GiveUp, control, gateway, agent
<1>14. CASE Finish
  BY <1>14 DEF Finish, control, gateway, agent
<1>15. CASE ReportStopped
  BY <1>15 DEF ReportStopped, Return, control, gateway, agent
<1>16. CASE HandBack
  BY <1>16 DEF HandBack, Live, HandsBack, control, gateway, agent
<1>17. CASE Conclude
  BY <1>17 DEF Conclude, Live, HandsBack, MayReplan, Return, control, gateway, agent
<1>18. CASE Replan
  BY <1>18 DEF Replan, Live, MayReplan, Context, control, gateway, agent
<1>19. CASE IOError
  BY <1>19 DEF IOError, Return, control, gateway, agent
<1>20. CASE Cancel
  BY <1>20 DEF Cancel, control, gateway, agent
<1>21. CASE Expire
  BY <1>21 DEF Expire, control, gateway, agent
<1>22. CASE UNCHANGED vars
  BY <1>22 DEF vars, control, gateway, agent
<1> QED
  BY <1>1, <1>2, <1>3, <1>4, <1>5, <1>6, <1>7, <1>8, <1>9, <1>10, <1>11, <1>12,
     <1>13, <1>14, <1>15, <1>16, <1>17, <1>18, <1>19, <1>20, <1>21, <1>22 DEF Next, Progress

\* No action collects a report that the replans made so far have not paid for.
LEMMA BudgetStep ==
  ASSUME IInv, [Next]_vars
  PROVE  Budget'
<1> USE DEF IInv, TypeOK, Budget, Places, AgentPlaces, Stops, Reason
<1>1. CASE Turn
  BY <1>1 DEF Turn, Return, control, gateway, agent
<1>2. CASE AskCandidate
  BY <1>2 DEF AskCandidate, Return, control, gateway, agent
<1>3. CASE Plan
  BY <1>3 DEF Plan, CallOut, control, gateway, agent
<1>4. CASE FallBack
  BY <1>4 DEF FallBack, Return, control, gateway, agent
<1>5. CASE Decide
  BY <1>5 DEF Decide, Return, Resumes, control, gateway, agent
<1>6. CASE Preflight
  BY <1>6 DEF Preflight, Return, ToValidate, control, gateway, agent
<1>7. CASE NextStep
  BY <1>7 DEF NextStep, Stop, control, gateway, agent
<1>8. CASE Attempt
  BY <1>8 DEF Attempt, Stop, control, gateway, agent
<1>9. CASE Invoke
  BY <1>9 DEF Invoke, Stop, control, gateway, agent
<1>10. CASE Operate
  BY <1>10 DEF Operate, CallOut, control, gateway, agent
<1>11. CASE Error
  BY <1>11 DEF Error, Stop, Return, control, gateway, agent
<1>12. CASE Succeed
  BY <1>12 DEF Succeed, Stop, control, gateway, agent
<1>13. CASE Mismatch
  BY <1>13 DEF Mismatch, Stop, RetriesLeft, GiveUp, control, gateway, agent
<1>14. CASE Finish
  BY <1>14 DEF Finish, control, gateway, agent
<1>15. CASE ReportStopped
  BY <1>15 DEF ReportStopped, Return, control, gateway, agent
<1>16. CASE HandBack
  BY <1>16 DEF HandBack, Live, HandsBack, control, gateway, agent
<1>17. CASE Conclude
  BY <1>17 DEF Conclude, Live, HandsBack, MayReplan, Return, control, gateway, agent
<1>18. CASE Replan
  BY <1>18 DEF Replan, Live, MayReplan, Context, control, gateway, agent
<1>19. CASE IOError
  BY <1>19 DEF IOError, Return, control, gateway, agent
<1>20. CASE Cancel
  BY <1>20 DEF Cancel, control, gateway, agent
<1>21. CASE Expire
  BY <1>21 DEF Expire, control, gateway, agent
<1>22. CASE UNCHANGED vars
  BY <1>22 DEF vars, control, gateway, agent
<1> QED
  BY <1>1, <1>2, <1>3, <1>4, <1>5, <1>6, <1>7, <1>8, <1>9, <1>10, <1>11, <1>12,
     <1>13, <1>14, <1>15, <1>16, <1>17, <1>18, <1>19, <1>20, <1>21, <1>22 DEF Next, Progress

\* The agent's place in the skill and its status stay in step with each other.
LEMMA PositionStep ==
  ASSUME IInv, [Next]_vars
  PROVE  Position'
<1> USE DEF IInv, TypeOK, Position, Places, AgentPlaces, Running, Stops, Reason, NoContext, NoStep, Ended
<1>1. CASE Turn
  BY <1>1 DEF Turn, Return, control, gateway, agent
<1>2. CASE AskCandidate
  BY <1>2 DEF AskCandidate, Return, control, gateway, agent
<1>3. CASE Plan
  BY <1>3 DEF Plan, CallOut, control, gateway, agent
<1>4. CASE FallBack
  BY <1>4 DEF FallBack, Return, control, gateway, agent
<1>5. CASE Decide
  BY <1>5 DEF Decide, Return, Resumes, control, gateway, agent
<1>6. CASE Preflight
  BY <1>6 DEF Preflight, Return, ToValidate, control, gateway, agent
<1>7. CASE NextStep
  BY <1>7 DEF NextStep, Stop, control, gateway, agent
<1>8. CASE Attempt
  BY <1>8 DEF Attempt, Stop, control, gateway, agent
<1>9. CASE Invoke
  BY <1>9 DEF Invoke, Stop, control, gateway, agent
<1>10. CASE Operate
  BY <1>10 DEF Operate, CallOut, control, gateway, agent
<1>11. CASE Error
  BY <1>11 DEF Error, Stop, Return, control, gateway, agent
<1>12. CASE Succeed
  BY <1>12 DEF Succeed, Stop, control, gateway, agent
<1>13. CASE Mismatch
  BY <1>13 DEF Mismatch, Stop, RetriesLeft, GiveUp, control, gateway, agent
<1>14. CASE Finish
  BY <1>14 DEF Finish, control, gateway, agent
<1>15. CASE ReportStopped
  BY <1>15 DEF ReportStopped, Return, control, gateway, agent
<1>16. CASE HandBack
  BY <1>16 DEF HandBack, Live, HandsBack, control, gateway, agent
<1>17. CASE Conclude
  BY <1>17 DEF Conclude, Live, HandsBack, MayReplan, Return, control, gateway, agent
<1>18. CASE Replan
  BY <1>18 DEF Replan, Live, MayReplan, Context, control, gateway, agent
<1>19. CASE IOError
  BY <1>19 DEF IOError, Return, control, gateway, agent
<1>20. CASE Cancel
  BY <1>20 DEF Cancel, control, gateway, agent
<1>21. CASE Expire
  BY <1>21 DEF Expire, control, gateway, agent
<1>22. CASE UNCHANGED vars
  BY <1>22 DEF vars, control, gateway, agent
<1> QED
  BY <1>1, <1>2, <1>3, <1>4, <1>5, <1>6, <1>7, <1>8, <1>9, <1>10, <1>11, <1>12,
     <1>13, <1>14, <1>15, <1>16, <1>17, <1>18, <1>19, <1>20, <1>21, <1>22 DEF Next, Progress

\* No action moves the agent or the checkpoint past a step that has not succeeded.
LEMMA BehindStep ==
  ASSUME IInv, [Next]_vars
  PROVE  Behind'
<1> USE DEF IInv, TypeOK, Position, Places, AgentPlaces, Running, Stops, Reason, NoContext, NoStep, Behind, Ended, MayReplan, HandsBack
<1>1. CASE Turn
  BY <1>1 DEF Turn, Return, control, gateway, agent
<1>2. CASE AskCandidate
  BY <1>2 DEF AskCandidate, Return, control, gateway, agent
<1>3. CASE Plan
  BY <1>3 DEF Plan, CallOut, control, gateway, agent
<1>4. CASE FallBack
  BY <1>4 DEF FallBack, Return, control, gateway, agent
<1>5. CASE Decide
  BY <1>5 DEF Decide, Return, Resumes, control, gateway, agent
<1>6. CASE Preflight
  BY <1>6 DEF Preflight, Return, ToValidate, control, gateway, agent
<1>7. CASE NextStep
  BY <1>7 DEF NextStep, Stop, control, gateway, agent
<1>8. CASE Attempt
  BY <1>8 DEF Attempt, Stop, control, gateway, agent
<1>9. CASE Invoke
  BY <1>9 DEF Invoke, Stop, control, gateway, agent
<1>10. CASE Operate
  BY <1>10 DEF Operate, CallOut, control, gateway, agent
<1>11. CASE Error
  BY <1>11 DEF Error, Stop, Return, control, gateway, agent
<1>12. CASE Succeed
  BY <1>12 DEF Succeed, Stop, control, gateway, agent
<1>13. CASE Mismatch
  BY <1>13 DEF Mismatch, Stop, RetriesLeft, GiveUp, control, gateway, agent
<1>14. CASE Finish
  BY <1>14 DEF Finish, control, gateway, agent
<1>15. CASE ReportStopped
  BY <1>15 DEF ReportStopped, Return, control, gateway, agent
<1>16. CASE HandBack
  BY <1>16 DEF HandBack, Live, HandsBack, control, gateway, agent
<1>17. CASE Conclude
  BY <1>17 DEF Conclude, Live, HandsBack, MayReplan, Return, control, gateway, agent
<1>18. CASE Replan
  BY <1>18 DEF Replan, Live, MayReplan, Context, control, gateway, agent
<1>19. CASE IOError
  BY <1>19 DEF IOError, Return, control, gateway, agent
<1>20. CASE Cancel
  BY <1>20 DEF Cancel, control, gateway, agent
<1>21. CASE Expire
  BY <1>21 DEF Expire, control, gateway, agent
<1>22. CASE UNCHANGED vars
  BY <1>22 DEF vars, control, gateway, agent
<1> QED
  BY <1>1, <1>2, <1>3, <1>4, <1>5, <1>6, <1>7, <1>8, <1>9, <1>10, <1>11, <1>12,
     <1>13, <1>14, <1>15, <1>16, <1>17, <1>18, <1>19, <1>20, <1>21, <1>22 DEF Next, Progress

\* A call begun after the stop is followed by a stop, never by another call.
LEMMA LatenessStep ==
  ASSUME IInv, [Next]_vars
  PROVE  Lateness'
<1> USE DEF IInv, TypeOK, Lateness, Ended, Position, Places, AgentPlaces, Running, Stops, Reason, Stopped
<1>1. CASE Turn
  BY <1>1 DEF Turn, Return, control, gateway, agent
<1>2. CASE AskCandidate
  BY <1>2 DEF AskCandidate, Return, control, gateway, agent
<1>3. CASE Plan
  BY <1>3 DEF Plan, CallOut, control, gateway, agent
<1>4. CASE FallBack
  BY <1>4 DEF FallBack, Return, control, gateway, agent
<1>5. CASE Decide
  BY <1>5 DEF Decide, Return, Resumes, control, gateway, agent
<1>6. CASE Preflight
  BY <1>6 DEF Preflight, Return, ToValidate, control, gateway, agent
<1>7. CASE NextStep
  BY <1>7 DEF NextStep, Stop, control, gateway, agent
<1>8. CASE Attempt
  BY <1>8 DEF Attempt, Stop, control, gateway, agent
<1>9. CASE Invoke
  BY <1>9 DEF Invoke, Stop, control, gateway, agent
<1>10. CASE Operate
  BY <1>10 DEF Operate, CallOut, control, gateway, agent
<1>11. CASE Error
  BY <1>11 DEF Error, Stop, Return, control, gateway, agent
<1>12. CASE Succeed
  BY <1>12 DEF Succeed, Stop, control, gateway, agent
<1>13. CASE Mismatch
  BY <1>13 DEF Mismatch, Stop, RetriesLeft, GiveUp, control, gateway, agent
<1>14. CASE Finish
  BY <1>14 DEF Finish, control, gateway, agent
<1>15. CASE ReportStopped
  BY <1>15 DEF ReportStopped, Return, control, gateway, agent
<1>16. CASE HandBack
  BY <1>16 DEF HandBack, Live, HandsBack, control, gateway, agent
<1>17. CASE Conclude
  BY <1>17 DEF Conclude, Live, HandsBack, MayReplan, Return, control, gateway, agent
<1>18. CASE Replan
  BY <1>18 DEF Replan, Live, MayReplan, Context, control, gateway, agent
<1>19. CASE IOError
  BY <1>19 DEF IOError, Return, control, gateway, agent
<1>20. CASE Cancel
  BY <1>20 DEF Cancel, control, gateway, agent
<1>21. CASE Expire
  BY <1>21 DEF Expire, control, gateway, agent
<1>22. CASE UNCHANGED vars
  BY <1>22 DEF vars, control, gateway, agent
<1> QED
  BY <1>1, <1>2, <1>3, <1>4, <1>5, <1>6, <1>7, <1>8, <1>9, <1>10, <1>11, <1>12,
     <1>13, <1>14, <1>15, <1>16, <1>17, <1>18, <1>19, <1>20, <1>21, <1>22 DEF Next, Progress

\* Nothing is operated that the preflight did not clear.
LEMMA ValidatedStep ==
  ASSUME IInv, [Next]_vars
  PROVE  Validated'
<1> USE DEF IInv, TypeOK, Validated, Clear, Position, Running, Places, AgentPlaces, Stopped
<1>1. CASE Turn
  BY <1>1 DEF Turn, Return, control, gateway, agent
<1>2. CASE AskCandidate
  BY <1>2 DEF AskCandidate, Return, control, gateway, agent
<1>3. CASE Plan
  BY <1>3 DEF Plan, CallOut, control, gateway, agent
<1>4. CASE FallBack
  BY <1>4 DEF FallBack, Return, control, gateway, agent
<1>5. CASE Decide
  BY <1>5 DEF Decide, Return, Resumes, control, gateway, agent
<1>6. CASE Preflight
  BY <1>6 DEF Preflight, Return, ToValidate, control, gateway, agent
<1>7. CASE NextStep
  BY <1>7 DEF NextStep, Stop, control, gateway, agent
<1>8. CASE Attempt
  BY <1>8 DEF Attempt, Stop, control, gateway, agent
<1>9. CASE Invoke
  BY <1>9 DEF Invoke, Stop, control, gateway, agent
<1>10. CASE Operate
  BY <1>10 DEF Operate, CallOut, control, gateway, agent
<1>11. CASE Error
  BY <1>11 DEF Error, Stop, Return, control, gateway, agent
<1>12. CASE Succeed
  BY <1>12 DEF Succeed, Stop, control, gateway, agent
<1>13. CASE Mismatch
  BY <1>13 DEF Mismatch, Stop, RetriesLeft, GiveUp, control, gateway, agent
<1>14. CASE Finish
  BY <1>14 DEF Finish, control, gateway, agent
<1>15. CASE ReportStopped
  BY <1>15 DEF ReportStopped, Return, control, gateway, agent
<1>16. CASE HandBack
  BY <1>16 DEF HandBack, Live, HandsBack, control, gateway, agent
<1>17. CASE Conclude
  BY <1>17 DEF Conclude, Live, HandsBack, MayReplan, Return, control, gateway, agent
<1>18. CASE Replan
  BY <1>18 DEF Replan, Live, MayReplan, Context, control, gateway, agent
<1>19. CASE IOError
  BY <1>19 DEF IOError, Return, control, gateway, agent
<1>20. CASE Cancel
  BY <1>20 DEF Cancel, control, gateway, agent
<1>21. CASE Expire
  BY <1>21 DEF Expire, control, gateway, agent
<1>22. CASE UNCHANGED vars
  BY <1>22 DEF vars, control, gateway, agent
<1> QED
  BY <1>1, <1>2, <1>3, <1>4, <1>5, <1>6, <1>7, <1>8, <1>9, <1>10, <1>11, <1>12,
     <1>13, <1>14, <1>15, <1>16, <1>17, <1>18, <1>19, <1>20, <1>21, <1>22 DEF Next, Progress

-----------------------------------------------------------------------------
(* The theorems.                                                           *)

\* A mission starts in the invariant.
LEMMA InitIInv == Init => IInv
<1> SUFFICES ASSUME Init PROVE IInv
  OBVIOUS
<1> USE DEF Init
<1>1. TypeOK
  <2>1. replans \in 0..max_replans /\ max_replans \in 0..MaxReplans /\ candidate \in 1..Planners
    BY SMT DEF MissionAssumption
  <2>2. done \in [Skills -> SUBSET Nat]
    OBVIOUS
  <2>3. resume = NoContext
    OBVIOUS
  <2>4. pc \in Places
    BY DEF Places
  <2>5. cancelled \in BOOLEAN /\ expired \in BOOLEAN
    OBVIOUS
  <2>6. /\ planning \in {"original", "replan"} /\ skill \in Skills \cup {"none"}
        /\ status \in {"completed", "failed"} \cup Stops
        /\ result \in {"none", "completed", "failed", "error"} \cup Stops
    OBVIOUS
  <2>7. /\ reports \in Nat /\ from \in Nat \ {0} /\ step \in Nat \ {0}
        /\ attempts \in Nat /\ failed_step \in Nat /\ late \in Nat
    BY DEF NoStep
  <2> QED
    BY <2>1, <2>2, <2>3, <2>4, <2>5, <2>6, <2>7 DEF TypeOK
<1>2. Ended /\ Budget
  BY DEF Ended, Budget
<1>3. Position
  BY DEF Position, AgentPlaces, Running
<1>4. Behind
  BY DEF Behind, AgentPlaces
<1>5. Lateness /\ Validated
  BY DEF Lateness, Validated
<1> QED
  BY <1>1, <1>2, <1>3, <1>4, <1>5 DEF IInv

\* The invariant holds of every mission.
THEOREM IInvariant == Spec => []IInv
<1>1. IInv /\ [Next]_vars => IInv'
  <2> SUFFICES ASSUME IInv, [Next]_vars PROVE IInv'
    OBVIOUS
  <2> QED
    BY TypeOKStep, EndedStep, BudgetStep, PositionStep, BehindStep, LatenessStep, ValidatedStep
    DEF IInv
<1> QED
  BY InitIInv, <1>1, PTL DEF Spec

\* The gateway's and the agent's variables keep their types; replans stay within the limit.
THEOREM TypeCorrect == Spec => []TypeOK
BY IInvariant, PTL DEF IInv

\* With max_replans replans a mission runs at most 2 * max_replans + 1 skills.
THEOREM SkillsBounded == Spec => []ReportsBounded
<1>1. IInv => ReportsBounded
  BY DEF IInv, TypeOK, Budget, ReportsBounded
<1> QED
  BY IInvariant, <1>1, PTL

\* At most one call begins after the stop, and such a mission reports the stop.
THEOREM StopIsPrompt == Spec => []OneLateCall
<1>1. IInv => OneLateCall
  BY DEF IInv, Lateness, OneLateCall
<1> QED
  BY IInvariant, <1>1, PTL

\* A resumed run skips only steps that succeeded.
THEOREM ResumptionIsSound == Spec => []ResumeSkipsOnlyDone
<1>1. IInv => ResumeSkipsOnlyDone
  BY DEF IInv, TypeOK, Position, Behind, ResumeSkipsOnlyDone
<1> QED
  BY IInvariant, <1>1, PTL

\* A completed mission did every step of the skill it ended with.
THEOREM CompletionIsEarned == Spec => []CompletedMeansDone
<1>1. IInv => CompletedMeansDone
  BY DEF IInv, Behind, CompletedMeansDone
<1> QED
  BY IInvariant, <1>1, PTL

\* No operation begins ahead of a step that would be rejected.
THEOREM PreflightProtects == Spec => []NothingDeniedAhead
<1>1. IInv => NothingDeniedAhead
  BY DEF IInv, TypeOK, Position, Running, AgentPlaces, Validated, Clear, NothingDeniedAhead
<1> QED
  BY IInvariant, <1>1, PTL
=============================================================================
