---------------------------- MODULE Trial_proofs ----------------------------
(***************************************************************************)
(* A trial is a mission, for every catalog, scenario and planner: what is  *)
(* proved of missions (Mission_proofs) holds of the missions scored.  With *)
(* it, a pass is earned in every catalog that puts the red cube into the   *)
(* bin only; the robot stays in step with every catalog whose skills fit   *)
(* together; and the scenarios tell the strategies apart in every catalog  *)
(* that looks and grips once, with one retry each.                         *)
(***************************************************************************)
EXTENDS Trial, NaturalsInduction, WellFoundedInduction, TLAPS

P == INSTANCE Mission_proofs WITH pc <- MissionPc

-----------------------------------------------------------------------------
(* The mission inside a trial.                                             *)

\* The places of a trial that a mission does not have.
Within == {"tool", "waiting"}

\* Everywhere else a trial is where its mission is.
LEMMA PcMaps ==
  /\ pc \notin Within => MissionPc = pc
  /\ pc = "tool" => MissionPc = "operate"
  /\ pc = "waiting" => MissionPc = "erred"
BY DEF MissionPc, Within

\* The same of the next state.
LEMMA PcMapsNext ==
  /\ pc' \notin Within => MissionPc' = pc'
  /\ pc' = "tool" => MissionPc' = "operate"
  /\ pc' = "waiting" => MissionPc' = "erred"
BY DEF MissionPc, Within

\* A trial starts as a mission.
LEMMA InitMaps == TrialInit => M!Init
<1> SUFFICES ASSUME TrialInit PROVE M!Init
  OBVIOUS
<1>1. MissionPc = "loop"
  BY DEF MissionPc, TrialInit, Init
<1> QED BY <1>1 DEF TrialInit, Init, M!Init, M!NoContext, NoContext, M!NoStep, NoStep

\* What the fault wrapper and the tool do together is one operation of the mission.
LEMMA ToolMaps ==
  ASSUME late \in Nat, ToolStep
  PROVE  [M!Next]_M!vars
<1> USE DEF control, gateway, agent
<1>1. CASE Refuse
  <2>1. MissionPc = "operate" /\ MissionPc' = "erred"
    BY <1>1, PcMaps, PcMapsNext DEF Refuse, Within
  <2>2. M!Operate
    BY <1>1, <2>1 DEF Refuse, CallOut, M!Operate, M!CallOut, M!control, M!gateway, M!agent
  <2> QED BY <2>2 DEF M!Next, M!Progress
<1>2. CASE Inject
  <2>1. MissionPc = "operate" /\ MissionPc' = pc' /\ pc' \in {"succeeded", "mismatched"}
    BY <1>2, PcMaps, PcMapsNext DEF Inject, Judged, Within
  <2>2. M!CallOut
    BY <1>2 DEF Inject, Stopped, M!CallOut
  <2>3. M!Operate
    BY <1>2, <2>1, <2>2 DEF Inject, Judged, M!Operate, M!control, M!gateway, M!agent
  <2> QED BY <2>3 DEF M!Next, M!Progress
<1>3. CASE Stall
  <2>1. MissionPc = "operate" /\ MissionPc' = "erred"
    BY <1>3, PcMaps, PcMapsNext DEF Stall, Within
  <2>2. M!CallOut
    BY <1>3 DEF Stall, Stopped, M!CallOut
  <2>3. M!Operate
    BY <1>3, <2>1, <2>2 DEF Stall, M!Operate, M!control, M!gateway, M!agent
  <2> QED BY <2>3 DEF M!Next, M!Progress
<1>4. CASE EndStall
  <2>1. MissionPc = "erred" /\ MissionPc' = "erred"
    BY <1>4, PcMaps, PcMapsNext DEF EndStall, Within
  <2> QED BY <1>4, <2>1 DEF EndStall, M!vars, M!control, M!gateway, M!agent
<1>5. CASE PassOn
  <2>1. MissionPc = "operate" /\ MissionPc' = "operate"
    BY <1>5, PcMaps, PcMapsNext DEF PassOn, Within
  <2> QED BY <1>5, <2>1 DEF PassOn, M!vars, M!control, M!gateway, M!agent
<1>6. CASE Observe
  <2>1. MissionPc = "operate" /\ MissionPc' = pc' /\ pc' \in {"succeeded", "mismatched", "erred"}
    BY <1>6, PcMaps, PcMapsNext DEF Observe, Judged, Within
  <2>2. M!CallOut
    BY <1>6 DEF Observe, Stopped, M!CallOut
  <2>3. M!Operate
    BY <1>6, <2>1, <2>2 DEF Observe, Judged, M!Operate, M!control, M!gateway, M!agent
  <2> QED BY <2>3 DEF M!Next, M!Progress
<1>7. CASE Command
  <2>1. MissionPc = "operate" /\ MissionPc' = pc' /\ pc' \in {"succeeded", "mismatched"}
    BY <1>7, PcMaps, PcMapsNext DEF Command, Judged, Within
  <2>2. M!CallOut
    BY <1>7 DEF Command, Stopped, M!CallOut
  <2>3. M!Operate
    BY <1>7, <2>1, <2>2 DEF Command, Judged, M!Operate, M!control, M!gateway, M!agent
  <2> QED BY <2>3 DEF M!Next, M!Progress
<1>8. CASE IllegalCommand
  <2>1. MissionPc = "operate" /\ MissionPc' = "erred"
    BY <1>8, PcMaps, PcMapsNext DEF IllegalCommand, Within
  <2>2. M!CallOut
    BY <1>8 DEF IllegalCommand, Stopped, M!CallOut
  <2>3. M!Operate
    BY <1>8, <2>1, <2>2 DEF IllegalCommand, M!Operate, M!control, M!gateway, M!agent
  <2> QED BY <2>3 DEF M!Next, M!Progress
<1> QED BY <1>1, <1>2, <1>3, <1>4, <1>5, <1>6, <1>7, <1>8 DEF ToolStep

\* The gateway's and the agent's own steps are the mission's.
LEMMA MissionMaps ==
  ASSUME MissionStep
  PROVE  M!Next
<1> USE DEF control, gateway, agent
<1>1. CASE Turn
  <2>1. MissionPc = pc /\ MissionPc' = pc'
    BY <1>1, PcMaps, PcMapsNext DEF Turn, Within, Return
  <2>2. M!Turn
    BY <1>1, <2>1 DEF Turn, Return, Reason, Stopped,
       M!Turn, M!Return, M!Reason, M!Stopped, M!control, M!gateway, M!agent
  <2> QED BY <2>2 DEF M!Next, M!Progress
<1>2. CASE AskCandidate
  <2>1. MissionPc = pc /\ MissionPc' = pc'
    BY <1>2, PcMaps, PcMapsNext DEF AskCandidate, Within, Return
  <2>2. M!AskCandidate
    BY <1>2, <2>1 DEF AskCandidate, Return, Reason, Stopped,
       M!AskCandidate, M!Return, M!Reason, M!Stopped, M!control, M!gateway, M!agent
  <2> QED BY <2>2 DEF M!Next, M!Progress
<1>3. CASE FallBack
  <2>1. MissionPc = pc /\ MissionPc' = pc'
    BY <1>3, PcMaps, PcMapsNext DEF FallBack, Within, Return
  <2>2. M!FallBack
    BY <1>3, <2>1 DEF FallBack, Return, Reason, Stopped,
       M!FallBack, M!Return, M!Reason, M!Stopped, M!control, M!gateway, M!agent
  <2> QED BY <2>2 DEF M!Next, M!Progress
<1>4. CASE Decide
  <2>1. MissionPc = pc /\ MissionPc' = pc'
    BY <1>4, PcMaps, PcMapsNext DEF Decide, Within, Return
  <2>2. M!Decide
    BY <1>4, <2>1 DEF Decide, Return, Reason, Stopped, Resumes, NoStep,
       M!Decide, M!Return, M!Reason, M!Stopped, M!Resumes, M!NoStep, M!control, M!gateway, M!agent
  <2> QED BY <2>2 DEF M!Next, M!Progress
<1>5. CASE Preflight
  <2>1. MissionPc = pc /\ MissionPc' = pc'
    BY <1>5, PcMaps, PcMapsNext DEF Preflight, Within, Return
  <2>2. M!Preflight
    BY <1>5, <2>1 DEF Preflight, Return, ToValidate, Stopped,
       M!Preflight, M!Return, M!ToValidate, M!Stopped, M!control, M!gateway, M!agent
  <2> QED BY <2>2 DEF M!Next, M!Progress
<1>6. CASE NextStep
  <2>1. MissionPc = pc /\ MissionPc' = pc'
    BY <1>6, PcMaps, PcMapsNext DEF NextStep, Within, Stop
  <2>2. M!NextStep
    BY <1>6, <2>1 DEF NextStep, Stop, Reason, Stopped,
       M!NextStep, M!Stop, M!Reason, M!Stopped, M!control, M!gateway, M!agent
  <2> QED BY <2>2 DEF M!Next, M!Progress
<1>7. CASE Attempt
  <2>1. MissionPc = pc /\ MissionPc' = pc'
    BY <1>7, PcMaps, PcMapsNext DEF Attempt, Within, Stop
  <2>2. M!Attempt
    BY <1>7, <2>1 DEF Attempt, Stop, Reason, Stopped,
       M!Attempt, M!Stop, M!Reason, M!Stopped, M!control, M!gateway, M!agent
  <2> QED BY <2>2 DEF M!Next, M!Progress
<1>8. CASE Invoke
  <2>1. MissionPc = pc /\ MissionPc' = pc'
    BY <1>8, PcMaps, PcMapsNext DEF Invoke, Within, Stop
  <2>2. M!Invoke
    BY <1>8, <2>1 DEF Invoke, Stop, Reason, Stopped,
       M!Invoke, M!Stop, M!Reason, M!Stopped, M!control, M!gateway, M!agent
  <2> QED BY <2>2 DEF M!Next, M!Progress
<1>9. CASE Error
  <2>1. MissionPc = pc /\ MissionPc' = pc'
    BY <1>9, PcMaps, PcMapsNext DEF Error, Within, Stop, Return
  <2>2. M!Error
    BY <1>9, <2>1 DEF Error, Stop, Return, Reason, Stopped,
       M!Error, M!Stop, M!Return, M!Reason, M!Stopped, M!control, M!gateway, M!agent
  <2> QED BY <2>2 DEF M!Next, M!Progress
<1>10. CASE Succeed
  <2>1. MissionPc = pc /\ MissionPc' = pc'
    BY <1>10, PcMaps, PcMapsNext DEF Succeed, Within, Stop
  <2>2. M!Succeed
    BY <1>10, <2>1 DEF Succeed, Stop, Reason, Stopped,
       M!Succeed, M!Stop, M!Reason, M!Stopped, M!control, M!gateway, M!agent
  <2> QED BY <2>2 DEF M!Next, M!Progress
<1>11. CASE Mismatch
  <2>1. MissionPc = pc /\ MissionPc' = pc'
    BY <1>11, PcMaps, PcMapsNext DEF Mismatch, Within, Stop, GiveUp
  <2>2. M!Mismatch
    BY <1>11, <2>1 DEF Mismatch, Stop, Reason, Stopped, RetriesLeft, GiveUp,
       M!Mismatch, M!Stop, M!Reason, M!Stopped, M!RetriesLeft, M!GiveUp,
       M!control, M!gateway, M!agent
  <2> QED BY <2>2 DEF M!Next, M!Progress
<1>12. CASE Finish
  <2>1. MissionPc = pc /\ MissionPc' = pc'
    BY <1>12, PcMaps, PcMapsNext DEF Finish, Within
  <2>2. M!Finish
    BY <1>12, <2>1 DEF Finish, Reason, Stopped,
       M!Finish, M!Reason, M!Stopped, M!control, M!gateway, M!agent
  <2> QED BY <2>2 DEF M!Next, M!Progress
<1>13. CASE ReportStopped
  <2>1. MissionPc = pc /\ MissionPc' = pc'
    BY <1>13, PcMaps, PcMapsNext DEF ReportStopped, Within, Return
  <2>2. M!ReportStopped
    BY <1>13, <2>1 DEF ReportStopped, Return, Reason, Stopped,
       M!ReportStopped, M!Return, M!Reason, M!Stopped, M!control, M!gateway, M!agent
  <2> QED BY <2>2 DEF M!Next, M!Progress
<1>14. CASE HandBack
  <2>1. MissionPc = pc /\ MissionPc' = pc'
    BY <1>14, PcMaps, PcMapsNext DEF HandBack, Within, Live
  <2>2. M!HandBack
    BY <1>14, <2>1 DEF HandBack, Live, HandsBack, Stopped,
       M!HandBack, M!Live, M!HandsBack, M!Stopped, M!control, M!gateway, M!agent
  <2> QED BY <2>2 DEF M!Next, M!Progress
<1>15. CASE Conclude
  <2>1. MissionPc = pc /\ MissionPc' = pc'
    BY <1>15, PcMaps, PcMapsNext DEF Conclude, Within, Live, Return
  <2>2. M!Conclude
    BY <1>15, <2>1 DEF Conclude, Live, HandsBack, MayReplan, Return, Stopped,
       M!Conclude, M!Live, M!HandsBack, M!MayReplan, M!Return, M!Stopped,
       M!control, M!gateway, M!agent
  <2> QED BY <2>2 DEF M!Next, M!Progress
<1>16. CASE Replan
  <2>1. MissionPc = pc /\ MissionPc' = pc'
    BY <1>16, PcMaps, PcMapsNext DEF Replan, Within, Live
  <2>2. M!Replan
    BY <1>16, <2>1 DEF Replan, Live, MayReplan, Context, NoContext, NoStep, Stopped,
       M!Replan, M!Live, M!MayReplan, M!Context, M!NoContext, M!NoStep, M!Stopped,
       M!control, M!gateway, M!agent
  <2> QED BY <2>2 DEF M!Next, M!Progress
<1> QED BY <1>1, <1>2, <1>3, <1>4, <1>5, <1>6, <1>7, <1>8, <1>9, <1>10, <1>11, <1>12,
     <1>13, <1>14, <1>15, <1>16 DEF MissionStep
\* Every step of a trial is a step of its mission, or one the mission does not see.
LEMMA StepMaps ==
  ASSUME late \in Nat, [TrialNext]_trialvars
  PROVE  [M!Next]_M!vars
<1> USE DEF control, gateway, agent
<1>1. CASE PlanTrial
  <2>1. MissionPc = pc /\ MissionPc' = pc'
    BY <1>1, PcMaps, PcMapsNext DEF PlanTrial, Plan, Within
  <2>2. M!Plan
    BY <1>1, <2>1 DEF PlanTrial, Plan, CallOut, M!Plan, M!CallOut, M!control, M!gateway
  <2> QED BY <2>2 DEF M!Next, M!Progress
<1>2. CASE MissionStep
  BY <1>2, MissionMaps
<1>3. CASE ToolStep
  BY <1>3, ToolMaps
<1>4. CASE Deadline \/ Interruption
  <2>1. MissionPc' = IF pc' = pc THEN MissionPc ELSE pc'
    BY <1>4, PcMaps, PcMapsNext DEF Deadline, Interruption, Expire, Cancel, IOError, Return,
       MissionPc, Within
  <2>2. CASE Deadline
    <3>1. M!Expire
      BY <2>1, <2>2 DEF Deadline, Expire, M!Expire, M!gateway, M!agent
    <3> QED BY <3>1 DEF M!Next
  <2>3. CASE Cancel
    <3>1. M!Cancel
      BY <2>1, <2>3 DEF Cancel, M!Cancel, M!gateway, M!agent
    <3> QED BY <3>1 DEF M!Next
  <2>4. CASE IOError
    <3>1. MissionPc = pc /\ MissionPc' = pc'
      BY <2>4, PcMaps, PcMapsNext DEF IOError, Return, Within
    <3>2. M!IOError
      BY <2>4, <3>1 DEF IOError, Return, M!IOError, M!Return, M!control, M!gateway, M!agent
    <3> QED BY <3>2 DEF M!Next
  <2> QED BY <1>4, <2>2, <2>3, <2>4 DEF Interruption
<1>5. CASE UNCHANGED trialvars
  BY <1>5 DEF trialvars, vars, MissionPc, M!vars, M!control, M!gateway, M!agent
<1> QED BY <1>1, <1>2, <1>3, <1>4, <1>5 DEF TrialNext, TrialProgress

\* The late calls of a trial are counted.
LEMMA LateCounts == TrialSpec => [](late \in Nat)
<1>1. TrialInit => late \in Nat
  BY DEF TrialInit, Init
<1>2. late \in Nat /\ [TrialNext]_trialvars => (late \in Nat)'
  BY DEF TrialNext, trialvars, vars, TrialProgress, PlanTrial, Plan, CallOut, MissionStep, Turn,
     AskCandidate, FallBack, Decide, Preflight, NextStep, Attempt, Invoke, Error, Succeed, Mismatch,
     Finish, ReportStopped, HandBack, Conclude, Replan, ToolStep, Refuse, Inject, Stall, EndStall,
     PassOn, Observe, Command, IllegalCommand, Deadline, Expire, Interruption, Cancel, IOError
<1> QED BY <1>1, <1>2, PTL DEF TrialSpec

\* A trial is a mission (the safety part of TrialIsMission): whatever the fault wrapper and the
\* tools do, they do nothing Mission does not allow for.
THEOREM TrialIsAMission == TrialSpec => M!Spec
BY InitMaps, StepMaps, LateCounts, PTL DEF TrialSpec, M!Spec

\* The instance Mission's theorems are about is the same mission.
LEMMA SameMission == M!Spec => P!Spec
<1>1. M!Init => P!Init
  BY DEF M!Init, P!Init, M!NoContext, P!NoContext, M!NoStep, P!NoStep
<1>2. [M!Next]_M!vars => [P!Next]_P!vars
  BY DEF M!Next, M!Progress, M!vars, M!control, M!gateway, M!agent, M!Turn, M!AskCandidate,
     M!Plan, M!FallBack, M!Decide, M!Preflight, M!NextStep, M!Attempt, M!Invoke, M!Operate,
     M!Error, M!Succeed, M!Mismatch, M!Finish, M!ReportStopped, M!HandBack, M!Conclude,
     M!Replan, M!IOError, M!Cancel, M!Expire, M!Stopped, M!Reason, M!CallOut, M!Return,
     M!Resumes, M!ToValidate, M!Stop, M!RetriesLeft, M!GiveUp, M!Context, M!MayReplan,
     M!HandsBack, M!Live, M!NoContext, M!NoStep, P!Next, P!Progress, P!vars, P!control,
     P!gateway, P!agent, P!Turn, P!AskCandidate, P!Plan, P!FallBack, P!Decide, P!Preflight,
     P!NextStep, P!Attempt, P!Invoke, P!Operate, P!Error, P!Succeed, P!Mismatch, P!Finish,
     P!ReportStopped, P!HandBack, P!Conclude, P!Replan, P!IOError, P!Cancel, P!Expire,
     P!Stopped, P!Reason, P!CallOut, P!Return, P!Resumes, P!ToValidate, P!Stop, P!RetriesLeft,
     P!GiveUp, P!Context, P!MayReplan, P!HandsBack, P!Live, P!NoContext, P!NoStep
<1> QED BY <1>1, <1>2, PTL DEF M!Spec, P!Spec

\* The mission inside a trial is in the inductive invariant of missions.
LEMMA MissionInvariant == TrialSpec => []P!IInv
BY TrialIsAMission, SameMission, P!IInvariant, MissionAssumption, CheckpointsLookBack, PTL

\* What is proved of missions holds of every mission scored: its skills are bounded by its
\* replans, a stop is prompt, a resumption skips only what was done, a completed mission did
\* every step, and nothing is operated ahead of a rejected step.
THEOREM TrialKeepsPromises ==
  TrialSpec => [](/\ M!ReportsBounded /\ M!OneLateCall /\ M!ResumeSkipsOnlyDone
                  /\ M!CompletedMeansDone /\ M!NothingDeniedAhead)
<1>1. TrialSpec => []P!ReportsBounded
  BY TrialIsAMission, SameMission, P!SkillsBounded, MissionAssumption, CheckpointsLookBack, PTL
<1>2. TrialSpec => []P!OneLateCall
  BY TrialIsAMission, SameMission, P!StopIsPrompt, MissionAssumption, CheckpointsLookBack, PTL
<1>3. TrialSpec => []P!ResumeSkipsOnlyDone
  BY TrialIsAMission, SameMission, P!ResumptionIsSound, MissionAssumption, CheckpointsLookBack, PTL
<1>4. TrialSpec => []P!CompletedMeansDone
  BY TrialIsAMission, SameMission, P!CompletionIsEarned, MissionAssumption, CheckpointsLookBack, PTL
<1>5. TrialSpec => []P!NothingDeniedAhead
  BY TrialIsAMission, SameMission, P!PreflightProtects, MissionAssumption, CheckpointsLookBack, PTL
<1>6. P!ReportsBounded => M!ReportsBounded
  BY DEF P!ReportsBounded, M!ReportsBounded
<1>7. P!OneLateCall => M!OneLateCall
  BY DEF P!OneLateCall, M!OneLateCall
<1>8. P!ResumeSkipsOnlyDone => M!ResumeSkipsOnlyDone
  BY DEF P!ResumeSkipsOnlyDone, M!ResumeSkipsOnlyDone, P!AgentPlaces, M!AgentPlaces
<1>9. P!CompletedMeansDone => M!CompletedMeansDone
  BY DEF P!CompletedMeansDone, M!CompletedMeansDone
<1>10. P!NothingDeniedAhead => M!NothingDeniedAhead
  BY DEF P!NothingDeniedAhead, M!NothingDeniedAhead
<1> QED BY <1>1, <1>2, <1>3, <1>4, <1>5, <1>6, <1>7, <1>8, <1>9, <1>10, PTL

-----------------------------------------------------------------------------
(* The score.                                                              *)

\* The robot and the counters have their fields.
Counters == [attempts : Nat, commands : Nat, placements : Nat, injected : Nat,
             sensor_calls : Nat, grasp_calls : Nat]
WorldOK ==
  /\ robot = [last_pose |-> robot.last_pose, held_object |-> robot.held_object]
  /\ stats \in Counters

\* The gripper holds the cube where the history says it does; a counted placement left it in
\* the bin, or it is in the gripper again; and no command reaches the robot uncounted.
Earned ==
  /\ WorldOK
  /\ robot.held_object = "red_cube" <=> cube = "gripper"
  /\ stats.placements > 0 => cube \in {"gripper", "bin_a"}
  /\ moved => stats.commands > 0
  /\ pc = "tool" /\ Asked.tool # "sensor" => stats.commands > 0

\* An operation is one of a validated step of the catalog.
LEMMA AtStep ==
  ASSUME P!IInv, pc \in {"operate", "tool"}
  PROVE  /\ skill \in Skills /\ step \in 1..Steps[skill]
         /\ <<skill, step>> \notin Denied
         /\ Asked.tool = "sensor" \/ Asked.action \in {"move_to", "grasp", "place"}
<1>1. MissionPc = "operate"
  BY PcMaps DEF Within
<1>2. skill \in Skills /\ step \in 1..Steps[skill] /\ from <= step /\ from \in Nat
  BY <1>1 DEF P!IInv, P!Position, P!AgentPlaces, P!Running, P!TypeOK
<1>3. Steps[skill] \in Nat
  BY <1>2, MissionAssumption
<1>4. <<skill, step>> \notin Denied
  <2>1. \A k \in from..Steps[skill] : <<skill, k>> \notin Denied
    BY <1>1 DEF P!IInv, P!Validated, P!Clear
  <2>2. step \in from..Steps[skill]
    BY <1>2, <1>3
  <2> QED BY <2>1, <2>2
<1> QED BY <1>2, <1>4, CommandsAreKnown DEF Asked

\* Counting changes the counters it names, and keeps the rest.
SetTo(x, n, a, c, d, e) ==
  [x EXCEPT !.attempts = n, !.commands = a, !.sensor_calls = c, !.grasp_calls = d, !.injected = e]
LEMMA CountersSet ==
  ASSUME NEW x \in Counters,
         NEW n \in Nat, NEW a \in Nat, NEW c \in Nat, NEW d \in Nat, NEW e \in Nat
  PROVE  /\ SetTo(x, n, a, c, d, e) \in Counters
         /\ SetTo(x, n, a, c, d, e).placements = x.placements
         /\ SetTo(x, n, a, c, d, e).commands = a
         /\ SetTo(x, n, a, c, d, e).injected = e
         /\ SetTo(x, n, a, c, d, e).sensor_calls = c
         /\ SetTo(x, n, a, c, d, e).grasp_calls = d
BY DEF Counters, SetTo

\* Counting keeps the counters, and counts a command.
LEMMA CountedType ==
  ASSUME WorldOK
  PROVE  /\ Counted \in Counters
         /\ Counted.placements = stats.placements
         /\ Counted.commands >= stats.commands
         /\ Asked.tool # "sensor" => Counted.commands > 0
         /\ Counted.injected = stats.injected + One(Injected)
         /\ Counted.sensor_calls = stats.sensor_calls + One(Sensor(Asked))
         /\ Counted.grasp_calls = stats.grasp_calls + One(Grasp(Asked))
<1>1. /\ stats.attempts \in Nat /\ stats.commands \in Nat /\ stats.injected \in Nat
      /\ stats.sensor_calls \in Nat /\ stats.grasp_calls \in Nat
  BY DEF WorldOK, Counters
<1>2. /\ One(Asked.tool # "sensor") \in Nat /\ One(Sensor(Asked)) \in Nat
      /\ One(Grasp(Asked)) \in Nat
      /\ One(Injected) \in Nat /\ (Asked.tool # "sensor" => One(Asked.tool # "sensor") > 0)
  BY DEF One
<1> DEFINE n == stats.attempts + 1
           a == stats.commands + One(Asked.tool # "sensor")
           c == stats.sensor_calls + One(Sensor(Asked))
           d == stats.grasp_calls + One(Grasp(Asked))
           e == stats.injected + One(Injected)
<1>3. n \in Nat /\ a \in Nat /\ c \in Nat /\ d \in Nat /\ e \in Nat
  BY <1>1, <1>2
<1>4. Counted = SetTo(stats, n, a, c, d, e)
  BY DEF Counted, WorldOK, Counters, SetTo
<1>5. /\ Counted \in Counters
      /\ Counted.placements = stats.placements
      /\ Counted.commands = a
      /\ Counted.injected = e
      /\ Counted.sensor_calls = c
      /\ Counted.grasp_calls = d
  <2>1. stats \in Counters
    BY DEF WorldOK
  <2> HIDE DEF n, a, c, d, e
  <2>2. /\ SetTo(stats, n, a, c, d, e) \in Counters
        /\ SetTo(stats, n, a, c, d, e).placements = stats.placements
        /\ SetTo(stats, n, a, c, d, e).commands = a
        /\ SetTo(stats, n, a, c, d, e).injected = e
        /\ SetTo(stats, n, a, c, d, e).sensor_calls = c
        /\ SetTo(stats, n, a, c, d, e).grasp_calls = d
    BY <1>3, <2>1, CountersSet
  <2> QED BY <1>4, <2>2
<1> QED BY <1>1, <1>2, <1>5

\* Only commands move the robot; the fault wrapper counts them before they reach it.
LEMMA EarnedStep ==
  ASSUME CubeGoesToBin, P!IInv, Earned, [TrialNext]_trialvars
  PROVE  Earned'
<1> USE DEF world
<1>1. ASSUME UNCHANGED world, pc' # "tool" \/ UNCHANGED <<pc, skill, step>> PROVE Earned'
  BY <1>1 DEF Earned, WorldOK, Asked
<1>2. CASE PlanTrial
  BY <1>1, <1>2 DEF PlanTrial, Plan
<1>3. CASE MissionStep
  <2>1. pc' # "tool"
    BY <1>3 DEF MissionStep, Turn, AskCandidate, FallBack, Decide, Preflight, NextStep, Attempt,
       Invoke, Error, Succeed, Mismatch, GiveUp, Finish, ReportStopped, HandBack, Conclude, Replan,
       Return, Stop
  <2> QED BY <1>1, <1>3, <2>1 DEF MissionStep
<1>4. CASE Deadline \/ Interruption
  BY <1>1, <1>4 DEF Deadline, Interruption, Expire, Cancel, IOError, Return, agent
<1>5. CASE Refuse \/ EndStall \/ IllegalCommand \/ Observe
  BY <1>1, <1>5 DEF Refuse, EndStall, IllegalCommand, Observe, Judged
<1>6. CASE Inject \/ Stall
  <2>1. stats' = Counted /\ UNCHANGED <<robot, cube, moved>> /\ pc' # "tool"
    BY <1>6 DEF Inject, Stall, Judged
  <2>2. stats.commands \in Nat /\ Counted.commands \in Nat
    BY CountedType DEF Earned, WorldOK, Counters
  <2> QED BY <2>1, <2>2, CountedType DEF Earned, WorldOK, Counters
<1>7. CASE PassOn
  <2>1. stats' = Counted /\ UNCHANGED <<robot, cube, moved, skill, step>>
    BY <1>7 DEF PassOn, agent
  <2>2. stats.commands \in Nat /\ Counted.commands \in Nat
    BY CountedType DEF Earned, WorldOK, Counters
  <2> QED BY <2>1, <2>2, CountedType DEF Earned, WorldOK, Counters, Asked
<1>8. CASE Command
  <2>1. /\ pc = "tool" /\ Asked.tool # "sensor" /\ Legal(Asked, robot)
        /\ robot' = Applied(Asked, robot)
        /\ cube' = CubeAfter /\ moved' = TRUE
        /\ stats' = [stats EXCEPT !.placements = @ + One(Placement)]
        /\ pc' \in {"succeeded", "mismatched"}
    BY <1>8 DEF Command, Judged
  <2>2. /\ stats' \in Counters
        /\ stats'.commands = stats.commands
        /\ stats'.placements = stats.placements + One(Placement)
    BY <2>1 DEF Earned, WorldOK, One, Counters
  <2>3. stats.commands > 0
    BY <2>1 DEF Earned
  <2>4. stats'.placements > 0 => Placement \/ stats.placements > 0
    BY <2>2 DEF One, Earned, WorldOK, Counters
  <2> DEFINE Kept == /\ robot' = [last_pose |-> robot'.last_pose,
                                  held_object |-> robot'.held_object]
                     /\ robot'.held_object = "red_cube" <=> cube' = "gripper"
                     /\ Placement \/ stats.placements > 0 => cube' \in {"gripper", "bin_a"}
  <2>5. ASSUME Asked.action = "move_to" PROVE Kept
    <3>1. robot' = [robot EXCEPT !.last_pose = Asked.place] /\ cube' = cube /\ ~Placement
      BY <2>1, <2>5 DEF Applied, CubeAfter, Placement
    <3> QED BY <3>1 DEF Earned, WorldOK
  <2>6. ASSUME Asked.action = "grasp" PROVE Kept
    <3>1. /\ robot' = [robot EXCEPT !.held_object = Asked.target] /\ ~Placement
          /\ robot.held_object = Nothing
      BY <2>1, <2>6 DEF Applied, Placement, Legal
    <3>2. cube' = IF Asked.target = "red_cube" THEN "gripper" ELSE cube
      BY <2>1, <2>6 DEF CubeAfter
    <3> QED BY <3>1, <3>2 DEF Earned, WorldOK, Nothing
  <2>7. ASSUME Asked.action = "place" PROVE Kept
    <3>1. /\ robot' = [last_pose |-> Asked.place, held_object |-> Nothing]
          /\ robot.held_object = Asked.target
      BY <2>1, <2>7 DEF Applied, Legal
    <3>2. cube' = IF Asked.target = "red_cube" THEN Asked.place ELSE cube
      BY <2>1, <2>7 DEF CubeAfter
    <3>3. Asked.target = "red_cube" => Asked.place = "bin_a"
      BY <2>1, <2>7, AtStep DEF CubeGoesToBin, Asked
    <3> QED BY <3>1, <3>2, <3>3 DEF Earned, WorldOK, Nothing, Placement
  <2>8. Kept
    BY <2>1, <2>5, <2>6, <2>7, AtStep
  <2> QED BY <2>1, <2>2, <2>3, <2>4, <2>8 DEF Earned, WorldOK
<1>9. CASE UNCHANGED trialvars
  BY <1>1, <1>9 DEF trialvars, vars, agent
<1> QED BY <1>2, <1>3, <1>4, <1>5, <1>6, <1>7, <1>8, <1>9 DEF TrialNext, TrialProgress, ToolStep

\* A pass is earned, in every catalog that puts the red cube into the bin only: whatever a
\* planner chose and whichever skills were added, a mission that passed left the cube in the
\* bin, and a stop that passed came before any motion.
THEOREM PassesAreEarned == CubeGoesToBin => (TrialSpec => []PassIsEarned)
<1> SUFFICES ASSUME CubeGoesToBin PROVE TrialSpec => []PassIsEarned
  OBVIOUS
<1>1. TrialInit => Earned
  BY DEF TrialInit, Init, Earned, WorldOK, Counters, Robot, FaultStats, Nothing
<1>2. P!IInv /\ Earned /\ [TrialNext]_trialvars => Earned'
  BY EarnedStep
<1>3. Earned => PassIsEarned
  BY DEF Earned, WorldOK, Counters, PassIsEarned, Passed, Nothing
<1> QED BY <1>1, <1>2, <1>3, MissionInvariant, PTL DEF TrialSpec

-----------------------------------------------------------------------------
(* The robot and the skills.                                               *)

\* Where a mission is between two skills, and where it is about to do a step.
Between == {"loop", "candidate", "request", "refused", "decided"}
Before == {"preflight", "step", "attempt", "invoke", "operate", "tool"}

\* The robot is where the mission's next step, or its next skill, may find it; a report of a
\* failure names a step that a fault may hit.
InOrder(idle, ready) ==
  /\ WorldOK
  /\ resume # NoContext => idle \subseteq ready[resume.skill][resume.step]
  /\ pc \in Between => robot \in idle
  /\ pc \in Before => step <= Steps[skill] + 1 /\ robot \in ready[skill][step]
  /\ pc = "succeeded" => robot \in ready[skill][step + 1]
  /\ pc = "mismatched" => robot \in ready[skill][step] \cap idle /\ MayMiss(Asked)
  /\ pc \in {"finish", "reported"} =>
       /\ status = "completed" => robot \in ready[skill][Steps[skill] + 1]
       /\ status = "failed" => robot \in idle /\ MayMiss(Input[skill][failed_step])

\* What the mission's invariant says of the trial around it.
LEMMA MissionSays ==
  ASSUME P!IInv
  PROVE  /\ pc \in Before \cup {"succeeded", "mismatched", "finish", "reported"} =>
              skill \in Skills /\ Steps[skill] \in Nat /\ step \in Nat
         /\ pc = "decided" => skill \in Skills
         /\ pc \in {"attempt", "invoke", "succeeded", "mismatched"} => step \in 1..Steps[skill]
         /\ pc \in {"finish", "reported"} /\ status = "failed" =>
              failed_step = step /\ step \in 1..Steps[skill]
         /\ \/ resume = NoContext
            \/ resume.skill \in Skills /\ resume.step \in 1..Steps[resume.skill]
<1>1. pc \in Before \cup {"succeeded", "mismatched", "finish", "reported"} =>
        MissionPc \in P!AgentPlaces
  BY PcMaps DEF Within, Before, P!AgentPlaces
<1>2. pc \notin Within => MissionPc = pc
  BY PcMaps
<1>3. pc \in Before \cup {"succeeded", "mismatched", "finish", "reported"} => skill \in Skills
  BY <1>1 DEF P!IInv, P!Position
<1>4. step \in Nat
  BY DEF P!IInv, P!TypeOK
<1>5. skill \in Skills => Steps[skill] \in Nat
  BY MissionAssumption
<1>6. pc = "decided" => skill \in Skills
  BY <1>2 DEF P!IInv, P!Position, Within
<1>7. pc \in {"attempt", "invoke", "succeeded", "mismatched"} => step \in 1..Steps[skill]
  BY <1>2 DEF P!IInv, P!Position, P!Running, Within
<1>8. pc \in {"finish", "reported"} /\ status = "failed" =>
        failed_step = step /\ step \in 1..Steps[skill]
  BY <1>2 DEF P!IInv, P!Position, Within
<1>9. \/ resume = NoContext
      \/ resume.skill \in Skills /\ resume.step \in 1..Steps[resume.skill]
  <2>1. \/ resume = P!NoContext
        \/ resume.skill \in Skills /\ resume.step \in 1..Steps[resume.skill]
    BY DEF P!IInv, P!TypeOK
  <2> QED BY <2>1 DEF P!NoContext, NoContext, P!NoStep, NoStep
<1> QED BY <1>3, <1>4, <1>5, <1>6, <1>7, <1>8, <1>9

\* What the catalog's order says of the step the agent is at.
LEMMA AskedInOrder ==
  ASSUME NEW idle, NEW ready, CatalogInOrder(idle, ready), P!IInv, pc \in {"operate", "tool"}
  PROVE  StepInOrder(skill, step, idle, ready)
BY AtStep DEF CatalogInOrder

\* A tool answers within the order: what it does leads to the next step, and what a fault makes
\* of a step leaves the robot between skills.
LEMMA ToolInOrder ==
  ASSUME NEW idle, NEW ready, CatalogInOrder(idle, ready), P!IInv, InOrder(idle, ready), ToolStep
  PROVE  InOrder(idle, ready)'
<1> USE DEF Between, Before, agent, gateway, world
<1>0. Counted \in Counters
  BY CountedType DEF InOrder
<1>1. CASE Refuse \/ EndStall \/ IllegalCommand \/ Stall
  <2>1. /\ pc' \in {"erred", "waiting"} /\ UNCHANGED <<robot, resume>>
        /\ stats' \in {stats, Counted}
    BY <1>1 DEF Refuse, EndStall, IllegalCommand, Stall
  <2> QED BY <1>0, <2>1 DEF InOrder, WorldOK
<1>2. CASE PassOn
  <2>1. /\ pc = "operate" /\ pc' = "tool" /\ UNCHANGED <<robot, resume, skill, step>>
        /\ stats' = Counted
    BY <1>2 DEF PassOn
  <2> QED BY <1>0, <2>1 DEF InOrder, WorldOK
<1>3. CASE Inject
  <2>1. /\ pc = "operate" /\ UNCHANGED <<robot, resume, skill, step>> /\ MayMiss(Asked)
        /\ stats' = Counted
        /\ \/ pc' = "succeeded" /\ Contains(Miss(Asked), Expect[skill][step])
           \/ pc' = "mismatched"
    BY <1>3 DEF Inject, Judged, Injected, MayMiss
  <2>2. robot \in ready[skill][step]
    BY <2>1 DEF InOrder
  <2>3. /\ robot \in idle
        /\ Contains(Miss(Asked), Expect[skill][step]) => robot \in ready[skill][step + 1]
    BY <2>1, <2>2, AskedInOrder DEF StepInOrder, Asked
  <2>4. MayMiss(Asked)'
    BY <2>1 DEF Asked
  <2> QED BY <1>0, <2>1, <2>2, <2>3, <2>4 DEF InOrder, WorldOK
<1>4. CASE Observe
  <2>1. /\ pc = "tool" /\ UNCHANGED <<robot, stats, resume, skill, step>>
        /\ Asked.tool = "sensor"
        /\ \/ /\ Asked.target \in Observations
              /\ \/ pc' = "succeeded"
                 \/ pc' = "mismatched" /\ ~Contains(Observed(Asked), Expect[skill][step])
           \/ pc' = "erred"
    BY <1>4 DEF Observe, Judged
  <2>2. robot \in ready[skill][step]
    BY <2>1 DEF InOrder
  <2>3. Asked.target \in Observations =>
          Contains(Observed(Asked), Expect[skill][step]) /\ robot \in ready[skill][step + 1]
    BY <2>1, <2>2, AskedInOrder DEF StepInOrder, Asked
  <2> QED BY <2>1, <2>3 DEF InOrder, WorldOK
<1>5. CASE Command
  <2>1. /\ pc = "tool" /\ UNCHANGED <<resume, skill, step>> /\ Asked.tool # "sensor"
        /\ Legal(Asked, robot) /\ robot' = Applied(Asked, robot)
        /\ \/ pc' = "succeeded"
           \/ pc' = "mismatched" /\ ~Contains(Accepted(robot'), Expect[skill][step])
    BY <1>5 DEF Command, Judged
  <2>2. robot \in ready[skill][step]
    BY <2>1 DEF InOrder
  <2>3. /\ Contains(Accepted(robot'), Expect[skill][step])
        /\ robot' \in ready[skill][step + 1]
    BY <2>1, <2>2, AskedInOrder DEF StepInOrder, Asked
  <2>4. Asked.action \in {"move_to", "grasp", "place"}
    BY <2>1, AtStep
  <2>5. robot' = [last_pose |-> robot'.last_pose, held_object |-> robot'.held_object]
    <3>1. robot = [last_pose |-> robot.last_pose, held_object |-> robot.held_object]
      BY DEF InOrder, WorldOK
    <3>2. CASE Asked.action = "move_to"
      <4>1. robot' = [robot EXCEPT !.last_pose = Asked.place]
        BY <2>1, <3>2 DEF Applied
      <4> QED BY <3>1, <4>1
    <3>3. CASE Asked.action = "grasp"
      <4>1. robot' = [robot EXCEPT !.held_object = Asked.target]
        BY <2>1, <3>3 DEF Applied
      <4> QED BY <3>1, <4>1
    <3>4. CASE Asked.action = "place"
      <4>1. robot' = [last_pose |-> Asked.place, held_object |-> Nothing]
        BY <2>1, <3>4 DEF Applied
      <4> QED BY <4>1
    <3> QED BY <2>4, <3>2, <3>3, <3>4
  <2>6. stats' \in Counters
    BY <1>5 DEF Command, InOrder, WorldOK, Counters, One
  <2> QED BY <2>1, <2>3, <2>5, <2>6 DEF InOrder, WorldOK
<1> QED BY <1>1, <1>2, <1>3, <1>4, <1>5 DEF ToolStep

\* So does the mission: it begins and resumes skills between skills only.
LEMMA MissionInOrder ==
  ASSUME NEW idle, NEW ready, CatalogInOrder(idle, ready), P!IInv, InOrder(idle, ready),
         MissionStep
  PROVE  InOrder(idle, ready)'
<1> USE DEF Between, Before, agent, gateway, world, WorldOK
<1>1. UNCHANGED <<robot, stats>>
  BY DEF MissionStep
<1>2. CASE Turn \/ AskCandidate \/ FallBack \/ HandBack \/ Conclude \/ ReportStopped
  <2>1. pc' \in Between \cup {"done"} /\ UNCHANGED resume
    BY <1>2 DEF Turn, AskCandidate, FallBack, HandBack, Conclude, ReportStopped, Return
  <2>2. pc' \in Between => pc \in Between \/ HandBack
    BY <1>2 DEF Turn, AskCandidate, FallBack, HandBack, Conclude, ReportStopped, Return
  <2>3. ASSUME HandBack PROVE robot \in idle
    <3>1. pc = "reported" /\ status = "completed" /\ skill \in HandingBack
      BY <2>3 DEF HandBack, Live, HandsBack
    <3>2. ready[skill][Steps[skill] + 1] \subseteq idle
      BY <3>1, MissionSays DEF CatalogInOrder
    <3> QED BY <3>1, <3>2 DEF InOrder
  <2> QED BY <1>1, <2>1, <2>2, <2>3 DEF InOrder
<1>3. CASE Decide
  <2>1. pc = "decided" /\ UNCHANGED <<resume, skill>> /\ pc' \in {"preflight", "done"}
    BY <1>3 DEF Decide, Return
  <2>2. CASE pc' = "preflight"
    <3>1. step' = IF Resumes(skill) THEN resume.step ELSE 1
      BY <1>3, <2>2 DEF Decide, Return
    <3>2. skill \in Skills /\ Steps[skill] \in Nat
      BY <2>1, MissionSays, MissionAssumption
    <3>3. CASE Resumes(skill)
      <4>1. resume # NoContext /\ resume.skill = skill
        BY <3>2, <3>3, MissionAssumption DEF Resumes, NoContext
      <4>2. step' \in 1..Steps[skill] /\ idle \subseteq ready[skill][step']
        BY <3>1, <3>3, <4>1, MissionSays DEF InOrder
      <4>3. step' <= Steps[skill] + 1
        BY <3>2, <4>2
      <4> QED BY <1>1, <2>1, <2>2, <4>2, <4>3 DEF InOrder
    <3>4. CASE ~Resumes(skill)
      <4>1. step' = 1 /\ idle \subseteq ready[skill][1] /\ 1 <= Steps[skill] + 1
        BY <3>1, <3>2, <3>4 DEF CatalogInOrder
      <4> QED BY <1>1, <2>1, <2>2, <4>1 DEF InOrder
    <3> QED BY <3>3, <3>4
  <2> QED BY <1>1, <2>1, <2>2 DEF InOrder
<1>4. CASE Preflight
  BY <1>1, <1>4 DEF Preflight, Return, InOrder
<1>5. CASE NextStep
  <2>1. /\ pc = "step" /\ UNCHANGED <<resume, skill, step, failed_step>>
        /\ \/ step > Steps[skill] /\ pc' = "finish" /\ UNCHANGED status
           \/ pc' = "finish" /\ status' = Reason
           \/ pc' = "attempt"
    BY <1>5 DEF NextStep, Stop
  <2>2. status = "completed"
    BY <2>1, PcMaps DEF P!IInv, P!Position, Within
  <2>3. step > Steps[skill] => step = Steps[skill] + 1
    BY <2>1, MissionSays DEF InOrder
  <2> QED BY <1>1, <2>1, <2>2, <2>3 DEF InOrder, Reason
<1>6. CASE Attempt \/ Invoke \/ Error
  <2>1. /\ UNCHANGED <<resume, skill, step, failed_step>>
        /\ \/ pc' = "finish" /\ status' = Reason
           \/ pc \in Before /\ pc' \in {"invoke", "operate"}
           \/ pc' \in {"erred", "done"}
    BY <1>6 DEF Attempt, Invoke, Error, Stop, Return
  <2> QED BY <1>1, <2>1 DEF InOrder, Reason
<1>7. CASE Succeed
  <2>1. /\ pc = "succeeded" /\ UNCHANGED <<resume, skill, failed_step>>
        /\ \/ pc' = "finish" /\ status' = Reason
           \/ step' = step + 1 /\ pc' = "step"
    BY <1>7 DEF Succeed, Stop
  <2>2. step + 1 <= Steps[skill] + 1
    BY <2>1, MissionSays
  <2> QED BY <1>1, <2>1, <2>2 DEF InOrder, Reason
<1>8. CASE Mismatch
  <2>1. /\ pc = "mismatched" /\ UNCHANGED <<resume, skill, step>>
        /\ \/ pc' = "finish" /\ status' = Reason
           \/ pc' = "attempt"
           \/ pc' = "finish" /\ status' = "failed" /\ failed_step' = step
    BY <1>8 DEF Mismatch, Stop, GiveUp
  <2>2. step <= Steps[skill] + 1
    BY <2>1, MissionSays
  <2>3. robot \in ready[skill][step] \cap idle /\ MayMiss(Input[skill][step])
    BY <2>1 DEF InOrder, Asked
  <2> QED BY <1>1, <2>1, <2>2, <2>3 DEF InOrder, Reason
<1>9. CASE Finish
  <2>1. /\ pc = "finish" /\ pc' = "reported" /\ UNCHANGED <<resume, skill, failed_step>>
        /\ status' \in {Reason, status}
    BY <1>9 DEF Finish
  <2> QED BY <1>1, <2>1 DEF InOrder, Reason
<1>10. CASE Replan
  <2>1. /\ pc = "reported" /\ status = "failed" /\ pc' = "loop" /\ resume' = Context
    BY <1>10 DEF Replan, Live
  <2>2. robot \in idle /\ MayMiss(Input[skill][failed_step])
    BY <2>1 DEF InOrder
  <2>3. skill \in Skills /\ failed_step \in 1..Steps[skill]
    BY <2>1, MissionSays
  <2>4. Context # NoContext =>
          /\ skill \in Resumable
          /\ Context = [skill |-> skill, step |-> Checkpoint[skill][failed_step]]
    BY DEF Context
  <2>5. ASSUME Context # NoContext PROVE idle \subseteq ready[Context.skill][Context.step]
    <3>1. idle \subseteq ready[skill][Checkpoint[skill][failed_step]]
      BY <2>2, <2>3, <2>4, <2>5 DEF CatalogInOrder
    <3> QED BY <2>4, <2>5, <3>1
  <2> QED BY <1>1, <2>1, <2>2, <2>5 DEF InOrder
<1> QED BY <1>2, <1>3, <1>4, <1>5, <1>6, <1>7, <1>8, <1>9, <1>10 DEF MissionStep

\* The order is kept by every step of a trial, and with it the robot stays in step.
LEMMA InOrderStep ==
  ASSUME NEW idle, NEW ready, CatalogInOrder(idle, ready), P!IInv, InOrder(idle, ready),
         [TrialNext]_trialvars
  PROVE  InOrder(idle, ready)'
<1> USE DEF Between, Before, agent, gateway, world, WorldOK
<1>1. CASE PlanTrial
  BY <1>1 DEF PlanTrial, Plan, InOrder
<1>2. CASE MissionStep
  BY <1>2, MissionInOrder
<1>3. CASE ToolStep
  BY <1>3, ToolInOrder
<1>4. CASE Deadline \/ Interruption
  BY <1>4 DEF Deadline, Interruption, Expire, Cancel, IOError, Return, InOrder, Asked
<1>5. CASE UNCHANGED trialvars
  BY <1>5 DEF trialvars, vars, InOrder, Asked
<1> QED BY <1>1, <1>2, <1>3, <1>4, <1>5 DEF TrialNext, TrialProgress

\* Only an injected fault makes a step miss its expectation, and it leaves the robot alone.
LEMMA FaultsOnly ==
  ASSUME NEW idle, NEW ready, CatalogInOrder(idle, ready), P!IInv, InOrder(idle, ready),
         [TrialNext]_trialvars, pc # "mismatched", pc' = "mismatched"
  PROVE  stats'.injected = stats.injected + 1 /\ UNCHANGED <<robot, cube>>
<1>1. Inject \/ Observe \/ Command
  <2>1. ~MissionStep
    BY DEF MissionStep, Turn, AskCandidate, FallBack, Decide, Preflight, NextStep, Attempt, Invoke,
       Error, Succeed, Mismatch, GiveUp, Finish, ReportStopped, HandBack, Conclude, Replan, Return,
       Stop
  <2>2. ~PlanTrial /\ ~Deadline /\ ~Interruption /\ ~UNCHANGED trialvars
    BY DEF PlanTrial, Plan, Deadline, Interruption, Expire, Cancel, IOError, Return, trialvars, vars
  <2>3. ~(Refuse \/ Stall \/ EndStall \/ PassOn \/ IllegalCommand)
    BY DEF Refuse, Stall, EndStall, PassOn, IllegalCommand
  <2> QED BY <2>1, <2>2, <2>3 DEF TrialNext, TrialProgress, ToolStep
<1>2. CASE Inject
  <2>1. stats' = Counted /\ Injected /\ UNCHANGED <<robot, cube>>
    BY <1>2 DEF Inject
  <2> QED BY <2>1, CountedType DEF InOrder, One
<1>3. CASE Observe
  <2>1. /\ pc = "tool" /\ Asked.tool = "sensor" /\ Asked.target \in Observations
        /\ ~Contains(Observed(Asked), Expect[skill][step])
    BY <1>3 DEF Observe, Judged
  <2>2. robot \in ready[skill][step]
    BY <2>1 DEF InOrder, Before
  <2> QED BY <2>1, <2>2, AskedInOrder DEF StepInOrder, Asked
<1>4. CASE Command
  <2>1. /\ pc = "tool" /\ Asked.tool # "sensor" /\ Legal(Asked, robot)
        /\ ~Contains(Accepted(Applied(Asked, robot)), Expect[skill][step])
    BY <1>4 DEF Command, Judged
  <2>2. robot \in ready[skill][step]
    BY <2>1 DEF InOrder, Before
  <2> QED BY <2>1, <2>2, AskedInOrder DEF StepInOrder, Asked
<1> QED BY <1>1, <1>2, <1>3, <1>4

\* Only a grasp fills the gripper, and it happens at the pre-grasp pose.
LEMMA GraspsInOrder ==
  ASSUME NEW idle, NEW ready, CatalogInOrder(idle, ready), P!IInv, InOrder(idle, ready),
         [TrialNext]_trialvars
  PROVE  GraspsAtPreGrasp
<1> SUFFICES ASSUME robot.held_object = Nothing, robot'.held_object # Nothing
             PROVE  robot.last_pose = PreGrasp
  BY DEF GraspsAtPreGrasp
<1>1. Command
  <2>1. ~(robot' = robot)
    OBVIOUS
  <2> QED BY <2>1 DEF TrialNext, TrialProgress, PlanTrial, MissionStep, ToolStep, Refuse, Inject,
         Stall, EndStall, PassOn, Observe, IllegalCommand, Deadline, Interruption, trialvars, world
<1>2. /\ pc = "tool" /\ Asked.tool # "sensor" /\ Legal(Asked, robot)
      /\ robot' = Applied(Asked, robot)
  BY <1>1 DEF Command
<1>3. Asked.action \in {"move_to", "grasp", "place"}
  BY <1>2, AtStep
<1>4. robot = [last_pose |-> robot.last_pose, held_object |-> robot.held_object]
  BY DEF InOrder, WorldOK
<1>5. Asked.action # "move_to"
  <2> SUFFICES ASSUME Asked.action = "move_to" PROVE FALSE
    OBVIOUS
  <2>1. robot' = [robot EXCEPT !.last_pose = Asked.place]
    BY <1>2 DEF Applied
  <2> QED BY <1>4, <2>1
<1>6. Asked.action # "place"
  <2> SUFFICES ASSUME Asked.action = "place" PROVE FALSE
    OBVIOUS
  <2>1. robot' = [last_pose |-> Asked.place, held_object |-> Nothing]
    BY <1>2 DEF Applied
  <2> QED BY <2>1
<1>7. robot \in ready[skill][step]
  BY <1>2 DEF InOrder, Before
<1> QED BY <1>2, <1>3, <1>5, <1>6, <1>7, AskedInOrder DEF StepInOrder, Asked

\* The robot stays in step with every mission whose catalog is in order: whatever fails,
\* recovers and resumes, no stock skill asks for what the robot refuses, only injected faults
\* are retried, before the robot has done anything, and the gripper closes at the pre-grasp
\* pose only.  A catalog is judged skill by skill, without any mission.
THEOREM RobotIsInStep ==
  \A idle, ready : CatalogInOrder(idle, ready) => (TrialSpec => RobotStaysInStep)
<1> SUFFICES ASSUME NEW CONSTANT idle, NEW CONSTANT ready, CatalogInOrder(idle, ready)
             PROVE  TrialSpec => RobotStaysInStep
  OBVIOUS
<1>1. TrialInit => InOrder(idle, ready)
  BY DEF TrialInit, Init, InOrder, WorldOK, Counters, Robot, FaultStats, Between, Before,
     CatalogInOrder
<1>2. P!IInv /\ InOrder(idle, ready) /\ [TrialNext]_trialvars => InOrder(idle, ready)'
  BY InOrderStep
<1>3. P!IInv /\ InOrder(idle, ready) => NoIllegalCommand
  <2> SUFFICES ASSUME P!IInv, InOrder(idle, ready), pc = "tool", Asked.tool # "sensor",
                      skill \notin Custom
               PROVE  Legal(Asked, robot)
    BY DEF NoIllegalCommand
  <2>1. robot \in ready[skill][step]
    BY DEF InOrder, Before
  <2> QED BY <2>1, AskedInOrder DEF StepInOrder, Asked
<1>4. P!IInv /\ InOrder(idle, ready) /\ [TrialNext]_trialvars
        => [NoIllegalCommand /\ OnlyFaultsRetried /\ GraspsAtPreGrasp]_<<pc, world>>
  BY <1>3, FaultsOnly, GraspsInOrder DEF OnlyFaultsRetried
<1> QED BY <1>1, <1>2, <1>4, MissionInvariant, PTL DEF TrialSpec, RobotStaysInStep

-----------------------------------------------------------------------------
(* The scores.                                                             *)

Stock == "pick_and_place"

\* Which calls a scenario's faults hit, and how many of them, unless it is without end.
Sensing == {"sensor-glitch", "sensor-outage", "sensor-timeout"}
Gripping == {"grasp-stall", "persistent-stall"}
Hard == {"sensor-outage", "grasp-stall"}
Lasting == scenario \in {"persistent-stall", "sensor-timeout"}
Limit == IF scenario = "sensor-glitch" THEN 1 ELSE IF scenario \in Hard THEN 2 ELSE 0

Hits(i) == IF scenario \in Sensing THEN Sensor(i) ELSE scenario \in Gripping /\ Grasp(i)
Calls == IF scenario \in Sensing THEN stats.sensor_calls
         ELSE IF scenario \in Gripping THEN stats.grasp_calls ELSE 0

\* The step of pick_and_place they hit, 0 when there is none.
Hit(look, grip) ==
  IF scenario \in Sensing THEN look ELSE IF scenario \in Gripping THEN grip ELSE 0

\* The first calls are hit, as many as the limit says.
Accounted == ~Lasting => stats.injected = IF Calls < Limit THEN Calls ELSE Limit

\* The faults are over, after as many replans as it takes to outlast them.
Over == ~Lasting /\ stats.injected = Limit /\ (replans = 1 <=> Limit = 2)

\* The agent is in a skill that may still succeed or fail, or has.
Counting ==
  \/ pc \in Before \cup {"succeeded", "mismatched"}
  \/ pc \in {"finish", "reported"} /\ status \in {"completed", "failed"}

\* A pass through pick_and_place, which began after base faults, meets its first faulty call at
\* step h and counts the attempts of that step by the faults.
PassCount(h, base) ==
  /\ skill = Stock
  /\ step < h => stats.injected = base
  /\ step > h => Over
  /\ step = h =>
       /\ pc \in {"preflight", "step"} => stats.injected = base
       /\ pc = "attempt" => stats.injected = base + attempts /\ attempts \in 0..1
       /\ pc \in {"invoke", "operate", "tool"} =>
            stats.injected = base + attempts - 1 /\ attempts \in 1..2
       /\ pc = "mismatched" => stats.injected = base + attempts /\ attempts \in 1..2
       /\ pc \in {"tool", "succeeded"} => Over
  /\ pc = "mismatched" => step = h /\ scenario # "sensor-timeout"
  /\ pc \in {"finish", "reported"} /\ status = "failed" =>
       step = h /\ stats.injected = base + 2 /\ scenario # "sensor-timeout"

\* Every replan has cost two faults; a recovery skill has none, and only a pass through
\* pick_and_place does.
Tally(h) ==
  /\ Accounted
  /\ replans # 0 => scenario \in Hard \cup {"persistent-stall"}
  /\ resume # NoContext => resume.step <= h
  /\ pc \in Between => stats.injected = 2 * replans
  /\ pc = "decided" \/ Counting =>
       IF planning = "original" THEN skill = Stock ELSE skill \in HandingBack
  /\ Counting /\ planning = "original" => PassCount(h, 2 * replans)
  /\ Counting /\ planning = "replan" =>
       /\ stats.injected = 2 * replans /\ pc # "mismatched"
       /\ pc \in {"finish", "reported"} => status # "failed"

\* With the mock planner a trial keeps its tally; what put the cube into the bin is counted.
Scored(look, grip, put) ==
  /\ scenario \in Scenarios
  /\ put \in done[Stock] => stats.placements > 0
  /\ provider = "mock" => Tally(Hit(look, grip))
  /\ StockScores

\* A nonempty set of numbers has a least one.
LEMMA LeastOfNaturals ==
  ASSUME NEW T \in SUBSET Nat, T # {}
  PROVE  \E n \in T : \A m \in T : n <= m
<1> DEFINE R == OpToRel(<, Nat)
<1>1. IsWellFoundedOn(R, Nat)
  BY NatLessThanWellFounded
<1>2. ASSUME NEW m \in Nat, NEW n \in Nat, m < n PROVE <<m, n>> \in R
  BY <1>2 DEF OpToRel
<1>3. \A m \in Nat, n \in Nat : m < n => <<m, n>> \in R
  BY <1>2
<1> HIDE DEF R
<1>4. PICK n \in T : \A m \in T : ~(<<m, n>> \in R)
  BY <1>1, WFMin
<1>5. ASSUME NEW m \in T PROVE ~(m < n)
  BY <1>3, <1>4
<1> QED BY <1>5

\* The first skill of some is one of them.
LEMMA FirstIsOne ==
  ASSUME NEW S \in SUBSET Skills, S # {}
  PROVE  FirstOf(S) \in S
<1> DEFINE T == {i \in DOMAIN Order : Order[i] \in S}
<1>1. Order \in Seq(Skills) /\ Skills = {Order[i] : i \in DOMAIN Order}
  BY TrialAssumption
<1>2. Len(Order) \in Nat /\ DOMAIN Order = 1..Len(Order)
  BY <1>1
<1>3. T \in SUBSET Nat /\ T # {}
  BY <1>1, <1>2
<1>4. PICK n \in T : \A m \in T : n <= m
  BY <1>3, LeastOfNaturals
<1>5. \A j \in 1..(n - 1) : Order[j] \notin S
  BY <1>2, <1>4
<1>6. n \in DOMAIN Order /\ Order[n] \in S
  BY <1>4
<1> QED BY <1>5, <1>6 DEF FirstOf

\* The mock planner answers the instruction with pick_and_place, a request to replan with a
\* recovery skill.
LEMMA MockAnswers ==
  ASSUME HandingBack # {}, planning \in {"original", "replan"}
  PROVE  IF planning = "original" THEN MockChoice = Stock ELSE MockChoice \in HandingBack
<1>1. HandingBack \subseteq Skills /\ Candidates \subseteq HandingBack
  BY MissionAssumption DEF Candidates
<1>2. Candidates # {} => FirstOf(Candidates) \in HandingBack
  BY <1>1, FirstIsOne
<1>3. FirstOf(HandingBack) \in HandingBack
  BY <1>1, FirstIsOne
<1> QED BY <1>2, <1>3 DEF MockChoice, Stock

\* A fault is injected into the calls the scenario hits, up to its limit.
LEMMA InjectedIs ==
  ASSUME scenario \in Scenarios, stats \in Counters
  PROVE  Injected <=> Hits(Asked) /\ (Lasting \/ Calls < Limit)
<1> USE DEF Injected, Hits, Lasting, Calls, Limit, Sensing, Gripping, Hard, Counters
<1>1. stats.sensor_calls \in Nat /\ stats.grasp_calls \in Nat
  OBVIOUS
<1>2. CASE scenario = "baseline"
  BY <1>2
<1>3. CASE scenario = "sensor-glitch"
  BY <1>1, <1>3
<1>4. CASE scenario = "sensor-outage"
  BY <1>1, <1>4
<1>5. CASE scenario = "grasp-stall"
  BY <1>1, <1>5
<1>6. CASE scenario = "persistent-stall"
  BY <1>6
<1>7. CASE scenario = "sensor-timeout"
  BY <1>7
<1> QED BY <1>2, <1>3, <1>4, <1>5, <1>6, <1>7, TrialAssumption

\* As long as the account is right, the faults injected tell whether more are to come.
LEMMA FaultsToCome ==
  ASSUME scenario \in Scenarios, stats \in Counters, Accounted
  PROVE  /\ Injected <=> Hits(Asked) /\ (Lasting \/ stats.injected < Limit)
         /\ ~Lasting => stats.injected <= Limit
         /\ Limit \in 0..2 /\ stats.injected \in Nat
<1>1. Limit \in 0..2 /\ stats.injected \in Nat /\ Calls \in Nat
  BY DEF Limit, Calls, Counters
<1>2. ~Lasting => stats.injected <= Limit /\ (stats.injected < Limit <=> Calls < Limit)
  BY <1>1 DEF Accounted
<1> QED BY <1>1, <1>2, InjectedIs

\* The account stays right while calls are counted, and while none is.
LEMMA AccountedCounts ==
  ASSUME scenario \in Scenarios, WorldOK, Accounted, stats' = Counted, UNCHANGED scenario
  PROVE  Accounted'
<1>1. stats \in Counters
  BY DEF WorldOK
<1>2. /\ stats'.injected = stats.injected + One(Injected)
      /\ stats'.sensor_calls = stats.sensor_calls + One(Sensor(Asked))
      /\ stats'.grasp_calls = stats.grasp_calls + One(Grasp(Asked))
      /\ stats.sensor_calls \in Nat /\ stats.grasp_calls \in Nat /\ stats.injected \in Nat
  BY <1>1, CountedType DEF Counters
<1>3. Calls' = Calls + One(Hits(Asked)) /\ Calls \in Nat
  BY <1>2 DEF Calls, Hits, One, Sensing, Gripping
<1>4. (Lasting <=> Lasting') /\ Limit' = Limit /\ Limit \in 0..2
  BY DEF Lasting, Limit
<1>5. Injected <=> Hits(Asked) /\ (Lasting \/ Calls < Limit)
  BY <1>1, InjectedIs
<1>6. CASE Injected
  <2>1. stats'.injected = stats.injected + 1 /\ Calls' = Calls + 1
    BY <1>2, <1>3, <1>5, <1>6 DEF One
  <2> SUFFICES ASSUME ~Lasting PROVE stats'.injected = IF Calls' < Limit THEN Calls' ELSE Limit
    BY <1>4 DEF Accounted
  <2>2. Calls < Limit /\ stats.injected = Calls
    BY <1>5, <1>6 DEF Accounted
  <2> QED BY <1>3, <1>4, <2>1, <2>2
<1>7. CASE ~Injected
  <2>1. stats'.injected = stats.injected /\ (Calls' = Calls \/ (Calls' = Calls + 1 /\ Hits(Asked)))
    BY <1>2, <1>3, <1>7 DEF One
  <2> QED BY <1>2, <1>3, <1>4, <1>5, <1>7, <2>1 DEF Accounted
<1> QED BY <1>6, <1>7

\* The same when no call is.
LEMMA AccountedStays ==
  ASSUME Accounted, UNCHANGED scenario, stats'.injected = stats.injected,
         stats'.sensor_calls = stats.sensor_calls, stats'.grasp_calls = stats.grasp_calls
  PROVE  Accounted'
BY DEF Accounted, Lasting, Limit, Calls

\* Of the steps of pick_and_place a scenario hits one, of those of recovery skills only looks.
LEMMA HitSteps ==
  ASSUME NEW idle, NEW ready, NEW look, NEW grip, NEW put,
         CatalogSeparates(idle, ready, look, grip, put)
  PROVE  /\ \A k \in 1..Steps[Stock] : Hits(Input[Stock][k]) <=> k = Hit(look, grip)
         /\ \A s \in HandingBack : \A k \in 1..Steps[s] :
              Hits(Input[s][k]) => scenario \in Sensing
         /\ Hit(look, grip) \in 0..Steps[Stock] /\ Steps[Stock] \in Nat /\ Stock \in Skills
         /\ Hit(look, grip) # 0 => Hit(look, grip) \in {look, grip}
<1>1. Stock \in Skills /\ Steps[Stock] \in Nat
  BY TrialAssumption, MissionAssumption DEF Stock
<1>2. look \in 1..Steps[Stock] /\ grip \in 1..Steps[Stock]
  BY DEF CatalogSeparates, Stock
<1>3. \A k \in 1..Steps[Stock] : /\ Sensor(Input[Stock][k]) <=> k = look
                                 /\ Grasp(Input[Stock][k]) <=> k = grip
  BY DEF CatalogSeparates, Stock
<1>4. \A k \in 1..Steps[Stock] : Hits(Input[Stock][k]) <=> k = Hit(look, grip)
  BY <1>1, <1>3 DEF Hits, Hit
<1>5. \A s \in HandingBack : \A k \in 1..Steps[s] :
        Hits(Input[s][k]) => scenario \in Sensing
  BY DEF CatalogSeparates, Hits
<1> QED BY <1>1, <1>2, <1>4, <1>5 DEF Hit

\* What the mission's invariant says of its replans and of where it is.
LEMMA TurnsOf ==
  ASSUME P!IInv, MaxReplans <= 1
  PROVE  /\ replans \in 0..1 /\ max_replans \in 0..1 /\ replans <= max_replans
         /\ planning \in {"original", "replan"} /\ attempts \in Nat /\ step \in Nat \ {0}
         /\ planning = "replan" => replans = 1
         /\ pc = "step" => status = "completed"
         /\ pc \in {"finish", "reported"} /\ status = "completed" => step > Steps[skill]
<1>1. /\ replans \in 0..max_replans /\ max_replans \in 0..MaxReplans
      /\ planning \in {"original", "replan"} /\ attempts \in Nat /\ step \in Nat \ {0}
  BY DEF P!IInv, P!TypeOK
<1>2. MaxReplans \in 0..1
  BY MissionAssumption
<1>3. planning = "replan" => replans >= 1
  BY DEF P!IInv, P!Budget
<1>4. pc \notin Within => MissionPc = pc
  BY PcMaps
<1>5. /\ pc = "step" => status = "completed"
      /\ pc \in {"finish", "reported"} /\ status = "completed" => step > Steps[skill]
  BY <1>4 DEF P!IInv, P!Position, Within
<1> QED BY <1>1, <1>2, <1>3, <1>5

\* A tool keeps the tally: only an injected fault makes a step miss, and it is counted.
LEMMA ToolTally ==
  ASSUME NEW idle, NEW ready, NEW look, NEW grip, NEW put,
         CatalogSeparates(idle, ready, look, grip, put),
         P!IInv, InOrder(idle, ready), scenario \in Scenarios,
         NEW h, h = Hit(look, grip), Tally(h), ToolStep
  PROVE  Tally(h)'
<1> USE DEF Between, Before, Counting, agent, gateway, world, trial
<1>1. UNCHANGED <<scenario, skill, step, attempts, status, planning, replans, resume>>
  BY DEF ToolStep, Refuse, Inject, Stall, EndStall, PassOn, Observe, Command, IllegalCommand
<1>2. WorldOK /\ stats \in Counters /\ Accounted
  BY DEF InOrder, WorldOK, Tally
<1>3. MaxReplans <= 1 /\ CatalogInOrder(idle, ready)
  BY DEF CatalogSeparates
<1>4. /\ Injected <=> Hits(Asked) /\ (Lasting \/ stats.injected < Limit)
      /\ ~Lasting => stats.injected <= Limit
      /\ Limit \in 0..2 /\ stats.injected \in Nat
  BY <1>2, FaultsToCome
<1>5. (Lasting <=> Lasting') /\ Limit' = Limit
  BY <1>1 DEF Lasting, Limit
<1>6. pc' = "mismatched" /\ pc # "mismatched" => stats'.injected = stats.injected + 1
  BY <1>3, FaultsOnly DEF TrialNext, TrialProgress
<1>7. /\ replans \in 0..1 /\ planning \in {"original", "replan"} /\ attempts \in Nat
      /\ step \in Nat \ {0} /\ (planning = "replan" => replans = 1)
  BY <1>3, TurnsOf
<1>8. CASE Refuse \/ EndStall \/ IllegalCommand
  <2>1. pc' = "erred" /\ stats' = stats
    BY <1>8 DEF Refuse, EndStall, IllegalCommand
  <2>2. Accounted'
    BY <1>1, <1>2, <2>1, AccountedStays
  <2> QED BY <1>1, <2>1, <2>2 DEF Tally
<1>9. CASE Stall
  <2>1. pc' = "waiting" /\ stats' = Counted
    BY <1>9 DEF Stall
  <2>2. Accounted'
    BY <1>1, <1>2, <2>1, AccountedCounts
  <2> QED BY <1>1, <2>1, <2>2 DEF Tally
<1>10. CASE Inject
  <2>1. /\ pc = "operate" /\ Injected /\ scenario # "sensor-timeout" /\ stats' = Counted
        /\ \/ pc' = "succeeded" /\ Contains(Miss(Asked), Expect[skill][step])
           \/ pc' = "mismatched"
    BY <1>10 DEF Inject, Judged
  <2>2. stats'.injected = stats.injected + 1
    BY <1>2, <2>1, CountedType DEF One
  <2>3. Accounted'
    BY <1>1, <1>2, <2>1, AccountedCounts
  <2>4. skill \in Skills /\ step \in 1..Steps[skill]
    BY <2>1, AtStep
  <2>5. Hits(Input[skill][step]) /\ (Lasting \/ stats.injected < Limit)
    BY <1>4, <2>1 DEF Asked
  <2>6. planning = "original"
    <3> SUFFICES ASSUME planning = "replan" PROVE FALSE
      BY <1>7
    <3>1. replans = 1 /\ skill \in HandingBack /\ stats.injected = 2
      BY <1>7, <2>1 DEF Tally
    <3>2. scenario \in Hard \cup {"persistent-stall"}
      BY <3>1 DEF Tally
    <3>3. scenario \in Sensing
      BY <2>4, <2>5, <3>1, HitSteps
    <3>4. ~Lasting /\ Limit = 2
      BY <3>2, <3>3 DEF Lasting, Sensing, Limit, Hard
    <3> QED BY <2>5, <3>1, <3>4
  <2>7. skill = Stock
    BY <2>1, <2>6 DEF Tally
  <2>8. step = h
    BY <2>4, <2>5, <2>7, HitSteps
  <2>9. pc' = "mismatched"
    <3>1. h \in {look, grip}
      BY <2>4, <2>8, HitSteps
    <3>2. ~Contains(Miss(Asked), Expect[skill][step])
      BY <2>7, <2>8, <3>1 DEF CatalogSeparates, Stock, Asked
    <3> QED BY <2>1, <3>2
  <2>10. stats.injected = 2 * replans + attempts - 1 /\ attempts \in 1..2
    BY <2>1, <2>6, <2>8 DEF Tally, PassCount
  <2>11. stats'.injected = 2 * replans + attempts
    BY <1>7, <2>2, <2>10
  <2>12. PassCount(h, 2 * replans)'
    <3>1. step \in Nat /\ step' = h /\ ~(step' < h) /\ ~(step' > h)
      BY <1>1, <1>7, <2>8
    <3>2. 2 * replans' = 2 * replans /\ attempts' = attempts
      BY <1>1
    <3> QED BY <1>1, <2>1, <2>7, <2>9, <2>10, <2>11, <3>1, <3>2 DEF PassCount
  <2> QED BY <1>1, <2>3, <2>6, <2>7, <2>9, <2>12 DEF Tally
<1>11. CASE PassOn
  <2>1. pc = "operate" /\ pc' = "tool" /\ ~Injected /\ stats' = Counted
    BY <1>11 DEF PassOn
  <2>2. stats'.injected = stats.injected
    BY <1>2, <1>4, <2>1, CountedType DEF One
  <2>3. Accounted'
    BY <1>1, <1>2, <2>1, AccountedCounts
  <2>4. step \in 1..Steps[skill]
    BY <2>1, AtStep
  <2>5. Over => Over'
    BY <1>1, <1>5, <2>2 DEF Over
  <2>6. ASSUME planning = "original" PROVE PassCount(h, 2 * replans)'
    <3>1. PassCount(h, 2 * replans)
      BY <2>1, <2>6 DEF Tally
    <3>2. ASSUME step = h PROVE Over
      <4>1. Hits(Asked)
        BY <2>4, <3>1, <3>2, HitSteps DEF PassCount, Asked
      <4>2. ~Lasting /\ stats.injected = Limit
        BY <1>4, <2>1, <4>1
      <4>3. stats.injected = 2 * replans + attempts - 1 /\ attempts \in 1..2
        BY <2>1, <3>1, <3>2 DEF PassCount
      <4>4. replans = 1 => Limit = 2
        BY <4>2 DEF Tally, Limit, Lasting, Hard
      <4> QED BY <1>4, <1>7, <4>2, <4>3, <4>4 DEF Over
    <3> QED BY <1>1, <2>1, <2>2, <2>5, <3>1, <3>2 DEF PassCount
  <2>7. pc' \notin Between
    BY <2>1
  <2>8. ASSUME planning = "replan" PROVE stats'.injected = 2 * replans /\ skill \in HandingBack
    BY <1>7, <2>1, <2>2, <2>8 DEF Tally
  <2> QED BY <1>1, <1>7, <2>1, <2>3, <2>6, <2>8 DEF Tally
<1>12. CASE Observe \/ Command
  <2>1. /\ pc = "tool" /\ pc' \in {"succeeded", "mismatched", "erred"}
        /\ stats'.injected = stats.injected /\ stats'.sensor_calls = stats.sensor_calls
        /\ stats'.grasp_calls = stats.grasp_calls
    BY <1>2, <1>12 DEF Observe, Command, Judged, Counters
  <2>2. pc' \in {"succeeded", "erred"}
    BY <1>4, <1>6, <2>1
  <2>3. Accounted'
    BY <1>1, <1>2, <2>1, AccountedStays
  <2>4. Over => Over'
    BY <1>1, <1>5, <2>1 DEF Over
  <2>5. ASSUME planning = "original" PROVE PassCount(h, 2 * replans)'
    <3>1. PassCount(h, 2 * replans)
      BY <2>1, <2>5 DEF Tally
    <3> QED BY <1>1, <2>1, <2>2, <2>4, <3>1 DEF PassCount
  <2> QED BY <1>1, <1>7, <2>1, <2>2, <2>3, <2>5 DEF Tally
<1> QED BY <1>8, <1>9, <1>10, <1>11, <1>12 DEF ToolStep

\* The mission keeps the tally.
LEMMA MissionTally ==
  ASSUME NEW idle, NEW ready, NEW look, NEW grip, NEW put,
         CatalogSeparates(idle, ready, look, grip, put),
         P!IInv, scenario \in Scenarios, WorldOK,
         NEW h, h = Hit(look, grip), Tally(h), MissionStep
  PROVE  Tally(h)'
<1> USE DEF Between, Before, Counting, agent, gateway, world, trial, Reason
<1>1. UNCHANGED <<scenario, stats>>
  BY DEF MissionStep
<1>2. /\ replans \in 0..1 /\ max_replans \in 0..1
      /\ planning \in {"original", "replan"} /\ attempts \in Nat /\ step \in Nat \ {0}
      /\ planning = "replan" => replans = 1
      /\ pc = "step" => status = "completed"
  BY TurnsOf DEF CatalogSeparates
<1>3. h \in Nat /\ (h # 0 => h \in {look, grip} /\ h \in 1..Steps[Stock])
  BY HitSteps
<1>4. Accounted'
  BY <1>1, AccountedStays DEF Tally
<1>5. UNCHANGED replans /\ Over => Over'
  BY <1>1 DEF Over, Lasting, Limit
<1>6. CASE Turn \/ AskCandidate \/ FallBack \/ ReportStopped \/ Conclude
  <2>1. /\ UNCHANGED <<replans, resume>> /\ pc' \in {"loop", "candidate", "request", "done"}
        /\ pc' # "done" => pc \in Between
    BY <1>6 DEF Turn, AskCandidate, FallBack, ReportStopped, Conclude, Return
  <2> QED BY <1>1, <1>4, <2>1 DEF Tally
<1>7. CASE HandBack
  <2>1. /\ UNCHANGED <<replans, resume>> /\ pc' = "loop" /\ pc = "reported"
        /\ status = "completed" /\ planning = "replan"
    BY <1>2, <1>7 DEF HandBack, Live, HandsBack
  <2> QED BY <1>1, <1>4, <2>1 DEF Tally
<1>8. CASE Decide /\ pc' # "done"
  <2>1. /\ pc = "decided" /\ pc' = "preflight" /\ UNCHANGED <<replans, resume, planning, skill>>
        /\ step' = IF Resumes(skill) THEN resume.step ELSE 1
    BY <1>8 DEF Decide, Return
  <2>2. stats'.injected = 2 * replans'
    BY <1>1, <2>1 DEF Tally
  <2>3. ASSUME planning = "original" PROVE PassCount(h, 2 * replans)'
    <3>1. skill' = Stock
      BY <2>1, <2>3 DEF Tally
    <3>2. CASE h # 0
      <4>1. step' \in Nat /\ step' <= h /\ (step' < h \/ step' = h)
        <5>1. CASE Resumes(skill)
          <6>1. skill \in Skills
            BY <2>1, MissionSays
          <6>2. resume # NoContext
            BY <5>1, <6>1, MissionAssumption DEF Resumes, NoContext
          <6>3. resume.step <= h /\ resume.step \in Nat
            BY <6>2, MissionSays, MissionAssumption DEF Tally
          <6> QED BY <1>3, <2>1, <5>1, <6>3
        <5>2. CASE ~Resumes(skill)
          BY <1>3, <2>1, <3>2, <5>2
        <5> QED BY <5>1, <5>2
      <4>2. ~(step' > h)
        BY <1>3, <4>1
      <4> QED BY <2>1, <2>2, <3>1, <4>1, <4>2 DEF PassCount
    <3>3. CASE h = 0
      <4>1. scenario \notin Sensing \cup Gripping
        BY <3>3 DEF Hit, CatalogSeparates
      <4>2. ~Lasting /\ Limit = 0 /\ scenario \notin Hard \cup {"persistent-stall"}
        BY <4>1 DEF Lasting, Limit, Sensing, Gripping, Hard
      <4>3. replans = 0
        BY <4>2 DEF Tally
      <4>4. stats.injected = 0
        BY <1>1, <2>1, <2>2, <4>3
      <4>5. Over'
        BY <1>1, <1>5, <2>1, <4>2, <4>3, <4>4 DEF Over
      <4>6. step' \in Nat \ {0}
        BY <2>1, MissionSays, <4>3, MissionAssumption DEF Resumes, NoContext
      <4> QED BY <2>1, <2>2, <3>1, <3>3, <4>5, <4>6 DEF PassCount
    <3> QED BY <3>2, <3>3
  <2> QED BY <1>1, <1>2, <1>4, <2>1, <2>2, <2>3 DEF Tally
<1>9. CASE pc' = "done"
  <2>1. UNCHANGED <<replans, resume>>
    BY <1>9 DEF MissionStep, Turn, AskCandidate, FallBack, Decide, Preflight, NextStep, Attempt,
       Invoke, Error, Succeed, Mismatch, GiveUp, Finish, ReportStopped, HandBack, Conclude, Replan,
       Stop
  <2> QED BY <1>1, <1>4, <1>9, <2>1 DEF Tally
<1>10. ASSUME UNCHANGED <<replans, resume, planning, skill>>, Counting, Counting', pc' \notin Between,
              planning = "original" =>
                (PassCount(h, 2 * replans) => PassCount(h, 2 * replans)'),
              planning = "replan" =>
                pc' # "mismatched" /\ (pc' \in {"finish", "reported"} => status' # "failed")
       PROVE  Tally(h)'
  BY <1>1, <1>2, <1>4, <1>10 DEF Tally
<1>11. ASSUME pc' = "finish", status' = Reason, UNCHANGED <<replans, resume>>
       PROVE  Tally(h)'
  BY <1>1, <1>4, <1>11 DEF Tally
<1>12. CASE Preflight /\ pc' # "done"
  <2>1. /\ pc = "preflight" /\ pc' = "step"
        /\ UNCHANGED <<replans, resume, planning, skill, step, attempts, status>>
    BY <1>12 DEF Preflight, Return
  <2> QED BY <1>1, <1>5, <1>10, <2>1 DEF PassCount
<1>13. CASE NextStep
  <2>1. CASE pc' = "finish" /\ status' = Reason
    BY <1>11, <1>13, <2>1 DEF NextStep
  <2>2. CASE ~(pc' = "finish" /\ status' = Reason)
    <3>1. /\ pc = "step" /\ attempts' = 0 /\ status' = status /\ pc' \in {"finish", "attempt"}
          /\ UNCHANGED <<replans, resume, planning, skill, step>>
      BY <1>13, <2>2 DEF NextStep, Stop
    <3> QED BY <1>1, <1>2, <1>5, <1>10, <3>1 DEF PassCount
  <2> QED BY <2>1, <2>2
<1>14. CASE Attempt
  <2>1. CASE pc' = "finish"
    BY <1>11, <1>14, <2>1 DEF Attempt, Stop
  <2>2. CASE pc' # "finish"
    <3>1. /\ pc = "attempt" /\ attempts' = attempts + 1 /\ pc' = "invoke"
          /\ UNCHANGED <<replans, resume, planning, skill, step, status>>
      BY <1>14, <2>2 DEF Attempt, Stop
    <3>2. attempts \in 0..1 => attempts' \in 1..2 /\ attempts' - 1 = attempts
      BY <3>1
    <3> QED BY <1>1, <1>2, <1>5, <1>10, <3>1, <3>2 DEF PassCount
  <2> QED BY <2>1, <2>2
<1>15. CASE Invoke
  <2>1. CASE pc' = "finish"
    BY <1>11, <1>15, <2>1 DEF Invoke, Stop
  <2>2. CASE pc' = "erred"
    BY <1>1, <1>4, <1>15, <2>2 DEF Invoke, Stop, Tally
  <2>3. CASE pc' \notin {"finish", "erred"}
    <3>1. /\ pc = "invoke" /\ pc' = "operate"
          /\ UNCHANGED <<replans, resume, planning, skill, step, status, attempts>>
      BY <1>15, <2>3 DEF Invoke, Stop
    <3> QED BY <1>1, <1>5, <1>10, <3>1 DEF PassCount
  <2> QED BY <2>1, <2>2, <2>3
<1>16. CASE Error
  BY <1>9, <1>11, <1>16 DEF Error, Stop, Return
<1>17. CASE Succeed
  <2>1. CASE pc' = "finish"
    BY <1>11, <1>17, <2>1 DEF Succeed, Stop
  <2>2. CASE pc' # "finish"
    <3>1. /\ pc = "succeeded" /\ step' = step + 1 /\ pc' = "step"
          /\ UNCHANGED <<replans, resume, planning, skill, status, attempts>>
      BY <1>17, <2>2 DEF Succeed, Stop
    <3>2. /\ step' < h => step < h
          /\ step' = h => step < h
          /\ step' > h => step = h \/ step > h
      BY <1>2, <1>3, <3>1
    <3>3. PassCount(h, 2 * replans) => PassCount(h, 2 * replans)'
      BY <1>1, <1>5, <3>1, <3>2 DEF PassCount
    <3> QED BY <1>10, <3>1, <3>3
  <2> QED BY <2>1, <2>2
<1>18. CASE Mismatch
  <2>1. CASE pc' = "finish" /\ status' = Reason
    BY <1>11, <1>18, <2>1 DEF Mismatch, GiveUp
  <2>2. CASE ~(pc' = "finish" /\ status' = Reason)
    <3>1. /\ pc = "mismatched" /\ UNCHANGED <<replans, resume, planning, skill, step, attempts>>
          /\ \/ RetriesLeft /\ pc' = "attempt" /\ UNCHANGED status
             \/ ~RetriesLeft /\ pc' = "finish" /\ status' = "failed"
      BY <1>18, <2>2 DEF Mismatch, GiveUp, Stop
    <3>2. planning = "original"
      BY <1>2, <3>1 DEF Tally
    <3>3. /\ PassCount(h, 2 * replans) /\ skill = Stock /\ step = h
          /\ stats.injected = 2 * replans + attempts /\ attempts \in 1..2
          /\ scenario # "sensor-timeout"
      BY <3>1, <3>2 DEF Tally, PassCount
    <3>4. MaxRetries[skill][step] = 1
      BY <1>2, <1>3, <3>3 DEF CatalogSeparates, Stock
    <3>5. RetriesLeft <=> attempts = 1
      BY <3>3, <3>4 DEF RetriesLeft
    <3>6. ~(step' < h) /\ ~(step' > h) /\ step' = h
      BY <1>3, <3>1, <3>3
    <3>7. PassCount(h, 2 * replans)'
      BY <1>1, <3>1, <3>3, <3>5, <3>6 DEF PassCount
    <3> QED BY <1>10, <3>1, <3>2, <3>7
  <2> QED BY <2>1, <2>2
<1>19. CASE Finish
  <2>1. /\ pc = "finish" /\ pc' = "reported" /\ status' \in {Reason, status}
        /\ UNCHANGED <<replans, resume, planning, skill, step, attempts>>
    BY <1>19 DEF Finish
  <2>2. CASE ~Counting'
    BY <1>1, <1>4, <2>1, <2>2 DEF Tally
  <2>3. CASE Counting'
    <3>1. status' = status /\ Counting
      BY <2>1, <2>3
    <3>2. PassCount(h, 2 * replans) => PassCount(h, 2 * replans)'
      BY <1>1, <1>5, <2>1, <3>1 DEF PassCount
    <3>3. planning = "replan" => status # "failed"
      BY <2>1, <3>1 DEF Tally
    <3> QED BY <1>10, <2>1, <2>3, <3>1, <3>2, <3>3
  <2> QED BY <2>2, <2>3
<1>20. CASE Replan
  <2>1. /\ pc = "reported" /\ status = "failed" /\ replans < max_replans /\ replans' = replans + 1
        /\ resume' = Context /\ pc' = "loop"
    BY <1>20 DEF Replan, Live, MayReplan
  <2>2. replans = 0 /\ replans' = 1
    BY <1>2, <2>1
  <2>3. planning = "original"
    BY <1>2, <2>2
  <2>4. skill = Stock /\ step = h /\ stats.injected = 2 /\ scenario # "sensor-timeout"
    BY <2>1, <2>2, <2>3 DEF Tally, PassCount
  <2>5. scenario \in Hard \cup {"persistent-stall"}
    <3>1. ~Lasting => 2 <= Limit
      BY <2>4, FaultsToCome DEF WorldOK, Tally
    <3> QED BY <2>4, <3>1 DEF Lasting, Limit
  <2>6. resume' # NoContext => resume'.step <= h
    <3> SUFFICES ASSUME resume' # NoContext PROVE resume'.step <= h
      OBVIOUS
    <3>1. resume' = [skill |-> skill, step |-> Checkpoint[skill][failed_step]]
      BY <2>1 DEF Context
    <3>2. failed_step = h /\ h \in 1..Steps[Stock] /\ Stock \in Skills
      BY <1>2, <1>3, <2>1, <2>4, MissionSays, HitSteps
    <3>3. Checkpoint[Stock][h] \in 1..h
      BY <3>2, CheckpointsLookBack
    <3> QED BY <1>3, <2>4, <3>1, <3>2, <3>3
  <2> QED BY <1>1, <1>4, <2>1, <2>2, <2>4, <2>5, <2>6 DEF Tally
<1> QED BY <1>6, <1>7, <1>8, <1>9, <1>12, <1>13, <1>14, <1>15, <1>16, <1>17, <1>18, <1>19, <1>20
        DEF MissionStep

\* Every step of a trial keeps the tally.
LEMMA TallyStep ==
  ASSUME NEW idle, NEW ready, NEW look, NEW grip, NEW put,
         CatalogSeparates(idle, ready, look, grip, put),
         P!IInv, InOrder(idle, ready), scenario \in Scenarios, provider = "mock",
         NEW h, h = Hit(look, grip), Tally(h), [TrialNext]_trialvars
  PROVE  Tally(h)'
<1> USE DEF Between, Before, Counting, agent, gateway, world, trial
<1>1. WorldOK
  BY DEF InOrder, WorldOK
<1>2. ASSUME UNCHANGED <<stats, scenario, replans, resume>> PROVE Accounted'
  BY <1>2, AccountedStays DEF Tally
<1>3. CASE PlanTrial
  <2>1. /\ pc = "request" /\ pc' = "decided" /\ skill' = MockChoice
        /\ UNCHANGED <<stats, scenario, replans, resume, planning>>
    BY <1>3 DEF PlanTrial, Plan
  <2>2. planning \in {"original", "replan"}
    BY DEF P!IInv, P!TypeOK
  <2>3. IF planning = "original" THEN MockChoice = Stock ELSE MockChoice \in HandingBack
    BY <2>2, MockAnswers DEF CatalogSeparates
  <2> QED BY <1>2, <2>1, <2>3 DEF Tally
<1>4. CASE MissionStep
  BY <1>1, <1>4, MissionTally
<1>5. CASE ToolStep
  BY <1>5, ToolTally
<1>6. ASSUME UNCHANGED <<stats, scenario, replans, resume, planning, skill, step, attempts, status>>,
             pc' = pc \/ pc' = "done"
      PROVE  Tally(h)'
  <2>1. Over => Over'
    BY <1>6 DEF Over, Lasting, Limit
  <2>2. pc' = pc => (PassCount(h, 2 * replans) => PassCount(h, 2 * replans)')
    BY <1>6, <2>1 DEF PassCount
  <2> QED BY <1>2, <1>6, <2>2 DEF Tally
<1>7. CASE Deadline \/ Interruption
  BY <1>6, <1>7 DEF Deadline, Interruption, Expire, Cancel, IOError, Return
<1>8. CASE UNCHANGED trialvars
  BY <1>6, <1>8 DEF trialvars, vars
<1> QED BY <1>3, <1>4, <1>5, <1>7, <1>8 DEF TrialNext, TrialProgress

\* What put the cube into the bin has been counted as a placement.
LEMMA BinnedStep ==
  ASSUME NEW idle, NEW ready, NEW look, NEW grip, NEW put,
         CatalogSeparates(idle, ready, look, grip, put),
         P!IInv, WorldOK, put \in done[Stock] => stats.placements > 0, [TrialNext]_trialvars
  PROVE  put \in done'[Stock] => stats'.placements > 0
<1> USE DEF agent, gateway, world
<1>0. /\ done \in [Skills -> SUBSET Nat] /\ Stock \in Skills
      /\ \A T \in SUBSET Nat :
           done' = [done EXCEPT ![skill] = T] /\ skill # Stock => done'[Stock] = done[Stock]
  <2>1. done \in [Skills -> SUBSET Nat] /\ Stock \in Skills
    BY TrialAssumption DEF Stock, P!IInv, P!TypeOK
  <2> QED BY <2>1
<1>1. stats.placements \in Nat /\ Counted.placements = stats.placements
  BY CountedType DEF WorldOK, Counters
<1>2. CASE Inject
  <2>1. /\ pc = "operate" /\ Injected /\ stats' = Counted
        /\ done' = done \/ done' = [done EXCEPT ![skill] = @ \cup {step}]
    BY <1>2 DEF Inject, Judged
  <2>2. Sensor(Asked) \/ Grasp(Asked)
    BY <2>1 DEF Injected
  <2>3. ~(skill = Stock /\ step = put)
    BY <2>2 DEF CatalogSeparates, Stock, Sensor, Grasp, Asked
  <2>4. put \in done'[Stock] => put \in done[Stock]
    BY <1>0, <2>1, <2>3
  <2> QED BY <1>1, <2>1, <2>4
<1>3. CASE Observe
  <2>1. /\ UNCHANGED stats /\ Asked.tool = "sensor"
        /\ done' = done \/ done' = [done EXCEPT ![skill] = @ \cup {step}]
    BY <1>3 DEF Observe, Judged
  <2>2. ~(skill = Stock /\ step = put)
    BY <2>1 DEF CatalogSeparates, Stock, Asked
  <2>3. put \in done'[Stock] => put \in done[Stock]
    BY <1>0, <2>1, <2>2
  <2> QED BY <2>1, <2>3
<1>4. CASE Command
  <2>1. /\ stats' = [stats EXCEPT !.placements = @ + One(Placement)]
        /\ done' = done \/ done' = [done EXCEPT ![skill] = @ \cup {step}]
    BY <1>4 DEF Command, Judged
  <2>2. stats'.placements = stats.placements + One(Placement)
    BY <2>1 DEF WorldOK, Counters
  <2>3. CASE skill = Stock /\ step = put
    <3>1. Placement
      BY <2>3 DEF CatalogSeparates, Stock, Placement, Asked
    <3> QED BY <1>1, <2>2, <3>1 DEF One
  <2>4. CASE ~(skill = Stock /\ step = put)
    <3>1. put \in done'[Stock] => put \in done[Stock]
      BY <1>0, <2>1, <2>4
    <3> QED BY <1>1, <2>2, <3>1 DEF One
  <2> QED BY <2>3, <2>4
<1>5. CASE Refuse \/ Stall \/ EndStall \/ PassOn \/ IllegalCommand
  <2>1. done' = done /\ stats' \in {stats, Counted}
    BY <1>5 DEF Refuse, Stall, EndStall, PassOn, IllegalCommand
  <2> QED BY <1>1, <2>1
<1>6. CASE PlanTrial \/ MissionStep \/ Deadline \/ Interruption \/ UNCHANGED trialvars
  <2>1. UNCHANGED <<done, stats>>
    BY <1>6 DEF PlanTrial, Plan, MissionStep, Turn, AskCandidate, FallBack, Decide, Preflight,
       NextStep, Attempt, Invoke, Error, Succeed, Mismatch, GiveUp, Finish, ReportStopped, HandBack,
       Conclude, Replan, Deadline, Interruption, Expire, Cancel, IOError, trialvars, vars
  <2> QED BY <2>1
<1> QED BY <1>2, <1>3, <1>4, <1>5, <1>6 DEF TrialNext, TrialProgress, ToolStep

\* The score of a mission that concludes is its scenario's.
LEMMA ConcludedScore ==
  ASSUME NEW idle, NEW ready, NEW look, NEW grip, NEW put,
         CatalogSeparates(idle, ready, look, grip, put),
         P!IInv, InOrder(idle, ready), scenario \in Scenarios,
         put \in done[Stock] => stats.placements > 0,
         NEW h, h = Hit(look, grip), Tally(h),
         Conclude, UNCHANGED <<trial, world>>
  PROVE  StockScores'
<1> USE DEF agent, gateway, world, trial
<1> DEFINE easy == {"baseline", "sensor-glitch"}
           hard == {"sensor-outage", "grasp-stall"}
           winner == scenario \in easy \cup (IF max_replans = 0 THEN {} ELSE hard)
<1>1. /\ replans \in 0..1 /\ max_replans \in 0..1 /\ replans <= max_replans
      /\ planning \in {"original", "replan"} /\ (planning = "replan" => replans = 1)
  BY TurnsOf DEF CatalogSeparates
<1>2. /\ pc = "reported" /\ status \in {"completed", "failed"} /\ ~HandsBack
      /\ status = "completed" \/ ~MayReplan
      /\ result' = status
      /\ UNCHANGED <<scenario, provider, replans, max_replans, stats, robot>>
  BY DEF Conclude, Live, Return
<1>3. planning = "original" /\ PassCount(h, 2 * replans) /\ skill = Stock
  <2>1. Counting
    BY <1>2 DEF Counting
  <2>2. planning = "original"
    BY <1>1, <1>2, <2>1 DEF Tally, HandsBack
  <2> QED BY <2>1, <2>2 DEF Tally, PassCount
<1>4. h \in 0..Steps[Stock] /\ Steps[Stock] \in Nat
  BY HitSteps
<1>5. ~Lasting => stats.injected <= Limit
  BY FaultsToCome DEF InOrder, WorldOK, Tally
<1>6. replans # 0 => scenario \in Hard \cup {"persistent-stall"}
  BY DEF Tally
<1>7. CASE status = "completed"
  <2>1. step > Steps[Stock] /\ step \in Nat
    BY <1>2, <1>3, <1>7, TurnsOf DEF CatalogSeparates
  <2>2. Over
    BY <1>3, <1>4, <2>1 DEF PassCount
  <2>3. ~Lasting /\ stats.injected = Limit /\ (replans = 1 <=> Limit = 2)
    BY <2>2 DEF Over
  <2>4. put \in done[Stock]
    <3>1. MissionPc = "reported" /\ put \in 1..Steps[Stock]
      BY <1>2, PcMaps DEF Within, CatalogSeparates, Stock
    <3>2. \A k \in 1..(step - 1) : k \in done[skill]
      BY <3>1 DEF P!IInv, P!Behind, P!AgentPlaces
    <3> QED BY <1>3, <1>4, <2>1, <3>1, <3>2
  <2>5. robot.last_pose = "bin_a" /\ robot.held_object = Nothing
    <3>1. robot \in ready[Stock][Steps[Stock] + 1]
      BY <1>2, <1>3, <1>7 DEF InOrder
    <3>2. robot = [last_pose |-> "bin_a", held_object |-> Nothing]
      BY <3>1 DEF CatalogSeparates, Stock
    <3> QED BY <3>2
  <2>6. /\ scenario \in easy \cup hard
        /\ scenario = "baseline" => stats.injected = 0
        /\ scenario = "sensor-glitch" => stats.injected = 1
        /\ scenario \in hard => stats.injected = 2 /\ replans = 1
        /\ scenario \in easy => replans = 0
    BY <1>1, <1>6, <2>3, TrialAssumption DEF Lasting, Limit, Hard
  <2>7. result' = "completed"
    BY <1>2, <1>7
  <2>8. Passed' /\ winner
    BY <1>1, <1>2, <2>4, <2>5, <2>6, <2>7 DEF Passed
  <2>9. CASE scenario = "baseline"
    BY <1>2, <2>6, <2>8, <2>9 DEF StockScores
  <2>10. CASE scenario = "sensor-glitch"
    BY <1>2, <2>6, <2>8, <2>10 DEF StockScores
  <2>11. CASE scenario \in hard
    BY <1>1, <1>2, <2>6, <2>8, <2>11 DEF StockScores
  <2> QED BY <2>6, <2>9, <2>10, <2>11
<1>8. CASE status = "failed"
  <2>1. stats.injected = 2 * replans + 2 /\ scenario # "sensor-timeout"
    BY <1>2, <1>3, <1>8 DEF PassCount
  <2>2. replans = max_replans
    BY <1>1, <1>2, <1>8 DEF MayReplan
  <2>3. ~Lasting => Limit = 2 /\ replans = 0
    BY <1>1, <1>5, <2>1 DEF Limit
  <2>4. \/ scenario \in hard /\ replans = 0 /\ stats.injected = 2
        \/ scenario = "persistent-stall" /\ stats.injected = 2 * (max_replans + 1)
    BY <1>1, <2>1, <2>2, <2>3 DEF Lasting, Limit, Hard
  <2>5. ~Passed' /\ ~winner
    BY <1>2, <1>8, <2>1, <2>2, <2>4 DEF Passed
  <2>6. CASE scenario \in hard
    BY <1>2, <2>2, <2>4, <2>5, <2>6 DEF StockScores
  <2>7. CASE scenario = "persistent-stall"
    BY <1>2, <2>2, <2>4, <2>5, <2>7 DEF StockScores
  <2> QED BY <2>4, <2>6, <2>7
<1> QED BY <1>2, <1>7, <1>8

\* No step of a trial gives it another score.
LEMMA ScoredStep ==
  ASSUME NEW idle, NEW ready, NEW look, NEW grip, NEW put,
         CatalogSeparates(idle, ready, look, grip, put),
         P!IInv, InOrder(idle, ready), Scored(look, grip, put), [TrialNext]_trialvars
  PROVE  Scored(look, grip, put)'
<1> USE DEF agent, gateway, world, trial
<1>1. UNCHANGED <<scenario, provider>>
  BY DEF TrialNext, TrialProgress, PlanTrial, MissionStep, ToolStep, Refuse, Inject, Stall, EndStall,
     PassOn, Observe, Command, IllegalCommand, Deadline, Interruption, trialvars
<1>2. Hit(look, grip)' = Hit(look, grip)
  BY <1>1 DEF Hit
<1>3. WorldOK
  BY DEF InOrder, WorldOK
<1>4. put \in done'[Stock] => stats'.placements > 0
  BY <1>3, BinnedStep DEF Scored
<1>5. provider = "mock" => Tally(Hit(look, grip))'
  <2> DEFINE h == Hit(look, grip)
  <2>1. ASSUME NEW g, g = h, Tally(g), provider = "mock" PROVE Tally(g)'
    BY <2>1, TallyStep DEF Scored
  <2> QED BY <1>2, <2>1 DEF Scored
<1>6. StockScores'
  <2>1. CASE provider # "mock"
    BY <1>1, <2>1 DEF StockScores
  <2>2. CASE provider = "mock" /\ MissionStep /\ Conclude
    <3>1. Tally(Hit(look, grip)) /\ UNCHANGED <<trial, world>>
      BY <2>2 DEF Scored, MissionStep
    <3> QED BY <2>2, <3>1, ConcludedScore DEF Scored
  <2>3. CASE pc = "done"
    <3>1. UNCHANGED <<pc, result, max_replans, replans, stats, robot>>
      BY <2>3 DEF TrialNext, TrialProgress, PlanTrial, Plan, MissionStep, ToolStep, Refuse, Inject,
         Stall, EndStall, PassOn, Observe, Command, IllegalCommand, Deadline, Interruption, Turn,
         AskCandidate, FallBack, Decide, Preflight, NextStep, Attempt, Invoke, Error, Succeed,
         Mismatch, Finish, ReportStopped, HandBack, Conclude, Replan, Live, Expire, Cancel, IOError,
         trialvars, vars
    <3> QED BY <1>1, <3>1 DEF Scored, StockScores, Passed
  <2>4. CASE pc # "done" /\ ~(MissionStep /\ Conclude)
    <3>1. pc' = "done" => result' \in {"cancelled", "timed_out", "error"}
      BY <2>4 DEF TrialNext, TrialProgress, PlanTrial, Plan, MissionStep, ToolStep, Refuse, Inject,
         Stall, EndStall, PassOn, Observe, Command, IllegalCommand, Judged, Deadline, Interruption,
         Turn, AskCandidate, FallBack, Decide, Preflight, NextStep, Attempt, Invoke, Error, Succeed,
         Mismatch, GiveUp, Finish, ReportStopped, HandBack, Replan, Live, Expire, Cancel, IOError,
         Return, Stop, Reason, trialvars, vars
    <3> QED BY <3>1 DEF StockScores
  <2> QED BY <2>1, <2>2, <2>3, <2>4
<1> QED BY <1>1, <1>4, <1>5, <1>6 DEF Scored

\* With the mock planner the scenarios tell the strategies apart, exactly as the documentation
\* says: in every catalog whose pick_and_place looks and grips once with one retry each, and
\* whose recovery skills do not grip, retries alone pass two of the four default scenarios and
\* recovery all four, with exactly the faults and replans of the scenario, wherever the
\* mission is interrupted.
THEOREM ScoresAreStock ==
  \A idle, ready, look, grip, put :
    CatalogSeparates(idle, ready, look, grip, put) => (TrialSpec => []StockScores)
<1> SUFFICES ASSUME NEW CONSTANT idle, NEW CONSTANT ready, NEW CONSTANT look, NEW CONSTANT grip,
                    NEW CONSTANT put, CatalogSeparates(idle, ready, look, grip, put)
             PROVE  TrialSpec => []StockScores
  OBVIOUS
<1>1. CatalogInOrder(idle, ready)
  BY DEF CatalogSeparates
<1>2. TrialInit => InOrder(idle, ready)
  BY <1>1 DEF TrialInit, Init, InOrder, WorldOK, Counters, Robot, FaultStats, Between, Before,
     CatalogInOrder
<1>3. P!IInv /\ InOrder(idle, ready) /\ [TrialNext]_trialvars => InOrder(idle, ready)'
  BY <1>1, InOrderStep
<1>4. TrialInit => Scored(look, grip, put)
  <2> SUFFICES ASSUME TrialInit PROVE Scored(look, grip, put)
    OBVIOUS
  <2>1. /\ pc = "loop" /\ replans = 0 /\ resume = NoContext /\ stats = FaultStats
        /\ scenario \in Scenarios /\ done = [s \in Skills |-> {}]
    BY DEF TrialInit, Init
  <2>2. Accounted
    BY <2>1 DEF Accounted, Calls, Limit, FaultStats
  <2>3. Tally(Hit(look, grip))
    BY <2>1, <2>2 DEF Tally, Counting, Between, Before, FaultStats
  <2>4. put \notin done[Stock]
    BY <2>1, TrialAssumption DEF Stock
  <2> QED BY <2>1, <2>3, <2>4 DEF Scored, StockScores
<1>5. P!IInv /\ InOrder(idle, ready) /\ Scored(look, grip, put) /\ [TrialNext]_trialvars
        => Scored(look, grip, put)'
  BY ScoredStep
<1>6. Scored(look, grip, put) => StockScores
  BY DEF Scored
<1> QED BY <1>2, <1>3, <1>4, <1>5, <1>6, MissionInvariant, PTL DEF TrialSpec
=============================================================================
