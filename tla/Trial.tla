------------------------------- MODULE Trial --------------------------------
(***************************************************************************)
(* One trial of a recovery comparison: a mission (Mission) whose tools are *)
(* the built-in ones of crates/tools behind the fault injection of         *)
(* src/challenges.rs, over the simulated robot of crates/sim, scored when  *)
(* it is over.  What Mission leaves open is decided here: what a tool      *)
(* answers, whether the answer meets the step's expectation, and, for the  *)
(* mock provider, which skill is planned.                                  *)
(***************************************************************************)
EXTENDS Mission, Sequences

CONSTANTS
  Scenarios,             \* the scenarios to try
  Custom,                \* the skills added to the shipped ones
  Providers,             \* "mock", the keyword planner, or "model", which may answer anything
  Order,                 \* the skills in the order of their names
  Input,                 \* Input[s][k]: the tool of step k and its input
  Expect,                \* Expect[s][k]: the fields its output must contain
  RecoveryFor            \* RecoveryFor[s]: failed steps <<t, k>> a recovery rule of s matches

ASSUME TrialAssumption ==
  /\ Planners = 1        \* a trial has no fallback planners
  /\ "pick_and_place" \in Skills
  /\ Scenarios \subseteq {"baseline", "sensor-glitch", "sensor-outage", "grasp-stall",
                          "persistent-stall", "sensor-timeout"}
  /\ Providers \subseteq {"mock", "model"}
  /\ Custom \subseteq Skills
  /\ Order \in Seq(Skills) /\ Skills = {Order[i] : i \in DOMAIN Order}
\* Command::validated: the registry rejects every other command.
ASSUME CommandsAreKnown ==
  \A s \in Skills : \A k \in 1..Steps[s] :
    \/ Input[s][k].tool = "sensor"
    \/ Input[s][k].action \in {"move_to", "grasp", "place"}
    \/ <<s, k>> \in Denied

VARIABLES
  scenario, provider,
  robot,                 \* the simulator's state
  stats,                 \* FaultStats
  cube,                  \* history: where the commands the robot carried out left the cube
  moved                  \* history: the robot carried out some command

world == <<robot, stats, cube, moved>>
trial == <<scenario, provider>>
trialvars == <<vars, trial, world>>

Nothing == "nothing"     \* JSON null
Robot == [last_pose |-> "home", held_object |-> Nothing]
FaultStats == [attempts |-> 0, commands |-> 0, placements |-> 0, injected |-> 0,
               sensor_calls |-> 0, grasp_calls |-> 0]

TrialInit ==
  /\ Init
  /\ scenario \in Scenarios /\ provider \in Providers
  /\ robot = Robot
  /\ stats = FaultStats
  /\ cube = "table" /\ moved = FALSE

-----------------------------------------------------------------------------
(* The mock planner.                                                       *)

FirstOf(S) ==
  Order[CHOOSE i \in DOMAIN Order :
          Order[i] \in S /\ \A j \in 1..(i - 1) : Order[j] \notin S]

Candidates == {s \in HandingBack : <<skill, failed_step>> \in RecoveryFor[s]}

\* Of a request to replan, the first skill with a matching rule, then the first recovery
\* skill; else the instruction's own words name pick_and_place.
MockChoice ==
  IF planning = "replan" /\ Candidates # {} THEN FirstOf(Candidates)
  ELSE IF planning = "replan" /\ HandingBack # {} THEN FirstOf(HandingBack)
  ELSE "pick_and_place"

PlanTrial ==
  /\ Plan
  /\ provider = "mock" => pc' = "decided" /\ skill' = MockChoice
  /\ UNCHANGED <<trial, world>>

-----------------------------------------------------------------------------
(* FaultTool: count, and perhaps fail, before the tool itself is called.   *)

Asked == Input[skill][step]
Sensor(i) == i.tool = "sensor" /\ i.target = "red_cube"
Grasp(i) == i.tool = "motor_control" /\ i.action = "grasp"

One(condition) == IF condition THEN 1 ELSE 0

\* Mutant: one call too many.
InjectedLate ==
  CASE scenario = "sensor-glitch"    -> Sensor(Asked) /\ stats.sensor_calls <= 1
    [] scenario = "sensor-outage"    -> Sensor(Asked) /\ stats.sensor_calls <= 2
    [] scenario = "grasp-stall"      -> Grasp(Asked) /\ stats.grasp_calls <= 2
    [] scenario = "persistent-stall" -> Grasp(Asked)
    [] scenario = "sensor-timeout"   -> Sensor(Asked)
    [] OTHER                         -> FALSE
Injected ==
  CASE scenario = "sensor-glitch"    -> Sensor(Asked) /\ stats.sensor_calls + 1 <= 1
    [] scenario = "sensor-outage"    -> Sensor(Asked) /\ stats.sensor_calls + 1 <= 2
    [] scenario = "grasp-stall"      -> Grasp(Asked) /\ stats.grasp_calls + 1 <= 2
    [] scenario = "persistent-stall" -> Grasp(Asked)
    [] scenario = "sensor-timeout"   -> Sensor(Asked)
    [] OTHER                         -> FALSE

\* Mutant: only the motor tool's commands count.
CountedMotor ==
  [stats EXCEPT !.attempts = @ + 1, !.commands = @ + One(Asked.tool = "motor_control"),
                !.sensor_calls = @ + One(Sensor(Asked)), !.grasp_calls = @ + One(Grasp(Asked)),
                !.injected = @ + One(Injected)]
Counted ==
  [stats EXCEPT !.attempts = @ + 1, !.commands = @ + One(Asked.tool # "sensor"),
                !.sensor_calls = @ + One(Sensor(Asked)), !.grasp_calls = @ + One(Grasp(Asked)),
                !.injected = @ + One(Injected)]

\* evaluate_step_output: every expected field is in the output, with the same value.
Contains(output, expected) ==
  \A f \in DOMAIN expected : f \in DOMAIN output /\ output[f] = expected[f]

Judged(output) ==
  \/ /\ Contains(output, Expect[skill][step])
     /\ pc' = "succeeded"
     /\ done' = [done EXCEPT ![skill] = @ \cup {step}]
  \/ /\ ~Contains(output, Expect[skill][step])
     /\ pc' = "mismatched"
     /\ UNCHANGED done

Miss(i) == [detected |-> FALSE, accepted |-> FALSE, target |-> i.target]

\* Both the wrapper and the tool look at the control first.
Refuse ==
  /\ pc \in {"operate", "tool"}
  /\ Stopped
  /\ pc' = "erred"
  /\ CallOut
  /\ UNCHANGED <<control, gateway, candidate, agent, result, done, trial, world>>

Inject ==
  /\ pc = "operate" /\ ~Stopped
  /\ Injected /\ scenario # "sensor-timeout"
  /\ stats' = Counted
  /\ Judged(Miss(Asked))
  /\ UNCHANGED <<control, gateway, candidate, agent, result, late, trial, robot, cube, moved>>

\* The sensor stalls for longer than any trial's deadline.
Stall ==
  /\ pc = "operate" /\ ~Stopped
  /\ Injected /\ scenario = "sensor-timeout"
  /\ stats' = Counted
  /\ pc' = "waiting"
  /\ UNCHANGED <<control, gateway, candidate, agent, result, done, late, trial, robot, cube, moved>>

\* Mutant: the wait looks at the flag only.
WaitOverWhenCancelled == cancelled
WaitOver == Stopped

EndStall ==
  /\ pc = "waiting"
  /\ WaitOver
  /\ pc' = "erred"
  /\ UNCHANGED <<control, gateway, candidate, agent, result, done, late, trial, world>>

PassOn ==
  /\ pc = "operate" /\ ~Stopped
  /\ ~Injected
  /\ stats' = Counted
  /\ pc' = "tool"
  /\ UNCHANGED <<control, gateway, candidate, agent, result, done, late, trial, robot, cube, moved>>

-----------------------------------------------------------------------------
(* The tools.                                                              *)

\* What the built-in sensor knows.
Observations == {"red_cube", "bin_a"}
Observed(i) == [detected |-> TRUE, target |-> i.target]

Observe ==
  /\ pc = "tool" /\ ~Stopped
  /\ Asked.tool = "sensor"
  /\ \/ Asked.target \in Observations /\ Judged(Observed(Asked))
     \/ Asked.target \notin Observations /\ pc' = "erred" /\ UNCHANGED done
  /\ UNCHANGED <<control, gateway, candidate, agent, result, late, trial, world>>

\* apply_command: the command i on a robot in state r.
Legal(i, r) ==
  CASE i.action = "move_to" -> TRUE
    [] i.action = "grasp"   -> r.held_object = Nothing
    [] i.action = "place"   -> r.held_object = i.target

Applied(i, r) ==
  CASE i.action = "move_to" -> [r EXCEPT !.last_pose = i.place]
    [] i.action = "grasp"   -> [r EXCEPT !.held_object = i.target]
    [] i.action = "place"   -> [last_pose |-> i.place, held_object |-> Nothing]

Accepted(r) == [accepted |-> TRUE, last_pose |-> r.last_pose, held_object |-> r.held_object]

CubeAfter ==
  IF Asked.target # "red_cube" THEN cube
  ELSE CASE Asked.action = "grasp" -> "gripper"
         [] Asked.action = "place" -> Asked.place
         [] OTHER                  -> cube

Placement == Asked.action = "place" /\ Asked.target = "red_cube" /\ Asked.place = "bin_a"

\* The motor and the simulator tool send the same commands to the same robot.
Command ==
  /\ pc = "tool" /\ ~Stopped
  /\ Asked.tool # "sensor"
  /\ Legal(Asked, robot)
  /\ robot' = Applied(Asked, robot)
  /\ cube' = CubeAfter /\ moved' = TRUE
  /\ stats' = [stats EXCEPT !.placements = @ + One(Placement)]
  /\ Judged(Accepted(robot'))
  /\ UNCHANGED <<control, gateway, candidate, agent, result, late, trial>>

IllegalCommand ==
  /\ pc = "tool" /\ ~Stopped
  /\ Asked.tool # "sensor"
  /\ ~Legal(Asked, robot)
  /\ pc' = "erred"
  /\ UNCHANGED <<control, gateway, candidate, agent, result, done, late, trial, world>>

-----------------------------------------------------------------------------
(* What the steps of a catalog may ask for, whoever arranges them.         *)

\* No skill of the catalog puts the red cube anywhere but into the bin.
CubeGoesToBin ==
  \A s \in Skills : \A k \in 1..Steps[s] :
    LET i == Input[s][k]
    IN  i.tool # "sensor" /\ i.action = "place" /\ i.target = "red_cube" => i.place = "bin_a"

PreGrasp == "table/front_left/pre_grasp"

\* The steps a fault may hit.
MayMiss(i) == Sensor(i) \/ Grasp(i)

\* Step k of s, begun in a state of ready[s][k], meets its expectation and leaves the robot in
\* one of ready[s][k + 1], unless a fault hits it, which leaves the robot between skills.  It
\* asks for nothing illegal, or s is custom and ends; a grasp happens at the pre-grasp pose.
StepInOrder(s, k, idle, ready) ==
  LET i == Input[s][k]
  IN  \A r \in ready[s][k] :
        /\ MayMiss(i) => r \in idle
        /\ MayMiss(i) /\ Contains(Miss(i), Expect[s][k]) => r \in ready[s][k + 1]
        /\ i.tool = "sensor" /\ i.target \in Observations =>
             Contains(Observed(i), Expect[s][k]) /\ r \in ready[s][k + 1]
        /\ i.tool # "sensor" =>
             /\ s \notin Custom => Legal(i, r)
             /\ Legal(i, r) => /\ Contains(Accepted(Applied(i, r)), Expect[s][k])
                               /\ Applied(i, r) \in ready[s][k + 1]
                               /\ i.action = "grasp" => r.last_pose = PreGrasp

\* The skills fit together: whatever state of idle the robot is in between two of them, any
\* skill may begin there, and one that a fault interrupted may resume there; a skill that
\* hands back ends there.
CatalogInOrder(idle, ready) ==
  /\ Robot \in idle
  /\ \A s \in Skills :
       /\ idle \subseteq ready[s][1]
       /\ s \in HandingBack => ready[s][Steps[s] + 1] \subseteq idle
       /\ \A k \in 1..Steps[s] :
            /\ <<s, k>> \notin Denied => StepInOrder(s, k, idle, ready)
            /\ s \in Resumable /\ MayMiss(Input[s][k]) =>
                 idle \subseteq ready[s][Checkpoint[s][k]]

\* The catalog tells the scenarios apart: with at most one replan, pick_and_place looks for the
\* red cube in step look and grips in step grip, with one retry each, and puts the cube into
\* the bin in step put; a fault shows in what the step expects; and no recovery skill grips.
CatalogSeparates(idle, ready, look, grip, put) ==
  LET stock == "pick_and_place"
      input(k) == Input[stock][k]
  IN  /\ CatalogInOrder(idle, ready)
      /\ MaxReplans <= 1 /\ HandingBack # {}
      /\ {look, grip, put} \subseteq 1..Steps[stock]
      /\ \A k \in 1..Steps[stock] : /\ Sensor(input(k)) <=> k = look
                                    /\ Grasp(input(k)) <=> k = grip
      /\ \A k \in {look, grip} : /\ MaxRetries[stock][k] = 1
                                 /\ ~Contains(Miss(input(k)), Expect[stock][k])
      /\ /\ input(put).tool # "sensor" /\ input(put).action = "place"
         /\ input(put).target = "red_cube" /\ input(put).place = "bin_a"
      /\ ready[stock][Steps[stock] + 1] = {[last_pose |-> "bin_a", held_object |-> Nothing]}
      /\ \A s \in HandingBack : \A k \in 1..Steps[s] : ~Grasp(Input[s][k])

-----------------------------------------------------------------------------
(* The score.                                                              *)

Passed ==
  IF scenario = "sensor-timeout"
  THEN result = "timed_out" /\ stats.injected > 0 /\ stats.commands = 0
  ELSE /\ result = "completed"
       /\ stats.placements > 0
       /\ robot.last_pose = "bin_a" /\ robot.held_object = Nothing
       /\ scenario = "baseline" \/ stats.injected > 0

-----------------------------------------------------------------------------
MissionStep ==
  /\ \/ Turn \/ AskCandidate \/ FallBack \/ Decide
     \/ Preflight \/ NextStep \/ Attempt \/ Invoke \/ Error
     \/ Succeed \/ Mismatch \/ Finish
     \/ ReportStopped \/ HandBack \/ Conclude \/ Replan
  /\ UNCHANGED <<trial, world>>

ToolStep ==
  \/ Refuse \/ Inject \/ Stall \/ EndStall \/ PassOn
  \/ Observe \/ Command \/ IllegalCommand

TrialProgress == PlanTrial \/ MissionStep \/ ToolStep

Deadline == Expire /\ UNCHANGED <<trial, world>>
Interruption == (Cancel \/ IOError) /\ UNCHANGED <<trial, world>>

TrialNext == TrialProgress \/ Deadline \/ Interruption

\* A trial has a deadline of at most a minute; its thread keeps running.
TrialSpec == TrialInit /\ [][TrialNext]_trialvars /\ WF_trialvars(TrialProgress)
             /\ WF_trialvars(Deadline)

-----------------------------------------------------------------------------
(* Properties.                                                             *)

\* docs/recovery-challenges.md: with stock skills and the mock planner, retries alone pass
\* two of the four default scenarios and recovery all four; the faults injected and the
\* replans spent on the way are exactly the scenario's.
StockScores ==
  pc = "done" /\ provider = "mock" /\ result \in {"completed", "failed"} =>
     LET easy == {"baseline", "sensor-glitch"}
         hard == {"sensor-outage", "grasp-stall"}
     IN  /\ Passed <=> scenario \in easy \cup (IF max_replans = 0 THEN {} ELSE hard)
         /\ replans = IF scenario \in easy THEN 0 ELSE max_replans
         /\ stats.injected = CASE scenario = "baseline"         -> 0
                               [] scenario = "sensor-glitch"    -> 1
                               [] scenario \in hard             -> 2
                               [] scenario = "persistent-stall" -> 2 * (max_replans + 1)

\* docs/recovery-challenges.md: simply moving to the bin cannot pass, and a stop before motion
\* is one.  Whatever a planner chose, a passed mission left the cube in the bin, and a
\* passed timeout left the robot alone.
PassIsEarned ==
  pc = "done" /\ Passed =>
     IF scenario = "sensor-timeout" THEN ~moved
                                    ELSE cube = "bin_a" /\ robot.held_object = Nothing

\* No order of retries, recoveries and resumptions makes a stock skill ask the robot for what
\* it refuses, which would end the mission instead of replanning it.
NoIllegalCommand ==
  pc = "tool" /\ Asked.tool # "sensor" /\ skill \notin Custom => Legal(Asked, robot)

\* What the robot carries out meets the step's expectation, so that only an injected fault is
\* retried, and a retried step has done nothing yet.
OnlyFaultsRetried ==
  pc # "mismatched" /\ pc' = "mismatched" =>
     stats'.injected = stats.injected + 1 /\ UNCHANGED <<robot, cube>>

\* Wherever a mission resumes and whatever moved the arm in between, the gripper closes at the
\* pre-grasp pose only.
GraspsAtPreGrasp ==
  robot.held_object = Nothing /\ robot'.held_object # Nothing => robot.last_pose = PreGrasp

\* However a skill of the stock catalog is retried, resumed and interrupted by recoveries, the
\* robot stays in step with it.
RobotStaysInStep ==
  [][NoIllegalCommand /\ OnlyFaultsRetried /\ GraspsAtPreGrasp]_<<pc, world>>

\* A trial is a mission: its tools do nothing Mission does not allow for, and they come to an
\* end, also when the sensor stalls for longer than any deadline.  An operation on its way to
\* the tool has not happened yet, and a stalled one has already failed.
MissionPc == IF pc = "tool" THEN "operate" ELSE IF pc = "waiting" THEN "erred" ELSE pc
M == INSTANCE Mission WITH pc <- MissionPc
TrialIsMission == M!FairSpec
=============================================================================
