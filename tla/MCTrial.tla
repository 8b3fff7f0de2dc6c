------------------------------ MODULE MCTrial -------------------------------
EXTENDS Trial, TLC

\* The shipped catalog (skills/*.yaml) and two custom skills: one only moves to the bin, the
\* other then places what it does not hold.
MCCustom == {"just_move", "just_place"}
MCOrder == <<"just_move", "just_place", "pick_and_place", "recover_grasp",
             "recover_observation", "wave_arm">>
MCSkills == {MCOrder[i] : i \in DOMAIN MCOrder}

Look(target) == [tool |-> "sensor", action |-> "observe", target |-> target, place |-> Nothing]
Move(pose) == [tool |-> "simulator", action |-> "move_to", target |-> Nothing, place |-> pose]
Grip(target) == [tool |-> "motor_control", action |-> "grasp", target |-> target,
                 place |-> Nothing]
Put(target, location) ==
  [tool |-> "simulator", action |-> "place", target |-> target, place |-> location]

MCInput ==
  ("just_move"           :> <<Move("bin_a")>>) @@
  ("just_place"          :> <<Move("bin_a"), Put("red_cube", "bin_a")>>) @@
  ("pick_and_place"      :> <<Look("red_cube"), Move(PreGrasp), Grip("red_cube"),
                              Put("red_cube", "bin_a")>>) @@
  ("recover_grasp"       :> <<Move(PreGrasp), Look("red_cube")>>) @@
  ("recover_observation" :> <<Move("home"), Look("red_cube")>>) @@
  ("wave_arm"            :> <<Move("gesture/wave_start"), Move("gesture/wave_peak"),
                              Move("home")>>)

Expected(i) ==
  CASE i.action = "observe" -> [detected |-> TRUE, target |-> i.target]
    [] i.action = "move_to" -> [accepted |-> TRUE, last_pose |-> i.place]
    [] i.action = "grasp"   -> [accepted |-> TRUE, held_object |-> i.target]
    [] i.action = "place"   -> [accepted |-> TRUE, held_object |-> Nothing, last_pose |-> i.place]

MCSteps == [s \in MCSkills |-> Len(MCInput[s])]
MCExpect == [s \in MCSkills |-> [k \in 1..MCSteps[s] |-> Expected(MCInput[s][k])]]

MCMaxRetries ==
  [s \in MCSkills |-> [k \in 1..MCSteps[s] |->
     IF s = "pick_and_place" /\ k \in {1, 3} THEN 1 ELSE 0]]
MCCheckpoint ==
  [s \in MCSkills |-> [k \in 1..MCSteps[s] |-> IF s = "pick_and_place" /\ k = 3 THEN 2 ELSE k]]
MCResumable == {"pick_and_place", "wave_arm"}
MCHandingBack == {"recover_grasp", "recover_observation"}
MCRecoveryFor ==
  [s \in MCSkills |-> CASE s = "recover_grasp"       -> {<<"pick_and_place", 3>>}
                        [] s = "recover_observation" -> {<<"pick_and_place", 1>>}
                        [] OTHER                     -> {}]

\* Between skills the gripper is empty, wherever the arm is; pick_and_place begins there and
\* fills and empties it, and no other skill of this catalog ever holds anything.
MCIdle ==
  {[last_pose |-> pose, held_object |-> Nothing] :
     pose \in {"home", "bin_a", PreGrasp, "gesture/wave_start", "gesture/wave_peak"}}
At(pose, object) == {[last_pose |-> pose, held_object |-> object]}
MCReady ==
  [s \in MCSkills |->
     IF s = "pick_and_place"
     THEN <<MCIdle, MCIdle, At(PreGrasp, Nothing), At(PreGrasp, "red_cube"),
            At("bin_a", Nothing)>>
     ELSE [k \in 1..(MCSteps[s] + 1) |-> MCIdle]]

ASSUME CubeIsOnlyBinned == CubeGoesToBin
ASSUME ShippedCatalogInOrder == CatalogInOrder(MCIdle, MCReady)
ASSUME ShippedCatalogSeparates == CatalogSeparates(MCIdle, MCReady, 1, 3, 4)
=============================================================================
