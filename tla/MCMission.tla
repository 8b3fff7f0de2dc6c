----------------------------- MODULE MCMission ------------------------------
EXTENDS Mission, TLC

\* A resumable skill of three steps whose last one goes back a step, as pick_and_place's
\* grasp does; another resumable skill; a recovery skill; one with a step denied at its end.
MCSkills == {"pick", "place", "recover", "denied"}
MCSteps == ("pick" :> 3) @@ ("place" :> 2) @@ ("recover" :> 1) @@ ("denied" :> 2)
MCMaxRetries == [s \in MCSkills |-> [k \in 1..MCSteps[s] |-> IF k = 3 THEN 1 ELSE 0]]
MCCheckpoint == [s \in MCSkills |-> [k \in 1..MCSteps[s] |-> IF k = 3 THEN 2 ELSE k]]
MCResumable == {"pick", "place"}
MCHandingBack == {"recover"}
MCDenied == {<<"denied", 2>>}
=============================================================================
