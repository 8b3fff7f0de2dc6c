------------------------------ MODULE MCRecall ------------------------------
(* A session of one or two runs over a catalog of three skills.              *)
EXTENDS Recall

MCSkills == <<"pick", "recover_grasp", "wave">>
MCRules == [s \in {"pick", "recover_grasp", "wave"} |->
              IF s = "recover_grasp" THEN {[steps |-> {"grasp"}, tools |-> {"motor"}]} ELSE {}]
MCFailingSteps == [pick |-> {"detect", "grasp"}, recover_grasp |-> {}, wave |-> {}]
MCToolOf == [detect |-> "sensor", grasp |-> "motor"]

MCWords == {"the", "cube", "red", "pickup", "redo"} \cup ToSet(MCSkills)
MCNames == {"none", "detect", "grasp", "sensor", "motor"}

MCTokens == [pickup |-> {"the", "cube"}, redo |-> {"cube"}]
\* "redo" reports a failure of its own.
MCInstructionText ==
  [pickup |-> <<Line({"the", "cube", "pickup"}, FALSE, NoField)>>,
   redo   |-> <<Line({"cube", "redo"}, FALSE, NoField), FailedStep("detect"), FailedTool("sensor")>>]

\* A note with headings in it, and one with both words and a report of a failed grasp.
Heading(says, stamp) == [Line(says, FALSE, NoField) EXCEPT !.head = TRUE, !.stamp = stamp]
MCNotes ==
  {<<Line({"cube"}, FALSE, NoField), Heading({"the"}, NoStamp), Line({"red"}, FALSE, NoField)>>,
   <<Line({"the", "cube"}, FALSE, NoField), FailedStep("grasp"), FailedTool("motor")>>}
MCContextFiles == <<Plain>>
\* A model gives a reason of one line, or one that repeats the report of a failed grasp.
MCReasons == {<<Plain>>, <<Plain, FailedStep("grasp"), FailedTool("motor")>>}
MCChains == {<<"mock">>, <<"auto">>, <<"model", "mock">>}

\* Bounds.  Time passes with a note and at the end of a run, and nobody reads what follows the
\* beginning of the last run, so that no time passes and nothing is noted from then on.
Brief ==
  /\ clock' # clock => pc' = "idle"
  /\ Len(runs) = MaxRuns => UNCHANGED <<clock, notes>>

MCSpec == Init /\ [][Next /\ Brief]_vars
=============================================================================
