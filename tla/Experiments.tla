---------------------------- MODULE Experiments ----------------------------
(***************************************************************************)
(* examples/planner_experiments.rs: one program runs every suite, then     *)
(* prints a summary and, if asked to, writes three documents from the      *)
(* reports. Cases and variants' sources are files that maintainers edit    *)
(* while it runs; the decisions themselves are compiled in. Any error ends *)
(* the program, and it may be killed anywhere.                             *)
(*                                                                         *)
(* A suite is run in one step: an edit falls before it or after it. Twelve *)
(* suites are modelled down to their figures; the others only take their   *)
(* turn.                                                                   *)
(***************************************************************************)
EXTENDS Integers, Sequences, SequencesExt

ArtifactDrift == INSTANCE ArtifactMirroringDrift
TrustDecay == INSTANCE ArtifactTrustDecay
Stitching == INSTANCE CrossRepoProvenanceStitching
Contradiction == INSTANCE CrossSuiteContradiction
Carryover == INSTANCE CrossTrainLagCarryover
Environment == INSTANCE PromotionEnvironmentProvenance
Provenance == INSTANCE PromotionProvenance
Promotion == INSTANCE PromotionRules
Backfill == INSTANCE ProvenanceBackfill
LagBudgets == INSTANCE ProvenanceLagBudgets
Rollback == INSTANCE RollbackRules
Calibration == INSTANCE SurfaceLagBudgetCalibration

CONSTANTS Published,    \* the figures the committed documents show, per modelled suite
          MaxRuns,      \* invocations of the program
          MaxEdits      \* edits of the files it reads

Modelled == {"artifact_mirroring_drift", "artifact_trust_decay",
             "cross_repo_provenance_stitching", "cross_suite_contradiction",
             "cross_train_lag_carryover", "promotion_environment_provenance",
             "promotion_provenance", "promotion_rules", "provenance_backfill",
             "provenance_lag_budgets", "rollback_rules", "surface_lag_budget_calibration"}

ASSUME BoundsAssumption == MaxRuns \in Nat /\ MaxEdits \in Nat
ASSUME PublishedAssumption == DOMAIN Published = Modelled

\* main runs them in this order and keeps every report until it has them all.
Suites == <<"cross_provider_validation", "cross_suite_contradiction",
            "cross_train_lag_carryover", "frontier_snapshot_replay", "planner_selection",
            "artifact_trust_decay", "artifact_mirroring_drift", "provenance_lag_budgets",
            "cross_repo_provenance_stitching", "provenance_backfill",
            "promotion_environment_provenance", "promotion_provenance", "promotion_rules",
            "planner_prompt_shaping", "recovery_skill_patterns", "rollback_rules",
            "ros2_observation_ingestion", "surface_lag_budget_calibration", "resume_policy",
            "gateway_replanning", "backend_observation_fusion", "tool_output_validation">>
Documents == <<"experiments", "decisions", "interfaces">>

-----------------------------------------------------------------------------
\* A cases.json lists the artifacts of a release in some order, and none is meant by it: the
\* same history may be listed backwards.
TrainsBackwards(c) == [c EXCEPT !.trains = [i \in DOMAIN @ |-> Reverse(@[i])]]
ArtifactsBackwards(c) == [c EXCEPT !.artifacts = Reverse(@)]
Each(Op(_), cases) == [k \in DOMAIN cases |-> Op(cases[k])]

Listed(backwards, Op(_), cases) == IF backwards THEN Each(Op, cases) ELSE cases

\* What a suite reports for a listing of its cases and the committed sources.
FiguresOf(backwards) ==
  [artifact_mirroring_drift |->
     ArtifactDrift!Section(Listed(backwards, TrainsBackwards, ArtifactDrift!Cases)),
   artifact_trust_decay |->
     TrustDecay!Section(Listed(backwards, TrainsBackwards, TrustDecay!Cases)),
   cross_repo_provenance_stitching |->
     Stitching!Section(Listed(backwards, ArtifactsBackwards, Stitching!Cases)),
   cross_suite_contradiction |-> Contradiction!Section(Contradiction!Cases),
   cross_train_lag_carryover |->
     Carryover!Section(Listed(backwards, TrainsBackwards, Carryover!Cases)),
   promotion_environment_provenance |-> Environment!Section(Environment!Cases),
   promotion_provenance |-> Provenance!Section(Provenance!Cases),
   promotion_rules |-> Promotion!Section(Promotion!Cases),
   provenance_backfill |->
     Backfill!Section(Listed(backwards, ArtifactsBackwards, Backfill!Cases)),
   provenance_lag_budgets |->
     LagBudgets!Section(Listed(backwards, TrainsBackwards, LagBudgets!Cases)),
   rollback_rules |-> Rollback!Section(Rollback!Cases),
   surface_lag_budget_calibration |-> Calibration!Section(Calibration!Cases)]
ForwardFigures == FiguresOf(FALSE)
BackwardFigures == FiguresOf(TRUE)
Figures(report, suite) ==
  (IF report.backwards THEN BackwardFigures ELSE ForwardFigures)[suite]

-----------------------------------------------------------------------------
VARIABLES phase,     \* "off", "running", "writing" or, inside one fs::write, "truncated"
          write_docs,
          reports,   \* the reports of this invocation so far, each with what its suite read
          docs,      \* per document: the run it is of, its reports, and whether it is whole
          runs,      \* how many invocations there were
          finished,  \* the last one that ended without an error and wrote the documents
          tree,      \* what the files say now: the listing and the edition of the sources
          edits

allVars == <<phase, write_docs, reports, docs, runs, finished, tree, edits>>
program == <<phase, write_docs, reports, docs, runs, finished>>

CommittedTree == [backwards |-> FALSE, edition |-> 0]
Committed == [by |-> 0, reports |-> [i \in DOMAIN Suites |-> CommittedTree], whole |-> TRUE]

ProgramInit ==
  /\ phase = "off" /\ write_docs = FALSE /\ reports = <<>>
  /\ docs = [d \in DOMAIN Documents |-> Committed]
  /\ runs = 0 /\ finished = 0 /\ tree = CommittedTree /\ edits = 0

\* cargo run --example planner_experiments, with --write-docs or without.
Start ==
  /\ phase = "off" /\ runs < MaxRuns
  /\ phase' = "running" /\ write_docs' \in BOOLEAN /\ reports' = <<>> /\ runs' = runs + 1
  /\ UNCHANGED <<docs, finished, tree, edits>>

\* run_suite of the next suite: the cases and every variant's source are read from disk.
ReadTree(i) == tree
RunSuite ==
  /\ phase = "running" /\ Len(reports) < Len(Suites)
  /\ reports' = Append(reports, ReadTree(Len(reports) + 1))
  /\ UNCHANGED <<phase, write_docs, docs, runs, finished, tree, edits>>

\* The summaries are printed and, without the flag, that is all.
Summarise ==
  /\ phase = "running" /\ Len(reports) = Len(Suites)
  /\ phase' = IF write_docs THEN "writing" ELSE "off"
  /\ UNCHANGED <<write_docs, reports, docs, runs, finished, tree, edits>>

\* The document to be written next: the first that is not whole and of this run.
Outdated == {d \in DOMAIN docs : docs[d].by # runs \/ ~docs[d].whole}
NextDocument == CHOOSE d \in Outdated : \A e \in Outdated : d <= e

\* Documents rendered each from a run of its own.
RenderedAnew == [i \in DOMAIN Suites |-> tree]

\* write_docs_bundle: the three are rendered from the reports main holds.
Rendered == reports

\* fs::write creates or truncates the file, and then fills it.
Truncate ==
  /\ phase = "writing" /\ Outdated # {}
  /\ docs' = [docs EXCEPT ![NextDocument] = [by |-> runs, reports |-> <<>>, whole |-> FALSE]]
  /\ phase' = "truncated"
  /\ UNCHANGED <<write_docs, reports, runs, finished, tree, edits>>
Fill ==
  /\ phase = "truncated"
  /\ docs' = [docs EXCEPT ![NextDocument] =
                [by |-> runs, reports |-> Rendered, whole |-> TRUE]]
  /\ phase' = "writing"
  /\ UNCHANGED <<write_docs, reports, runs, finished, tree, edits>>
Succeed ==
  /\ phase = "writing" /\ Outdated = {}
  /\ phase' = "off" /\ finished' = runs
  /\ UNCHANGED <<write_docs, reports, docs, runs, tree, edits>>

\* A file that cannot be read, parsed or written, or a kill: main returns, the documents stay.
Fail ==
  /\ phase # "off"
  /\ phase' = "off"
  /\ UNCHANGED <<write_docs, reports, docs, runs, finished, tree, edits>>

\* A maintainer relists the cases or edits a variant's source.
Edit ==
  /\ edits < MaxEdits
  /\ tree' \in {[tree EXCEPT !.backwards = ~@], [tree EXCEPT !.edition = @ + 1]}
  /\ edits' = edits + 1
  /\ UNCHANGED program

ProgramNext == Start \/ RunSuite \/ Summarise \/ Truncate \/ Fill \/ Succeed \/ Fail \/ Edit

ProgramSpec == ProgramInit /\ [][ProgramNext]_allVars

-----------------------------------------------------------------------------
\* The committed documents are what the committed code computes: whatever run wrote a document,
\* a suite that read the committed sources shows the published figures (accuracies, costs,
\* scores, frontier and provisional reference), however its cases list the artifacts.
DocsMatch ==
  \A d \in DOMAIN docs : docs[d].whole =>
    \A i \in DOMAIN Suites :
      LET report == docs[d].reports[i]
      IN  Suites[i] \in Modelled /\ report.edition = 0
            => Figures(report, Suites[i]) = Published[Suites[i]]

\* The documents never tell of different runs without a run having failed: after a run that
\* wrote them to the end, and until the next one writes, the three are whole, of that run, and
\* show one and the same reports, although sources and cases are edited meanwhile; and when a
\* write failed, the documents after it are older ones, never newer.
DocsAgree ==
  /\ \A d, e \in DOMAIN docs : d < e => docs[e].by <= docs[d].by
  /\ \A d, e \in DOMAIN docs : docs[d].by = docs[e].by /\ docs[d].whole /\ docs[e].whole
                                 => docs[d].reports = docs[e].reports
  /\ (\A d \in DOMAIN docs : docs[d].by <= finished)
       => \A d \in DOMAIN docs : docs[d].by = finished /\ docs[d].whole
=============================================================================
