--------------------------- MODULE MCExperiments ---------------------------
(***************************************************************************)
(* Two invocations and one edit; the figures are those of docs/            *)
(* experiments.md and docs/decisions.md as they are committed: per variant *)
(* accuracy in tenths of a percent, average cost in hundredths, and        *)
(* readability and extensibility; then the frontier and the reference.     *)
(***************************************************************************)
EXTENDS Experiments

MCPublished ==
  [artifact_mirroring_drift |->
     [rows |-> <<<<"registry_only", 625, 100, 78, 66>>,
                <<"docs_portal_preferred", 625, 300, 67, 72>>,
                <<"latest_mirror_majority", 750, 400, 44, 34>>,
                <<"mirror_budget", 1000, 600, 0, 42>>>>,
      frontier |-> <<"mirror_budget">>, reference |-> "mirror_budget"],
   artifact_trust_decay |->
     [rows |-> <<<<"latest_train_only", 556, 100, 70, 56>>,
                <<"static_source_priority", 556, 300, 76, 76>>,
                <<"per_train_majority", 556, 400, 43, 38>>,
                <<"trust_decay_budget", 1000, 600, 0, 36>>>>,
      frontier |-> <<"trust_decay_budget">>, reference |-> "trust_decay_budget"],
   cross_repo_provenance_stitching |->
     [rows |-> <<<<"runtime_repo_only", 250, 100, 90, 100>>,
                <<"docs_repo_preferred", 875, 300, 83, 100>>,
                <<"tag_join", 125, 400, 80, 96>>,
                <<"stitching_budget", 1000, 600, 1, 40>>>>,
      frontier |-> <<"stitching_budget">>, reference |-> "stitching_budget"],
   cross_suite_contradiction |->
     [rows |-> <<<<"frontier_membership_only", 625, 200, 87, 88>>,
                <<"promotion_kind_only", 750, 200, 83, 100>>,
                <<"risk_signal_gate", 875, 400, 63, 86>>,
                <<"evidence_graph", 1000, 600, 51, 70>>>>,
      frontier |-> <<"evidence_graph">>, reference |-> "evidence_graph"],
   cross_train_lag_carryover |->
     [rows |-> <<<<"latest_train_only", 750, 100, 79, 70>>,
                <<"adjacent_pending_reuse", 875, 300, 51, 36>>,
                <<"surface_chain_vote", 250, 400, 42, 38>>,
                <<"carryover_budget", 1000, 600, 0, 10>>>>,
      frontier |-> <<"carryover_budget">>, reference |-> "carryover_budget"],
   promotion_environment_provenance |->
     [rows |-> <<<<"latest_environment_only", 556, 100, 78, 66>>,
                <<"documented_majority", 889, 300, 71, 78>>,
                <<"critical_environment_gate", 667, 400, 75, 72>>,
                <<"environment_lineage_budget", 1000, 600, 0, 70>>>>,
      frontier |-> <<"environment_lineage_budget">>, reference |-> "environment_lineage_budget"],
   promotion_provenance |->
     [rows |-> <<<<"latest_cut_only", 429, 100, 82, 66>>,
                <<"documented_chain", 1000, 300, 79, 84>>,
                <<"release_majority", 429, 200, 80, 78>>,
                <<"lineage_budget", 1000, 600, 40, 98>>>>,
      frontier |-> <<"documented_chain", "lineage_budget">>, reference |-> "lineage_budget"],
   promotion_rules |->
     [rows |-> <<<<"accuracy_first", 125, 100, 90, 84>>,
                <<"replay_gate", 750, 300, 83, 80>>,
                <<"surface_guard", 875, 400, 66, 92>>,
                <<"stability_budget", 1000, 600, 50, 92>>>>,
      frontier |-> <<"stability_budget">>, reference |-> "stability_budget"],
   provenance_backfill |->
     [rows |-> <<<<"documented_only", 444, 100, 87, 100>>,
                <<"changelog_first", 778, 300, 75, 98>>,
                <<"dual_artifact_match", 778, 400, 69, 92>>,
                <<"artifact_lineage_budget", 1000, 600, 44, 88>>>>,
      frontier |-> <<"artifact_lineage_budget">>, reference |-> "artifact_lineage_budget"],
   provenance_lag_budgets |->
     [rows |-> <<<<"latest_registry_only", 556, 100, 76, 64>>,
                <<"freshest_signal_wins", 556, 300, 76, 64>>,
                <<"surface_majority", 667, 400, 44, 34>>,
                <<"lag_budget", 1000, 600, 0, 16>>>>,
      frontier |-> <<"lag_budget">>, reference |-> "lag_budget"],
   rollback_rules |->
     [rows |-> <<<<"frontier_drop_only", 333, 200, 85, 90>>,
                <<"incident_reactive", 667, 400, 83, 92>>,
                <<"replay_reversal_gate", 889, 400, 72, 88>>,
                <<"rollback_budget", 1000, 600, 0, 100>>>>,
      frontier |-> <<"rollback_budget">>, reference |-> "rollback_budget"],
   surface_lag_budget_calibration |->
     [rows |-> <<<<"flat_defaults", 625, 100, 100, 100>>,
                <<"latest_observation", 875, 300, 100, 100>>,
                <<"max_observed", 750, 400, 99, 100>>,
                <<"trace_budget", 1000, 600, 80, 100>>>>,
      frontier |-> <<"trace_budget">>, reference |-> "trace_budget"]]
=============================================================================
