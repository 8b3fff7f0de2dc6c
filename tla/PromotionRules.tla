--------------------------- MODULE PromotionRules ----------------------------
(***************************************************************************)
(* experiments/promotion_rules: whether a suite's frontier candidate or its*)
(* rival becomes the stable reference, or the suite stays experimental.    *)
(***************************************************************************)
EXTENDS Suite

Case(candidate, rival, accuracy, rival_accuracy, support, rival_support, replay, surface, rival_surface, specific, risk, rival_risk, kind, reference) ==
  [candidate |-> candidate, rival |-> rival, accuracy |-> accuracy,
   rival_accuracy |-> rival_accuracy, support |-> support, rival_support |-> rival_support,
   replay |-> replay, surface |-> surface, rival_surface |-> rival_surface,
   specific |-> specific, risk |-> risk, rival_risk |-> rival_risk, kind |-> kind,
   reference |-> reference]

Cases == <<
  Case("declared_checkpoint", "resume_failed_step", 1000, 800, 3, 1, "promote_reference", 3, 1,
       FALSE, 20, 35, "promote_reference", "declared_checkpoint"),
  Case("stream_reducer", "action_state_join", 1000, 667, 1, 1, "hold_experimental", 5, 3, TRUE,
       70, 45, "hold_experimental", None),
  Case("tolerant_contract", "normalized_scalars", 1000, 750, 1, 1, "hold_experimental", 4, 2,
       FALSE, 65, 30, "hold_experimental", None),
  Case("failure_aware_merge", "confidence_weighted", 1000, 500, 1, 1, "hold_experimental", 5, 4,
       TRUE, 80, 55, "hold_experimental", None),
  Case("prompt_constrained", "schema_constrained", 1000, 667, 2, 1, "promote_reference", 4, 3,
       TRUE, 55, 40, "hold_experimental", None),
  Case("catalog_score", "pipeline_router", 1000, 1000, 2, 4, "switch_reference", 4, 1, FALSE,
       35, 15, "switch_reference", "pipeline_router"),
  Case("mock", "local", 833, 0, 0, 0, "hold_experimental", 3, 3, TRUE, 90, 90,
       "hold_experimental", None),
  Case("resume_aware_replan", "current_gateway_clone", 1000, 833, 2, 1, "promote_reference", 4,
       2, FALSE, 60, 35, "hold_experimental", None) >>

\* Accuracies are tenths of a percent.
FrontierMargin(c) == c.accuracy - c.rival_accuracy
SupportDelta(c) == c.support - c.rival_support

Promote(c, signals) == Decision("promote_reference", c.candidate, signals)
Switch(c, signals) == Decision("switch_reference", c.rival, signals)
Hold(signals) == Decision("hold_experimental", None, signals)

AccuracyFirst(c) == FirstMatch(<<
  <<FrontierMargin(c) >= 100, Promote(c, 1)>>,
  <<FrontierMargin(c) <= -100, Switch(c, 1)>>,
  <<TRUE, Hold(1)>> >>)

ReplayGate(c) == FirstMatch(<<
  <<c.replay = "switch_reference" /\ c.rival_support >= 2, Switch(c, 3)>>,
  <<c.replay = "promote_reference" /\ c.support >= 2, Promote(c, 3)>>,
  <<TRUE, Hold(3)>> >>)

SurfaceGuard(c) == FirstMatch(<<
  <<c.specific \/ c.risk >= 60, Hold(4)>>,
  <<c.rival_surface + 1 < c.surface /\ c.rival_risk <= c.risk
      /\ c.rival_accuracy + 50 >= c.accuracy, Switch(c, 4)>>,
  <<c.surface <= 2 /\ c.risk <= 35 /\ c.accuracy >= c.rival_accuracy, Promote(c, 4)>>,
  <<TRUE, Hold(4)>> >>)

ReplayBonus(signal, mine, other) == When(signal = mine, 1000) - When(signal = other, 1000)
EnvironmentPenalty(c) == When(c.specific, 1800)

FrontierBudget(c) ==
  8 * FrontierMargin(c) + 800 * SupportDelta(c) - 400 * c.surface - 25 * c.risk
    - EnvironmentPenalty(c) + ReplayBonus(c.replay, "promote_reference", "switch_reference")
RivalBudget(c) ==
  -8 * FrontierMargin(c) - 800 * SupportDelta(c) - 400 * c.rival_surface - 25 * c.rival_risk
    - EnvironmentPenalty(c) + ReplayBonus(c.replay, "switch_reference", "promote_reference")

StabilityBudget(c) == FirstMatch(<<
  <<~c.specific /\ c.support >= 3 /\ FrontierBudget(c) >= 1800
      /\ FrontierBudget(c) > RivalBudget(c) + 600, Promote(c, 6)>>,
  <<~c.specific /\ c.rival_support >= 2 /\ RivalBudget(c) >= 1800
      /\ RivalBudget(c) > FrontierBudget(c) + 600, Switch(c, 6)>>,
  <<TRUE, Hold(6)>> >>)

Variants == <<"accuracy_first", "replay_gate", "surface_guard", "stability_budget">>

Answers(c) ==
  [accuracy_first   |-> AccuracyFirst(c),
   replay_gate      |-> ReplayGate(c),
   surface_guard    |-> SurfaceGuard(c),
   stability_budget |-> StabilityBudget(c)]

Matches(c, d) == d.kind = c.kind /\ d.reference = c.reference

Source ==
  [accuracy_first   |-> Metrics(43, 3, 5, 3, 1),
   replay_gate      |-> Metrics(44, 5, 5, 5, 5),
   surface_guard    |-> Metrics(55, 9, 5, 4, 8),
   stability_budget |-> Metrics(91, 11, 7, 7, 14)]

Extensibility(s) ==
  Clamp(100 - 8 * s.hardcoded - 2 * s.branches + 4 * s.evidence + 2 * s.helpers)

Report(cases) ==
  ReportOf(cases, Answers, Matches, LAMBDA c, d : d.signals, Source, Extensibility)

ProvisionalFrontier(report) == LastGreatest(FrontierOf(Variants, report), report, CheaperOrRigid)

Section(cases) ==
  Given(Report(cases), LAMBDA report :
    Shown(Variants, Len(cases), report, ProvisionalFrontier(report)))
=============================================================================
