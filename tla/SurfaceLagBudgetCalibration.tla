--------------------- MODULE SurfaceLagBudgetCalibration ---------------------
(***************************************************************************)
(* experiments/surface_lag_budget_calibration: which lag budget a release  *)
(* surface should have, from the lags observed.                            *)
(***************************************************************************)
EXTENDS Suite

Case(surface, current, lags, kind, budget) ==
  [surface |-> surface, current |-> current, lags |-> lags, kind |-> kind, budget |-> budget]

Cases == <<
  Case("release_feed", 8, <<1, 2, 2, 3, 2, 1>>, "budget_lower", 6),
  Case("docs_portal", 12, <<5, 6, 7, 8, 9, 7>>, "budget_keep", 12),
  Case("package_registry", 24, <<22, 24, 26, 28, 30, 27>>, "budget_raise", 30),
  Case("api_docs", 12, <<1, 2, 3, 2, 4>>, "budget_lower", 6),
  Case("package_registry", 24, <<8, 10, 12, 60, 72, 14>>, "budget_hold", 24),
  Case("docs_portal", 18, <<4, 5, 6, 7, 5, 6>>, "budget_lower", 12),
  Case("release_feed", 6, <<1, 2, 2, 7, 8, 9>>, "budget_raise", 10),
  Case("docs_portal", 12, <<5, 6, 7, 20, 6, 7>>, "budget_keep", 12) >>

DefaultBudget(surface) ==
  CASE surface = "package_registry" -> 24
    [] surface \in {"release_feed", "api_docs"} -> 6
    [] OTHER -> 12
BudgetStep(surface) == IF surface = "release_feed" THEN 2 ELSE 6
RoundUpToStep(value, step) == ((value + step - 1) \div step) * step

SortedLags(c) == SortSeq(c.lags, <)
PercentileLag(c, numerator, denominator) ==
  IF c.lags = <<>> THEN 0
  ELSE SortedLags(c)[((Len(c.lags) - 1) * numerator) \div denominator + 1]
LatestLag(c) == IF c.lags = <<>> THEN 0 ELSE Last(c.lags)
MaxLag(c) == Max(ToSet(c.lags) \cup {0})
OutlierCount(c) ==
  LET p50 == PercentileLag(c, 1, 2)
  IN  Quantify(DOMAIN c.lags, LAMBDA i : c.lags[i] >= Max({3 * p50, p50 + 18}))

\* The reference of a decision is the selected budget.
ApplyBudgetDecision(c, selected, signals) ==
  Decision(CASE selected > c.current -> "budget_raise"
             [] selected < c.current -> "budget_lower"
             [] OTHER -> "budget_keep", selected, signals)
HoldBudget(c, signals) == Decision("budget_hold", c.current, signals)

\* A budget that covers the lag, in steps and never under the surface's default.
Covering(c, lag) == Max({DefaultBudget(c.surface), RoundUpToStep(lag, BudgetStep(c.surface))})

FlatDefaults(c) == ApplyBudgetDecision(c, DefaultBudget(c.surface), 1)

LatestObservation(c) == ApplyBudgetDecision(c, Covering(c, LatestLag(c)), 3)

MaxObserved(c) == ApplyBudgetDecision(c, Covering(c, MaxLag(c)), 4)

TraceBudget(c) ==
  IF OutlierCount(c) >= 2 THEN HoldBudget(c, 6)
  ELSE ApplyBudgetDecision(c, Covering(c, Max({PercentileLag(c, 4, 5), LatestLag(c)})), 6)

Variants == <<"flat_defaults", "latest_observation", "max_observed", "trace_budget">>

Answers(c) ==
  [flat_defaults      |-> FlatDefaults(c),
   latest_observation |-> LatestObservation(c),
   max_observed       |-> MaxObserved(c),
   trace_budget       |-> TraceBudget(c)]

Matches(c, d) == d.kind = c.kind /\ d.reference = c.budget

Source ==
  [flat_defaults      |-> Metrics(30, 1, 5, 0, 2),
   latest_observation |-> Metrics(34, 1, 5, 0, 5),
   max_observed       |-> Metrics(31, 2, 5, 0, 5),
   trace_budget       |-> Metrics(50, 5, 5, 0, 10)]

Extensibility(s) ==
  Clamp(100 - 8 * s.hardcoded - 2 * s.branches + 4 * s.evidence + 2 * s.helpers)

Report(cases) ==
  ReportOf(cases, Answers, Matches, LAMBDA c, d : d.signals, Source, Extensibility)

ProvisionalFrontier(report) == LastGreatest(FrontierOf(Variants, report), report, CheaperOrRigid)

Section(cases) ==
  Given(Report(cases), LAMBDA report :
    Shown(Variants, Len(cases), report, ProvisionalFrontier(report)))
=============================================================================
