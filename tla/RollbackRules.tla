---------------------------- MODULE RollbackRules ----------------------------
(***************************************************************************)
(* experiments/rollback_rules: whether a promoted reference should be kept,*)
(* rolled back or replaced, or the decision be deferred.                   *)
(***************************************************************************)
EXTENDS Suite

Case(promoted, challenger, frontier, replay, contradiction, rounds, gap, specific, severity, kind, reference) ==
  [promoted |-> promoted, challenger |-> challenger, frontier |-> frontier, replay |-> replay,
   contradiction |-> contradiction, rounds |-> rounds, gap |-> gap, specific |-> specific,
   severity |-> severity, kind |-> kind, reference |-> reference]

Cases == <<
  Case("declared_checkpoint", "resume_failed_step", {"declared_checkpoint"},
       "promote_reference", "no_contradiction", 0, 2, FALSE, 10, "keep_promoted",
       "declared_checkpoint"),
  Case("catalog_score", "pipeline_router", {"pipeline_router"}, "switch_reference",
       "no_contradiction", 3, -2, FALSE, 15, "replace_reference", "pipeline_router"),
  Case("prompt_constrained", "schema_constrained", {"prompt_constrained"}, "hold_experimental",
       "premature_promotion", 1, 0, TRUE, 35, "defer_rollback", None),
  Case("tolerant_contract", "normalized_scalars", {"tolerant_contract"}, "hold_experimental",
       "risk_conflict", 2, 0, FALSE, 82, "rollback_reference", "tolerant_contract"),
  Case("mock", "local", {"mock"}, "hold_experimental", "risk_conflict", 2, 0, TRUE, 90,
       "rollback_reference", "mock"),
  Case("stream_reducer", "action_state_join", {"stream_reducer"}, "hold_experimental",
       "risk_conflict", 1, 0, TRUE, 45, "defer_rollback", None),
  Case("resume_aware_replan", "current_gateway_clone", {"resume_aware_replan"},
       "promote_reference", "no_contradiction", 1, 1, FALSE, 20, "keep_promoted",
       "resume_aware_replan"),
  Case("failure_aware_merge", "confidence_weighted", {"failure_aware_merge"},
       "hold_experimental", "risk_conflict", 1, 0, TRUE, 60, "defer_rollback", None),
  Case("mock", "local", {"local"}, "switch_reference", "risk_conflict", 3, -1, TRUE, 85,
       "rollback_reference", "mock") >>

PromotedIsFrontier(c) == c.promoted \in c.frontier
ChallengerIsFrontier(c) == c.challenger \in c.frontier

Keep(c, signals) == Decision("keep_promoted", c.promoted, signals)
RollBack(c, signals) == Decision("rollback_reference", c.promoted, signals)
Replace(c, signals) == Decision("replace_reference", c.challenger, signals)
Defer(signals) == Decision("defer_rollback", None, signals)

FrontierDropOnly(c) == FirstMatch(<<
  <<~PromotedIsFrontier(c) /\ ChallengerIsFrontier(c), Replace(c, 2)>>,
  <<~PromotedIsFrontier(c), RollBack(c, 2)>>,
  <<TRUE, Keep(c, 2)>> >>)

IncidentReactive(c) == FirstMatch(<<
  <<c.severity >= 70 \/ c.contradiction = "risk_conflict", RollBack(c, 4)>>,
  <<c.replay = "switch_reference" /\ ChallengerIsFrontier(c), Replace(c, 4)>>,
  <<TRUE, Keep(c, 4)>> >>)

ReplayReversalGate(c) == FirstMatch(<<
  <<c.replay = "switch_reference" /\ c.rounds >= 2 /\ ChallengerIsFrontier(c), Replace(c, 4)>>,
  <<c.replay = "hold_experimental" /\ c.rounds >= 2, RollBack(c, 4)>>,
  <<c.replay = "hold_experimental", Defer(4)>>,
  <<TRUE, Keep(c, 4)>> >>)

ShouldDeferEnvironmentalRollback(c) ==
  c.specific /\ c.replay = "hold_experimental" /\ c.rounds <= 1 /\ c.severity < 70

KeepBudget(c) ==
  When(PromotedIsFrontier(c), 1000) + When(c.replay = "promote_reference", 1000)
    + When(c.contradiction = "no_contradiction", 800) + 400 * c.gap - 500 * c.rounds
    - 20 * c.severity - When(c.specific, 600)

ReplaceBudget(c) ==
  When(ChallengerIsFrontier(c), 1200) + When(c.replay = "switch_reference", 1200)
    + 400 * Max({0, -c.gap}) + 300 * c.rounds - 10 * c.severity - When(c.specific, 1600)
    - When(c.contradiction = "risk_conflict", 1200)

RollBackBudget(c) ==
  When(c.replay = "hold_experimental", 800) + When(c.contradiction = "risk_conflict", 1200)
    + When(c.contradiction = "premature_promotion", 400) + 400 * c.rounds + 18 * c.severity
    + When(c.specific, 600) + 200 * Max({0, -c.gap})

RollbackBudget(c) == FirstMatch(<<
  <<ShouldDeferEnvironmentalRollback(c), Defer(6)>>,
  <<~c.specific /\ ReplaceBudget(c) >= 1800 /\ ReplaceBudget(c) > RollBackBudget(c)
      /\ ReplaceBudget(c) > KeepBudget(c), Replace(c, 6)>>,
  <<RollBackBudget(c) >= 2000 /\ RollBackBudget(c) >= KeepBudget(c), RollBack(c, 6)>>,
  <<KeepBudget(c) >= 1400 /\ c.replay = "promote_reference", Keep(c, 6)>>,
  <<TRUE, Defer(6)>> >>)

Variants == <<"frontier_drop_only", "incident_reactive", "replay_reversal_gate",
              "rollback_budget">>

Answers(c) ==
  [frontier_drop_only   |-> FrontierDropOnly(c),
   incident_reactive    |-> IncidentReactive(c),
   replay_reversal_gate |-> ReplayReversalGate(c),
   rollback_budget      |-> RollbackBudget(c)]

Matches(c, d) == d.kind = c.kind /\ d.reference = c.reference

Source ==
  [frontier_drop_only   |-> Metrics(47, 4, 5, 3, 3),
   incident_reactive    |-> Metrics(45, 5, 5, 3, 4),
   replay_reversal_gate |-> Metrics(54, 7, 5, 4, 6),
   rollback_budget      |-> Metrics(143, 26, 9, 5, 28)]

Extensibility(s) ==
  Clamp(100 - 8 * s.hardcoded - 2 * s.branches + 4 * s.evidence + 2 * s.helpers)

Report(cases) ==
  ReportOf(cases, Answers, Matches, LAMBDA c, d : d.signals, Source, Extensibility)

ProvisionalFrontier(report) == LastGreatest(FrontierOf(Variants, report), report, CheaperOrRigid)

Section(cases) ==
  Given(Report(cases), LAMBDA report :
    Shown(Variants, Len(cases), report, ProvisionalFrontier(report)))
=============================================================================
