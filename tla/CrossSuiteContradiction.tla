----------------------- MODULE CrossSuiteContradiction -----------------------
(***************************************************************************)
(* experiments/cross_suite_contradiction: whether a promotion decision     *)
(* contradicts what the suite itself, its replay and its risk say.         *)
(***************************************************************************)
EXTENDS Suite

Case(frontier, provisional, promotion, promoted, replay, gap, specific, risk, kind, reference) ==
  [frontier |-> frontier, provisional |-> provisional, promotion |-> promotion,
   promoted |-> promoted, replay |-> replay, gap |-> gap, specific |-> specific,
   risk |-> risk, kind |-> kind, reference |-> reference]

Cases == <<
  Case({"declared_checkpoint"}, "declared_checkpoint", "promote_reference",
       "declared_checkpoint", "promote_reference", 2, FALSE, 20, "no_contradiction", None),
  Case({"catalog_score", "pipeline_router"}, "catalog_score", "hold_experimental", None,
       "hold_experimental", 0, FALSE, 35, "no_contradiction", None),
  Case({"catalog_score", "pipeline_router"}, "catalog_score", "switch_reference",
       "pipeline_router", "switch_reference", -2, FALSE, 18, "no_contradiction", None),
  Case({"prompt_constrained"}, "prompt_constrained", "switch_reference", "schema_constrained",
       "promote_reference", 1, TRUE, 55, "reference_conflict", "schema_constrained"),
  Case({"resume_aware_replan"}, "resume_aware_replan", "promote_reference",
       "resume_aware_replan", "hold_experimental", 2, FALSE, 65, "premature_promotion",
       "resume_aware_replan"),
  Case({"tolerant_contract"}, "tolerant_contract", "promote_reference", "tolerant_contract",
       "hold_experimental", 0, FALSE, 72, "risk_conflict", "tolerant_contract"),
  Case({"stream_reducer"}, "stream_reducer", "hold_experimental", None, "hold_experimental", 0,
       TRUE, 70, "no_contradiction", None),
  Case({"mock"}, "mock", "promote_reference", "mock", "hold_experimental", 0, TRUE, 90,
       "risk_conflict", "mock") >>

FrontierContains(c, reference) == reference \in c.frontier
HasSingleFrontier(c) == Cardinality(c.frontier) = 1

Clear(signals) == Decision("no_contradiction", None, signals)
Conflict(kind, c, signals) == Decision(kind, c.promoted, signals)

FrontierMembershipOnly(c) ==
  IF c.promoted # None /\ ~FrontierContains(c, c.promoted)
  THEN Conflict("reference_conflict", c, 2) ELSE Clear(2)

PromotionKindOnly(c) == FirstMatch(<<
  <<c.promotion = c.replay, Clear(2)>>,
  <<c.promotion # "hold_experimental" /\ c.replay = "hold_experimental",
    Conflict("premature_promotion", c, 2)>>,
  <<TRUE, Conflict("reference_conflict", c, 2)>> >>)

RiskSignalGate(c) == FirstMatch(<<
  <<c.promoted = None, Clear(4)>>,
  <<~FrontierContains(c, c.promoted), Conflict("reference_conflict", c, 4)>>,
  <<c.promotion # "hold_experimental" /\ (c.specific \/ c.risk >= 60),
    Conflict("risk_conflict", c, 4)>>,
  <<c.promotion # c.replay /\ c.promotion # "hold_experimental",
    Conflict("premature_promotion", c, 4)>>,
  <<TRUE, Clear(4)>> >>)

EvidenceGraph(c) == FirstMatch(<<
  <<c.promoted = None, Clear(6)>>,
  <<~FrontierContains(c, c.promoted), Conflict("reference_conflict", c, 6)>>,
  <<c.promotion = "hold_experimental", Clear(6)>>,
  <<c.replay = "hold_experimental" /\ (c.specific \/ c.gap <= 0 \/ c.risk >= 70),
    Conflict("risk_conflict", c, 6)>>,
  <<c.replay = "hold_experimental", Conflict("premature_promotion", c, 6)>>,
  <<c.promotion = "switch_reference" /\ HasSingleFrontier(c) /\ c.provisional # c.promoted,
    Conflict("reference_conflict", c, 6)>>,
  <<TRUE, Clear(6)>> >>)

Variants == <<"frontier_membership_only", "promotion_kind_only", "risk_signal_gate",
              "evidence_graph">>

Answers(c) ==
  [frontier_membership_only |-> FrontierMembershipOnly(c),
   promotion_kind_only      |-> PromotionKindOnly(c),
   risk_signal_gate         |-> RiskSignalGate(c),
   evidence_graph           |-> EvidenceGraph(c)]

Matches(c, d) == d.kind = c.kind /\ d.reference = c.reference

Source ==
  [frontier_membership_only |-> Metrics(48, 3, 5, 3, 2),
   promotion_kind_only      |-> Metrics(44, 5, 5, 3, 6),
   risk_signal_gate         |-> Metrics(66, 8, 5, 5, 8),
   evidence_graph           |-> Metrics(79, 10, 5, 7, 9)]

Extensibility(s) ==
  Clamp(100 - 8 * s.hardcoded - 2 * s.branches + 4 * s.evidence + 2 * s.helpers)

Report(cases) ==
  ReportOf(cases, Answers, Matches, LAMBDA c, d : d.signals, Source, Extensibility)

ProvisionalFrontier(report) == LastGreatest(FrontierOf(Variants, report), report, CheaperOrRigid)

Section(cases) ==
  Given(Report(cases), LAMBDA report :
    Shown(Variants, Len(cases), report, ProvisionalFrontier(report)))
=============================================================================
