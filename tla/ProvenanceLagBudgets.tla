------------------------ MODULE ProvenanceLagBudgets -------------------------
(***************************************************************************)
(* experiments/provenance_lag_budgets: whether the surfaces of the latest  *)
(* release train agree on the current reference, given how far each may lag.*)
(***************************************************************************)
EXTENDS Evidence

\* Confidences and scores are hundredths.
Signal(place, kind, reference, confidence, lag, allowed) ==
  [place |-> place, kind |-> kind, reference |-> reference, confidence |-> confidence,
   lag |-> lag, allowed |-> allowed]
Train(signals) == signals

Case(current, trains, kind, reference) ==
  [current |-> current, trains |-> trains, kind |-> kind, reference |-> reference]

Cases == <<
  Case("declared_checkpoint",
       <<Train(<<Signal("package_registry", "keep_promoted", "declared_checkpoint", 84, 10, 24),
                 Signal("release_feed", "keep_promoted", "declared_checkpoint", 91, 2, 6),
                 Signal("docs_portal", "keep_promoted", "declared_checkpoint", 90, 4, 12)>>)>>,
       "lag_confirmed", "declared_checkpoint"),
  Case("catalog_score",
       <<Train(<<Signal("package_registry", "keep_promoted", "catalog_score", 85, 9, 24),
                 Signal("release_feed", "keep_promoted", "catalog_score", 89, 2, 6),
                 Signal("docs_portal", "keep_promoted", "catalog_score", 88, 4, 12)>>),
         Train(<<Signal("package_registry", "keep_promoted", "catalog_score", 84, 8, 24),
                 Signal("release_feed", "replace_reference", "pipeline_router", 93, 1, 6),
                 Signal("docs_portal", "replace_reference", "pipeline_router", 91, 4, 12)>>)>>,
       "lag_pending", None),
  Case("catalog_score",
       <<Train(<<Signal("package_registry", "keep_promoted", "catalog_score", 85, 9, 24),
                 Signal("release_feed", "keep_promoted", "catalog_score", 89, 2, 6),
                 Signal("docs_portal", "keep_promoted", "catalog_score", 88, 4, 12)>>),
         Train(<<Signal("package_registry", "keep_promoted", "catalog_score", 84, 36, 24),
                 Signal("release_feed", "replace_reference", "pipeline_router", 93, 1, 6),
                 Signal("docs_portal", "replace_reference", "pipeline_router", 91, 4, 12)>>)>>,
       "lag_superseded", "pipeline_router"),
  Case("documented_chain",
       <<Train(<<Signal("package_registry", "keep_promoted", "documented_chain", 84, 8, 24),
                 Signal("docs_portal", "keep_promoted", "documented_chain", 90, 4, 12)>>),
         Train(<<Signal("package_registry", "keep_promoted", "documented_chain", 84, 7, 24),
                 Signal("docs_portal", "replace_reference", "lineage_budget", 95, 3, 12)>>)>>,
       "lag_pending", None),
  Case("tolerant_contract",
       <<Train(<<Signal("package_registry", "keep_promoted", "tolerant_contract", 84, 8, 24),
                 Signal("release_feed", "keep_promoted", "tolerant_contract", 89, 2, 6),
                 Signal("docs_portal", "keep_promoted", "tolerant_contract", 90, 4, 12)>>),
         Train(<<Signal("package_registry", "rollback_reference", "tolerant_contract", 96, 2,
                        24),
                 Signal("release_feed", "keep_promoted", "tolerant_contract", 91, 1, 6),
                 Signal("docs_portal", "keep_promoted", "tolerant_contract", 92, 4, 12)>>)>>,
       "lag_blocked", None),
  Case("resume_aware_replan",
       <<Train(<<Signal("package_registry", "rollback_reference", "resume_aware_replan", 94, 3,
                        24),
                 Signal("release_feed", "rollback_reference", "resume_aware_replan", 90, 2,
                        6)>>),
         Train(<<Signal("package_registry", "keep_promoted", "resume_aware_replan", 87, 18, 24),
                 Signal("release_feed", "keep_promoted", "resume_aware_replan", 91, 2, 6),
                 Signal("docs_portal", "keep_promoted", "resume_aware_replan", 90, 5, 12)>>)>>,
       "lag_confirmed", "resume_aware_replan"),
  Case("prompt_constrained",
       <<Train(<<Signal("package_registry", "keep_promoted", "prompt_constrained", 83, 9, 24),
                 Signal("release_feed", "keep_promoted", "prompt_constrained", 89, 2, 6),
                 Signal("docs_portal", "keep_promoted", "prompt_constrained", 90, 4, 12)>>),
         Train(<<Signal("package_registry", "keep_promoted", "prompt_constrained", 84, 30, 24),
                 Signal("release_feed", "replace_reference", "schema_constrained", 93, 2, 6),
                 Signal("docs_portal", "keep_promoted", "prompt_constrained", 91, 20, 12)>>)>>,
       "lag_blocked", None),
  Case("mock",
       <<Train(<<Signal("package_registry", "keep_promoted", "mock", 82, 10, 24),
                 Signal("release_feed", "keep_promoted", "mock", 86, 2, 6),
                 Signal("docs_portal", "keep_promoted", "mock", 89, 4, 12)>>),
         Train(<<Signal("package_registry", "replace_reference", "local", 89, 18, 24),
                 Signal("release_feed", "replace_reference", "local", 94, 1, 6),
                 Signal("docs_portal", "keep_promoted", "mock", 91, 6, 12)>>)>>,
       "lag_superseded", "local"),
  Case("catalog_score",
       <<Train(<<Signal("package_registry", "keep_promoted", "catalog_score", 85, 9, 24),
                 Signal("release_feed", "keep_promoted", "catalog_score", 89, 2, 6),
                 Signal("docs_portal", "keep_promoted", "catalog_score", 88, 4, 12)>>),
         Train(<<Signal("package_registry", "replace_reference", "pipeline_router", 91, 16, 24),
                 Signal("release_feed", "replace_reference", "pipeline_router", 95, 1, 6),
                 Signal("docs_portal", "replace_reference", "pipeline_router", 92, 5, 12)>>)>>,
       "lag_superseded", "pipeline_router") >>

ReferenceNames == <<"catalog_score", "declared_checkpoint", "documented_chain",
                    "lineage_budget", "local", "mock", "pipeline_router",
                    "prompt_constrained", "resume_aware_replan", "schema_constrained",
                    "tolerant_contract">>

Kinds == [confirmed |-> "lag_confirmed", superseded |-> "lag_superseded",
          against |-> "lag_blocked", open |-> "lag_pending"]

\* Without a train every variant answers what it answers for a train without signals.
LatestTrain(c) == IF c.trains = <<>> THEN <<>> ELSE Last(c.trains)

IsCritical(surface) == surface \in {"package_registry", "release_feed"}
IsWithinBudget(x) == x.lag <= x.allowed
SurfaceWeight(surface) ==
  CASE surface = "package_registry" -> 6
    [] surface = "release_feed" -> 5
    [] surface \in {"docs_portal", "api_docs"} -> 4
    [] OTHER -> 3
SignalScore(x) == SurfaceWeight(x.place) * x.confidence

Surfaces(signals) == Cardinality(PlacesOf(signals))
Critical(signals) == Cardinality({p \in PlacesOf(signals) : IsCritical(p)})

\* MIN_CONFIDENCE is 0.75 throughout.
CurrentWithinBudgetSupport(train, current) ==
  Weigh(SelectSeq(For(AtLeast(train, 75), current), IsWithinBudget), SignalScore)
CurrentOverdueSupport(train, current) ==
  Weigh(SelectSeq(For(AtLeast(train, 75), current), LAMBDA x : ~IsWithinBudget(x)), SignalScore)
BestChallengerSupport(train, current) ==
  BestChallenger(ReferenceNames, AtLeast(train, 75), current, SignalScore,
                 LAMBDA signals : <<Critical(signals), Surfaces(signals)>>)
RollbackSignals(train) == Against(AtLeast(train, 75))
RollbackSupport(train) == Weigh(RollbackSignals(train), SignalScore)

CurrentConsensusTrainCount(c) ==
  Quantify(DOMAIN c.trains, LAMBDA i :
    /\ CurrentWithinBudgetSupport(c.trains[i], c.current) >= 800
    /\ CurrentOverdueSupport(c.trains[i], c.current) = 0
    /\ BestChallengerSupport(c.trains[i], c.current).reference = None
    /\ RollbackSupport(c.trains[i]) = 0)

\* The least lag, then the most confidence.
Staler(x, y) == LexLess(<<-x.lag, x.confidence>>, <<-y.lag, y.confidence>>)
LatestSurfaceSignal(signals) == LastBest(signals, Staler)
FreshestSignal(signals) == FirstBest(signals, Staler)

LatestRegistryOnly(c) ==
  ByBest(Kinds, c.current, OfPlace(LatestTrain(c), "package_registry"), LatestSurfaceSignal, 1)

FreshestSignalWins(c) == ByBest(Kinds, c.current, LatestTrain(c), FreshestSignal, 3)

SurfaceMajority(c) == ByMajority(Kinds, c.current, LatestTrain(c), 4)

LagBudget(c) ==
  LET train == LatestTrain(c)
      within == CurrentWithinBudgetSupport(train, c.current)
      overdue == CurrentOverdueSupport(train, c.current)
      challenger == BestChallengerSupport(train, c.current)
      rollback == RollbackSupport(train)
      bucket == FirstMatch(<<
        <<rollback >= 550 /\ Critical(RollbackSignals(train)) >= 1, "rollback">>,
        <<challenger.score >= 800 /\ Surfaces(challenger.evidence) >= 2
            /\ (Critical(challenger.evidence) >= 2 \/ overdue >= 450), challenger.reference>>,
        <<within >= 800 /\ challenger.score = 0 /\ rollback < 100, "current">>,
        <<within >= 800 /\ CurrentConsensusTrainCount(c) >= 1 /\ challenger.score <= 250
            /\ rollback < 100, "current">>,
        <<challenger.score > 0 /\ within > 0 /\ overdue = 0, "unknown">>,
        <<overdue >= 450 /\ challenger.score > 0, "rollback">>,
        <<within >= 800 /\ rollback < 100, "current">>,
        <<TRUE, "unknown">> >>)
  IN  Settle(Kinds, c.current, bucket, 6)

Variants == <<"latest_registry_only", "freshest_signal_wins", "surface_majority",
              "lag_budget">>

Answers(c) ==
  [latest_registry_only |-> LatestRegistryOnly(c),
   freshest_signal_wins |-> FreshestSignalWins(c),
   surface_majority     |-> SurfaceMajority(c),
   lag_budget           |-> LagBudget(c)]

Matches(c, d) == d.kind = c.kind /\ d.reference = c.reference

Source ==
  [latest_registry_only |-> Metrics(59, 5, 5, 5, 1),
   freshest_signal_wins |-> Metrics(59, 5, 5, 5, 1),
   surface_majority     |-> Metrics(93, 10, 5, 7, 0),
   lag_budget           |-> Metrics(143, 21, 5, 9, 5)]

Extensibility(s) ==
  Clamp(100 - 8 * s.hardcoded - 2 * s.branches + 4 * s.evidence + 2 * s.helpers)

Report(cases) ==
  ReportOf(cases, Answers, Matches, LAMBDA c, d : d.signals, Source, Extensibility)

ProvisionalFrontier(report) == LastGreatest(FrontierOf(Variants, report), report, CheaperOrRigid)

Section(cases) ==
  Given(Report(cases), LAMBDA report :
    Shown(Variants, Len(cases), report, ProvisionalFrontier(report)))
=============================================================================
