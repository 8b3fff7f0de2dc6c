----------------------- MODULE CrossTrainLagCarryover ------------------------
(***************************************************************************)
(* experiments/cross_train_lag_carryover: whether what release trains left *)
(* pending carries over to the latest one.                                 *)
(***************************************************************************)
EXTENDS Evidence

\* Confidences and scores are hundredths.
Signal(place, kind, reference, confidence, lag, allowed) ==
  [place |-> place, kind |-> kind, reference |-> reference, confidence |-> confidence,
   lag |-> lag, allowed |-> allowed]
Train(signals) == signals

Case(current, trains, kind, reference) ==
  [current |-> current, trains |-> trains, kind |-> kind, reference |-> reference]

Cases == <<
  Case("catalog_score",
       <<Train(<<Signal("package_registry", "keep_promoted", "catalog_score", 84, 10, 24),
                 Signal("release_feed", "keep_promoted", "catalog_score", 90, 2, 6),
                 Signal("docs_portal", "keep_promoted", "catalog_score", 89, 4, 12)>>),
         Train(<<Signal("package_registry", "keep_promoted", "catalog_score", 84, 18, 24),
                 Signal("docs_portal", "replace_reference", "pipeline_router", 93, 3, 12)>>)>>,
       "carryover_pending", None),
  Case("catalog_score",
       <<Train(<<Signal("package_registry", "keep_promoted", "catalog_score", 84, 18, 24),
                 Signal("docs_portal", "replace_reference", "pipeline_router", 92, 3, 12)>>),
         Train(<<Signal("package_registry", "keep_promoted", "catalog_score", 84, 30, 24),
                 Signal("release_feed", "replace_reference", "pipeline_router", 93, 2, 6)>>)>>,
       "carryover_superseded", "pipeline_router"),
  Case("prompt_constrained",
       <<Train(<<Signal("package_registry", "keep_promoted", "prompt_constrained", 83, 18, 24),
                 Signal("docs_portal", "replace_reference", "schema_constrained", 92, 3, 12)>>),
         Train(<<Signal("package_registry", "keep_promoted", "prompt_constrained", 84, 31, 24),
                 Signal("release_feed", "replace_reference", "mirrored_constraints", 94, 2,
                        6)>>)>>,
       "carryover_blocked", None),
  Case("resume_aware_replan",
       <<Train(<<Signal("package_registry", "keep_promoted", "resume_aware_replan", 84, 17, 24),
                 Signal("docs_portal", "replace_reference", "current_gateway_clone", 91, 4,
                        12)>>),
         Train(<<Signal("package_registry", "keep_promoted", "resume_aware_replan", 87, 16, 24),
                 Signal("release_feed", "keep_promoted", "resume_aware_replan", 92, 2, 6),
                 Signal("docs_portal", "keep_promoted", "resume_aware_replan", 90, 5, 12)>>)>>,
       "carryover_confirmed", "resume_aware_replan"),
  Case("tolerant_contract",
       <<Train(<<Signal("package_registry", "keep_promoted", "tolerant_contract", 84, 18, 24),
                 Signal("docs_portal", "replace_reference", "normalized_scalars", 90, 3, 12)>>),
         Train(<<Signal("release_feed", "rollback_reference", "tolerant_contract", 96, 2, 6),
                 Signal("package_registry", "keep_promoted", "tolerant_contract", 85, 18,
                        24)>>)>>,
       "carryover_blocked", None),
  Case("documented_chain",
       <<Train(<<Signal("package_registry", "keep_promoted", "documented_chain", 83, 18, 24),
                 Signal("docs_portal", "replace_reference", "lineage_budget", 94, 3, 12)>>),
         Train(<<Signal("package_registry", "keep_promoted", "documented_chain", 86, 15, 24),
                 Signal("release_feed", "keep_promoted", "documented_chain", 91, 2, 6),
                 Signal("docs_portal", "keep_promoted", "documented_chain", 90, 5, 12)>>),
         Train(<<Signal("package_registry", "keep_promoted", "documented_chain", 84, 17, 24),
                 Signal("docs_portal", "replace_reference", "lineage_budget", 95, 3, 12)>>)>>,
       "carryover_pending", None),
  Case("environment_lineage_budget",
       <<Train(<<Signal("package_registry", "keep_promoted", "environment_lineage_budget", 84,
                        18, 24),
                 Signal("docs_portal", "replace_reference", "documented_majority", 92, 4,
                        12)>>),
         Train(<<Signal("package_registry", "keep_promoted", "environment_lineage_budget", 84,
                        18, 24),
                 Signal("docs_portal", "replace_reference", "documented_majority", 93, 4,
                        12)>>)>>,
       "carryover_pending", None),
  Case("mock",
       <<Train(<<Signal("package_registry", "keep_promoted", "mock", 82, 16, 24),
                 Signal("release_feed", "keep_promoted", "mock", 87, 2, 6),
                 Signal("docs_portal", "keep_promoted", "mock", 89, 4, 12)>>),
         Train(<<Signal("package_registry", "replace_reference", "local", 90, 18, 24),
                 Signal("release_feed", "replace_reference", "local", 95, 1, 6),
                 Signal("docs_portal", "keep_promoted", "mock", 90, 4, 12)>>)>>,
       "carryover_superseded", "local") >>

ReferenceNames == <<"catalog_score", "current_gateway_clone", "documented_chain",
                    "documented_majority", "environment_lineage_budget", "lineage_budget",
                    "local", "mirrored_constraints", "mock", "normalized_scalars",
                    "pipeline_router", "prompt_constrained", "resume_aware_replan",
                    "schema_constrained", "tolerant_contract">>

Kinds == [confirmed |-> "carryover_confirmed", superseded |-> "carryover_superseded",
          against |-> "carryover_blocked", open |-> "carryover_pending"]

\* Without a train every variant answers what it answers for a train without signals.
LatestTrain(c) == IF c.trains = <<>> THEN <<>> ELSE Last(c.trains)

IsCritical(surface) == surface \in {"package_registry", "release_feed"}
IsWithinBudget(x) == x.lag <= x.allowed
SurfaceWeight(surface) ==
  CASE surface = "package_registry" -> 6
    [] surface = "release_feed" -> 5
    [] surface \in {"docs_portal", "api_docs"} -> 4
    [] OTHER -> 3
SignalScore(x) == SurfaceWeight(x.place) * x.confidence

Surfaces(signals) == Cardinality(PlacesOf(signals))
Critical(signals) == Cardinality({p \in PlacesOf(signals) : IsCritical(p)})

\* MIN_CONFIDENCE is 0.75 throughout.
CurrentWithinBudgetSupport(train, current) ==
  Weigh(SelectSeq(For(AtLeast(train, 75), current), IsWithinBudget), SignalScore)
CurrentOverdueSupport(train, current) ==
  Weigh(SelectSeq(For(AtLeast(train, 75), current), LAMBDA x : ~IsWithinBudget(x)), SignalScore)
BestChallengerSupport(train, current) ==
  BestChallenger(ReferenceNames, AtLeast(train, 75), current, SignalScore,
                 LAMBDA signals : <<Critical(signals), Surfaces(signals)>>)
RollbackSignals(train) == Against(AtLeast(train, 75))
RollbackSupport(train) == Weigh(RollbackSignals(train), SignalScore)

\* A train's standing; the challenger of a pending train is kept, if it has one.
TrainState(train, current) ==
  LET within == CurrentWithinBudgetSupport(train, current)
      overdue == CurrentOverdueSupport(train, current)
      challenger == BestChallengerSupport(train, current)
      rollback == RollbackSupport(train)
      standing == FirstMatch(<<
        <<rollback >= 450 /\ Critical(RollbackSignals(train)) >= 1, <<"blocked", None>>>>,
        <<challenger.score >= 800 /\ Surfaces(challenger.evidence) >= 2
            /\ (Critical(challenger.evidence) >= 2 \/ overdue >= 450),
          <<"superseded", challenger.reference>>>>,
        <<within >= 800 /\ challenger.score <= 250 /\ rollback < 100, <<"confirmed", current>>>>,
        <<TRUE, <<"pending", challenger.reference>>>> >>)
  IN  [kind |-> standing[1], reference |-> standing[2], overdue |-> overdue,
       score |-> challenger.score, critical |-> Critical(challenger.evidence)]
CollectTrainStates(c) == [i \in DOMAIN c.trains |-> TrainState(c.trains[i], c.current)]
ConsecutivePendingChain(states) ==
  SubSeq(states, SelectLastInSeq(states, LAMBDA s : s.kind # "pending") + 1, Len(states))

Confirmed(c, signals) == Decision(Kinds.confirmed, c.current, signals)
Superseded(reference, signals) == Decision(Kinds.superseded, reference, signals)
Blocked(signals) == Decision(Kinds.against, None, signals)
Pending(signals) == Decision(Kinds.open, None, signals)

\* Every variant but the vote takes over a latest train that is settled.
UnlessPending(c, states, whenPending, signals) ==
  IF states = <<>> THEN Pending(signals)
  ELSE FirstMatch(<<
    <<Last(states).kind = "confirmed", Confirmed(c, signals)>>,
    <<Last(states).kind = "superseded", Superseded(Last(states).reference, signals)>>,
    <<Last(states).kind = "blocked", Blocked(signals)>>,
    <<TRUE, whenPending>> >>)

LatestTrainOnly(c) ==
  Given(CollectTrainStates(c), LAMBDA states : UnlessPending(c, states, Pending(1), 1))

\* Two pending trains in a row that name no challenger agree as well.
AgreedByTwo(chain) ==
  IF Len(chain) < 2 THEN Pending(3)
  ELSE IF chain[Len(chain) - 1].reference = Last(chain).reference
       THEN Superseded(Last(chain).reference, 3) ELSE Blocked(3)
AdjacentPendingReuse(c) ==
  Given(CollectTrainStates(c), LAMBDA states :
    UnlessPending(c, states, Given(ConsecutivePendingChain(states), AgreedByTwo), 3))

SurfaceChainVote(c) ==
  LET two == SubSeq(c.trains, Max({1, Len(c.trains) - 1}), Len(c.trains))
  IN  ByMajority(Kinds, c.current, FlattenSeq(two), 4)

AgreedByChain(chain) ==
  LET challengers == {s.reference : s \in ToSet(chain)} \ {None}
      overdue == Quantify(DOMAIN chain, LAMBDA i : chain[i].overdue >= 450)
      critical == MapThenSumSet(LAMBDA i : chain[i].critical, DOMAIN chain)
  IN  FirstMatch(<<
        <<Len(chain) >= 2 /\ Cardinality(challengers) = 1 /\ Weigh(chain, LAMBDA s : s.score) >= 800
            /\ (overdue >= 1 \/ critical >= 2),
          Superseded(FirstPresent(SetToSeq(challengers)), 6)>>,
        <<Len(chain) >= 2 /\ Cardinality(challengers) = 1, Pending(6)>>,
        <<Len(chain) >= 2 /\ (Cardinality(challengers) > 1 \/ overdue >= 2), Blocked(6)>>,
        <<chain # <<>> /\ Last(chain).overdue >= 450 /\ Last(chain).score < 800, Blocked(6)>>,
        <<TRUE, Pending(6)>> >>)
CarryoverBudget(c) ==
  Given(CollectTrainStates(c), LAMBDA states :
    UnlessPending(c, states, Given(ConsecutivePendingChain(states), AgreedByChain), 6))

Variants == <<"latest_train_only", "adjacent_pending_reuse", "surface_chain_vote",
              "carryover_budget">>

Answers(c) ==
  [latest_train_only      |-> LatestTrainOnly(c),
   adjacent_pending_reuse |-> AdjacentPendingReuse(c),
   surface_chain_vote     |-> SurfaceChainVote(c),
   carryover_budget       |-> CarryoverBudget(c)]

Matches(c, d) == d.kind = c.kind /\ d.reference = c.reference

Source ==
  [latest_train_only      |-> Metrics(71, 2, 5, 5, 1),
   adjacent_pending_reuse |-> Metrics(97, 7, 5, 8, 1),
   surface_chain_vote     |-> Metrics(85, 12, 5, 6, 0),
   carryover_budget       |-> Metrics(156, 18, 5, 9, 2)]

Extensibility(s) ==
  Clamp(100 - 8 * s.hardcoded - 2 * s.branches + 4 * s.evidence + 2 * s.helpers)

Report(cases) ==
  ReportOf(cases, Answers, Matches, LAMBDA c, d : d.signals, Source, Extensibility)

ProvisionalFrontier(report) == LastGreatest(FrontierOf(Variants, report), report, CheaperOrRigid)

Section(cases) ==
  Given(Report(cases), LAMBDA report :
    Shown(Variants, Len(cases), report, ProvisionalFrontier(report)))
=============================================================================
