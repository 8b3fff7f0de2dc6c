----------------------- MODULE ArtifactMirroringDrift ------------------------
(***************************************************************************)
(* experiments/artifact_mirroring_drift: whether the mirrors of the release*)
(* trains agree on the current reference.                                  *)
(***************************************************************************)
EXTENDS Evidence

Artifact(place, kind, reference, confidence, age) ==
  [place |-> place, kind |-> kind, reference |-> reference, confidence |-> confidence,
   age |-> age]
Train(artifacts) == artifacts

Case(current, trains, kind, reference) ==
  [current |-> current, trains |-> trains, kind |-> kind, reference |-> reference]

Cases == <<
  Case("declared_checkpoint",
       <<Train(<<Artifact("package_registry", "keep_promoted", "declared_checkpoint", 84, 6),
                 Artifact("docs_portal", "keep_promoted", "declared_checkpoint", 91, 4),
                 Artifact("api_docs", "keep_promoted", "declared_checkpoint", 88, 5)>>),
         Train(<<Artifact("package_registry", "keep_promoted", "declared_checkpoint", 86, 5),
                 Artifact("docs_portal", "keep_promoted", "declared_checkpoint", 92, 3),
                 Artifact("api_docs", "keep_promoted", "declared_checkpoint", 89, 4)>>)>>,
       "mirror_confirmed", "declared_checkpoint"),
  Case("catalog_score",
       <<Train(<<Artifact("package_registry", "keep_promoted", "catalog_score", 84, 6),
                 Artifact("docs_portal", "keep_promoted", "catalog_score", 90, 4)>>),
         Train(<<Artifact("package_registry", "replace_reference", "pipeline_router", 92, 4),
                 Artifact("docs_portal", "replace_reference", "pipeline_router", 95, 3),
                 Artifact("api_docs", "keep_promoted", "pipeline_router", 86, 8)>>)>>,
       "mirror_superseded", "pipeline_router"),
  Case("stream_reducer",
       <<Train(<<Artifact("package_registry", "keep_promoted", "stream_reducer", 83, 6),
                 Artifact("docs_portal", "keep_promoted", "stream_reducer", 91, 5)>>),
         Train(<<Artifact("package_registry", "replace_reference", "action_state_join", 87,
                          120),
                 Artifact("docs_portal", "keep_promoted", "stream_reducer", 92, 6),
                 Artifact("api_docs", "keep_promoted", "stream_reducer", 88, 8)>>)>>,
       "mirror_confirmed", "stream_reducer"),
  Case("prompt_constrained",
       <<Train(<<Artifact("package_registry", "keep_promoted", "prompt_constrained", 82, 7),
                 Artifact("docs_portal", "keep_promoted", "prompt_constrained", 90, 5)>>),
         Train(<<Artifact("package_registry", "replace_reference", "schema_constrained", 91, 4),
                 Artifact("docs_portal", "keep_promoted", "prompt_constrained", 93, 3)>>)>>,
       "mirror_drift", None),
  Case("tolerant_contract",
       <<Train(<<Artifact("package_registry", "keep_promoted", "tolerant_contract", 84, 6),
                 Artifact("docs_portal", "keep_promoted", "tolerant_contract", 90, 4)>>),
         Train(<<Artifact("package_registry", "rollback_reference", "tolerant_contract", 96, 2),
                 Artifact("docs_portal", "keep_promoted", "tolerant_contract", 92, 4),
                 Artifact("api_docs", "keep_promoted", "tolerant_contract", 89, 6)>>)>>,
       "mirror_rejected", None),
  Case("resume_aware_replan",
       <<Train(<<Artifact("package_registry", "rollback_reference", "resume_aware_replan", 94,
                          3),
                 Artifact("docs_portal", "rollback_reference", "resume_aware_replan", 90, 5)>>),
         Train(<<Artifact("package_registry", "keep_promoted", "resume_aware_replan", 87, 5),
                 Artifact("docs_portal", "keep_promoted", "resume_aware_replan", 93, 4),
                 Artifact("api_docs", "keep_promoted", "resume_aware_replan", 90, 6)>>)>>,
       "mirror_confirmed", "resume_aware_replan"),
  Case("documented_chain",
       <<Train(<<Artifact("package_registry", "keep_promoted", "documented_chain", 83, 6),
                 Artifact("docs_portal", "keep_promoted", "documented_chain", 90, 4)>>),
         Train(<<Artifact("docs_portal", "replace_reference", "lineage_budget", 95, 3)>>)>>,
       "mirror_drift", None),
  Case("mock",
       <<Train(<<Artifact("package_registry", "keep_promoted", "mock", 82, 6),
                 Artifact("docs_portal", "keep_promoted", "mock", 88, 5)>>),
         Train(<<Artifact("release_feed", "replace_reference", "local", 91, 4),
                 Artifact("docs_portal", "replace_reference", "local", 93, 3),
                 Artifact("package_registry", "keep_promoted", "mock", 78, 72)>>)>>,
       "mirror_superseded", "local") >>

ReferenceNames == <<"action_state_join", "catalog_score", "declared_checkpoint",
                    "documented_chain", "lineage_budget", "local", "mock", "pipeline_router",
                    "prompt_constrained", "resume_aware_replan", "schema_constrained",
                    "stream_reducer", "tolerant_contract">>

Kinds == [confirmed |-> "mirror_confirmed", superseded |-> "mirror_superseded",
          against |-> "mirror_rejected", open |-> "mirror_drift"]

\* Without a train every variant answers what it answers for a train without artifacts.
LatestTrain(c) == IF c.trains = <<>> THEN <<>> ELSE Last(c.trains)

MirrorWeight(mirror) ==
  CASE mirror = "package_registry" -> 6
    [] mirror = "docs_portal" -> 5
    [] mirror \in {"api_docs", "release_feed"} -> 4
    [] OTHER -> 3
\* A score is reduced by its age over 48 hours: Points turns hundredths into its unit.
Points(hundredths) == 48 * hundredths
MirrorScore(x) == Max({0, Points(MirrorWeight(x.place) * x.confidence) - 100 * x.age})

\* MAX_FRESHNESS_HOURS is 48 and MIN_CONFIDENCE 0.75 throughout.
Fresh(train) == SelectSeq(AtLeast(train, 75), LAMBDA x : x.age <= 48)
FreshSignalCount(train) == Len(Fresh(train))
CurrentSupport(train, current) == Weigh(For(Fresh(train), current), MirrorScore)
BestChallengerSupport(train, current) ==
  BestChallenger(ReferenceNames, Fresh(train), current, MirrorScore,
                 LAMBDA artifacts : <<Cardinality(PlacesOf(artifacts))>>)
RollbackSupport(train) == Weigh(Against(Fresh(train)), MirrorScore)
MirrorConflict(train, current) == Conflict(Fresh(train), current)

\* What the mirrors of a train agree on: "rollback", "current", a challenger or nothing.
TrainConsensus(train, current) ==
  LET kept == CurrentSupport(train, current)
      challenger == BestChallengerSupport(train, current)
      rollback == RollbackSupport(train)
      Leads(score, other) == score > other + Points(50)
  IN  FirstMatch(<<
        <<MirrorConflict(train, current), None>>,
        <<rollback >= Points(550) /\ Leads(rollback, kept) /\ Leads(rollback, challenger.score),
          "rollback">>,
        <<challenger.score >= Points(600) /\ Leads(challenger.score, kept)
            /\ Leads(challenger.score, rollback), challenger.reference>>,
        <<kept >= Points(600) /\ Leads(kept, challenger.score) /\ Leads(kept, rollback),
          "current">>,
        <<TRUE, None>> >>)
Consensus(c) == [i \in DOMAIN c.trains |-> TrainConsensus(c.trains[i], c.current)]
CurrentConsensusTrainCount(consensus) == Occurrences("current", consensus)
RollbackConsensusTrainCount(consensus) == Occurrences("rollback", consensus)
DominantChallengerTrains(consensus) == MajorityOf(ReferenceNames, consensus)

RegistryOnly(c) ==
  ByBest(Kinds, c.current, OfPlace(LatestTrain(c), "package_registry"), MostConfident, 1)

DocsPortalPreferred(c) ==
  LET preference == <<"docs_portal", "api_docs", "release_feed", "package_registry">>
  IN  ByBest(Kinds, c.current, FirstPlace(LatestTrain(c), preference), MostConfident, 3)

LatestMirrorMajority(c) == ByMajority(Kinds, c.current, LatestTrain(c), 4)

BudgetBucket(c, consensus, challenger) ==
  LET train == LatestTrain(c)
      kept == CurrentSupport(train, c.current)
      rollback == RollbackSupport(train)
      dominant == DominantChallengerTrains(consensus)
      keepers == CurrentConsensusTrainCount(consensus)
      replacers == Occurrences(dominant, Present(consensus))
      returners == RollbackConsensusTrainCount(consensus)
  IN  FirstMatch(<<
        <<rollback >= Points(550), "rollback">>,
        <<MirrorConflict(train, c.current), "unknown">>,
        <<challenger.score > kept + Points(100) /\ Cardinality(PlacesOf(challenger.evidence)) >= 2
            /\ replacers >= keepers, dominant>>,
        <<keepers >= 2 /\ kept >= Points(650) /\ returners <= 1, "current">>,
        <<kept >= Points(850) /\ FreshSignalCount(train) >= 3 /\ challenger.score <= Points(350)
            /\ rollback < Points(100) /\ replacers = 0 /\ returners <= 1, "current">>,
        <<keepers >= 2 /\ FreshSignalCount(train) < 2 /\ challenger.score <= Points(350),
          "current">>,
        <<TRUE, "unknown">> >>)
MirrorBudget(c) ==
  Given(<<Consensus(c), BestChallengerSupport(LatestTrain(c), c.current)>>, LAMBDA seen :
    Settle(Kinds, c.current, BudgetBucket(c, seen[1], seen[2]), 6))

Variants == <<"registry_only", "docs_portal_preferred", "latest_mirror_majority",
              "mirror_budget">>

Answers(c) ==
  [registry_only          |-> RegistryOnly(c),
   docs_portal_preferred  |-> DocsPortalPreferred(c),
   latest_mirror_majority |-> LatestMirrorMajority(c),
   mirror_budget          |-> MirrorBudget(c)]

Matches(c, d) == d.kind = c.kind /\ d.reference = c.reference

Source ==
  [registry_only          |-> Metrics(60, 4, 5, 5, 1),
   docs_portal_preferred  |-> Metrics(64, 7, 5, 5, 4),
   latest_mirror_majority |-> Metrics(93, 10, 5, 7, 0),
   mirror_budget          |-> Metrics(155, 18, 5, 8, 8)]

Extensibility(s) ==
  Clamp(100 - 8 * s.hardcoded - 2 * s.branches + 4 * s.evidence + 2 * s.helpers)

Report(cases) ==
  ReportOf(cases, Answers, Matches, LAMBDA c, d : d.signals, Source, Extensibility)

ProvisionalFrontier(report) == LastGreatest(FrontierOf(Variants, report), report, CheaperOrRigid)

Section(cases) ==
  Given(Report(cases), LAMBDA report :
    Shown(Variants, Len(cases), report, ProvisionalFrontier(report)))
=============================================================================
