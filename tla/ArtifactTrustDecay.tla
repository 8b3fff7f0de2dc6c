------------------------- MODULE ArtifactTrustDecay --------------------------
(***************************************************************************)
(* experiments/artifact_trust_decay: how far the artifacts of older release*)
(* trains still count when the latest train is weak.                       *)
(***************************************************************************)
EXTENDS Evidence

Artifact(place, kind, reference, confidence) ==
  [place |-> place, kind |-> kind, reference |-> reference, confidence |-> confidence]
Train(artifacts) == artifacts

Case(current, trains, kind, reference) ==
  [current |-> current, trains |-> trains, kind |-> kind, reference |-> reference]

Cases == <<
  Case("declared_checkpoint",
       <<Train(<<Artifact("changelog", "keep_promoted", "declared_checkpoint", 84),
                 Artifact("release_notes", "keep_promoted", "declared_checkpoint", 90)>>),
         Train(<<Artifact("changelog", "keep_promoted", "declared_checkpoint", 87),
                 Artifact("release_notes", "keep_promoted", "declared_checkpoint", 93)>>)>>,
       "trust_confirmed", "declared_checkpoint"),
  Case("catalog_score",
       <<Train(<<Artifact("changelog", "keep_promoted", "catalog_score", 82),
                 Artifact("release_notes", "keep_promoted", "catalog_score", 88)>>),
         Train(<<Artifact("changelog", "replace_reference", "pipeline_router", 90),
                 Artifact("release_notes", "replace_reference", "pipeline_router", 94)>>),
         Train(<<Artifact("changelog", "keep_promoted", "pipeline_router", 85),
                 Artifact("release_notes", "keep_promoted", "pipeline_router", 92)>>)>>,
       "trust_superseded", "pipeline_router"),
  Case("prompt_constrained",
       <<Train(<<Artifact("changelog", "keep_promoted", "prompt_constrained", 86),
                 Artifact("release_notes", "keep_promoted", "prompt_constrained", 91)>>),
         Train(<<Artifact("changelog", "keep_promoted", "prompt_constrained", 89),
                 Artifact("release_notes", "replace_reference", "schema_constrained", 91)>>)>>,
       "trust_decay", None),
  Case("tolerant_contract",
       <<Train(<<Artifact("changelog", "keep_promoted", "tolerant_contract", 81),
                 Artifact("release_notes", "keep_promoted", "tolerant_contract", 88)>>),
         Train(<<Artifact("changelog", "keep_promoted", "tolerant_contract", 84),
                 Artifact("release_notes", "keep_promoted", "tolerant_contract", 90),
                 Artifact("rollback_notes", "rollback_reference", "tolerant_contract", 96)>>)>>,
       "trust_rejected", None),
  Case("resume_aware_replan",
       <<Train(<<Artifact("rollback_notes", "rollback_reference", "resume_aware_replan", 95),
                 Artifact("release_notes", "rollback_reference", "resume_aware_replan", 92)>>),
         Train(<<Artifact("changelog", "keep_promoted", "resume_aware_replan", 87),
                 Artifact("release_notes", "keep_promoted", "resume_aware_replan", 94)>>),
         Train(<<Artifact("changelog", "keep_promoted", "resume_aware_replan", 88),
                 Artifact("release_notes", "keep_promoted", "resume_aware_replan", 93)>>)>>,
       "trust_confirmed", "resume_aware_replan"),
  Case("failure_aware_merge",
       <<Train(<<Artifact("changelog", "keep_promoted", "failure_aware_merge", 84),
                 Artifact("release_notes", "keep_promoted", "failure_aware_merge", 89)>>),
         Train(<<Artifact("changelog", "keep_promoted", "failure_aware_merge", 58)>>)>>,
       "trust_decay", None),
  Case("stream_reducer",
       <<Train(<<Artifact("changelog", "keep_promoted", "stream_reducer", 86),
                 Artifact("release_notes", "keep_promoted", "stream_reducer", 91)>>),
         Train(<<Artifact("changelog", "keep_promoted", "stream_reducer", 88),
                 Artifact("release_notes", "keep_promoted", "stream_reducer", 92)>>),
         Train(<<Artifact("changelog", "replace_reference", "action_state_join", 78)>>)>>,
       "trust_confirmed", "stream_reducer"),
  Case("mock",
       <<Train(<<Artifact("changelog", "keep_promoted", "mock", 81),
                 Artifact("release_notes", "keep_promoted", "mock", 88)>>),
         Train(<<Artifact("rollback_notes", "rollback_reference", "mock", 84)>>),
         Train(<<Artifact("changelog", "keep_promoted", "mock", 72)>>)>>,
       "trust_decay", None),
  Case("documented_chain",
       <<Train(<<Artifact("changelog", "keep_promoted", "documented_chain", 83),
                 Artifact("release_notes", "keep_promoted", "documented_chain", 88)>>),
         Train(<<Artifact("changelog", "replace_reference", "lineage_budget", 89),
                 Artifact("release_notes", "replace_reference", "lineage_budget", 96)>>)>>,
       "trust_superseded", "lineage_budget") >>

ReferenceNames == <<"action_state_join", "catalog_score", "declared_checkpoint",
                    "documented_chain", "failure_aware_merge", "lineage_budget", "mock",
                    "pipeline_router", "prompt_constrained", "resume_aware_replan",
                    "schema_constrained", "stream_reducer", "tolerant_contract">>

Kinds == [confirmed |-> "trust_confirmed", superseded |-> "trust_superseded",
          against |-> "trust_rejected", open |-> "trust_decay"]

\* Without a train every variant answers what it answers for a train without artifacts.
LatestTrain(c) == IF c.trains = <<>> THEN <<>> ELSE Last(c.trains)

SourceWeight(source) ==
  CASE source = "rollback_notes" -> 6
    [] source = "release_notes" -> 5
    [] source = "changelog" -> 4
    [] OTHER -> 3
ArtifactScore(x) == SourceWeight(x.place) * x.confidence

\* Support counts every artifact; conflicts and strong signals only those of 0.75 and more.
CurrentSupport(train, current) == Weigh(For(train, current), ArtifactScore)
BestChallengerSupport(train, current) ==
  BestChallenger(ReferenceNames, train, current, ArtifactScore, LAMBDA artifacts : <<>>)
RollbackSupport(train) == Weigh(Against(train), ArtifactScore)
StrongSignalCount(train) == Len(AtLeast(train, 75))
TrainHasConflict(train, current) == Conflict(AtLeast(train, 75), current)

\* What the artifacts of a train agree on: "rollback", "current", a challenger or nothing.
TrainConsensus(train, current) ==
  LET kept == CurrentSupport(train, current)
      challenger == BestChallengerSupport(train, current)
      rollback == RollbackSupport(train)
      Leads(score, other) == score > other + 100
  IN  FirstMatch(<<
        <<TrainHasConflict(train, current), None>>,
        <<rollback >= 550 /\ Leads(rollback, kept) /\ Leads(rollback, challenger.score),
          "rollback">>,
        <<challenger.score >= 650 /\ Leads(challenger.score, kept)
            /\ Leads(challenger.score, rollback), challenger.reference>>,
        <<kept >= 650 /\ Leads(kept, challenger.score) /\ Leads(kept, rollback), "current">>,
        <<TRUE, None>> >>)
Consensus(c) == [i \in DOMAIN c.trains |-> TrainConsensus(c.trains[i], c.current)]
CurrentConsensusTrainCount(consensus) == Occurrences("current", consensus)
RollbackConsensusTrainCount(consensus) == Occurrences("rollback", consensus)
DominantChallengerTrains(consensus) == MajorityOf(ReferenceNames, consensus)

\* The artifacts of a source in the latest train that has one.
LatestSourceArtifacts(c, source) ==
  LET i == SelectLastInSeq(c.trains, LAMBDA train : OfPlace(train, source) # <<>>)
  IN  IF i = 0 THEN <<>> ELSE OfPlace(c.trains[i], source)
AnyHighConfidenceRollback(c) ==
  \E train \in ToSet(c.trains) : Against(AtLeast(OfPlace(train, "rollback_notes"), 80)) # <<>>

LatestTrainOnly(c) == ByBest(Kinds, c.current, LatestTrain(c), MostConfident, 1)

\* Release notes, then the changelog: the first whose latest artifact names a reference.
StaticSourcePriority(c) ==
  LET named == Present([i \in 1 .. 2 |->
        LET found == LatestSourceArtifacts(c, <<"release_notes", "changelog">>[i])
        IN  IF found = <<>> THEN None ELSE MostConfident(found).reference])
      bucket == FirstMatch(<<
        <<AnyHighConfidenceRollback(c), "rollback">>,
        <<named = <<>>, "unknown">>,
        <<named # <<>> /\ Head(named) = c.current, "current">>,
        <<TRUE, FirstPresent(named)>> >>)
  IN  Settle(Kinds, c.current, bucket, 3)

PerTrainMajority(c) == ByMajority(Kinds, c.current, LatestTrain(c), 4)

BudgetBucket(c, consensus, challenger) ==
  LET train == LatestTrain(c)
      kept == CurrentSupport(train, c.current)
      strong == StrongSignalCount(train)
      dominant == DominantChallengerTrains(consensus)
      keepers == CurrentConsensusTrainCount(consensus)
      replacers == Occurrences(dominant, Present(consensus))
      returners == RollbackConsensusTrainCount(consensus)
  IN  FirstMatch(<<
        <<RollbackSupport(train) >= 550, "rollback">>,
        <<TrainHasConflict(train, c.current), "unknown">>,
        <<returners > 0 /\ strong < 2, "unknown">>,
        <<challenger.score > kept /\ strong >= 2 /\ replacers >= keepers,
          dominant>>,
        <<keepers >= 2 /\ strong < 2 /\ challenger.score <= 350 /\ returners = 0, "current">>,
        <<keepers >= replacers + 1 /\ kept >= 700 /\ returners <= (IF keepers >= 2 THEN 1 ELSE 0),
          "current">>,
        <<TRUE, "unknown">> >>)
TrustDecayBudget(c) ==
  Given(<<Consensus(c), BestChallengerSupport(LatestTrain(c), c.current)>>, LAMBDA seen :
    Settle(Kinds, c.current, BudgetBucket(c, seen[1], seen[2]), 6))

Variants == <<"latest_train_only", "static_source_priority", "per_train_majority",
              "trust_decay_budget">>

Answers(c) ==
  [latest_train_only      |-> LatestTrainOnly(c),
   static_source_priority |-> StaticSourcePriority(c),
   per_train_majority     |-> PerTrainMajority(c),
   trust_decay_budget     |-> TrustDecayBudget(c)]

Matches(c, d) == d.kind = c.kind /\ d.reference = c.reference

Source ==
  [latest_train_only      |-> Metrics(71, 5, 5, 6, 1),
   static_source_priority |-> Metrics(59, 5, 5, 4, 2),
   per_train_majority     |-> Metrics(94, 10, 5, 7, 1),
   trust_decay_budget     |-> Metrics(138, 19, 5, 9, 9)]

Extensibility(s) ==
  Clamp(100 - 8 * s.hardcoded - 2 * s.branches + 4 * s.evidence + 2 * s.helpers)

Report(cases) ==
  ReportOf(cases, Answers, Matches, LAMBDA c, d : d.signals, Source, Extensibility)

ProvisionalFrontier(report) == LastGreatest(FrontierOf(Variants, report), report, CheaperOrRigid)

Section(cases) ==
  Given(Report(cases), LAMBDA report :
    Shown(Variants, Len(cases), report, ProvisionalFrontier(report)))
=============================================================================
