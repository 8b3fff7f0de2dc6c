------------------------- MODULE ProvenanceBackfill --------------------------
(***************************************************************************)
(* experiments/provenance_backfill: whether release artifacts can fill the *)
(* undocumented cuts of a release chain, and what the chain then shows.    *)
(***************************************************************************)
EXTENDS Suite

Cut(tag, kind, reference, documented) ==
  [tag |-> tag, kind |-> kind, reference |-> reference, documented |-> documented]
\* Confidences are hundredths.
Artifact(source, tag, kind, reference, confidence) ==
  [source |-> source, tag |-> tag, kind |-> kind, reference |-> reference,
   confidence |-> confidence]

Case(current, cuts, artifacts, kind, reference) ==
  [current |-> current, cuts |-> cuts, artifacts |-> artifacts, kind |-> kind,
   reference |-> reference]

Cases == <<
  Case("declared_checkpoint",
       <<Cut("v0.1.0", "keep_promoted", "declared_checkpoint", TRUE),
         Cut("v0.2.0", "keep_promoted", "declared_checkpoint", TRUE),
         Cut("v0.3.0", "keep_promoted", "declared_checkpoint", TRUE)>>,
       <<>>, "backfill_confirmed", "declared_checkpoint"),
  Case("declared_checkpoint",
       <<Cut("v0.1.0", "keep_promoted", "declared_checkpoint", TRUE),
         Cut("v0.2.0", "missing_provenance", None, FALSE),
         Cut("v0.3.0", "keep_promoted", "declared_checkpoint", TRUE)>>,
       <<Artifact("changelog", "v0.2.0", "keep_promoted", "declared_checkpoint", 92)>>,
       "backfill_confirmed", "declared_checkpoint"),
  Case("pipeline_router",
       <<Cut("v0.4.0", "keep_promoted", "catalog_score", TRUE),
         Cut("v0.5.0", "missing_provenance", None, FALSE),
         Cut("v0.6.0", "keep_promoted", "pipeline_router", TRUE)>>,
       <<Artifact("changelog", "v0.5.0", "replace_reference", "pipeline_router", 94),
         Artifact("release_notes", "v0.5.0", "replace_reference", "pipeline_router", 91)>>,
       "backfill_superseded", "pipeline_router"),
  Case("prompt_constrained",
       <<Cut("v0.7.0", "keep_promoted", "prompt_constrained", TRUE),
         Cut("v0.8.0", "missing_provenance", None, FALSE),
         Cut("v0.9.0", "keep_promoted", "prompt_constrained", TRUE)>>,
       <<Artifact("changelog", "v0.8.0", "keep_promoted", "prompt_constrained", 90),
         Artifact("release_notes", "v0.8.0", "rollback_reference", "prompt_constrained", 93)>>,
       "backfill_rejected", None),
  Case("resume_aware_replan",
       <<Cut("v1.0.0", "keep_promoted", "resume_aware_replan", TRUE),
         Cut("v1.1.0", "missing_provenance", None, FALSE),
         Cut("v1.2.0", "keep_promoted", "resume_aware_replan", TRUE)>>,
       <<Artifact("changelog", "v1.1.0", "keep_promoted", "resume_aware_replan", 54)>>,
       "backfill_gap", None),
  Case("tolerant_contract",
       <<Cut("v1.3.0", "keep_promoted", "tolerant_contract", TRUE),
         Cut("v1.4.0", "missing_provenance", None, FALSE),
         Cut("v1.5.0", "keep_promoted", "tolerant_contract", TRUE)>>,
       <<Artifact("release_notes", "v1.4.0", "rollback_reference", "tolerant_contract", 97)>>,
       "backfill_rejected", None),
  Case("failure_aware_merge",
       <<Cut("v1.6.0", "keep_promoted", "failure_aware_merge", TRUE),
         Cut("v1.7.0", "missing_provenance", None, FALSE),
         Cut("v1.8.0", "keep_promoted", "failure_aware_merge", TRUE)>>,
       <<Artifact("release_notes", "v1.7.0", "keep_promoted", "failure_aware_merge", 96)>>,
       "backfill_confirmed", "failure_aware_merge"),
  Case("stream_reducer",
       <<Cut("v1.9.0", "keep_promoted", "stream_reducer", TRUE),
         Cut("v2.0.0", "missing_provenance", None, FALSE),
         Cut("v2.1.0", "keep_promoted", "stream_reducer", TRUE)>>,
       <<Artifact("changelog", "v2.0.0", "replace_reference", "action_state_join", 68)>>,
       "backfill_gap", None),
  Case("lineage_budget",
       <<Cut("v2.2.0", "keep_promoted", "documented_chain", TRUE),
         Cut("v2.3.0", "replace_reference", "lineage_budget", TRUE),
         Cut("v2.4.0", "keep_promoted", "lineage_budget", TRUE)>>,
       <<>>, "backfill_superseded", "lineage_budget") >>

AllDocumented(c) == \A x \in ToSet(c.cuts) : x.documented
MissingTags(c) ==
  LET missing == SelectSeq(c.cuts, LAMBDA x : ~x.documented)
  IN  [i \in DOMAIN missing |-> missing[i].tag]
DocumentedHasRollback(c) ==
  \E x \in ToSet(c.cuts) : x.documented /\ x.kind = "rollback_reference"

\* The artifacts of a cut that are confident enough, of every source or of one.
Artifacts(c, tag, least) ==
  SelectSeq(c.artifacts, LAMBDA a : a.tag = tag /\ a.confidence >= least)
SourceArtifacts(c, tag, source, least) ==
  SelectSeq(Artifacts(c, tag, least), LAMBDA a : a.source = source)
MostConfident(artifacts) == LastBest(artifacts, LAMBDA a, b : a.confidence < b.confidence)

Agree(a, b) == a.kind = b.kind /\ a.reference = b.reference
MatchingDualArtifact(c, tag, least) ==
  LET changelog == SourceArtifacts(c, tag, "changelog", least)
      notes == SourceArtifacts(c, tag, "release_notes", least)
  IN  /\ changelog # <<>>
      /\ notes # <<>>
      /\ Agree(MostConfident(changelog), MostConfident(notes))
ArtifactConflict(c, tag, least) ==
  \E a, b \in ToSet(Artifacts(c, tag, least)) : ~Agree(a, b)
AnyTrustedRollbackArtifact(c, least) ==
  \E a \in ToSet(c.artifacts) : a.kind = "rollback_reference" /\ a.confidence >= least

\* base_resolved_cuts, then apply_artifact with the best artifact a missing tag has. The tags of
\* a case differ.
ResolvedCuts(c, ArtifactsFor(_)) ==
  LET Resolved(x) ==
        IF x.documented THEN x
        ELSE IF ArtifactsFor(x.tag) = <<>> THEN Cut(x.tag, "missing_provenance", None, FALSE)
        ELSE MostConfident(ArtifactsFor(x.tag))
  IN  [i \in DOMAIN c.cuts |-> Resolved(c.cuts[i])]

Confirmed(c, signals) == Decision("backfill_confirmed", c.current, signals)
Superseded(c, signals) == Decision("backfill_superseded", c.current, signals)
Rejected(signals) == Decision("backfill_rejected", None, signals)
Gap(signals) == Decision("backfill_gap", None, signals)

ClassifyResolvedChain(c, cuts, signals) ==
  LET IsCurrent(x) == x.reference = c.current
      Replaces(x) == x.kind = "replace_reference"
  IN  FirstMatch(<<
        <<\E x \in ToSet(cuts) : x.kind = "missing_provenance" \/ x.reference = None,
          Gap(signals)>>,
        <<\E x \in ToSet(cuts) : x.kind = "rollback_reference", Rejected(signals)>>,
        <<cuts = <<>> \/ ~IsCurrent(Last(cuts)), Gap(signals)>>,
        <<cuts # <<>> /\ ~IsCurrent(Head(cuts))
            /\ \E x \in ToSet(cuts) : Replaces(x) /\ IsCurrent(x),
          Superseded(c, signals)>>,
        <<\A x \in ToSet(cuts) : IsCurrent(x) /\ ~Replaces(x), Confirmed(c, signals)>>,
        <<TRUE, Gap(signals)>> >>)

DocumentedOnly(c) == FirstMatch(<<
  <<DocumentedHasRollback(c), Rejected(1)>>,
  <<~AllDocumented(c), Gap(1)>>,
  <<TRUE, ClassifyResolvedChain(c, c.cuts, 1)>> >>)

ChangelogFirst(c) ==
  LET Changelog(tag) == SourceArtifacts(c, tag, "changelog", 50)
  IN  FirstMatch(<<
        <<DocumentedHasRollback(c) \/ AnyTrustedRollbackArtifact(c, 50), Rejected(3)>>,
        <<\E tag \in ToSet(MissingTags(c)) : Changelog(tag) = <<>>, Gap(3)>>,
        <<TRUE, ClassifyResolvedChain(c, ResolvedCuts(c, Changelog), 3)>> >>)

\* The first missing tag that cannot be filled decides.
DualArtifactMatch(c) ==
  LET unfilled == SelectSeq(MissingTags(c), LAMBDA tag :
                    ArtifactConflict(c, tag, 75) \/ ~MatchingDualArtifact(c, tag, 75))
      Filling(tag) == SourceArtifacts(c, tag, "changelog", 75)
  IN  FirstMatch(<<
        <<DocumentedHasRollback(c) \/ AnyTrustedRollbackArtifact(c, 75), Rejected(4)>>,
        <<unfilled = <<>>, ClassifyResolvedChain(c, ResolvedCuts(c, Filling), 4)>>,
        <<unfilled # <<>> /\ ArtifactConflict(c, Head(unfilled), 75), Rejected(4)>>,
        <<TRUE, Gap(4)>> >>)

ArtifactLineageBudget(c) ==
  LET Filled(tag) == MatchingDualArtifact(c, tag, 70) \/ Artifacts(c, tag, 90) # <<>>
      Filling(tag) == IF MatchingDualArtifact(c, tag, 70)
                      THEN SourceArtifacts(c, tag, "changelog", 70) ELSE Artifacts(c, tag, 90)
  IN  FirstMatch(<<
        <<DocumentedHasRollback(c) \/ AnyTrustedRollbackArtifact(c, 80), Rejected(6)>>,
        <<\E tag \in ToSet(MissingTags(c)) : ArtifactConflict(c, tag, 75), Rejected(6)>>,
        <<\E tag \in ToSet(MissingTags(c)) : ~Filled(tag), Gap(6)>>,
        <<TRUE, ClassifyResolvedChain(c, ResolvedCuts(c, Filling), 6)>> >>)

Variants == <<"documented_only", "changelog_first", "dual_artifact_match",
              "artifact_lineage_budget">>

Answers(c) ==
  [documented_only         |-> DocumentedOnly(c),
   changelog_first         |-> ChangelogFirst(c),
   dual_artifact_match     |-> DualArtifactMatch(c),
   artifact_lineage_budget |-> ArtifactLineageBudget(c)]

Matches(c, d) == d.kind = c.kind /\ d.reference = c.reference

Source ==
  [documented_only         |-> Metrics(49, 3, 5, 2, 4),
   changelog_first         |-> Metrics(54, 6, 5, 2, 4),
   dual_artifact_match     |-> Metrics(60, 7, 5, 3, 5),
   artifact_lineage_budget |-> Metrics(86, 11, 5, 4, 8)]

Extensibility(s) ==
  Clamp(100 - 8 * s.hardcoded - 2 * s.branches + 4 * s.evidence + 2 * s.helpers)

Report(cases) ==
  ReportOf(cases, Answers, Matches, LAMBDA c, d : d.signals, Source, Extensibility)

ProvisionalFrontier(report) == LastGreatest(FrontierOf(Variants, report), report, CheaperOrRigid)

Section(cases) ==
  Given(Report(cases), LAMBDA report :
    Shown(Variants, Len(cases), report, ProvisionalFrontier(report)))
=============================================================================
