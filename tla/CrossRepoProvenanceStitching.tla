-------------------- MODULE CrossRepoProvenanceStitching ---------------------
(***************************************************************************)
(* experiments/cross_repo_provenance_stitching: whether the artifacts of   *)
(* several repositories join into one release chain.                       *)
(***************************************************************************)
EXTENDS Evidence

\* The place of an artifact is its repository.
Artifact(place, source, tag, kind, reference, confidence) ==
  [place |-> place, source |-> source, tag |-> tag, kind |-> kind, reference |-> reference,
   confidence |-> confidence]

Case(current, tags, artifacts, kind, reference) ==
  [current |-> current, tags |-> tags, artifacts |-> artifacts, kind |-> kind,
   reference |-> reference]

Cases == <<
  Case("declared_checkpoint", <<"v0.1.0", "v0.2.0", "v0.3.0">>,
       <<Artifact("runtime_repo", "changelog", "v0.1.0", "keep_promoted", "declared_checkpoint",
                  85),
         Artifact("runtime_repo", "changelog", "v0.2.0", "keep_promoted", "declared_checkpoint",
                  86),
         Artifact("runtime_repo", "changelog", "v0.3.0", "keep_promoted", "declared_checkpoint",
                  88)>>,
       "stitched_confirmed", "declared_checkpoint"),
  Case("resume_aware_replan", <<"v0.4.0", "v0.5.0", "v0.6.0">>,
       <<Artifact("runtime_repo", "changelog", "v0.4.0", "keep_promoted",
                  "current_gateway_clone", 84),
         Artifact("docs_repo", "release_notes", "v0.5.0", "replace_reference",
                  "resume_aware_replan", 93),
         Artifact("release_repo", "changelog", "v0.6.0", "keep_promoted", "resume_aware_replan",
                  91)>>,
       "stitched_superseded", "resume_aware_replan"),
  Case("failure_aware_merge", <<"v0.7.0", "v0.8.0", "v0.9.0">>,
       <<Artifact("runtime_repo", "changelog", "v0.7.0", "keep_promoted", "failure_aware_merge",
                  84),
         Artifact("runtime_repo", "changelog", "v0.8.0", "keep_promoted", "failure_aware_merge",
                  88),
         Artifact("docs_repo", "release_notes", "v0.8.0", "keep_promoted",
                  "failure_aware_merge", 92),
         Artifact("docs_repo", "release_notes", "v0.9.0", "keep_promoted",
                  "failure_aware_merge", 93),
         Artifact("release_repo", "changelog", "v0.9.0", "keep_promoted", "failure_aware_merge",
                  87)>>,
       "stitched_confirmed", "failure_aware_merge"),
  Case("prompt_constrained", <<"v1.0.0", "v1.1.0">>,
       <<Artifact("runtime_repo", "changelog", "v1.0.0", "keep_promoted", "prompt_constrained",
                  86),
         Artifact("runtime_repo", "changelog", "v1.1.0", "keep_promoted", "prompt_constrained",
                  88),
         Artifact("docs_repo", "release_notes", "v1.1.0", "rollback_reference",
                  "prompt_constrained", 95)>>,
       "stitched_rejected", None),
  Case("catalog_score", <<"v1.2.0", "v1.3.0", "v1.4.0">>,
       <<Artifact("runtime_repo", "changelog", "v1.2.0", "keep_promoted", "catalog_score", 84),
         Artifact("runtime_repo", "changelog", "v1.3.0", "keep_promoted", "catalog_score", 83),
         Artifact("docs_repo", "release_notes", "v1.4.0", "replace_reference",
                  "pipeline_router", 94),
         Artifact("release_repo", "changelog", "v1.4.0", "replace_reference", "pipeline_router",
                  91)>>,
       "stitched_superseded", "pipeline_router"),
  Case("mock", <<"v1.5.0", "v1.6.0">>,
       <<Artifact("runtime_repo", "changelog", "v1.5.0", "keep_promoted", "mock", 82),
         Artifact("docs_repo", "release_notes", "v1.6.0", "keep_promoted", "mock", 88),
         Artifact("release_repo", "rollback_notes", "v1.6.0", "rollback_reference", "mock",
                  97)>>,
       "stitched_rejected", None),
  Case("tolerant_contract", <<"v1.7.0", "v1.8.0">>,
       <<Artifact("runtime_repo", "changelog", "v1.7.0", "keep_promoted", "tolerant_contract",
                  84),
         Artifact("docs_repo", "release_notes", "v1.7.0", "keep_promoted", "tolerant_contract",
                  91),
         Artifact("release_repo", "changelog", "v1.7.0", "keep_promoted", "tolerant_contract",
                  86),
         Artifact("runtime_repo", "changelog", "v1.8.0", "keep_promoted", "tolerant_contract",
                  87),
         Artifact("docs_repo", "release_notes", "v1.8.0", "keep_promoted", "tolerant_contract",
                  92),
         Artifact("release_repo", "changelog", "v1.8.0", "keep_promoted", "tolerant_contract",
                  88)>>,
       "stitched_confirmed", "tolerant_contract"),
  Case("lineage_budget", <<"v1.9.0", "v2.0.0">>,
       <<Artifact("runtime_repo", "changelog", "v1.9.0", "keep_promoted", "documented_chain",
                  82),
         Artifact("docs_repo", "release_notes", "v2.0.0", "replace_reference", "lineage_budget",
                  95),
         Artifact("release_repo", "changelog", "v2.0.0", "replace_reference", "lineage_budget",
                  92)>>,
       "stitched_superseded", "lineage_budget") >>

Kinds == [confirmed |-> "stitched_confirmed", superseded |-> "stitched_superseded",
          against |-> "stitched_rejected", open |-> "stitched_gap"]

OfTag(c, tag, least) == SelectSeq(AtLeast(c.artifacts, least), LAMBDA a : a.tag = tag)
RepoArtifacts(c, repository, tag, least) == OfPlace(OfTag(c, tag, least), repository)
BestArtifact(c, tag, least) == MostConfident(OfTag(c, tag, least))

ArtifactScore(a) ==
  a.confidence * (CASE a.source = "rollback_notes" -> 6
                    [] a.source = "release_notes" -> 5
                    [] a.source = "changelog" -> 4
                    [] OTHER -> 3)

\* The (decision, reference) pairs of a tag with their weight and their repositories. They are
\* collected in a BTreeMap and sorted, stably: SignatureOrder is the order of the map's keys.
SignatureOf(a) == <<a.kind, a.reference>>
SignatureOrder ==
  <<<<"keep_promoted", "catalog_score">>,
    <<"keep_promoted", "current_gateway_clone">>,
    <<"keep_promoted", "declared_checkpoint">>,
    <<"keep_promoted", "documented_chain">>,
    <<"keep_promoted", "failure_aware_merge">>,
    <<"keep_promoted", "mock">>,
    <<"keep_promoted", "prompt_constrained">>,
    <<"keep_promoted", "resume_aware_replan">>,
    <<"keep_promoted", "tolerant_contract">>,
    <<"replace_reference", "lineage_budget">>,
    <<"replace_reference", "pipeline_router">>,
    <<"replace_reference", "resume_aware_replan">>,
    <<"rollback_reference", "mock">>,
    <<"rollback_reference", "prompt_constrained">> >>
Signed(evidence, signature) == SelectSeq(evidence, LAMBDA a : SignatureOf(a) = signature)
TagSignatures(c, tag, least) ==
  LET evidence == OfTag(c, tag, least)
      found == SelectSeq(SignatureOrder, LAMBDA s : Signed(evidence, s) # <<>>)
  IN  [i \in DOMAIN found |->
        [signature |-> found[i], score |-> Weigh(Signed(evidence, found[i]), ArtifactScore),
         repositories |-> Cardinality(PlacesOf(Signed(evidence, found[i])))]]
Heavier(l, r) == LexLess(<<-l.score, -l.repositories>>, <<-r.score, -r.repositories>>)
BestSignature(signatures) == FirstBest(signatures, LAMBDA l, r : Heavier(r, l))
TagConflict(c, tag, least) == Len(TagSignatures(c, tag, least)) > 1
\* The artifacts behind the best signature two repositories share.
MatchingRepoPair(c, tag, least) ==
  LET shared == SelectSeq(TagSignatures(c, tag, least), LAMBDA s : s.repositories >= 2)
  IN  IF shared = <<>> THEN <<>>
      ELSE Signed(OfTag(c, tag, least), BestSignature(shared).signature)

Confirmed(c, signals) == Decision(Kinds.confirmed, c.current, signals)
Superseded(reference, signals) == Decision(Kinds.superseded, reference, signals)
Rejected(signals) == Decision(Kinds.against, None, signals)
Gap(signals) == Decision(Kinds.open, None, signals)

ClassifyStitchedChain(c, stitched, signals) ==
  LET IsCurrent(x) == x.reference = c.current
      Replaces(x) == x.kind = "replace_reference"
      replaced == \E x \in ToSet(stitched) : Replaces(x)
      ends == stitched # <<>> /\ IsCurrent(Last(stitched))
  IN  FirstMatch(<<
        <<\E x \in ToSet(stitched) : x.kind = "missing_provenance" \/ x.reference = None,
          Gap(signals)>>,
        <<\E x \in ToSet(stitched) : RollsBack(x), Rejected(signals)>>,
        <<~ends /\ ~replaced, Gap(signals)>>,
        <<~ends, Superseded(FirstPresent([i \in DOMAIN stitched |->
                              stitched[Len(stitched) + 1 - i].reference]), signals)>>,
        <<replaced /\ ~IsCurrent(Head(stitched)), Superseded(c.current, signals)>>,
        <<\A x \in ToSet(stitched) : IsCurrent(x) /\ ~Replaces(x), Confirmed(c, signals)>>,
        <<TRUE, Gap(signals)>> >>)

\* Tag by tag: the first tag that is not filled decides; if all are, the chain does. Filling is
\* the evidence whose most confident artifact a tag takes, none if the tag stops the walk. The
\* tags of a case differ.
Stitch(c, Filling(_), Stopped(_), signals) ==
  LET open == SelectSeq(c.tags, LAMBDA tag : Filling(tag) = <<>>)
  IN  IF open # <<>> THEN Stopped(Head(open))
      ELSE ClassifyStitchedChain(
             c, [i \in DOMAIN c.tags |-> MostConfident(Filling(c.tags[i]))], signals)

RuntimeRepoOnly(c) ==
  Stitch(c, LAMBDA tag : RepoArtifacts(c, "runtime_repo", tag, 70), LAMBDA tag : Gap(1), 1)

DocsRepoPreferred(c) ==
  LET preference == <<"docs_repo", "release_repo", "runtime_repo">>
  IN  Stitch(c, LAMBDA tag : FirstPlace(OfTag(c, tag, 70), preference), LAMBDA tag : Gap(3), 3)

TagJoin(c) ==
  Stitch(c, LAMBDA tag : MatchingRepoPair(c, tag, 80),
         LAMBDA tag : IF TagConflict(c, tag, 80) THEN Rejected(4) ELSE Gap(4), 4)

\* A tag is rejected for one rollback that is certain or for rollbacks that weigh enough.
TagIsRejected(c, tag) ==
  \/ Against(OfTag(c, tag, 90)) # <<>>
  \/ \E s \in ToSet(TagSignatures(c, tag, 70)) :
       s.signature[1] = "rollback_reference" /\ s.score >= 450
TagIsAccepted(c, tag) ==
  LET signatures == TagSignatures(c, tag, 70)
      best == BestSignature(signatures)
      second == Max({0} \cup {s.score : s \in ToSet(signatures) \ {best}})
  IN  /\ signatures # <<>>
      /\ \/ best.repositories >= 2 /\ best.score >= 650
         \/ Len(signatures) = 1 /\ best.score >= 320
         \/ best.score >= 320 /\ best.score - second >= 140
              /\ best.signature[1] # "rollback_reference"
      /\ SignatureOf(BestArtifact(c, tag, 70)) = best.signature

StitchingBudget(c) ==
  Stitch(c,
         LAMBDA tag : IF TagIsRejected(c, tag) \/ ~TagIsAccepted(c, tag) THEN <<>>
                      ELSE OfTag(c, tag, 70),
         LAMBDA tag : IF TagIsRejected(c, tag) THEN Rejected(6) ELSE Gap(6), 6)

Variants == <<"runtime_repo_only", "docs_repo_preferred", "tag_join", "stitching_budget">>

Answers(c) ==
  [runtime_repo_only   |-> RuntimeRepoOnly(c),
   docs_repo_preferred |-> DocsRepoPreferred(c),
   tag_join            |-> TagJoin(c),
   stitching_budget    |-> StitchingBudget(c)]

Matches(c, d) == d.kind = c.kind /\ d.reference = c.reference

Source ==
  [runtime_repo_only   |-> Metrics(42, 3, 5, 1, 2),
   docs_repo_preferred |-> Metrics(45, 5, 5, 1, 4),
   tag_join            |-> Metrics(51, 5, 5, 2, 3),
   stitching_budget    |-> Metrics(112, 21, 5, 5, 3)]

Extensibility(s) ==
  Clamp(100 - 8 * s.hardcoded - 2 * s.branches + 4 * s.evidence + 2 * s.helpers)

Report(cases) ==
  ReportOf(cases, Answers, Matches, LAMBDA c, d : d.signals, Source, Extensibility)

ProvisionalFrontier(report) == LastGreatest(FrontierOf(Variants, report), report, CheaperOrRigid)

Section(cases) ==
  Given(Report(cases), LAMBDA report :
    Shown(Variants, Len(cases), report, ProvisionalFrontier(report)))
=============================================================================
