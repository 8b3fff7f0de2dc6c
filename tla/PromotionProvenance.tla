------------------------- MODULE PromotionProvenance -------------------------
(***************************************************************************)
(* experiments/promotion_provenance: whether the release history still     *)
(* accounts for the current reference of a suite.                          *)
(***************************************************************************)
EXTENDS Suite

Cut(kind, reference, documented) ==
  [kind |-> kind, reference |-> reference, documented |-> documented]

Case(current, cuts, kind, reference) ==
  [current |-> current, cuts |-> cuts, kind |-> kind, reference |-> reference]

Cases == <<
  Case("declared_checkpoint",
       <<Cut("promote_reference", "declared_checkpoint", TRUE),
         Cut("keep_promoted", "declared_checkpoint", TRUE),
         Cut("keep_promoted", "declared_checkpoint", TRUE)>>,
       "provenance_confirmed", "declared_checkpoint"),
  Case("pipeline_router",
       <<Cut("promote_reference", "catalog_score", TRUE),
         Cut("replace_reference", "pipeline_router", TRUE),
         Cut("keep_promoted", "pipeline_router", TRUE)>>,
       "provenance_superseded", "pipeline_router"),
  Case("prompt_constrained",
       <<Cut("promote_reference", "prompt_constrained", TRUE),
         Cut("keep_promoted", "prompt_constrained", FALSE),
         Cut("keep_promoted", "prompt_constrained", TRUE)>>,
       "provenance_gap", None),
  Case("tolerant_contract",
       <<Cut("promote_reference", "tolerant_contract", TRUE),
         Cut("keep_promoted", "tolerant_contract", TRUE),
         Cut("rollback_reference", "tolerant_contract", TRUE)>>,
       "provenance_broken", None),
  Case("stream_reducer",
       <<Cut("promote_reference", "stream_reducer", TRUE),
         Cut("defer_rollback", "stream_reducer", FALSE),
         Cut("keep_promoted", "stream_reducer", TRUE)>>,
       "provenance_gap", None),
  Case("resume_aware_replan",
       <<Cut("promote_reference", "current_gateway_clone", TRUE),
         Cut("replace_reference", "resume_aware_replan", FALSE),
         Cut("keep_promoted", "resume_aware_replan", TRUE)>>,
       "provenance_gap", None),
  Case("local",
       <<Cut("promote_reference", "mock", TRUE), Cut("replace_reference", "local", TRUE),
         Cut("rollback_reference", "local", TRUE)>>,
       "provenance_broken", None) >>

ReferenceNames == <<"catalog_score", "current_gateway_clone", "declared_checkpoint",
                    "local", "mock", "pipeline_router",
                    "prompt_constrained", "resume_aware_replan",
                    "stream_reducer", "tolerant_contract">>

LatestCut(c) == Last(c.cuts)
HasRollback(c) == \E x \in ToSet(c.cuts) : x.kind = "rollback_reference"
HasReplace(c) == \E x \in ToSet(c.cuts) : x.kind = "replace_reference"
AllDocumented(c) == \A x \in ToSet(c.cuts) : x.documented
MissingDocumentationCount(c) == Quantify(DOMAIN c.cuts, LAMBDA i : ~c.cuts[i].documented)
References(c) == Present([i \in DOMAIN c.cuts |-> c.cuts[i].reference])
OriginReference(c) == FirstPresent(References(c))
DocumentedSameReferenceChain(c) ==
  /\ AllDocumented(c)
  /\ ~HasRollback(c)
  /\ \A x \in ToSet(c.cuts) : x.reference = c.current /\ x.kind # "replace_reference"
DocumentedReplaceChainToCurrent(c) ==
  /\ AllDocumented(c)
  /\ ~HasRollback(c)
  /\ HasReplace(c)
  /\ LatestCut(c).reference = c.current
MajorityReference(c) == MajorityOf(ReferenceNames, References(c))

Confirmed(reference, signals) == Decision("provenance_confirmed", reference, signals)
Superseded(reference, signals) == Decision("provenance_superseded", reference, signals)
Broken(signals) == Decision("provenance_broken", None, signals)
Gap(signals) == Decision("provenance_gap", None, signals)

LatestCutOnly(c) == FirstMatch(<<
  <<c.cuts = <<>>, Gap(1)>>,
  <<LatestCut(c).kind = "rollback_reference", Broken(1)>>,
  <<~LatestCut(c).documented, Gap(1)>>,
  <<LatestCut(c).kind = "replace_reference", Superseded(LatestCut(c).reference, 1)>>,
  <<TRUE, Confirmed(LatestCut(c).reference, 1)>> >>)

DocumentedChain(c) == FirstMatch(<<
  <<HasRollback(c), Broken(3)>>,
  <<~AllDocumented(c), Gap(3)>>,
  <<HasReplace(c) /\ OriginReference(c) # c.current, Superseded(c.current, 3)>>,
  <<TRUE, Confirmed(c.current, 3)>> >>)

ReleaseMajority(c) == FirstMatch(<<
  <<HasRollback(c), Broken(2)>>,
  <<MajorityReference(c) = None, Gap(2)>>,
  <<MajorityReference(c) = c.current, Confirmed(c.current, 2)>>,
  <<TRUE, Superseded(MajorityReference(c), 2)>> >>)

ConfirmedBudget(c) ==
  When(DocumentedSameReferenceChain(c), 1800) + When(AllDocumented(c), 800)
    - 800 * MissingDocumentationCount(c) - When(HasRollback(c), 2400)
    - When(OriginReference(c) # c.current, 800)
SupersededBudget(c) ==
  When(DocumentedReplaceChainToCurrent(c), 1800) + When(AllDocumented(c), 600)
    - 800 * MissingDocumentationCount(c) - When(HasRollback(c), 2400)
BrokenBudget(c) == When(HasRollback(c), 2200) + 400 * MissingDocumentationCount(c)

LineageBudget(c) == FirstMatch(<<
  <<BrokenBudget(c) >= 1600, Broken(6)>>,
  <<SupersededBudget(c) >= 1400 /\ SupersededBudget(c) > ConfirmedBudget(c),
    Superseded(c.current, 6)>>,
  <<ConfirmedBudget(c) >= 1800, Confirmed(c.current, 6)>>,
  <<TRUE, Gap(6)>> >>)

Variants == <<"latest_cut_only", "documented_chain", "release_majority", "lineage_budget">>

Answers(c) ==
  [latest_cut_only  |-> LatestCutOnly(c),
   documented_chain |-> DocumentedChain(c),
   release_majority |-> ReleaseMajority(c),
   lineage_budget   |-> LineageBudget(c)]

Matches(c, d) == d.kind = c.kind /\ d.reference = c.reference

Source ==
  [latest_cut_only  |-> Metrics(52, 4, 5, 5, 1),
   documented_chain |-> Metrics(53, 5, 5, 4, 4),
   release_majority |-> Metrics(57, 4, 5, 4, 2),
   lineage_budget   |-> Metrics(107, 13, 8, 4, 10)]

Extensibility(s) ==
  Clamp(100 - 8 * s.hardcoded - 2 * s.branches + 4 * s.evidence + 2 * s.helpers)

Report(cases) ==
  ReportOf(cases, Answers, Matches, LAMBDA c, d : d.signals, Source, Extensibility)

ProvisionalFrontier(report) == LastGreatest(FrontierOf(Variants, report), report, CheaperOrRigid)

Section(cases) ==
  Given(Report(cases), LAMBDA report :
    Shown(Variants, Len(cases), report, ProvisionalFrontier(report)))
=============================================================================
