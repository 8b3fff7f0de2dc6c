------------------- MODULE PromotionEnvironmentProvenance --------------------
(***************************************************************************)
(* experiments/promotion_environment_provenance: whether the environments a*)
(* reference was rolled out to agree on it.                                *)
(***************************************************************************)
EXTENDS Suite

Snapshot(kind, reference, documented, critical) ==
  [kind |-> kind, reference |-> reference, documented |-> documented, critical |-> critical]

Case(current, snapshots, kind, reference) ==
  [current |-> current, snapshots |-> snapshots, kind |-> kind, reference |-> reference]

Cases == <<
  Case("declared_checkpoint",
       <<Snapshot("keep_promoted", "declared_checkpoint", TRUE, TRUE),
         Snapshot("keep_promoted", "declared_checkpoint", TRUE, FALSE),
         Snapshot("keep_promoted", "declared_checkpoint", TRUE, TRUE)>>,
       "environment_confirmed", "declared_checkpoint"),
  Case("catalog_score",
       <<Snapshot("replace_reference", "pipeline_router", TRUE, TRUE),
         Snapshot("keep_promoted", "catalog_score", TRUE, TRUE),
         Snapshot("replace_reference", "pipeline_router", TRUE, FALSE),
         Snapshot("replace_reference", "pipeline_router", TRUE, FALSE)>>,
       "environment_superseded", "pipeline_router"),
  Case("stream_reducer",
       <<Snapshot("keep_promoted", "stream_reducer", TRUE, TRUE),
         Snapshot("keep_promoted", "stream_reducer", TRUE, TRUE),
         Snapshot("replace_reference", "action_state_join", TRUE, FALSE),
         Snapshot("replace_reference", "action_state_join", TRUE, FALSE),
         Snapshot("replace_reference", "action_state_join", TRUE, FALSE)>>,
       "environment_gap", None),
  Case("prompt_constrained",
       <<Snapshot("keep_promoted", "prompt_constrained", FALSE, TRUE),
         Snapshot("keep_promoted", "prompt_constrained", TRUE, TRUE),
         Snapshot("keep_promoted", "prompt_constrained", TRUE, FALSE)>>,
       "environment_gap", None),
  Case("tolerant_contract",
       <<Snapshot("keep_promoted", "tolerant_contract", TRUE, FALSE),
         Snapshot("keep_promoted", "tolerant_contract", TRUE, TRUE),
         Snapshot("rollback_reference", "tolerant_contract", TRUE, TRUE)>>,
       "environment_blocked", None),
  Case("stream_reducer",
       <<Snapshot("defer_rollback", "stream_reducer", FALSE, FALSE),
         Snapshot("keep_promoted", "stream_reducer", TRUE, TRUE),
         Snapshot("keep_promoted", "stream_reducer", TRUE, FALSE)>>,
       "environment_gap", None),
  Case("resume_aware_replan",
       <<Snapshot("keep_promoted", "resume_aware_replan", TRUE, TRUE),
         Snapshot("keep_promoted", "resume_aware_replan", TRUE, FALSE),
         Snapshot("keep_promoted", "resume_aware_replan", TRUE, TRUE)>>,
       "environment_confirmed", "resume_aware_replan"),
  Case("mock",
       <<Snapshot("keep_promoted", "mock", TRUE, FALSE),
         Snapshot("rollback_reference", "mock", TRUE, TRUE),
         Snapshot("rollback_reference", "mock", TRUE, TRUE)>>,
       "environment_blocked", None),
  Case("failure_aware_merge",
       <<Snapshot("keep_promoted", "failure_aware_merge", TRUE, TRUE),
         Snapshot("replace_reference", "confidence_weighted", FALSE, TRUE),
         Snapshot("keep_promoted", "failure_aware_merge", TRUE, FALSE)>>,
       "environment_gap", None) >>

ReferenceNames == <<"action_state_join", "catalog_score", "confidence_weighted",
                    "declared_checkpoint", "failure_aware_merge", "mock",
                    "pipeline_router", "prompt_constrained",
                    "resume_aware_replan", "stream_reducer",
                    "tolerant_contract">>

RollsBack(x) == x.kind = "rollback_reference"
LatestEnvironment(c) == Last(c.snapshots)
DocumentedCount(c) == Quantify(DOMAIN c.snapshots, LAMBDA i : c.snapshots[i].documented)
\* documented_coverage(case) >= quarters / 4; no snapshots cover nothing.
CoverageIs(c, quarters) ==
  c.snapshots # <<>> /\ 4 * DocumentedCount(c) >= quarters * Len(c.snapshots)
HasAnyDocumentationGap(c) == \E x \in ToSet(c.snapshots) : ~x.documented
HasBlockingEnvironment(c) == \E x \in ToSet(c.snapshots) : RollsBack(x)
BlockingEnvironmentCount(c) == Quantify(DOMAIN c.snapshots, LAMBDA i : RollsBack(c.snapshots[i]))
HasBlockingCriticalEnvironment(c) == \E x \in ToSet(c.snapshots) : x.critical /\ RollsBack(x)
AllCriticalDocumented(c) == \A x \in ToSet(c.snapshots) : x.critical => x.documented

ReferencesWhere(c, Test(_)) ==
  LET chosen == SelectSeq(c.snapshots, Test)
  IN  Present([i \in DOMAIN chosen |-> chosen[i].reference])
DocumentedMajorityReference(c) ==
  MajorityOf(ReferenceNames, ReferencesWhere(c, LAMBDA x : x.documented /\ ~RollsBack(x)))
CriticalReferenceConsensus(c) ==
  LET references == ReferencesWhere(c, LAMBDA x : x.critical /\ x.documented)
  IN  IF Cardinality(ToSet(references)) = 1 THEN Head(references) ELSE None
\* The reference most environments run, and by how many it leads the current one.
ChallengerDominance(c) ==
  LET running == ReferencesWhere(c, LAMBDA x : ~RollsBack(x))
      best == MajorityOf(ReferenceNames, running)
  IN  [reference |-> best, margin |-> Occurrences(best, running) - Occurrences(c.current, running)]

Confirmed(reference, signals) == Decision("environment_confirmed", reference, signals)
Superseded(reference, signals) == Decision("environment_superseded", reference, signals)
Blocked(signals) == Decision("environment_blocked", None, signals)
Gap(signals) == Decision("environment_gap", None, signals)

LatestEnvironmentOnly(c) == FirstMatch(<<
  <<c.snapshots = <<>>, Gap(1)>>,
  <<~LatestEnvironment(c).documented, Gap(1)>>,
  <<RollsBack(LatestEnvironment(c)), Blocked(1)>>,
  <<LatestEnvironment(c).reference = c.current, Confirmed(c.current, 1)>>,
  <<TRUE, Superseded(LatestEnvironment(c).reference, 1)>> >>)

DocumentedMajority(c) == FirstMatch(<<
  <<~CoverageIs(c, 3) \/ HasAnyDocumentationGap(c), Gap(3)>>,
  <<HasBlockingEnvironment(c) /\ CoverageIs(c, 4), Blocked(3)>>,
  <<DocumentedMajorityReference(c) = None, Gap(3)>>,
  <<DocumentedMajorityReference(c) = c.current, Confirmed(c.current, 3)>>,
  <<TRUE, Superseded(DocumentedMajorityReference(c), 3)>> >>)

CriticalEnvironmentGate(c) == FirstMatch(<<
  <<HasBlockingCriticalEnvironment(c), Blocked(4)>>,
  <<~AllCriticalDocumented(c) \/ CriticalReferenceConsensus(c) = None, Gap(4)>>,
  <<CriticalReferenceConsensus(c) = c.current, Confirmed(c.current, 4)>>,
  <<TRUE, Superseded(CriticalReferenceConsensus(c), 4)>> >>)

ConfirmedBudget(c) ==
  LET lead == ChallengerDominance(c)
  IN  When(CoverageIs(c, 4), 1000) + When(AllCriticalDocumented(c), 800)
        + When(~HasBlockingCriticalEnvironment(c), 600)
        + When(lead.reference = c.current, 400 + 200 * lead.margin)
        - When(lead.reference \notin {c.current, None}, 800)
        - 1200 * BlockingEnvironmentCount(c)
SupersededBudget(c) ==
  LET lead == ChallengerDominance(c)
  IN  When(lead.reference \notin {c.current, None}, 1000 + 400 * lead.margin)
        + When(CoverageIs(c, 3), 400) - When(HasBlockingCriticalEnvironment(c), 1000)
BlockedBudget(c) ==
  1000 * BlockingEnvironmentCount(c) + When(HasBlockingCriticalEnvironment(c), 800 + 600)

EnvironmentLineageBudget(c) == FirstMatch(<<
  <<BlockedBudget(c) >= 1800 /\ BlockedBudget(c) >= ConfirmedBudget(c), Blocked(6)>>,
  <<HasAnyDocumentationGap(c) \/ ~CoverageIs(c, 3) \/ ~AllCriticalDocumented(c), Gap(6)>>,
  <<CriticalReferenceConsensus(c) = c.current /\ ChallengerDominance(c).reference # c.current,
    Gap(6)>>,
  <<SupersededBudget(c) >= 1400 /\ SupersededBudget(c) > ConfirmedBudget(c),
    Superseded(ChallengerDominance(c).reference, 6)>>,
  <<ConfirmedBudget(c) >= 1600, Confirmed(c.current, 6)>>,
  <<TRUE, Gap(6)>> >>)

Variants == <<"latest_environment_only", "documented_majority", "critical_environment_gate",
              "environment_lineage_budget">>

Answers(c) ==
  [latest_environment_only    |-> LatestEnvironmentOnly(c),
   documented_majority        |-> DocumentedMajority(c),
   critical_environment_gate  |-> CriticalEnvironmentGate(c),
   environment_lineage_budget |-> EnvironmentLineageBudget(c)]

Matches(c, d) == d.kind = c.kind /\ d.reference = c.reference

Source ==
  [latest_environment_only    |-> Metrics(60, 4, 5, 5, 1),
   documented_majority        |-> Metrics(63, 6, 5, 5, 5),
   critical_environment_gate  |-> Metrics(60, 5, 5, 5, 3),
   environment_lineage_budget |-> Metrics(148, 25, 8, 6, 13)]

Extensibility(s) ==
  Clamp(100 - 8 * s.hardcoded - 2 * s.branches + 4 * s.evidence + 2 * s.helpers)

Report(cases) ==
  ReportOf(cases, Answers, Matches, LAMBDA c, d : d.signals, Source, Extensibility)

ProvisionalFrontier(report) == LastGreatest(FrontierOf(Variants, report), report, CheaperOrRigid)

Section(cases) ==
  Given(Report(cases), LAMBDA report :
    Shown(Variants, Len(cases), report, ProvisionalFrontier(report)))
=============================================================================
