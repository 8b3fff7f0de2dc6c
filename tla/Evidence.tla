------------------------------- MODULE Evidence -------------------------------
(***************************************************************************)
(* What the suites about release history share: records of one place (a    *)
(* surface, a mirror, a source, a repository) that say with some           *)
(* confidence that the current reference was kept, replaced or rolled      *)
(* back. Each suite has its own copy of these functions; its module names  *)
(* the copy. Confidences are hundredths.                                   *)
(***************************************************************************)
EXTENDS Suite

RollsBack(x) == x.kind = "rollback_reference"
AtLeast(evidence, least) == SelectSeq(evidence, LAMBDA x : x.confidence >= least)
OfPlace(evidence, place) == SelectSeq(evidence, LAMBDA x : x.place = place)

\* The one listed last, as if the listing told the time.
ListedLast(evidence) == Last(evidence)

MostConfident(evidence) == LastBest(evidence, LAMBDA x, y : x.confidence < y.confidence)

PlacesOf(evidence) == {x.place : x \in ToSet(evidence)}

\* The evidence for a reference, the evidence against every one, and what some evidence weighs.
For(evidence, reference) ==
  SelectSeq(evidence, LAMBDA x : ~RollsBack(x) /\ x.reference = reference)
Against(evidence) == SelectSeq(evidence, RollsBack)
Weigh(evidence, Score(_)) == MapThenSumSet(LAMBDA i : Score(evidence[i]), DOMAIN evidence)

\* The challenger with the heaviest evidence, Rest(evidence) deciding among equals; challengers
\* are kept in a BTreeMap, so that at last the greatest of names wins.
BestChallenger(names, evidence, current, Score(_), Rest(_)) ==
  LET rivals == SelectSeq(names, LAMBDA n : n # current /\ For(evidence, n) # <<>>)
      Row(n) == [reference |-> n, score |-> Weigh(For(evidence, n), Score),
                 evidence |-> For(evidence, n)]
      Weaker(l, r) == LexLess(<<l.score>> \o Rest(l.evidence), <<r.score>> \o Rest(r.evidence))
  IN  Given(rivals, LAMBDA all :
        IF all = <<>> THEN [reference |-> None, score |-> 0, evidence |-> <<>>]
        ELSE LastBest([i \in DOMAIN all |-> Row(all[i])], Weaker))

\* What one record speaks for: "rollback", "current", "unknown" or a challenger.
Bucket(x, current) == FirstMatch(<<
  <<RollsBack(x), "rollback">>,
  <<x.reference = current, "current">>,
  <<x.reference = None, "unknown">>,
  <<TRUE, x.reference>> >>)

Conflict(evidence, current) ==
  Cardinality({Bucket(x, current) : x \in ToSet(evidence)} \ {"unknown"}) > 1

\* The decision a bucket stands for; kinds names a suite's four decisions.
Settle(kinds, current, bucket, signals) == FirstMatch(<<
  <<bucket = "rollback", Decision(kinds.against, None, signals)>>,
  <<bucket = "current", Decision(kinds.confirmed, current, signals)>>,
  <<bucket = "unknown", Decision(kinds.open, None, signals)>>,
  <<TRUE, Decision(kinds.superseded, bucket, signals)>> >>)

\* What one record of the given evidence decides, if there is any, and what a lone majority does.
ByBest(kinds, current, evidence, Best(_), signals) ==
  Settle(kinds, current,
         IF evidence = <<>> THEN "unknown" ELSE Bucket(Best(evidence), current), signals)
ByMajority(kinds, current, evidence, signals) ==
  LET buckets == [i \in DOMAIN evidence |-> Bucket(evidence[i], current)]
      leading == {b \in ToSet(buckets) :
                   \A o \in ToSet(buckets) : Occurrences(o, buckets) <= Occurrences(b, buckets)}
  IN  Settle(kinds, current,
             IF Cardinality(leading) = 1 THEN CHOOSE b \in leading : TRUE ELSE "unknown", signals)

\* The first place of a preference list that has evidence: that evidence, or none.
FirstPlace(evidence, places) ==
  LET having == SelectSeq(places, LAMBDA p : OfPlace(evidence, p) # <<>>)
  IN  IF having = <<>> THEN <<>> ELSE OfPlace(evidence, Head(having))
=============================================================================
