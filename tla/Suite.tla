-------------------------------- MODULE Suite --------------------------------
(***************************************************************************)
(* What the suites under experiments/ have in common: a few cases, a few   *)
(* variants that decide every case, and a report that counts how often a   *)
(* variant was right, what its answers cost, and how its source scores.    *)
(* Each suite repeats this harness in its mod.rs; its own module says what *)
(* it decides and names its copy of the harness.                           *)
(*                                                                         *)
(* An if / else-if chain is a sequence of rules; a sum of f64 weights is a *)
(* sum of integers, each weight times a hundred.                           *)
(***************************************************************************)
EXTENDS Integers, Sequences, SequencesExt, FiniteSetsExt

None == "none"

\* Op(x), with x evaluated once and for all: TLC would expand it wherever Op names it, and
\* evaluate a function expression at every application until it is compared.
Given(x, Op(_)) == CHOOSE y \in {Op(z) : z \in {w \in {x} : w = w}} : TRUE

\* The consequence of the first rule whose guard holds.
FirstMatch(rules) == Given(rules, LAMBDA all : all[SelectInSeq(all, LAMBDA r : r[1])][2])

\* weight * 1 if the condition holds, as an `if` that adds to a score.
When(condition, weight) == IF condition THEN weight ELSE 0

Decision(kind, reference, signals) ==
  [kind |-> kind, reference |-> reference, signals |-> signals]

Clamp(n) == Max({0, Min({100, n})})

\* The readability proxy every suite uses.
ReadabilityScore(s) == Clamp(100 - s.loc \div 2 - 3 * s.branches + 4 * s.helpers)

\* What collect_source_metrics counts in a variant's file.
Metrics(loc, branches, helpers, hardcoded, evidence) ==
  [loc |-> loc, branches |-> branches, helpers |-> helpers, hardcoded |-> hardcoded,
   evidence |-> evidence]

\* run_suite: per variant every case decided, compared with what it expects, and charged.
ReportOf(cases, Answers(_), Matches(_, _), Spent(_, _), source, Extensibility(_)) ==
  Given([k \in DOMAIN cases |-> <<cases[k], Answers(cases[k])>>], LAMBDA decided :
    [v \in DOMAIN source |->
      [correct |-> Quantify(DOMAIN decided, LAMBDA k : Matches(decided[k][1], decided[k][2][v])),
       spent |-> MapThenSumSet(LAMBDA k : Spent(decided[k][1], decided[k][2][v]), DOMAIN decided),
       readability |-> ReadabilityScore(source[v]),
       extensibility |-> Extensibility(source[v])]])

\* The variants of the highest accuracy, in the order they ran.
FrontierOf(variants, report) ==
  SelectSeq(variants, LAMBDA v : \A w \in ToSet(variants) : report[w].correct <= report[v].correct)

\* Iterator::max_by keeps the last of the greatest, min_by the first of the least.
LastBest(s, Worse(_, _)) ==
  Given(s, LAMBDA all : all[SelectLastInSeq(all, LAMBDA x : \A y \in ToSet(all) : ~Worse(x, y))])
FirstBest(s, Worse(_, _)) ==
  Given(s, LAMBDA all : all[SelectInSeq(all, LAMBDA x : \A y \in ToSet(all) : ~Worse(x, y))])

\* A comparison continued with then_with: the keys differ first where l's is the smaller.
LexLess(l, r) == \E i \in DOMAIN l : l[i] < r[i] /\ \A j \in 1 .. (i - 1) : l[j] = r[j]

Occurrences(x, s) == Quantify(DOMAIN s, LAMBDA i : s[i] = x)

\* The most frequent of some references. They are counted in a BTreeMap and max_by_key keeps
\* the last: names is every name in its order, and of equals the greatest name wins.
MajorityOf(names, references) ==
  LET held == SelectSeq(names, LAMBDA n : n \in ToSet(references))
  IN  IF held = <<>> THEN None
      ELSE LastBest(held, LAMBDA m, n : Occurrences(m, references) < Occurrences(n, references))

\* find_map(|x| x.clone()) and an option list's Some values.
Present(references) == SelectSeq(references, LAMBDA r : r # None)
FirstPresent(references) ==
  IF Present(references) = <<>> THEN None ELSE Head(Present(references))

\* The usual order of provisional_frontier: average cost, then extensibility.
CheaperOrRigid(l, r) == LexLess(<<l.spent, l.extensibility>>, <<r.spent, r.extensibility>>)

\* provisional_frontier, where it is a max_by of the frontier's rows.
LastGreatest(variants, report, Less(_, _)) ==
  LastBest(variants, LAMBDA v, w : Less(report[v], report[w]))

\* x / n to the nearest integer, for the figures the documents show.
Rounded(x, n) == (2 * x + n) \div (2 * n)

\* What the documents show of a report: per variant accuracy in tenths of a percent, average
\* cost in hundredths and the two scores; the frontier; the provisional reference.
Shown(variants, cases, report, reference) ==
  [rows |-> [i \in DOMAIN variants |->
              LET r == report[variants[i]]
              IN  <<variants[i], Rounded(1000 * r.correct, cases), Rounded(100 * r.spent, cases),
                    r.readability, r.extensibility>>],
   frontier |-> FrontierOf(variants, report),
   reference |-> reference]
=============================================================================
