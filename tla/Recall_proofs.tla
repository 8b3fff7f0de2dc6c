---------------------------- MODULE Recall_proofs ----------------------------
(***************************************************************************)
(* Proofs about Recall: the notes of a session survive, a model is given   *)
(* its context once and the mock planner never, a recovery is offered what *)
(* matches the step that failed, and the logs of a session narrow no later *)
(* choice unless it was told of a failure, for every catalog, text, note,  *)
(* reason and bound.                                                       *)
(*                                                                         *)
(* Three things have to be known of the text operators first. FlattenSeq   *)
(* appends (FlattenAppend) and every rank of a finite order is taken       *)
(* (RankExists): both are inductions over a range of numbers, done with    *)
(* the set of the numbers for which the claim holds (UpTo). Parsing a file *)
(* that begins with a header and writing it again gives the same words in  *)
(* the same lines (RoundTrip). And whatever the memory does to a line      *)
(* stays in a closed set of lines: all lines, or those that report no      *)
(* failure (WithinStep).                                                   *)
(***************************************************************************)
EXTENDS Recall, FiniteSetTheorems, SequenceTheorems, TLAPS

(***************************************************************************)
(* Induction over a bounded range of numbers, as a statement about sets.   *)
(***************************************************************************)

\* A nonempty set of numbers has a least one.
LEMMA LeastOfNaturals ==
  ASSUME NEW T \in SUBSET Nat, T # {}
  PROVE  \E n \in T : \A m \in T : n <= m
<1> DEFINE R == OpToRel(<, Nat)
<1>1. IsWellFoundedOn(R, Nat)
  BY NatLessThanWellFounded
<1>2. ASSUME NEW m \in Nat, NEW n \in Nat, m < n PROVE <<m, n>> \in R
  BY <1>2 DEF OpToRel
<1>3. \A m \in Nat, n \in Nat : m < n => <<m, n>> \in R
  BY <1>2
<1> HIDE DEF R
<1>4. PICK n \in T : \A m \in T : ~(<<m, n>> \in R)
  BY <1>1, WFMin
<1>5. ASSUME NEW m \in T PROVE ~(m < n)
  BY <1>3, <1>4
<1> QED BY <1>5

\* A set that holds 0 and with k also k + 1 holds every number up to n.
LEMMA UpTo ==
  ASSUME NEW n \in Nat, NEW T \in SUBSET (0 .. n), 0 \in T,
         \A k \in 0 .. n - 1 : k \in T => k + 1 \in T
  PROVE  T = 0 .. n
<1> SUFFICES ASSUME (0 .. n) \ T # {} PROVE FALSE
  OBVIOUS
<1>1. PICK m \in (0 .. n) \ T : \A k \in (0 .. n) \ T : m <= k
  <2>1. (0 .. n) \ T \in SUBSET Nat
    OBVIOUS
  <2> QED BY <2>1, LeastOfNaturals
<1>2. m - 1 \in 0 .. n - 1 /\ m - 1 \in T
  BY <1>1
<1> QED BY <1>1, <1>2

(***************************************************************************)
(* Ranks.                                                                  *)
(***************************************************************************)

\* R is a strict total order of S; a rank counts what goes before.
Orders(R, S) ==
  /\ \A a \in S : <<a, a>> \notin R
  /\ \A a, b \in S : a # b => <<a, b>> \in R \/ <<b, a>> \in R
  /\ \A a, b, c \in S : <<a, b>> \in R /\ <<b, c>> \in R => <<a, c>> \in R
Rank(R, S, k) == Cardinality({j \in S : <<j, k>> \in R})

\* In a finite set every rank is taken: what HeaderAt and Search choose exists.
LEMMA RankExists ==
  ASSUME NEW S, IsFiniteSet(S), NEW R, Orders(R, S), NEW n \in 1 .. Cardinality(S)
  PROVE  \E k \in S : Rank(R, S, k) = n - 1
<1> USE DEF Orders, Rank
<1> DEFINE N == Cardinality(S)
           Before(k) == {j \in S : <<j, k>> \in R}
           f == [k \in S |-> Cardinality(Before(k))]
<1>1. N \in Nat
  BY FS_CardinalityType
<1>2. ASSUME NEW k \in S
      PROVE  IsFiniteSet(Before(k)) /\ Cardinality(Before(k)) \in 0 .. N - 1
  <2>1. Before(k) \in SUBSET (S \ {k})
    OBVIOUS
  <2>2. IsFiniteSet(S \ {k}) /\ Cardinality(S \ {k}) = N - 1
    BY FS_RemoveElement
  <2>3. IsFiniteSet(Before(k)) /\ Cardinality(Before(k)) <= N - 1
    <3> HIDE DEF Before, N
    <3> QED BY <2>1, <2>2, FS_Subset
  <2>4. Cardinality(Before(k)) \in Nat
    BY <2>3, FS_CardinalityType
  <2> HIDE DEF Before
  <2> QED BY <2>3, <2>4, <1>1
<1>3. ASSUME NEW a \in S, NEW b \in S, <<a, b>> \in R
      PROVE  Cardinality(Before(a)) < Cardinality(Before(b))
  <2>1. Before(a) \cup {a} \in SUBSET Before(b) /\ a \notin Before(a)
    BY <1>3
  <2> HIDE DEF Before
  <2>2. Cardinality(Before(a) \cup {a}) = Cardinality(Before(a)) + 1
    BY <1>2, <2>1, FS_AddElement
  <2>3. Cardinality(Before(a) \cup {a}) <= Cardinality(Before(b))
    BY <1>2, <2>1, FS_Subset
  <2> QED BY <1>2, <2>2, <2>3
<1>4. f \in Injection(S, 0 .. N - 1)
  <2>1. \A k \in S : f[k] = Cardinality(Before(k)) /\ f[k] \in 0 .. N - 1
    BY <1>2
  <2>2. f \in [S -> 0 .. N - 1]
    BY <1>2
  <2>3. \A a, b \in S : f[a] = f[b] => a = b
    <3> HIDE DEF Before, f, N
    <3> SUFFICES ASSUME NEW a \in S, NEW b \in S, f[a] = f[b], a # b PROVE FALSE
      OBVIOUS
    <3>1. <<a, b>> \in R \/ <<b, a>> \in R
      OBVIOUS
    <3>2. Cardinality(Before(a)) = Cardinality(Before(b)) /\ Cardinality(Before(a)) \in 0 .. N - 1
      BY <2>1
    <3>3. Cardinality(Before(a)) < Cardinality(Before(b))
            \/ Cardinality(Before(b)) < Cardinality(Before(a))
      BY <1>3, <3>1
    <3> QED BY <1>1, <3>2, <3>3
  <2> HIDE DEF f, N
  <2> QED BY <2>2, <2>3 DEF Injection, IsInjective
<1>5. f \in Surjection(S, 0 .. N - 1)
  <2>1. IsFiniteSet(0 .. N - 1) /\ Cardinality(0 .. N - 1) = N
    <3> HIDE DEF N
    <3> QED BY <1>1, FS_Interval
  <2> HIDE DEF f
  <2> QED BY <1>4, <2>1, FS_Injection
<1>6. PICK k \in S : f[k] = n - 1
  <2> HIDE DEF f
  <2>1. n - 1 \in 0 .. N - 1
    BY <1>1
  <2> QED BY <1>5, <2>1 DEF Surjection
<1> QED BY <1>6

(***************************************************************************)
(* FlattenSeq: the function it is the last value of, and what that gives.  *)
(***************************************************************************)

\* The function FlattenSeq chooses.
Partial(ss, n) ==
  CHOOSE f : f = [i \in 1 .. n |-> IF i = 1 THEN ss[i] ELSE f[i - 1] \o ss[i]]

\* f[i] is the concatenation of the first i sequences.
Flattens(f, ss, n) ==
  \A i \in 1 .. n : f[i] = IF i = 1 THEN ss[i] ELSE f[i - 1] \o ss[i]

\* The first n elements agree.
SamePrefix(ss, tt, n) == \A i \in 1 .. n : ss[i] = tt[i]

\* There is such a function for every sequence of sequences.
LEMMA FlatteningExists ==
  ASSUME NEW S, NEW ss \in Seq(Seq(S))
  PROVE  \E f \in [1 .. Len(ss) -> Seq(S)] : Flattens(f, ss, Len(ss))
<1> DEFINE T == {n \in 0 .. Len(ss) : \E f \in [1 .. n -> Seq(S)] : Flattens(f, ss, n)}
<1>0. Len(ss) \in Nat /\ \A i \in 1 .. Len(ss) : ss[i] \in Seq(S)
  OBVIOUS
<1>1. 0 \in T
  <2> DEFINE f == [i \in 1 .. 0 |-> <<>>]
  <2>1. f \in [1 .. 0 -> Seq(S)] /\ Flattens(f, ss, 0)
    BY DEF Flattens
  <2>2. 0 \in 0 .. Len(ss)
    BY <1>0
  <2> HIDE DEF f
  <2> QED BY <2>1, <2>2
<1>2. ASSUME NEW n \in 0 .. Len(ss) - 1, n \in T PROVE n + 1 \in T
  <2>1. PICK f \in [1 .. n -> Seq(S)] : Flattens(f, ss, n)
    BY <1>2
  <2> DEFINE g == [i \in 1 .. n + 1 |-> IF i = n + 1
                                        THEN (IF n = 0 THEN ss[1] ELSE f[n] \o ss[n + 1])
                                        ELSE f[i]]
  <2>2. n \in Nat /\ n + 1 \in 1 .. Len(ss) /\ ss[n + 1] \in Seq(S)
    BY <1>0
  <2>3. ASSUME NEW i \in 1 .. n + 1 PROVE g[i] \in Seq(S)
    <3>1. CASE i # n + 1
      BY <2>2, <3>1
    <3>2. CASE i = n + 1 /\ n = 0
      BY <2>2, <3>2
    <3>3. CASE i = n + 1 /\ n # 0
      <4>1. f[n] \in Seq(S)
        BY <2>2, <3>3
      <4>2. f[n] \o ss[n + 1] \in Seq(S)
        BY <2>2, <4>1
      <4> QED BY <3>3, <4>2
    <3> QED BY <3>1, <3>2, <3>3
  <2>4. g \in [1 .. n + 1 -> Seq(S)]
    BY <2>3
  <2>5. Flattens(g, ss, n + 1)
    <3> SUFFICES ASSUME NEW i \in 1 .. n + 1
                 PROVE  g[i] = IF i = 1 THEN ss[i] ELSE g[i - 1] \o ss[i]
      BY DEF Flattens
    <3>1. CASE i = n + 1
      BY <2>2, <3>1
    <3>2. CASE i # n + 1
      <4>1. i \in 1 .. n /\ (i # 1 => i - 1 \in 1 .. n)
        BY <2>2, <3>2
      <4>2. f[i] = IF i = 1 THEN ss[i] ELSE f[i - 1] \o ss[i]
        BY <2>1, <4>1 DEF Flattens
      <4>3. g[i] = f[i] /\ (i # 1 => g[i - 1] = f[i - 1])
        BY <2>2, <3>2, <4>1
      <4> QED BY <4>2, <4>3
    <3> QED BY <3>1, <3>2
  <2> HIDE DEF g
  <2> QED BY <2>2, <2>4, <2>5
<1> HIDE DEF T
<1>3. T = 0 .. Len(ss)
  <2>1. T \in SUBSET (0 .. Len(ss))
    BY DEF T
  <2> QED BY <1>0, <1>1, <1>2, <2>1, UpTo
<1> QED BY <1>0, <1>3 DEF T

\* It is determined by the sequences it flattens.
LEMMA FlatteningUnique ==
  ASSUME NEW n \in Nat, NEW ss, NEW tt, SamePrefix(ss, tt, n),
         NEW f, NEW g, Flattens(f, ss, n), Flattens(g, tt, n)
  PROVE  SamePrefix(f, g, n)
<1> DEFINE T == {k \in 0 .. n : k # 0 => f[k] = g[k]}
<1>1. 0 \in T
  OBVIOUS
<1>2. ASSUME NEW k \in 0 .. n - 1, k \in T PROVE k + 1 \in T
  <2>1. k + 1 \in 1 .. n /\ (k + 1 # 1 => k # 0 /\ (k + 1) - 1 = k)
    OBVIOUS
  <2>2. /\ f[k + 1] = IF k + 1 = 1 THEN ss[k + 1] ELSE f[(k + 1) - 1] \o ss[k + 1]
        /\ g[k + 1] = IF k + 1 = 1 THEN tt[k + 1] ELSE g[(k + 1) - 1] \o tt[k + 1]
        /\ ss[k + 1] = tt[k + 1]
    BY <2>1 DEF Flattens, SamePrefix
  <2> QED BY <1>2, <2>1, <2>2
<1> HIDE DEF T
<1>3. T = 0 .. n
  <2>1. T \in SUBSET (0 .. n)
    BY DEF T
  <2> QED BY <1>1, <1>2, <2>1, UpTo
<1> QED BY <1>3 DEF T, SamePrefix

\* FlattenSeq is the last value of every such function.
LEMMA FlattenUnfold ==
  ASSUME NEW S, NEW ss \in Seq(Seq(S)), ss # <<>>,
         NEW f \in [1 .. Len(ss) -> Seq(S)], Flattens(f, ss, Len(ss))
  PROVE  FlattenSeq(ss) = f[Len(ss)]
<1> DEFINE n == Len(ss)
           p == Partial(ss, n)
<1>1. n \in Nat \ {0}
  OBVIOUS
<1>2. FlattenSeq(ss) = p[n]
  BY <1>1 DEF FlattenSeq, Partial
<1>3. f = [i \in 1 .. n |-> IF i = 1 THEN ss[i] ELSE f[i - 1] \o ss[i]]
  BY DEF Flattens
<1>4. p = [i \in 1 .. n |-> IF i = 1 THEN ss[i] ELSE p[i - 1] \o ss[i]]
  BY <1>3 DEF Partial
<1> HIDE DEF p
<1>5. Flattens(p, ss, n)
  BY <1>4 DEF Flattens
<1>6. \A i \in 1 .. n : p[i] = f[i]
  BY <1>1, <1>5, FlatteningUnique DEF SamePrefix
<1> QED BY <1>1, <1>2, <1>6

\* What FlattenSeq returns is a sequence of elements of the parts.
LEMMA FlattenType ==
  ASSUME NEW S, NEW ss \in Seq(Seq(S))
  PROVE  FlattenSeq(ss) \in Seq(S)
<1>1. CASE ss = <<>>
  BY <1>1 DEF FlattenSeq
<1>2. CASE ss # <<>>
  <2>1. PICK f \in [1 .. Len(ss) -> Seq(S)] : Flattens(f, ss, Len(ss))
    BY FlatteningExists
  <2>2. Len(ss) \in 1 .. Len(ss)
    BY <1>2
  <2>3. FlattenSeq(ss) = f[Len(ss)]
    BY <1>2, <2>1, FlattenUnfold
  <2> QED BY <2>1, <2>2, <2>3
<1> QED BY <1>1, <1>2

\* A part appended is concatenated.
LEMMA FlattenAppend ==
  ASSUME NEW S, NEW ss \in Seq(Seq(S)), NEW s \in Seq(S)
  PROVE  FlattenSeq(Append(ss, s)) = FlattenSeq(ss) \o s
<1>1. PICK n \in Nat, tt \in Seq(Seq(S)) :
        /\ n = Len(ss) /\ tt = Append(ss, s) /\ tt # <<>> /\ Len(tt) = n + 1
        /\ tt[n + 1] = s /\ \A i \in 1 .. n : tt[i] = ss[i]
  <2>1. ss \in Seq(Seq(S)) /\ s \in Seq(S) /\ Len(ss) \in Nat
    OBVIOUS
  <2>2. /\ Append(ss, s) \in Seq(Seq(S)) /\ Append(ss, s) # <<>>
        /\ Len(Append(ss, s)) = Len(ss) + 1
        /\ \A i \in 1 .. Len(ss) : Append(ss, s)[i] = ss[i]
        /\ Append(ss, s)[Len(ss) + 1] = s
    BY <2>1, AppendProperties
  <2> QED BY <2>1, <2>2
<1>2. PICK g \in [1 .. n + 1 -> Seq(S)] : Flattens(g, tt, n + 1)
  <2>1. \E g \in [1 .. Len(tt) -> Seq(S)] : Flattens(g, tt, Len(tt))
    BY FlatteningExists
  <2> QED BY <1>1, <2>1
<1>3. FlattenSeq(tt) = g[n + 1]
  BY <1>1, <1>2, FlattenUnfold
<1>4. CASE n = 0
  <2>1. ss = <<>>
    BY <1>1, <1>4
  <2>2. FlattenSeq(ss) = <<>>
    BY <2>1 DEF FlattenSeq
  <2>3. g[n + 1] = s
    BY <1>1, <1>2, <1>4 DEF Flattens
  <2> QED BY <1>1, <1>3, <2>2, <2>3
<1>5. CASE n # 0
  <2>1. PICK f \in [1 .. n -> Seq(S)] : Flattens(f, ss, n)
    BY <1>1, FlatteningExists
  <2>2. FlattenSeq(ss) = f[n]
    <3>1. ss # <<>>
      BY <1>1, <1>5
    <3> QED BY <1>1, <2>1, <3>1, FlattenUnfold
  <2>3. Flattens(g, tt, n)
    <3>1. \A i \in 1 .. n : i \in 1 .. n + 1
      BY <1>1
    <3> QED BY <1>2, <3>1 DEF Flattens
  <2>4. f[n] = g[n]
    <3>1. SamePrefix(f, g, n)
      <4>1. n \in Nat /\ SamePrefix(ss, tt, n)
        BY <1>1 DEF SamePrefix
      <4> QED BY <4>1, <2>1, <2>3, FlatteningUnique
    <3> QED BY <1>1, <1>5, <3>1 DEF SamePrefix
  <2>5. g[n + 1] = g[n] \o s
    <3>1. n + 1 \in 1 .. n + 1 /\ n + 1 # 1 /\ (n + 1) - 1 = n
      BY <1>1, <1>5
    <3> QED BY <1>1, <1>2, <3>1 DEF Flattens
  <2> QED BY <1>1, <1>3, <2>2, <2>4, <2>5
<1> QED BY <1>4, <1>5

(***************************************************************************)
(* Sets of lines that what the memory does to a line does not leave.       *)
(***************************************************************************)

\* Logs, texts and memories made of lines of S.
Logs(S) == [stamp : 0 .. Unknown, title : S, body : Seq(S)]
Texts(S) == Seq(S) \ {<<>>}
Recollections(S) == [stamp : 0 .. Unknown, text : Texts(S)]

\* Headers are written over lines and taken off them; the lines runs write report no failure.
Closed(S) ==
  /\ S \subseteq Lines
  /\ \A l \in S, head \in BOOLEAN, stamp \in 0 .. Unknown :
       [l EXCEPT !.head = head, !.stamp = stamp] \in S
  /\ \A l \in S : Prefixed(l) \in S
  /\ \A says \in SUBSET Words, flag \in BOOLEAN : Line(says, flag, NoField) \in S

\* The lines that report no failure.
Silent == {l \in Lines : l.field = NoField}

\* The lines, and the lines that report no failure, are such sets.
LEMMA LinesClosed == Closed(Lines) /\ Closed(Silent)
<1>0. 0 \in 0 .. Unknown /\ NoStamp = 0 /\ NoField \in Fields
  <2>1. NoField \in Fields
    BY RecallAssumption DEF Fields, NoField
  <2>2. MaxClock \in Nat
    BY RecallAssumption
  <2> QED BY <2>1, <2>2 DEF Unknown, NoStamp
<1>1. ASSUME NEW l \in Lines, NEW head \in BOOLEAN, NEW stamp \in 0 .. Unknown
      PROVE  /\ [l EXCEPT !.head = head, !.stamp = stamp] \in Lines
             /\ [l EXCEPT !.head = head, !.stamp = stamp].field = l.field
  BY DEF Lines
<1>2. ASSUME NEW l \in Lines
      PROVE  Prefixed(l) \in Lines /\ Prefixed(l).field = NoField
  <2>1. \A field \in Fields, stamp \in 0 .. Unknown :
           /\ [l EXCEPT !.head = FALSE, !.stamp = stamp, !.field = field] \in Lines
           /\ [l EXCEPT !.head = FALSE, !.stamp = stamp, !.field = field].field = field
    BY DEF Lines
  <2> QED BY <1>0, <2>1 DEF Prefixed
<1>3. ASSUME NEW says \in SUBSET Words, NEW flag \in BOOLEAN
      PROVE  Line(says, flag, NoField) \in Lines /\ Line(says, flag, NoField).field = NoField
  BY <1>0 DEF Line, Lines
<1>4. Closed(Lines)
  BY <1>1, <1>2, <1>3 DEF Closed
<1>5. Closed(Silent)
  <2>1. Silent \subseteq Lines
    BY DEF Silent
  <2>2. ASSUME NEW l \in Silent, NEW head \in BOOLEAN, NEW stamp \in 0 .. Unknown
        PROVE  [l EXCEPT !.head = head, !.stamp = stamp] \in Silent
    BY <1>1 DEF Silent
  <2>3. \A l \in Silent : Prefixed(l) \in Silent
    BY <1>2 DEF Silent
  <2>4. \A says \in SUBSET Words, flag \in BOOLEAN : Line(says, flag, NoField) \in Silent
    BY <1>3 DEF Silent
  <2> QED BY <2>1, <2>2, <2>3, <2>4 DEF Closed
<1> QED BY <1>4, <1>5

(***************************************************************************)
(* Reading and writing the logs.                                           *)
(***************************************************************************)

\* The headers of a text are enumerated in order, the first line first if it is one.
LEMMA HeadersInOrder ==
  ASSUME NEW S, NEW lines \in Seq(S)
  PROVE  LET count == Cardinality(Headers(lines))
         IN  /\ count \in Nat
             /\ \A n \in 1 .. count : HeaderAt(lines, n) \in Headers(lines)
             /\ \A n \in 1 .. count : n + 1 \in 1 .. count =>
                  HeaderAt(lines, n) < HeaderAt(lines, n + 1)
             /\ 1 \in Headers(lines) => 1 \in 1 .. count /\ HeaderAt(lines, 1) = 1
<1> DEFINE H == Headers(lines)
           count == Cardinality(H)
           Below(k) == {j \in H : j < k}
           R == {p \in H \X H : p[1] < p[2]}
<1>1. H \in SUBSET (1 .. Len(lines)) /\ Len(lines) \in Nat
  BY DEF Headers
<1>2. IsFiniteSet(H) /\ count \in Nat
  <2>1. IsFiniteSet(1 .. Len(lines))
    BY <1>1, FS_Interval
  <2> HIDE DEF H
  <2> QED BY <1>1, <2>1, FS_Subset, FS_CardinalityType
<1>3. \A k \in H : Below(k) \in SUBSET H /\ IsFiniteSet(Below(k)) /\ Cardinality(Below(k)) \in Nat
  <2> SUFFICES ASSUME NEW k \in H
               PROVE  /\ Below(k) \in SUBSET H
                      /\ IsFiniteSet(Below(k)) /\ Cardinality(Below(k)) \in Nat
    OBVIOUS
  <2>1. Below(k) \in SUBSET H
    OBVIOUS
  <2> HIDE DEF H, Below
  <2> QED BY <1>2, <2>1, FS_Subset, FS_CardinalityType
<1>4. ASSUME NEW n \in 1 .. count
      PROVE  HeaderAt(lines, n) \in H /\ Cardinality(Below(HeaderAt(lines, n))) = n - 1
  <2>1. \E k \in H : Rank(R, H, k) = n - 1
    <3>1. \A a, b \in H : <<a, b>> \in R <=> a < b
      OBVIOUS
    <3>2. \A a, b \in H : a \in Nat /\ b \in Nat
      BY <1>1
    <3> HIDE DEF R, H
    <3>3. \A a \in H : <<a, a>> \notin R
      BY <3>1, <3>2
    <3>4. \A a, b \in H : a # b => <<a, b>> \in R \/ <<b, a>> \in R
      BY <3>1, <3>2
    <3>5. \A a, b, c \in H : <<a, b>> \in R /\ <<b, c>> \in R => <<a, c>> \in R
      BY <3>1, <3>2
    <3>6. Orders(R, H)
      BY <3>3, <3>4, <3>5 DEF Orders
    <3> QED BY <1>2, <3>6, RankExists
  <2>2. \A k \in H : Rank(R, H, k) = Cardinality(Below(k))
    <3>1. \A k \in H : {j \in H : <<j, k>> \in R} = Below(k)
      OBVIOUS
    <3> HIDE DEF Below, R, H
    <3> QED BY <3>1 DEF Rank
  <2>3. \E k \in H : Cardinality(Below(k)) = n - 1
    <3> HIDE DEF Below, R, H
    <3> QED BY <2>1, <2>2
  <2>4. HeaderAt(lines, n) = CHOOSE k \in H : Cardinality(Below(k)) = n - 1
    BY DEF HeaderAt
  <2> HIDE DEF Below, H
  <2> QED BY <2>3, <2>4
<1>5. ASSUME NEW n \in 1 .. count, n + 1 \in 1 .. count
      PROVE  HeaderAt(lines, n) < HeaderAt(lines, n + 1)
  <2> DEFINE a == HeaderAt(lines, n)
             b == HeaderAt(lines, n + 1)
  <2>1. a \in H /\ b \in H /\ Cardinality(Below(a)) = n - 1 /\ Cardinality(Below(b)) = (n + 1) - 1
    BY <1>4, <1>5
  <2> HIDE DEF a, b
  <2> SUFFICES ASSUME b <= a PROVE FALSE
    BY <1>1, <2>1 DEF a, b
  <2>2. Below(b) \in SUBSET Below(a)
    BY <1>1, <2>1
  <2>3. IsFiniteSet(Below(a))
    BY <1>3, <2>1
  <2>4. Cardinality(Below(b)) <= Cardinality(Below(a))
    <3> HIDE DEF Below
    <3> QED BY <2>2, <2>3, FS_Subset
  <2> HIDE DEF Below
  <2> QED BY <1>2, <2>1, <2>4
<1>6. ASSUME 1 \in H PROVE 1 \in 1 .. count /\ HeaderAt(lines, 1) = 1
  <2>1. count # 0
    <3> HIDE DEF H
    <3> QED BY <1>2, <1>6, FS_EmptySet
  <2>2. 1 \in 1 .. count
    BY <1>2, <2>1
  <2> DEFINE a == HeaderAt(lines, 1)
  <2>3. a \in H /\ Cardinality(Below(a)) = 0
    BY <1>4, <2>2
  <2> HIDE DEF a
  <2>4. Below(a) = {}
    <3> HIDE DEF Below, H
    <3> QED BY <1>3, <2>3, FS_EmptySet
  <2>5. a = 1
    BY <1>1, <1>6, <2>3, <2>4
  <2> QED BY <2>2, <2>5 DEF a
<1> HIDE DEF Below, R
<1> QED BY <1>2, <1>4, <1>5, <1>6

\* A log is written as its header followed by its body.
LEMMA WrittenLog ==
  ASSUME NEW S, Closed(S), NEW log \in Logs(S)
  PROVE  /\ Written(log) \in Seq(S)
         /\ Len(Written(log)) = 1 + Len(log.body)
         /\ Written(log)[1] = [log.title EXCEPT !.head = TRUE, !.stamp = log.stamp]
         /\ \A k \in 1 .. Len(log.body) : Written(log)[1 + k] = log.body[k]
<1> DEFINE header == [log.title EXCEPT !.head = TRUE, !.stamp = log.stamp]
<1>1. /\ log.title \in S /\ log.stamp \in 0 .. Unknown /\ log.body \in Seq(S)
      /\ header \in S
  BY DEF Logs, Closed
<1> HIDE DEF header
<1>2. <<header>> \in Seq(S) /\ Len(<<header>>) = 1 /\ <<header>>[1] = header
  BY <1>1
<1>3. Written(log) = <<header>> \o log.body
  BY DEF Written, header
<1>4. Len(log.body) \in Nat
  BY <1>1
<1>5. /\ Written(log) \in Seq(S)
      /\ Len(Written(log)) = 1 + Len(log.body)
      /\ \A i \in 1 .. 1 + Len(log.body) : Written(log)[i] =
              IF i <= 1 THEN <<header>>[i] ELSE log.body[i - 1]
  BY <1>1, <1>2, <1>3, ConcatProperties
<1>6. Written(log)[1] = header
  BY <1>2, <1>4, <1>5
<1>7. ASSUME NEW k \in 1 .. Len(log.body) PROVE Written(log)[1 + k] = log.body[k]
  <2>1. 1 + k \in 1 .. 1 + Len(log.body) /\ ~(1 + k <= 1) /\ (1 + k) - 1 = k
    BY <1>4
  <2> QED BY <1>5, <2>1
<1> QED BY <1>5, <1>6, <1>7 DEF header

\* The file of a memory consists of lines of its logs.
LEMMA RenderTyped ==
  ASSUME NEW S, Closed(S), NEW logs \in Seq(Logs(S))
  PROVE  /\ [k \in DOMAIN logs |-> Written(logs[k])] \in Seq(Seq(S))
         /\ Len([k \in DOMAIN logs |-> Written(logs[k])]) = Len(logs)
         /\ Render(logs) \in Seq(S)
<1> DEFINE ss == [k \in DOMAIN logs |-> Written(logs[k])]
<1>1. \A k \in 1 .. Len(logs) : Written(logs[k]) \in Seq(S)
  <2> SUFFICES ASSUME NEW k \in 1 .. Len(logs) PROVE Written(logs[k]) \in Seq(S)
    OBVIOUS
  <2>1. logs[k] \in Logs(S)
    OBVIOUS
  <2> QED BY <2>1, WrittenLog
<1>2. Len(logs) \in Nat /\ DOMAIN logs = 1 .. Len(logs)
  OBVIOUS
<1>3. ss \in Seq(Seq(S)) /\ Len(ss) = Len(logs)
  BY <1>1, <1>2
<1> HIDE DEF ss
<1> QED BY <1>3, FlattenType DEF Render, ss

\* A log added to a memory is added to its file.
LEMMA RenderAppend ==
  ASSUME NEW S, Closed(S), NEW logs \in Seq(Logs(S)), NEW log \in Logs(S)
  PROVE  Render(Append(logs, log)) = Render(logs) \o Written(log)
<1> DEFINE ss == [k \in DOMAIN logs |-> Written(logs[k])]
           more == Append(logs, log)
           tt == [k \in DOMAIN more |-> Written(more[k])]
<1>1. /\ more \in Seq(Logs(S)) /\ Len(more) = Len(logs) + 1 /\ Len(logs) \in Nat
      /\ DOMAIN more = 1 .. Len(logs) + 1 /\ DOMAIN logs = 1 .. Len(logs)
      /\ more[Len(logs) + 1] = log
      /\ \A k \in 1 .. Len(logs) : more[k] = logs[k]
  BY AppendProperties
<1>2. /\ ss \in Seq(Seq(S)) /\ Len(ss) = Len(logs)
      /\ \A k \in 1 .. Len(logs) : ss[k] = Written(logs[k])
  BY <1>1, RenderTyped
<1> HIDE DEF more
<1>3. /\ tt \in Seq(Seq(S)) /\ Len(tt) = Len(logs) + 1
      /\ \A k \in 1 .. Len(logs) + 1 : tt[k] = Written(more[k])
  BY <1>1, RenderTyped
<1>4. Written(log) \in Seq(S)
  BY WrittenLog
<1> HIDE DEF ss, tt
<1>5. /\ Append(ss, Written(log)) \in Seq(Seq(S))
      /\ Len(Append(ss, Written(log))) = Len(logs) + 1
      /\ \A i \in 1 .. Len(logs) : Append(ss, Written(log))[i] = ss[i]
      /\ Append(ss, Written(log))[Len(logs) + 1] = Written(log)
  BY <1>2, <1>4, AppendProperties
<1>6. tt = Append(ss, Written(log))
  <2>1. ASSUME NEW i \in 1 .. Len(tt) PROVE tt[i] = Append(ss, Written(log))[i]
    <3>1. CASE i = Len(logs) + 1
      BY <1>1, <1>3, <1>5, <3>1
    <3>2. CASE i # Len(logs) + 1
      <4>1. i \in 1 .. Len(logs)
        BY <1>1, <1>3, <3>2
      <4> QED BY <1>1, <1>2, <1>3, <1>5, <4>1
    <3> QED BY <3>1, <3>2
  <2> QED BY <1>3, <1>5, <2>1, SeqEqual
<1>7. FlattenSeq(tt) = FlattenSeq(ss) \o Written(log)
  BY <1>2, <1>4, <1>6, FlattenAppend
<1> QED BY <1>7 DEF Render, ss, tt, more

\* Where the n-th of a text's logs ends.
EndAt(lines, n) == IF n = Cardinality(Headers(lines)) THEN Len(lines)
                                                      ELSE HeaderAt(lines, n + 1) - 1

\* The n-th log of a text: its header and the lines before the next header.
IsLogOf(S, lines, n) ==
  LET h == HeaderAt(lines, n)
      e == EndAt(lines, n)
  IN  /\ h \in Headers(lines) /\ h \in 1 .. Len(lines)
      /\ e \in h .. Len(lines)
      /\ Parse(lines)[n] \in Logs(S)
      /\ Parse(lines)[n].body \in Seq(S)
      /\ Len(Parse(lines)[n].body) = e - h
      /\ \A k \in 1 .. e - h : Parse(lines)[n].body[k] = lines[h + k]
      /\ Parse(lines)[n].title = [lines[h] EXCEPT !.head = FALSE, !.stamp = NoStamp]

\* What is parsed from a text is one log per header.
LEMMA Parsed ==
  ASSUME NEW S, Closed(S), NEW lines \in Seq(S)
  PROVE  /\ Cardinality(Headers(lines)) \in Nat
         /\ Parse(lines) \in Seq(Logs(S))
         /\ Len(Parse(lines)) = Cardinality(Headers(lines))
         /\ \A n \in 1 .. Cardinality(Headers(lines)) : IsLogOf(S, lines, n)
<1> DEFINE count == Cardinality(Headers(lines))
<1>0. Len(lines) \in Nat /\ DOMAIN lines = 1 .. Len(lines) /\ NoStamp \in 0 .. Unknown
  BY RecallAssumption DEF NoStamp, Unknown
<1>1. /\ count \in Nat
      /\ \A n \in 1 .. count : HeaderAt(lines, n) \in Headers(lines)
      /\ \A n \in 1 .. count : n + 1 \in 1 .. count =>
           HeaderAt(lines, n) < HeaderAt(lines, n + 1)
  BY HeadersInOrder
<1>2. ASSUME NEW n \in 1 .. count
      PROVE  /\ HeaderAt(lines, n) \in Headers(lines) /\ HeaderAt(lines, n) \in 1 .. Len(lines)
             /\ EndAt(lines, n) \in HeaderAt(lines, n) .. Len(lines)
  <2>1. HeaderAt(lines, n) \in Headers(lines) /\ HeaderAt(lines, n) \in 1 .. Len(lines)
    BY <1>1 DEF Headers
  <2>2. CASE n = count
    BY <1>0, <2>1, <2>2 DEF EndAt
  <2>3. CASE n # count
    <3>1. n + 1 \in 1 .. count
      BY <1>1, <2>3
    <3>2. HeaderAt(lines, n) < HeaderAt(lines, n + 1)
      BY <1>1, <3>1
    <3>3. HeaderAt(lines, n + 1) \in 1 .. Len(lines)
      BY <1>1, <3>1 DEF Headers
    <3>4. EndAt(lines, n) = HeaderAt(lines, n + 1) - 1
      BY <2>3 DEF EndAt
    <3> QED BY <1>0, <2>1, <3>2, <3>3, <3>4
  <2> QED BY <2>1, <2>2, <2>3
<1>3. ASSUME NEW h \in 1 .. Len(lines), NEW e \in h .. Len(lines)
      PROVE  /\ LogAt(lines, h, e) \in Logs(S)
             /\ LogAt(lines, h, e).body \in Seq(S)
             /\ Len(LogAt(lines, h, e).body) = e - h
             /\ \A k \in 1 .. e - h : LogAt(lines, h, e).body[k] = lines[h + k]
             /\ LogAt(lines, h, e).title = [lines[h] EXCEPT !.head = FALSE, !.stamp = NoStamp]
  <2> DEFINE title == [lines[h] EXCEPT !.head = FALSE, !.stamp = NoStamp]
             stamp == IF lines[h].stamp = NoStamp THEN Unknown ELSE lines[h].stamp
             body == SubSeq(lines, h + 1, e)
  <2>1. lines[h] \in S /\ lines[h] \in Lines
    <3>1. lines[h] \in S
      BY <1>0
    <3>2. S \subseteq Lines
      BY DEF Closed
    <3> QED BY <3>1, <3>2
  <2>2. title \in S
    BY <1>0, <2>1 DEF Closed
  <2>3. stamp \in 0 .. Unknown
    BY <2>1, RecallAssumption DEF Lines, Unknown
  <2>4. body \in Seq(S) /\ Len(body) = e - h /\ \A k \in 1 .. e - h : body[k] = lines[h + k]
    <3>1. h + 1 \in Int /\ e \in Int /\ \A i \in h + 1 .. e : lines[i] \in S
      BY <1>0
    <3>2. /\ SubSeq(lines, h + 1, e) \in Seq(S)
          /\ Len(SubSeq(lines, h + 1, e)) = IF h + 1 <= e THEN e - (h + 1) + 1 ELSE 0
          /\ \A i \in 1 .. e - (h + 1) + 1 : SubSeq(lines, h + 1, e)[i] = lines[(h + 1) + i - 1]
      BY <3>1, SubSeqProperties
    <3>3. e - (h + 1) + 1 = e - h /\ \A i \in 1 .. e - h : (h + 1) + i - 1 = h + i
      BY <1>0
    <3> QED BY <1>0, <3>2, <3>3
  <2>5. LogAt(lines, h, e) = [stamp |-> stamp, title |-> title, body |-> body]
    BY DEF LogAt
  <2> HIDE DEF title, stamp, body
  <2>6. LogAt(lines, h, e) \in Logs(S)
    BY <2>2, <2>3, <2>4, <2>5 DEF Logs
  <2>7. LogAt(lines, h, e).body = body /\ LogAt(lines, h, e).title = title
    BY <2>5
  <2> QED BY <2>4, <2>6, <2>7 DEF title
<1>4. Parse(lines) = [n \in 1 .. count |-> LogAt(lines, HeaderAt(lines, n), EndAt(lines, n))]
  BY DEF Parse, LogsOf, EndAt
<1> HIDE DEF count
<1>5. \A n \in 1 .. count : LogAt(lines, HeaderAt(lines, n), EndAt(lines, n)) \in Logs(S)
  BY <1>2, <1>3
<1>6. Parse(lines) \in Seq(Logs(S)) /\ Len(Parse(lines)) = count
  BY <1>1, <1>4, <1>5
<1>7. \A n \in 1 .. count : Parse(lines)[n] = LogAt(lines, HeaderAt(lines, n), EndAt(lines, n))
  BY <1>4
<1>8. ASSUME NEW n \in 1 .. count PROVE IsLogOf(S, lines, n)
  <2> DEFINE h == HeaderAt(lines, n)
             e == EndAt(lines, n)
  <2>1. h \in Headers(lines) /\ h \in 1 .. Len(lines) /\ e \in h .. Len(lines)
    BY <1>2
  <2>2. Parse(lines)[n] = LogAt(lines, h, e)
    BY <1>7
  <2> HIDE DEF h, e
  <2>3. /\ LogAt(lines, h, e) \in Logs(S)
        /\ LogAt(lines, h, e).body \in Seq(S)
        /\ Len(LogAt(lines, h, e).body) = e - h
        /\ \A k \in 1 .. e - h : LogAt(lines, h, e).body[k] = lines[h + k]
        /\ LogAt(lines, h, e).title = [lines[h] EXCEPT !.head = FALSE, !.stamp = NoStamp]
    BY <1>3, <2>1
  <2> QED BY <2>1, <2>2, <2>3 DEF h, e, IsLogOf
<1> QED BY <1>1, <1>6, <1>8 DEF count

(***************************************************************************)
(* Reading a file and writing it again changes only time stamps.           *)
(***************************************************************************)

\* Two lines that differ at most in their time stamp and phrases, and texts of such lines.
Same(a, b) == a.says = b.says /\ a.field = b.field /\ a.head = b.head
Mirrors(out, lines, n) == Len(out) = n /\ \A k \in 1 .. n : Same(out[k], lines[k])

\* A file is empty or begins with a header.
Begun(lines) == lines # <<>> => lines[1].head

\* A log parsed and written again mirrors the lines it was parsed from.
LEMMA LogMirrors ==
  ASSUME NEW lines \in Seq(Lines), NEW n \in 1 .. Cardinality(Headers(lines))
  PROVE  LET h == HeaderAt(lines, n)
             e == EndAt(lines, n)
             w == Written(Parse(lines)[n])
         IN  /\ w \in Seq(Lines) /\ Len(w) = 1 + (e - h)
             /\ \A k \in 1 .. 1 + (e - h) : Same(w[k], lines[h + k - 1])
<1> DEFINE h == HeaderAt(lines, n)
           e == EndAt(lines, n)
           log == Parse(lines)[n]
<1>1. /\ h \in Headers(lines) /\ h \in 1 .. Len(lines) /\ e \in h .. Len(lines)
      /\ log.body \in Seq(Lines) /\ Len(log.body) = e - h
      /\ \A k \in 1 .. e - h : log.body[k] = lines[h + k]
      /\ log.title = [lines[h] EXCEPT !.head = FALSE, !.stamp = NoStamp]
      /\ log \in Logs(Lines)
  <2>1. IsLogOf(Lines, lines, n)
    BY LinesClosed, Parsed
  <2> QED BY <2>1 DEF IsLogOf
<1> HIDE DEF h, e, log
<1>3. /\ Written(log) \in Seq(Lines)
      /\ Len(Written(log)) = 1 + Len(log.body)
      /\ Written(log)[1] = [log.title EXCEPT !.head = TRUE, !.stamp = log.stamp]
      /\ \A k \in 1 .. Len(log.body) : Written(log)[1 + k] = log.body[k]
  BY <1>1, LinesClosed, WrittenLog
<1>4. Same(Written(log)[1], lines[h])
  <2>1. lines[h] \in Lines /\ lines[h].head = TRUE
    <3>1. lines[h] \in Lines
      BY <1>1
    <3>2. lines[h].head /\ lines[h].head \in BOOLEAN
      BY <1>1, <3>1 DEF Headers, Lines
    <3> QED BY <3>1, <3>2
  <2>2. log.title \in Lines /\ log.title.says = lines[h].says /\ log.title.field = lines[h].field
    <3>1. log.title \in Lines
      BY <1>1 DEF Logs
    <3> QED BY <1>1, <2>1, <3>1 DEF Lines
  <2> DEFINE w == [log.title EXCEPT !.head = TRUE, !.stamp = log.stamp]
  <2>3. w.says = log.title.says /\ w.field = log.title.field /\ w.head = TRUE
    BY <2>2 DEF Lines
  <2> HIDE DEF w
  <2>4. Same(w, lines[h])
    BY <2>1, <2>2, <2>3 DEF Same
  <2> QED BY <1>3, <2>4 DEF w
<1>5. ASSUME NEW k \in 1 .. 1 + (e - h) PROVE Same(Written(log)[k], lines[h + k - 1])
  <2>1. CASE k = 1
    <3>1. h + k - 1 = h
      BY <1>1, <2>1
    <3> QED BY <1>4, <2>1, <3>1
  <2>2. CASE k # 1
    <3>1. k - 1 \in 1 .. e - h /\ 1 + (k - 1) = k /\ h + (k - 1) = h + k - 1
      BY <1>1, <2>2
    <3>2. Written(log)[k] = log.body[k - 1]
      BY <1>1, <1>3, <3>1
    <3>3. Written(log)[k] = lines[h + k - 1]
      BY <1>1, <3>1, <3>2
    <3> QED BY <3>3 DEF Same
  <2> QED BY <2>1, <2>2
<1> QED BY <1>1, <1>3, <1>5 DEF h, e, log

\* So does the whole file.
LEMMA RoundTrip ==
  ASSUME NEW lines \in Seq(Lines), Begun(lines)
  PROVE  Mirrors(Render(Parse(lines)), lines, Len(lines))
<1> DEFINE logs == Parse(lines)
           count == Cardinality(Headers(lines))
           ss == [k \in DOMAIN logs |-> Written(logs[k])]
<1>1. count \in Nat /\ logs \in Seq(Logs(Lines)) /\ Len(logs) = count
  BY LinesClosed, Parsed
<1>2. ss \in Seq(Seq(Lines)) /\ Len(ss) = count
  <2> HIDE DEF logs, count
  <2> QED BY <1>1, LinesClosed, RenderTyped
<1>3. \A n \in 1 .. count : ss[n] = Written(Parse(lines)[n])
  BY <1>1
<1>4. Render(Parse(lines)) = FlattenSeq(ss)
  BY DEF Render
<1>5. CASE count = 0
  <2>1. lines = <<>>
    <3>1. 1 \in Headers(lines) => 1 \in 1 .. count
      BY HeadersInOrder
    <3>2. 1 \notin Headers(lines)
      BY <1>5, <3>1
    <3> QED BY <3>2 DEF Headers, Begun
  <2>2. ss = <<>>
    BY <1>2, <1>5
  <2> HIDE DEF ss
  <2>3. FlattenSeq(ss) = <<>>
    BY <2>2 DEF FlattenSeq
  <2> QED BY <1>4, <2>1, <2>3 DEF Mirrors
<1>6. CASE count # 0
  <2>0. Len(lines) \in Nat /\ 1 \in 1 .. count /\ count \in 1 .. count
    BY <1>1, <1>6
  <2> HIDE DEF ss, logs
  <2>1. PICK f \in [1 .. count -> Seq(Lines)] : Flattens(f, ss, count)
    BY <1>2, FlatteningExists
  <2>2. FlattenSeq(ss) = f[count]
    <3>1. ss # <<>>
      BY <1>2, <1>6
    <3>2. f \in [1 .. Len(ss) -> Seq(Lines)] /\ Flattens(f, ss, Len(ss))
      BY <1>2, <2>1
    <3> QED BY <1>2, <3>1, <3>2, FlattenUnfold
  <2>3. HeaderAt(lines, 1) = 1
    <3>1. lines # <<>>
      <4>1. HeaderAt(lines, 1) \in Headers(lines)
        BY <2>0, HeadersInOrder
      <4> QED BY <4>1 DEF Headers
    <3>2. 1 \in Headers(lines)
      BY <2>0, <3>1 DEF Begun, Headers
    <3> QED BY <3>2, HeadersInOrder
  <2> DEFINE T == {n \in 0 .. count : n # 0 => Mirrors(f[n], lines, EndAt(lines, n))}
  <2>4. 0 \in T
    BY <1>1
  <2>5. ASSUME NEW n \in 0 .. count - 1, n \in T PROVE n + 1 \in T
    <3> DEFINE h == HeaderAt(lines, n + 1)
               e == EndAt(lines, n + 1)
               w == ss[n + 1]
    <3>1. n \in Nat /\ n + 1 \in 1 .. count /\ n + 1 # 0
      BY <1>1
    <3>2. /\ w \in Seq(Lines) /\ Len(w) = 1 + (e - h)
          /\ \A k \in 1 .. 1 + (e - h) : Same(w[k], lines[h + k - 1])
      BY <1>3, <3>1, LogMirrors
    <3>3. h \in 1 .. Len(lines) /\ e \in h .. Len(lines)
      BY <3>1, LinesClosed, Parsed DEF IsLogOf
    <3>4. f[n + 1] = IF n + 1 = 1 THEN w ELSE f[(n + 1) - 1] \o w
      BY <2>1, <3>1 DEF Flattens
    <3> HIDE DEF w
    <3>5. CASE n = 0
      <4>1. h = 1
        BY <2>3, <3>5
      <4>2. f[n + 1] = w
        BY <3>4, <3>5
      <4> HIDE DEF h, e
      <4>3. Len(w) = e /\ \A k \in 1 .. e : Same(w[k], lines[k])
        BY <3>2, <3>3, <4>1
      <4> QED BY <3>1, <4>2, <4>3 DEF Mirrors, e
    <3>6. CASE n # 0
      <4>1. n \in 1 .. count /\ (n + 1) - 1 = n
        BY <1>1, <3>6
      <4>2. EndAt(lines, n) = h - 1
        BY <1>1, <3>1 DEF EndAt
      <4>3. Len(f[n]) = h - 1 /\ \A k \in 1 .. h - 1 : Same(f[n][k], lines[k])
        BY <2>5, <3>6, <4>2 DEF Mirrors
      <4>4. f[n + 1] = f[n] \o w /\ f[n] \in Seq(Lines)
        BY <2>1, <3>1, <3>4, <3>6, <4>1
      <4> HIDE DEF h, e, T
      <4>5. /\ Len(f[n] \o w) = Len(f[n]) + Len(w)
            /\ \A i \in 1 .. Len(f[n]) + Len(w) : (f[n] \o w)[i] =
                 IF i <= Len(f[n]) THEN f[n][i] ELSE w[i - Len(f[n])]
        BY <3>2, <4>4, ConcatProperties
      <4>6. Len(f[n]) + Len(w) = e
        BY <3>2, <3>3, <4>3
      <4>7. ASSUME NEW i \in 1 .. e PROVE Same((f[n] \o w)[i], lines[i])
        <5>1. CASE i <= h - 1
          <6>1. (f[n] \o w)[i] = f[n][i] /\ i \in 1 .. h - 1
            BY <3>3, <4>3, <4>5, <4>6, <5>1
          <6> QED BY <4>3, <6>1
        <5>2. CASE ~(i <= h - 1)
          <6>1. /\ i - (h - 1) \in 1 .. 1 + (e - h)
                /\ h + (i - (h - 1)) - 1 = i
            BY <3>3, <5>2
          <6>2. (f[n] \o w)[i] = w[i - (h - 1)]
            BY <4>3, <4>5, <4>6, <5>2
          <6>3. Same(w[i - (h - 1)], lines[h + (i - (h - 1)) - 1])
            BY <3>2, <6>1
          <6> QED BY <6>1, <6>2, <6>3
        <5> QED BY <5>1, <5>2
      <4>8. Mirrors(f[n + 1], lines, e)
        BY <4>4, <4>5, <4>6, <4>7 DEF Mirrors
      <4> QED BY <3>1, <4>8 DEF T, e
    <3> QED BY <3>5, <3>6
  <2> HIDE DEF T
  <2>6. T = 0 .. count
    <3>1. T \in SUBSET (0 .. count)
      BY DEF T
    <3> HIDE DEF count
    <3> QED BY <1>1, <2>4, <2>5, <3>1, UpTo
  <2>7. Mirrors(f[count], lines, EndAt(lines, count))
    BY <2>0, <2>6, <1>6 DEF T
  <2>8. EndAt(lines, count) = Len(lines)
    BY DEF EndAt
  <2> QED BY <1>4, <2>2, <2>7, <2>8 DEF ss
<1> QED BY <1>5, <1>6

(***************************************************************************)
(* The other operators keep to a closed set of lines.                      *)
(***************************************************************************)

\* The smaller of two numbers.
LEMMA MinOfTwo ==
  ASSUME NEW a \in Nat, NEW b \in Nat
  PROVE  Min({a, b}) \in Nat /\ Min({a, b}) <= a /\ Min({a, b}) <= b
           /\ (Min({a, b}) = a \/ Min({a, b}) = b)
<1>1. \E x \in {a, b} : \A y \in {a, b} : x =< y
  <2>1. CASE a <= b
    BY <2>1
  <2>2. CASE b <= a
    BY <2>2
  <2> QED BY <2>1, <2>2
<1> DEFINE m == CHOOSE x \in {a, b} : \A y \in {a, b} : x =< y
<1>2. m \in {a, b} /\ \A y \in {a, b} : m =< y
  BY <1>1
<1>3. Min({a, b}) = m
  BY DEF Min
<1> HIDE DEF m
<1> QED BY <1>2, <1>3

\* A text put after something on its first line.
LEMMA WithPrefixTyped ==
  ASSUME NEW S, Closed(S), NEW text \in Texts(S)
  PROVE  WithPrefix(text) \in Texts(S)
<1>1. text \in Seq(S) /\ text # <<>>
  BY DEF Texts
<1>2. Head(text) \in S /\ Tail(text) \in Seq(S)
  BY <1>1, HeadTailProperties
<1>3. Prefixed(Head(text)) \in S
  BY <1>2 DEF Closed
<1>4. /\ <<Prefixed(Head(text))>> \in Seq(S) /\ Len(<<Prefixed(Head(text))>>) = 1
  BY <1>3
<1> DEFINE a == <<Prefixed(Head(text))>>
           b == Tail(text)
<1> HIDE DEF a, b
<1>5. a \in Seq(S) /\ Len(a) = 1 /\ b \in Seq(S) /\ Len(b) \in Nat
  BY <1>2, <1>4 DEF a, b
<1>6. a \o b \in Seq(S) /\ Len(a \o b) = 1 + Len(b)
  BY <1>5, ConcatProperties
<1>7. a \o b # <<>>
  BY <1>5, <1>6
<1> QED BY <1>6, <1>7 DEF Texts, WithPrefix, a, b

\* What a planner is told of a memory.
LEMMA SnippetTyped ==
  ASSUME NEW S, Closed(S), NEW text \in Texts(S)
  PROVE  SnippetOf(text) \in Texts(S)
<1>1. text \in Seq(S) /\ Len(text) \in Nat \ {0} /\ Snippet \in Nat \ {0}
  BY RecallAssumption DEF Texts
<1> DEFINE n == Min({Snippet, Len(text)})
<1>2. n \in 1 .. Len(text)
  <2>1. /\ n \in Nat /\ n <= Snippet /\ n <= Len(text)
        /\ (n = Snippet \/ n = Len(text))
    BY <1>1, MinOfTwo
  <2> HIDE DEF n
  <2> QED BY <1>1, <2>1
<1> HIDE DEF n
<1>3. \A i \in 1 .. n : text[i] \in S
  BY <1>1, <1>2
<1>4. SubSeq(text, 1, n) \in Seq(S) /\ Len(SubSeq(text, 1, n)) = IF 1 <= n THEN n - 1 + 1 ELSE 0
  <2>1. 1 \in Int /\ n \in Int
    BY <1>2
  <2> QED BY <1>3, <2>1, SubSeqProperties
<1>5. SubSeq(text, 1, n) # <<>>
  BY <1>2, <1>4
<1> QED BY <1>4, <1>5, WithPrefixTyped DEF SnippetOf, Texts, n

\* The context of a run.
LEMMA ContextTyped ==
  ASSUME NEW S, Closed(S), ContextFiles \in Seq(S), NEW recalled \in Seq(Texts(S))
  PROVE  Context(recalled) \in Seq(S)
<1> DEFINE snippets == [n \in DOMAIN recalled |-> SnippetOf(recalled[n])]
           gap == IF recalled = <<>> THEN <<>> ELSE <<Plain>>
<1>1. snippets \in Seq(Seq(S))
  <2>1. \A n \in 1 .. Len(recalled) : SnippetOf(recalled[n]) \in Seq(S)
    <3> SUFFICES ASSUME NEW n \in 1 .. Len(recalled) PROVE SnippetOf(recalled[n]) \in Seq(S)
      OBVIOUS
    <3>1. recalled[n] \in Texts(S)
      OBVIOUS
    <3> QED BY <3>1, SnippetTyped DEF Texts
  <2>2. Len(recalled) \in Nat /\ DOMAIN recalled = 1 .. Len(recalled)
    OBVIOUS
  <2> QED BY <2>1, <2>2
<1>2. FlattenSeq(snippets) \in Seq(S)
  <2> HIDE DEF snippets
  <2> QED BY <1>1, FlattenType
<1>3. gap \in Seq(S)
  <2>1. Plain \in S
    BY DEF Closed, Plain
  <2> QED BY <2>1
<1> HIDE DEF snippets, gap
<1>4. ContextFiles \o gap \in Seq(S)
  BY <1>3
<1>5. (ContextFiles \o gap) \o FlattenSeq(snippets) \in Seq(S)
  BY <1>2, <1>4
<1> QED BY <1>5 DEF Context, snippets, gap

-----------------------------------------------------------------------------
(***************************************************************************)
(* What is stored consists of lines of a closed set.                       *)
(***************************************************************************)
Store(S) ==
  /\ disk \in Seq(S)
  /\ events \in Seq(Recollections(S))
  /\ memory \in Seq(Logs(S))

\* What a search goes through.
LEMMA MemoriesTyped ==
  ASSUME NEW S, Closed(S), Store(S)
  PROVE  Memories \in Seq(Recollections(S))
<1> DEFINE logs == Parse(disk)
           found == [k \in DOMAIN logs |-> [stamp |-> logs[k].stamp, text |-> TextOf(logs[k])]]
<1>1. logs \in Seq(Logs(S))
  BY Parsed DEF Store
<1> HIDE DEF logs
<1>2. ASSUME NEW k \in 1 .. Len(logs)
      PROVE  [stamp |-> logs[k].stamp, text |-> TextOf(logs[k])] \in Recollections(S)
  <2>1. logs[k] \in Logs(S)
    BY <1>1
  <2>2. logs[k].stamp \in 0 .. Unknown /\ logs[k].title \in S /\ logs[k].body \in Seq(S)
    BY <2>1 DEF Logs
  <2> DEFINE a == <<logs[k].title>>
             b == logs[k].body
  <2>3. a \in Seq(S) /\ Len(a) = 1 /\ b \in Seq(S) /\ Len(b) \in Nat
    BY <2>2
  <2> HIDE DEF a, b
  <2>4. a \o b \in Seq(S) /\ Len(a \o b) = 1 + Len(b)
    BY <2>3, ConcatProperties
  <2>5. a \o b # <<>>
    BY <2>3, <2>4
  <2>6. TextOf(logs[k]) \in Texts(S)
    BY <2>4, <2>5 DEF TextOf, Texts, a, b
  <2> QED BY <2>2, <2>6 DEF Recollections
<1>3. found \in Seq(Recollections(S))
  BY <1>1, <1>2
<1> HIDE DEF found
<1>4. events \o found \in Seq(Recollections(S))
  BY <1>3 DEF Store
<1> QED BY <1>4 DEF Memories, found, logs

\* What it returns: every rank among the hits is taken.
LEMMA SearchTyped ==
  ASSUME NEW S, Closed(S), Store(S), NEW i \in Instructions
  PROVE  Search(i) \in Seq(Texts(S))
<1> DEFINE all == Memories
           score == [k \in DOMAIN all |-> Score(all[k].text, i)]
           Ahead(a, b) == \/ score[a] > score[b]
                          \/ score[a] = score[b] /\ all[a].stamp > all[b].stamp
                          \/ score[a] = score[b] /\ all[a].stamp = all[b].stamp /\ a > b
           hits == {k \in DOMAIN all : score[k] > 0}
           At(rank) == CHOOSE k \in hits : Cardinality({j \in hits : Ahead(j, k)}) = rank - 1
           count == Min({RecallLimit, Cardinality(hits)})
           R == {p \in hits \X hits : Ahead(p[1], p[2])}
<1>1. all \in Seq(Recollections(S)) /\ DOMAIN all = 1 .. Len(all) /\ Len(all) \in Nat
  <2>1. Memories \in Seq(Recollections(S))
    BY MemoriesTyped
  <2> QED BY <2>1
<1> HIDE DEF all
<1>2. \A k \in DOMAIN all : all[k].stamp \in Nat /\ all[k].text \in Texts(S)
  <2> SUFFICES ASSUME NEW k \in DOMAIN all PROVE all[k].stamp \in Nat /\ all[k].text \in Texts(S)
    OBVIOUS
  <2>1. all[k] \in Recollections(S)
    BY <1>1
  <2> QED BY <2>1, RecallAssumption DEF Recollections, Unknown
<1>3. \A k \in DOMAIN all : score[k] \in Nat
  <2> SUFFICES ASSUME NEW k \in DOMAIN all PROVE Score(all[k].text, i) \in Nat
    OBVIOUS
  <2>1. IsFiniteSet(Tokens[i])
    BY RecallAssumption
  <2>2. Tokens[i] \cap Said(all[k].text) \in SUBSET Tokens[i]
    OBVIOUS
  <2>3. Cardinality(Tokens[i] \cap Said(all[k].text)) \in Nat
    BY <2>1, <2>2, FS_Subset, FS_CardinalityType
  <2> QED BY <2>3 DEF Score
<1> HIDE DEF score
<1>4. IsFiniteSet(hits) /\ Cardinality(hits) \in Nat /\ hits \in SUBSET Nat
  <2>1. hits \in SUBSET (1 .. Len(all)) /\ IsFiniteSet(1 .. Len(all))
    BY <1>1, FS_Interval
  <2> HIDE DEF hits
  <2>2. IsFiniteSet(hits)
    BY <2>1, FS_Subset
  <2> QED BY <1>1, <2>1, <2>2, FS_CardinalityType
<1>5. \A a \in hits : score[a] \in Nat /\ all[a].stamp \in Nat /\ a \in Nat
  BY <1>1, <1>2, <1>3
<1>6. Orders(R, hits)
  <2>1. \A a, b \in hits : <<a, b>> \in R <=> Ahead(a, b)
    OBVIOUS
  <2> HIDE DEF R, hits
  <2>2. \A a \in hits : <<a, a>> \notin R
    BY <1>5, <2>1
  <2>3. \A a, b \in hits : a # b => <<a, b>> \in R \/ <<b, a>> \in R
    BY <1>5, <2>1
  <2>4. ASSUME NEW a \in hits, NEW b \in hits, NEW c \in hits, <<a, b>> \in R, <<b, c>> \in R
        PROVE  <<a, c>> \in R
    BY <1>5, <2>1, <2>4
  <2> QED BY <2>2, <2>3, <2>4 DEF Orders
<1>7. ASSUME NEW rank \in 1 .. count PROVE all[At(rank)].text \in Texts(S)
  <2>1. rank \in 1 .. Cardinality(hits)
    <3>1. RecallLimit \in Nat
      BY RecallAssumption
    <3> HIDE DEF hits
    <3>2. count \in Nat /\ count <= Cardinality(hits)
      BY <1>4, <3>1, MinOfTwo
    <3> HIDE DEF count
    <3> QED BY <1>4, <3>2
  <2>2. \E k \in hits : Rank(R, hits, k) = rank - 1
    <3> HIDE DEF R, hits
    <3> QED BY <1>4, <1>6, <2>1, RankExists
  <2>3. \A k \in hits : {j \in hits : <<j, k>> \in R} = {j \in hits : Ahead(j, k)}
    OBVIOUS
  <2>4. \A k \in hits : Rank(R, hits, k) = Cardinality({j \in hits : Ahead(j, k)})
    <3> HIDE DEF R, hits, Ahead
    <3> QED BY <2>3 DEF Rank
  <2>5. \E k \in hits : Cardinality({j \in hits : Ahead(j, k)}) = rank - 1
    <3> HIDE DEF R, hits, Ahead
    <3> QED BY <2>2, <2>4
  <2>6. At(rank) \in hits
    <3> HIDE DEF hits, Ahead
    <3> QED BY <2>5
  <2> HIDE DEF At
  <2> QED BY <1>2, <2>6
<1>8. count \in Nat
  <2>1. RecallLimit \in Nat
    BY RecallAssumption
  <2> HIDE DEF hits
  <2> QED BY <1>4, <2>1, MinOfTwo
<1>9. Search(i) = [rank \in 1 .. count |-> all[At(rank)].text]
  BY DEF Search, all, score
<1> HIDE DEF At, count
<1>10. [rank \in 1 .. count |-> all[At(rank)].text] \in Seq(Texts(S))
  BY <1>7, <1>8
<1> QED BY <1>9, <1>10

\* The time stamp of an entry, and the entries a run writes.
LEMMA EntriesTyped ==
  ASSUME NEW S, Closed(S), clock \in 1 .. MaxClock
  PROVE  /\ \A text \in Seq(S) : InstructionEvent(text) \in Recollections(S)
         /\ \A s \in Catalog : SkillEvent(s) \in Recollections(S)
         /\ \A flag \in BOOLEAN : NextAction(flag) \in S
         /\ \A n \in Seq(S) : [stamp |-> clock, title |-> Plain, body |-> n] \in Logs(S)
<1>1. clock \in 0 .. Unknown
  BY RecallAssumption DEF Unknown
<1>2. \A says \in SUBSET Words, flag \in BOOLEAN : Line(says, flag, NoField) \in S
  BY DEF Closed
<1>3. ASSUME NEW l \in S PROVE <<l>> \in Texts(S)
  BY DEF Texts
<1>4. ASSUME NEW text \in Seq(S) PROVE InstructionEvent(text) \in Recollections(S)
  <2> DEFINE says == Said(text) \ (IF Len(text) > 1 THEN Instructions ELSE {})
             flag == IsReplan(text)
  <2>1. says \in SUBSET Words
    <3>1. \A k \in DOMAIN text : text[k] \in Lines
      <4>1. S \subseteq Lines
        BY DEF Closed
      <4> QED BY <4>1
    <3>2. Said(text) \in SUBSET Words
      BY <3>1 DEF Said, Lines
    <3> QED BY <3>2
  <2>2. flag \in BOOLEAN
    BY DEF IsReplan
  <2> HIDE DEF says, flag
  <2>3. <<Line(says, flag, NoField)>> \in Texts(S)
    BY <1>2, <1>3, <2>1, <2>2
  <2> QED BY <1>1, <2>3 DEF InstructionEvent, Recollections, says, flag
<1>5. ASSUME NEW s \in Catalog PROVE SkillEvent(s) \in Recollections(S)
  <2>1. s \in Words
    <3>1. Skills \in Seq(Words)
      BY RecallAssumption
    <3> QED BY <3>1 DEF Catalog, ToSet
  <2>2. <<Line({s}, FALSE, NoField)>> \in Texts(S)
    BY <1>2, <1>3, <2>1
  <2> QED BY <1>1, <2>2 DEF SkillEvent, Recollections
<1>6. \A flag \in BOOLEAN : NextAction(flag) \in S
  BY <1>2 DEF NextAction
<1>7. \A n \in Seq(S) : [stamp |-> clock, title |-> Plain, body |-> n] \in Logs(S)
  BY <1>1, <1>2 DEF Plain, Logs
<1> QED BY <1>4, <1>5, <1>6, <1>7

\* A log repeats the instruction.
LEMMA ExecutionLogTyped ==
  ASSUME NEW S, Closed(S), clock \in 1 .. MaxClock, Original \in Texts(S),
         NEW title \in S, NEW tail \in Seq(S)
  PROVE  ExecutionLog(title, tail) \in Logs(S)
<1> DEFINE a == WithPrefix(InstructionText[run.instruction])
<1>1. a \in Seq(S)
  BY WithPrefixTyped DEF Original, Texts
<1> HIDE DEF a
<1>2. a \o tail \in Seq(S)
  BY <1>1
<1>3. ExecutionLog(title, tail) = [stamp |-> clock, title |-> title, body |-> a \o tail]
  BY DEF ExecutionLog, a
<1>4. clock \in 0 .. Unknown
  BY RecallAssumption DEF Unknown
<1> QED BY <1>2, <1>3, <1>4 DEF Logs

\* The log of a skill repeats the reason for it as well.
LEMMA SkillLogTyped ==
  ASSUME NEW S, Closed(S), clock \in 1 .. MaxClock, Original \in Texts(S),
         NEW s \in Catalog, NEW reason, WithPrefix(reason) \in Seq(S), NEW flag \in BOOLEAN
  PROVE  SkillLog(s, reason, flag) \in Logs(S)
<1> DEFINE title == Line({s}, FALSE, NoField)
           a == WithPrefix(reason)
           last == NextAction(flag)
<1>1. title \in S
  <2>1. Skills \in Seq(Words)
    BY RecallAssumption
  <2>2. {s} \in SUBSET Words
    BY <2>1 DEF Catalog, ToSet
  <2> QED BY <2>2 DEF Closed
<1>2. last \in S
  BY EntriesTyped
<1>3. a \in Seq(S)
  OBVIOUS
<1>4. SkillLog(s, reason, flag) = ExecutionLog(title, a \o <<last>>)
  BY DEF SkillLog
<1> HIDE DEF title, a, last
<1>5. a \o <<last>> \in Seq(S)
  BY <1>2, <1>3
<1> QED BY <1>1, <1>4, <1>5, ExecutionLogTyped

(***************************************************************************)
(* A step that records an execution adds events and one log, and keeps the *)
(* memory it wrote unless the run ends.                                    *)
(***************************************************************************)
Recorded(S) ==
  \E entries \in Seq(Recollections(S)), log \in Logs(S) :
    /\ Record(entries, log)
    /\ \/ Close
       \/ /\ pc' = "turn" /\ memory' = Append(memory, log)
          /\ \E planning, failure, replans :
               run' = [run EXCEPT !.planning = planning, !.failure = failure,
                                  !.replans = replans, !.candidate = 1]

\* Both ways for a run to get on record.
LEMMA RunsRecord ==
  ASSUME NEW S, Closed(S), clock \in 1 .. MaxClock, Original \in Texts(S),
         \A r \in reasons' : WithPrefix(r) \in Seq(S),
         Stop \/ \E s \in Catalog : Execute(s)
  PROVE  Recorded(S)
<1>0. Original \in Seq(S)
  BY DEF Texts
<1>1. ASSUME NEW s \in Catalog, NEW reason, NEW flag \in BOOLEAN, Executed(s, reason, flag),
             \/ Close
             \/ \E planning, failure, replans :
                  GoesOn(SkillLog(s, reason, flag), planning, failure, replans)
      PROVE  Recorded(S)
  <2> DEFINE entries == <<InstructionEvent(Original), SkillEvent(s)>>
             log == SkillLog(s, reason, flag)
  <2>1. entries \in Seq(Recollections(S))
    <3>1. InstructionEvent(Original) \in Recollections(S) /\ SkillEvent(s) \in Recollections(S)
      BY <1>0, EntriesTyped
    <3> QED BY <3>1
  <2>2. log \in Logs(S)
    <3>1. reason \in reasons'
      BY <1>1 DEF Executed
    <3> QED BY <3>1, SkillLogTyped
  <2>3. Record(entries, log)
    BY <1>1 DEF Executed, Original
  <2>4. \/ Close
        \/ /\ pc' = "turn" /\ memory' = Append(memory, log)
           /\ \E planning, failure, replans :
                run' = [run EXCEPT !.planning = planning, !.failure = failure,
                                   !.replans = replans, !.candidate = 1]
    BY <1>1 DEF GoesOn
  <2> HIDE DEF entries, log
  <2> QED BY <2>1, <2>2, <2>3, <2>4 DEF Recorded
<1>2. ASSUME NEW s \in Catalog, Execute(s) PROVE Recorded(S)
  <2>0. PICK reason \in ReasonsOf(turn.planner) :
          \/ Complete(s, reason)
          \/ \E step \in FailingSteps[s] : Fail(s, reason, step)
          \/ Stopped(s, reason)
    BY <1>2 DEF Execute
  <2>1. CASE Complete(s, reason)
    <3>1. \/ Close
          \/ \E planning, failure, replans :
               GoesOn(SkillLog(s, reason, FALSE), planning, failure, replans)
      BY <2>1 DEF Complete
    <3> QED BY <1>1, <2>1, <3>1 DEF Complete
  <2>2. CASE \E step \in FailingSteps[s] : Fail(s, reason, step)
    <3>1. \/ Close
          \/ \E planning, failure, replans :
               GoesOn(SkillLog(s, reason, TRUE), planning, failure, replans)
      BY <2>2 DEF Fail
    <3> QED BY <1>1, <2>2, <3>1 DEF Fail
  <2>3. CASE Stopped(s, reason)
    BY <1>1, <2>3 DEF Stopped
  <2> QED BY <2>0, <2>1, <2>2, <2>3
<1>3. ASSUME Stop PROVE Recorded(S)
  <2> DEFINE entries == <<InstructionEvent(Original)>>
             log == ExecutionLog(Plain, <<>>)
  <2>1. entries \in Seq(Recollections(S))
    <3>1. InstructionEvent(Original) \in Recollections(S)
      BY <1>0, EntriesTyped
    <3> QED BY <3>1
  <2>2. log \in Logs(S)
    <3>1. <<>> \in Seq(S)
      OBVIOUS
    <3>2. Plain \in S
      BY DEF Closed, Plain
    <3> QED BY <3>1, <3>2, ExecutionLogTyped
  <2>3. Record(entries, log) /\ Close
    BY <1>3 DEF Stop
  <2> HIDE DEF entries, log
  <2> QED BY <2>1, <2>2, <2>3 DEF Recorded
<1> QED BY <1>2, <1>3

\* What Record writes.
LEMMA RecordWrites ==
  ASSUME NEW S, Closed(S), Store(S), NEW entries \in Seq(Recollections(S)), NEW log \in Logs(S),
         Record(entries, log)
  PROVE  /\ disk' = Render(Append(memory, log))
         /\ disk' = Render(memory) \o Written(log)
         /\ disk' \in Seq(S)
         /\ events' \in Seq(Recollections(S))
         /\ Append(memory, log) \in Seq(Logs(S))
<1>1. memory \in Seq(Logs(S)) /\ events \in Seq(Recollections(S))
  BY DEF Store
<1>2. Append(memory, log) \in Seq(Logs(S))
  BY <1>1, AppendProperties
<1>3. disk' = Render(Append(memory, log)) /\ events' = events \o entries
  BY DEF Record
<1>4. Render(Append(memory, log)) = Render(memory) \o Written(log)
  BY <1>1, RenderAppend
<1>5. Render(Append(memory, log)) \in Seq(S)
  BY <1>2, RenderTyped
<1>6. events \o entries \in Seq(Recollections(S))
  BY <1>1
<1> QED BY <1>2, <1>3, <1>4, <1>5, <1>6

-----------------------------------------------------------------------------
(***************************************************************************)
(* The inductive invariant: types, what a run plans and was told, lines    *)
(* that report no failure unless somebody told the session of one, and     *)
(* the notes in the file and in the memory a run has open.                 *)
(***************************************************************************)
RunRecord ==
  [instruction : Instructions \cup {"none"}, chain : Chains \cup {<<>>}, candidate : Nat,
   recalled : Seq(Texts(Lines)), context : Seq(Lines), planning : Seq(Lines),
   failure : Names, replans : Nat]

Typed ==
  /\ clock \in 1 .. MaxClock
  /\ notes \subseteq Notes /\ runs \in Seq(Instructions) /\ reasons \subseteq Texts(Lines)
  /\ pc \in {"idle", "turn", "asked"}
  /\ run \in RunRecord
  /\ Store(Lines)

\* A run plans its instruction, or the replan after the failure it had.
Planning ==
  pc # "idle" =>
    /\ run.instruction \in ToSet(runs)
    /\ run.failure \in Steps \cup {"none"}
    /\ run.planning = IF run.failure = "none" THEN Original ELSE ReplanText(run.failure)

\* A planner is asked with the context once, and offered what the prompt calls for.
Asked ==
  pc = "asked" =>
    /\ turn.planner \in {"mock", "model"}
    /\ turn.prompt = WithContext(run.planning, run.context, turn.planner)
    /\ turn.offered = Offered(turn.prompt, turn.planner)

\* Nobody told of a failure.
Untold == \A line \in Told : line.field = NoField

\* What is stored, and what a run was told of it, consists of lines of S.
Within(S) == Store(S) /\ (pc # "idle" => run.context \in Seq(S))

Quiet == Untold => Within(Silent)

\* The notes are in the file, and in the memory of a run that will rewrite the file.
Keeps(lines, ns) == Begun(lines) /\ \A n \in ns : Holds(lines, n)
NotesKept == Keeps(disk, notes) /\ (pc # "idle" => Keeps(Render(memory), notes))

IInv == Typed /\ Planning /\ Asked /\ Quiet /\ NotesKept

\* An instruction the session was given, as text.
LEMMA OriginalText ==
  ASSUME Typed, Planning, pc # "idle"
  PROVE  /\ run.instruction \in Instructions /\ run.instruction \in ToSet(runs)
         /\ Original = InstructionText[run.instruction]
         /\ Original \in Texts(Lines)
<1>1. run.instruction \in ToSet(runs) /\ ToSet(runs) \subseteq Instructions
  BY DEF Planning, Typed, ToSet
<1>2. InstructionText[run.instruction] \in Seq(Lines) \ {<<>>}
  BY <1>1, RecallAssumption
<1> QED BY <1>1, <1>2 DEF Original, Texts

\* Texts of S told to the session.
ToldIn(S, ns, rs, qs) ==
  /\ ContextFiles \in Seq(S)
  /\ \A n \in ns : n \in Seq(S)
  /\ \A r \in qs : WithPrefix(r) \in Seq(S)
  /\ \A i \in ToSet(rs) : InstructionText[i] \in Texts(S)

\* A step stores lines of S only, if all that was told is of S.
LEMMA WithinStep ==
  ASSUME NEW S, Closed(S), Typed, Planning, Within(S), ToldIn(S, notes', runs', reasons'), Next
  PROVE  Within(S)'
<1>0. /\ Store(S) /\ clock \in 1 .. MaxClock /\ run \in RunRecord /\ runs \in Seq(Instructions)
      /\ pc \in {"idle", "turn", "asked"}
  BY DEF Within, Typed
<1>1. ASSUME NEW n \in Notes, Note(n) PROVE Within(S)'
  <2> DEFINE log == [stamp |-> clock, title |-> Plain, body |-> n]
  <2>1. n \in Seq(S)
    BY <1>1 DEF Note, ToldIn
  <2>2. log \in Logs(S)
    BY <1>0, <2>1, EntriesTyped
  <2>3. Parse(disk) \in Seq(Logs(S))
    BY <1>0, Parsed DEF Store
  <2> HIDE DEF log
  <2>4. Append(Parse(disk), log) \in Seq(Logs(S))
    BY <2>2, <2>3, AppendProperties
  <2>5. Render(Append(Parse(disk), log)) \in Seq(S)
    BY <2>4, RenderTyped
  <2>6. disk' \in Seq(S)
    BY <1>1, <2>5 DEF Note, log
  <2> QED BY <1>0, <1>1, <2>6 DEF Note, Within, Store
<1>2. ASSUME NEW i \in Instructions, NEW chain \in Chains, Begin(i, chain) PROVE Within(S)'
  <2>1. Parse(disk) \in Seq(Logs(S))
    BY <1>0, Parsed DEF Store
  <2>2. Context(Search(i)) \in Seq(S)
    <3>1. Search(i) \in Seq(Texts(S))
      BY <1>0, SearchTyped
    <3> QED BY <3>1, ContextTyped DEF ToldIn
  <2>3. run'.context = Context(Search(i))
    BY <1>2 DEF Begin, NoRun
  <2> QED BY <1>0, <1>2, <2>1, <2>2, <2>3 DEF Begin, Within, Store
<1>3. ASSUME NEW planner \in {"mock", "model"}, Ask(planner) PROVE Within(S)'
  BY <1>3 DEF Ask, Within, Store
<1>4. ASSUME Refuse PROVE Within(S)'
  <2>1. <<>> \in Seq(Logs(S))
    OBVIOUS
  <2>2. /\ disk' = disk /\ events' = events
        /\ \/ memory' = memory /\ run' = [run EXCEPT !.candidate = @ + 1] /\ pc # "idle"
           \/ memory' = <<>> /\ pc' = "idle"
    BY <1>4 DEF Refuse, Close
  <2>3. CASE memory' = memory /\ run' = [run EXCEPT !.candidate = @ + 1] /\ pc # "idle"
    <3>1. run'.context = run.context
      BY <1>0, <2>3 DEF RunRecord
    <3> QED BY <1>0, <2>2, <2>3, <3>1 DEF Within, Store
  <2>4. CASE memory' = <<>> /\ pc' = "idle"
    BY <1>0, <2>1, <2>2, <2>4 DEF Within, Store
  <2> QED BY <2>2, <2>3, <2>4
<1>5. ASSUME Stop \/ \E s \in Catalog : Execute(s) PROVE Within(S)'
  <2>0. pc # "idle" /\ runs' = runs
    BY <1>5 DEF Stop, Execute, Complete, Fail, Stopped, Executed, Record
  <2>1. Original \in Texts(S)
    <3>1. run.instruction \in ToSet(runs) /\ Original = InstructionText[run.instruction]
      BY <2>0, OriginalText
    <3> QED BY <2>0, <3>1 DEF ToldIn
  <2>2. Recorded(S)
    BY <1>0, <1>5, <2>1, RunsRecord DEF ToldIn
  <2>3. PICK entries \in Seq(Recollections(S)), log \in Logs(S) :
          /\ Record(entries, log)
          /\ \/ Close
             \/ /\ pc' = "turn" /\ memory' = Append(memory, log)
                /\ \E planning, failure, replans :
                     run' = [run EXCEPT !.planning = planning, !.failure = failure,
                                        !.replans = replans, !.candidate = 1]
    BY <2>2 DEF Recorded
  <2>4. /\ disk' \in Seq(S) /\ events' \in Seq(Recollections(S))
        /\ Append(memory, log) \in Seq(Logs(S))
    BY <1>0, <2>3, RecordWrites
  <2>5. CASE Close
    <3>1. <<>> \in Seq(Logs(S))
      OBVIOUS
    <3> QED BY <2>4, <2>5, <3>1 DEF Close, Within, Store
  <2>6. CASE /\ pc' = "turn" /\ memory' = Append(memory, log)
             /\ \E planning, failure, replans :
                  run' = [run EXCEPT !.planning = planning, !.failure = failure,
                                     !.replans = replans, !.candidate = 1]
    <3>1. run'.context = run.context
      BY <1>0, <2>6 DEF RunRecord
    <3>2. run.context \in Seq(S)
      BY <2>0 DEF Within
    <3> QED BY <2>4, <2>6, <3>1, <3>2 DEF Within, Store
  <2> QED BY <2>3, <2>5, <2>6
<1> QED BY <1>1, <1>2, <1>3, <1>4, <1>5 DEF Next

\* The request to replan: a line that says so, then the step and the tool that failed.
LEMMA ReplanTyped ==
  ASSUME Original \in Texts(Lines), Original = InstructionText[run.instruction],
         NEW step \in Steps
  PROVE  /\ ReplanText(step) \in Seq(Lines)
         /\ Len(ReplanText(step)) = Len(Original) + 5
         /\ ReplanText(step)[1] = Plain
         /\ \A k \in 1 .. Len(Original) : ReplanText(step)[1 + k] = Original[k]
         /\ ReplanText(step)[Len(Original) + 2] = Line({}, TRUE, NoField)
         /\ ReplanText(step)[Len(Original) + 3] = FailedStep(step)
         /\ ReplanText(step)[Len(Original) + 4] = FailedTool(ToolOf[step])
         /\ ReplanText(step)[Len(Original) + 5] = NextAction(TRUE)
<1>1. /\ step \in Names /\ ToolOf[step] \in Names
      /\ FailedStep(step) \in Lines /\ FailedTool(ToolOf[step]) \in Lines
  <2>1. step \in Names /\ ToolOf[step] \in Names
    BY RecallAssumption
  <2>2. \A field \in Fields, flag \in BOOLEAN : Line({}, flag, field) \in Lines
    <3>1. NoStamp \in 0 .. Unknown
      BY RecallAssumption DEF NoStamp, Unknown
    <3> QED BY <3>1 DEF Line, Lines
  <2>3. /\ [label |-> "failed step", value |-> step] \in Fields
        /\ [label |-> "failed tool", value |-> ToolOf[step]] \in Fields
    BY <2>1 DEF Fields
  <2> QED BY <2>1, <2>2, <2>3 DEF FailedStep, FailedTool
<1>2. Plain \in Lines /\ Line({}, TRUE, NoField) \in Lines /\ NextAction(TRUE) \in Lines
  BY LinesClosed DEF Closed, Plain, NextAction
<1> DEFINE a == <<Plain>>
           b == Original
           c == <<Line({}, TRUE, NoField), FailedStep(step), FailedTool(ToolOf[step]),
                  NextAction(TRUE)>>
<1>3. /\ a \in Seq(Lines) /\ Len(a) = 1 /\ a[1] = Plain
      /\ b \in Seq(Lines) /\ Len(b) \in Nat
  BY <1>2 DEF Texts
<1>4. /\ c \in Seq(Lines) /\ Len(c) = 4
      /\ c[1] = Line({}, TRUE, NoField) /\ c[2] = FailedStep(step)
      /\ c[3] = FailedTool(ToolOf[step]) /\ c[4] = NextAction(TRUE)
  <2>1. ASSUME NEW T, NEW p \in T, NEW q \in T, NEW r \in T, NEW s \in T
        PROVE  /\ <<p, q, r, s>> \in Seq(T) /\ Len(<<p, q, r, s>>) = 4
               /\ <<p, q, r, s>>[1] = p /\ <<p, q, r, s>>[2] = q
               /\ <<p, q, r, s>>[3] = r /\ <<p, q, r, s>>[4] = s
    OBVIOUS
  <2>2. \A T : \A p, q, r, s \in T : <<p, q, r, s>> \in Seq(T)
    BY <2>1
  <2>3. c \in Seq(Lines)
    BY <1>1, <1>2, <2>2
  <2> QED BY <2>3
<1>5. ReplanText(step) = (a \o b) \o c
  BY DEF ReplanText, Original
<1> HIDE DEF a, b, c
<1>6. /\ a \o b \in Seq(Lines) /\ Len(a \o b) = 1 + Len(b)
      /\ \A i \in 1 .. Len(a) + Len(b) : (a \o b)[i] =
              IF i <= Len(a) THEN a[i] ELSE b[i - Len(a)]
  BY <1>3, ConcatProperties
<1>7. /\ (a \o b) \o c \in Seq(Lines) /\ Len((a \o b) \o c) = Len(b) + 5
      /\ \A i \in 1 .. Len(b) + 5 : ((a \o b) \o c)[i] =
              IF i <= 1 + Len(b) THEN (a \o b)[i] ELSE c[i - (1 + Len(b))]
  <2> DEFINE d == a \o b
  <2>0. d \in Seq(Lines) /\ c \in Seq(Lines) /\ Len(d) = 1 + Len(b) /\ Len(c) = 4
    BY <1>4, <1>6
  <2> HIDE DEF d
  <2>1. /\ d \o c \in Seq(Lines) /\ Len(d \o c) = Len(d) + Len(c)
        /\ \A i \in 1 .. Len(d) + Len(c) : (d \o c)[i] =
                IF i <= Len(d) THEN d[i] ELSE c[i - Len(d)]
    <3>1. d \in Seq(Lines) /\ c \in Seq(Lines)
      BY <2>0
    <3> QED BY <3>1, ConcatProperties
  <2>2. Len(d) + Len(c) = Len(b) + 5
    BY <1>3, <2>0
  <2>3. /\ d \o c \in Seq(Lines) /\ Len(d \o c) = Len(b) + 5
        /\ \A i \in 1 .. Len(b) + 5 : (d \o c)[i] =
                IF i <= 1 + Len(b) THEN d[i] ELSE c[i - (1 + Len(b))]
    BY <2>0, <2>1, <2>2
  <2> QED BY <2>3 DEF d
<1> DEFINE t == (a \o b) \o c
<1> HIDE DEF t
<1>8. /\ t \in Seq(Lines) /\ Len(t) = Len(b) + 5
      /\ \A i \in 1 .. Len(b) + 5 : t[i] =
              IF i <= 1 + Len(b) THEN (a \o b)[i] ELSE c[i - (1 + Len(b))]
  BY <1>7 DEF t
<1>9. t[1] = Plain
  BY <1>3, <1>6, <1>8
<1>10. ASSUME NEW k \in 1 .. Len(b) PROVE t[1 + k] = b[k]
  <2>1. /\ 1 + k \in 1 .. Len(b) + 5 /\ 1 + k <= 1 + Len(b) /\ ~(1 + k <= 1)
        /\ 1 + k \in 1 .. Len(a) + Len(b) /\ (1 + k) - Len(a) = k
    BY <1>3
  <2> QED BY <1>3, <1>6, <1>8, <2>1
<1>11. ASSUME NEW k \in 1 .. 4 PROVE t[Len(b) + 1 + k] = c[k]
  <2>1. /\ Len(b) + 1 + k \in 1 .. Len(b) + 5 /\ ~(Len(b) + 1 + k <= 1 + Len(b))
        /\ (Len(b) + 1 + k) - (1 + Len(b)) = k
    BY <1>3
  <2> QED BY <1>8, <2>1
<1>12. /\ t[Len(b) + 2] = c[1] /\ t[Len(b) + 3] = c[2]
       /\ t[Len(b) + 4] = c[3] /\ t[Len(b) + 5] = c[4]
  <2>1. /\ Len(b) + 1 + 1 = Len(b) + 2 /\ Len(b) + 1 + 2 = Len(b) + 3
        /\ Len(b) + 1 + 3 = Len(b) + 4 /\ Len(b) + 1 + 4 = Len(b) + 5
    BY <1>3
  <2> QED BY <1>11, <2>1
<1> QED BY <1>4, <1>5, <1>8, <1>9, <1>10, <1>12 DEF t, b

\* The reasons logged are texts of known lines, and stay told.
LEMMA ReasonsStep ==
  ASSUME reasons \subseteq Texts(Lines), Next
  PROVE  reasons \subseteq reasons' /\ reasons' \subseteq Texts(Lines)
<1>1. \A planner : ReasonsOf(planner) \subseteq Texts(Lines)
  <2>1. Plain \in Lines
    BY LinesClosed DEF Closed, Plain
  <2>2. <<Plain>> \in Texts(Lines)
    BY <2>1 DEF Texts
  <2> QED BY <2>2, RecallAssumption DEF ReasonsOf, Texts
<1>2. CASE \E n \in Notes : Note(n)
  BY <1>2 DEF Note
<1>3. CASE \E i \in Instructions, chain \in Chains : Begin(i, chain)
  BY <1>3 DEF Begin
<1>4. CASE \E planner \in {"mock", "model"} : Ask(planner)
  BY <1>4 DEF Ask
<1>5. CASE Refuse
  BY <1>5 DEF Refuse
<1>6. ASSUME NEW s \in Catalog, Execute(s)
      PROVE  reasons \subseteq reasons' /\ reasons' \subseteq Texts(Lines)
  <2>1. \E reason \in ReasonsOf(turn.planner) : reasons' = reasons \cup {reason}
    BY <1>6 DEF Execute, Complete, Fail, Stopped, Executed
  <2> QED BY <1>1, <2>1
<1>7. CASE Stop
  BY <1>7 DEF Stop
<1> QED BY <1>2, <1>3, <1>4, <1>5, <1>6, <1>7 DEF Next

\* What a step does to a session besides its files.
LEMMA SessionStep ==
  ASSUME Typed, Planning, Next
  PROVE  /\ clock' \in 1 .. MaxClock
         /\ notes' \subseteq Notes /\ notes \subseteq notes'
         /\ runs' \in Seq(Instructions) /\ ToSet(runs) \subseteq ToSet(runs')
         /\ pc' \in {"idle", "turn", "asked"}
         /\ run' \in RunRecord
         /\ Planning'
<1> DEFINE Goal == /\ clock' \in 1 .. MaxClock
                   /\ notes' \subseteq Notes /\ notes \subseteq notes'
                   /\ runs' \in Seq(Instructions) /\ ToSet(runs) \subseteq ToSet(runs')
                   /\ pc' \in {"idle", "turn", "asked"}
                   /\ run' \in RunRecord
                   /\ Planning'
<1>0. /\ clock \in 1 .. MaxClock /\ notes \subseteq Notes /\ runs \in Seq(Instructions)
      /\ pc \in {"idle", "turn", "asked"} /\ run \in RunRecord /\ Store(Lines)
  BY DEF Typed
<1>a. NoRun \in RunRecord
  BY RecallAssumption DEF NoRun, RunRecord
<1>1. ASSUME NEW n \in Notes, Note(n) PROVE Goal
  BY <1>0, <1>1 DEF Note, Later, Planning
<1>2. ASSUME NEW i \in Instructions, NEW chain \in Chains, Begin(i, chain) PROVE Goal
  <2>1. Search(i) \in Seq(Texts(Lines))
    BY <1>0, LinesClosed, SearchTyped
  <2>2. Context(Search(i)) \in Seq(Lines)
    BY <2>1, LinesClosed, RecallAssumption, ContextTyped
  <2>3. InstructionText[i] \in Seq(Lines)
    BY RecallAssumption
  <2> DEFINE recalled == Search(i)
             context == Context(recalled)
             text == InstructionText[i]
             new == [NoRun EXCEPT !.instruction = i, !.chain = chain, !.candidate = 1,
                       !.recalled = recalled, !.context = context, !.planning = text]
  <2>a. run' = new
    BY <1>2 DEF Begin
  <2>b. recalled \in Seq(Texts(Lines)) /\ context \in Seq(Lines) /\ text \in Seq(Lines)
    BY <2>1, <2>2, <2>3
  <2> HIDE DEF recalled, context, text
  <2>4. /\ new \in RunRecord /\ new.instruction = i /\ new.failure = "none"
        /\ new.planning = text
    BY <1>a, <2>b DEF RunRecord, NoRun
  <2> HIDE DEF new
  <2>5. /\ run' \in RunRecord /\ run'.instruction = i /\ run'.failure = "none"
        /\ run'.planning = InstructionText[i]
    BY <2>a, <2>4 DEF text
  <2>6. runs' \in Seq(Instructions) /\ ToSet(runs) \subseteq ToSet(runs') /\ i \in ToSet(runs')
    <3>1. /\ runs' \in Seq(Instructions) /\ Len(runs') = Len(runs) + 1 /\ Len(runs) \in Nat
          /\ \A k \in 1 .. Len(runs) : runs'[k] = runs[k]
          /\ runs'[Len(runs) + 1] = i
      BY <1>0, <1>2, AppendProperties DEF Begin
    <3>2. DOMAIN runs = 1 .. Len(runs) /\ DOMAIN runs' = 1 .. Len(runs) + 1
      BY <1>0, <3>1
    <3> QED BY <3>1, <3>2 DEF ToSet
  <2>7. Planning'
    BY <2>5, <2>6 DEF Planning, Original
  <2> QED BY <1>0, <1>2, <2>5, <2>6, <2>7 DEF Begin
<1>3. ASSUME NEW planner \in {"mock", "model"}, Ask(planner) PROVE Goal
  BY <1>0, <1>3 DEF Ask, Planning, Original, ReplanText
<1>4. ASSUME Refuse PROVE Goal
  <2>1. /\ UNCHANGED <<clock, notes, runs>> /\ pc # "idle"
        /\ \/ run' = [run EXCEPT !.candidate = @ + 1] /\ pc' = "turn"
           \/ Close
    BY <1>4 DEF Refuse
  <2>2. CASE run' = [run EXCEPT !.candidate = @ + 1] /\ pc' = "turn"
    <3>1. run.candidate + 1 \in Nat
      BY <1>0 DEF RunRecord
    <3>2. \A n \in Nat : LET new == [run EXCEPT !.candidate = n]
                         IN  /\ new \in RunRecord /\ new.instruction = run.instruction
                             /\ new.failure = run.failure /\ new.planning = run.planning
      BY <1>0 DEF RunRecord
    <3>3. /\ run' \in RunRecord /\ run'.instruction = run.instruction
          /\ run'.failure = run.failure /\ run'.planning = run.planning
      BY <2>2, <3>1, <3>2
    <3>4. Planning'
      BY <2>1, <3>3 DEF Planning, Original, ReplanText
    <3> QED BY <1>0, <2>1, <2>2, <3>3, <3>4
  <2>3. CASE Close
    BY <1>0, <1>a, <2>1, <2>3 DEF Close, Planning
  <2> QED BY <2>1, <2>2, <2>3
<1>5. ASSUME NEW tail, NEW entries, Record(entries, tail), Close PROVE Goal
  BY <1>0, <1>5, <1>a DEF Record, Later, Close, Planning
<1>6. ASSUME NEW entries, NEW log, pc # "idle", Record(entries, log),
             NEW planning \in Seq(Lines), NEW failure \in Steps \cup {"none"}, NEW replans \in Nat,
             planning = IF failure = "none" THEN Original ELSE ReplanText(failure),
             GoesOn(log, planning, failure, replans)
      PROVE  Goal
  <2>1. failure \in Names
    BY RecallAssumption
  <2>2. LET new == [run EXCEPT !.planning = planning, !.failure = failure,
                               !.replans = replans, !.candidate = 1]
        IN  /\ new \in RunRecord /\ new.instruction = run.instruction
            /\ new.failure = failure /\ new.planning = planning
    BY <1>0, <2>1 DEF RunRecord
  <2>3. /\ run' \in RunRecord /\ run'.instruction = run.instruction
        /\ run'.failure = failure /\ run'.planning = planning /\ pc' = "turn"
    BY <1>6, <2>2 DEF GoesOn
  <2>4. clock' \in 1 .. MaxClock /\ notes' = notes /\ runs' = runs
    BY <1>0, <1>6 DEF Record, Later
  <2>5. Planning'
    BY <1>6, <2>3, <2>4 DEF Planning, Original, ReplanText
  <2> QED BY <1>0, <2>3, <2>4, <2>5
<1>7. ASSUME NEW s \in Catalog, Execute(s) PROVE Goal
  <2>0. pc # "idle" /\ run.replans \in Nat
    BY <1>0, <1>7 DEF Execute, RunRecord
  <2>1. /\ Original \in Seq(Lines) /\ Original \in Texts(Lines)
        /\ Original = InstructionText[run.instruction]
    BY <2>0, OriginalText DEF Texts
  <2>2. ASSUME NEW reason, Complete(s, reason) PROVE Goal
    <3>1. \E entries : Record(entries, SkillLog(s, reason, FALSE))
      BY <2>2 DEF Complete, Executed
    <3>2. CASE Close
      BY <1>5, <3>1, <3>2
    <3>3. CASE GoesOn(SkillLog(s, reason, FALSE), Original, "none", run.replans)
      BY <1>6, <2>0, <2>1, <3>1, <3>3
    <3> QED BY <2>2, <3>2, <3>3 DEF Complete
  <2>3. ASSUME NEW reason, NEW step \in FailingSteps[s], Fail(s, reason, step) PROVE Goal
    <3>1. \E entries : Record(entries, SkillLog(s, reason, TRUE))
      BY <2>3 DEF Fail, Executed
    <3>2. CASE Close
      BY <1>5, <3>1, <3>2
    <3>3. CASE GoesOn(SkillLog(s, reason, TRUE), ReplanText(step), step, run.replans + 1)
      <4>1. step \in Steps /\ step # "none"
        <5>1. step \in Steps
          BY DEF Steps
        <5> QED BY <5>1, RecallAssumption
      <4>2. ReplanText(step) \in Seq(Lines)
        BY <2>1, <4>1, ReplanTyped
      <4>3. run.replans + 1 \in Nat
        BY <2>0
      <4> QED BY <1>6, <2>0, <3>1, <3>3, <4>1, <4>2, <4>3
    <3> QED BY <2>3, <3>2, <3>3 DEF Fail
  <2>4. ASSUME NEW reason, Stopped(s, reason) PROVE Goal
    <3>1. Close /\ \E entries, log : Record(entries, log)
      BY <2>4 DEF Stopped, Executed
    <3> QED BY <1>5, <3>1
  <2> QED BY <1>7, <2>2, <2>3, <2>4 DEF Execute
<1>8. ASSUME Stop PROVE Goal
  <2>1. Close /\ \E entries, log : Record(entries, log)
    BY <1>8 DEF Stop
  <2> QED BY <1>5, <2>1
<1> HIDE DEF Goal
<1>9. Goal
  BY <1>1, <1>2, <1>3, <1>4, <1>7, <1>8 DEF Next
<1> QED BY <1>9 DEF Goal

\* However the planners are nested, the prompt has the context at most once.
LEMMA AskedStep ==
  ASSUME Typed, Asked, Next
  PROVE  Asked'
<1>1. ASSUME NEW planner \in {"mock", "model"}, Ask(planner) PROVE Asked'
  <2> DEFINE name == run.chain[run.candidate]
             prompt == Prompt(name, planner)
  <2>1. /\ turn' = [planner |-> planner, prompt |-> prompt, offered |-> Offered(prompt, planner)]
        /\ run' = run
        /\ name # "auto" => planner = name
    BY <1>1 DEF Ask
  <2>2. prompt = WithContext(run.planning, run.context, planner)
    <3>1. CASE name = "auto"
      <4>1. WithContext(run.planning, <<>>, name) = run.planning
        BY DEF WithContext
      <4> QED BY <3>1, <4>1 DEF Prompt
    <3>2. CASE name # "auto"
      BY <2>1, <3>2 DEF Prompt
    <3> QED BY <3>1, <3>2
  <2> HIDE DEF prompt, name
  <2>3. /\ turn'.planner = planner /\ turn'.prompt = prompt
        /\ turn'.offered = Offered(prompt, planner)
    BY <2>1
  <2> QED BY <2>1, <2>2, <2>3 DEF Asked
<1>2. CASE \E n \in Notes : Note(n)
  BY <1>2 DEF Note, Asked
<1>3. CASE \E i \in Instructions, chain \in Chains : Begin(i, chain)
  BY <1>3 DEF Begin, Asked
<1>4. CASE Refuse
  BY <1>4 DEF Refuse, Close, Asked
<1>5. CASE Stop \/ \E s \in Catalog : Execute(s)
  BY <1>5 DEF Stop, Execute, Complete, Fail, Stopped, GoesOn, Close, Asked
<1> QED BY <1>1, <1>2, <1>3, <1>4, <1>5 DEF Next

\* Text without a line that reports a failure.
LEMMA SilentText ==
  ASSUME NEW text \in Seq(Lines), \A line \in ToSet(text) : line.field = NoField
  PROVE  text \in Seq(Silent)
<1>1. \A k \in 1 .. Len(text) : text[k] \in Silent
  BY DEF ToSet, Silent
<1> QED BY <1>1

\* What was told, when nobody told of a failure, consists of silent lines.
LEMMA UntoldIsSilent ==
  ASSUME notes \subseteq Notes, runs \in Seq(Instructions), reasons \subseteq Texts(Lines), Untold
  PROVE  ToldIn(Silent, notes, runs, reasons)
<1>1. \A line \in ToSet(ContextFiles) : line.field = NoField
  BY DEF Untold, Told
<1>2. ContextFiles \in Seq(Silent)
  BY <1>1, RecallAssumption, SilentText
<1>3. ASSUME NEW n \in notes PROVE n \in Seq(Silent)
  <2>1. \A line \in ToSet(n) : line.field = NoField
    BY DEF Untold, Told
  <2>2. n \in Seq(Lines)
    BY RecallAssumption
  <2> QED BY <2>1, <2>2, SilentText
<1>4. ASSUME NEW i \in ToSet(runs) PROVE InstructionText[i] \in Texts(Silent)
  <2>1. \A line \in ToSet(InstructionText[i]) : line.field = NoField
    BY DEF Untold, Told
  <2>2. i \in Instructions
    BY DEF ToSet
  <2>3. InstructionText[i] \in Seq(Lines) /\ InstructionText[i] # <<>>
    BY <2>2, RecallAssumption
  <2> QED BY <2>1, <2>3, SilentText DEF Texts
<1>5. ASSUME NEW r \in reasons PROVE WithPrefix(r) \in Seq(Silent)
  <2>1. \A line \in ToSet(WithPrefix(r)) : line.field = NoField
    BY DEF Untold, Told
  <2>2. WithPrefix(r) \in Seq(Lines)
    BY LinesClosed, WithPrefixTyped DEF Texts
  <2> QED BY <2>1, <2>2, SilentText
<1> QED BY <1>2, <1>3, <1>4, <1>5 DEF ToldIn

\* The types are kept.
LEMMA TypedStep ==
  ASSUME Typed, Planning, Next
  PROVE  Typed'
<1>1. Within(Lines)
  BY DEF Typed, Within, RunRecord
<1>2. ToldIn(Lines, notes', runs', reasons')
  <2>1. notes' \subseteq Notes /\ runs' \in Seq(Instructions)
    BY SessionStep
  <2>2. \A i \in ToSet(runs') : i \in Instructions
    BY <2>1 DEF ToSet
  <2>3. \A r \in reasons' : WithPrefix(r) \in Seq(Lines)
    <3>1. reasons' \subseteq Texts(Lines)
      BY ReasonsStep DEF Typed
    <3> QED BY <3>1, LinesClosed, WithPrefixTyped DEF Texts
  <2> QED BY <2>1, <2>2, <2>3, RecallAssumption DEF ToldIn, Texts
<1>3. Within(Lines)'
  BY <1>1, <1>2, LinesClosed, WithinStep
<1> QED BY <1>3, SessionStep, ReasonsStep DEF Typed, Within

\* What runs write never reports a failure nobody told of.
LEMMA QuietStep ==
  ASSUME Typed, Planning, Quiet, Next
  PROVE  Quiet'
<1> SUFFICES ASSUME Untold' PROVE Within(Silent)'
  BY DEF Quiet
<1>1. /\ notes' \subseteq Notes /\ notes \subseteq notes'
      /\ runs' \in Seq(Instructions) /\ ToSet(runs) \subseteq ToSet(runs')
      /\ reasons \subseteq reasons' /\ reasons' \subseteq Texts(Lines)
  BY SessionStep, ReasonsStep DEF Typed
<1>2. Untold
  BY <1>1 DEF Untold, Told
<1>3. ToldIn(Silent, notes', runs', reasons')
  <2>1. (notes \subseteq Notes /\ runs \in Seq(Instructions) /\ reasons \subseteq Texts(Lines)
           /\ Untold => ToldIn(Silent, notes, runs, reasons))'
    BY UntoldIsSilent, PTL
  <2> QED BY <1>1, <2>1
<1> QED BY <1>2, <1>3, LinesClosed, WithinStep DEF Quiet

-----------------------------------------------------------------------------
(***************************************************************************)
(* A note stays in the file.                                               *)
(***************************************************************************)

\* Parsing a file and writing it again keeps it.
LEMMA KeepsParsed ==
  ASSUME NEW lines \in Seq(Lines), NEW ns, ns \subseteq Seq(Lines), Keeps(lines, ns)
  PROVE  Keeps(Render(Parse(lines)), ns)
<1> DEFINE out == Render(Parse(lines))
<1>1. /\ out \in Seq(Lines) /\ Mirrors(out, lines, Len(lines)) /\ Begun(lines)
  <2>1. Begun(lines)
    BY DEF Keeps
  <2>2. Parse(lines) \in Seq(Logs(Lines))
    BY LinesClosed, Parsed
  <2> QED BY <2>1, <2>2, LinesClosed, RenderTyped, RoundTrip
<1> HIDE DEF out
<1>2. Len(out) = Len(lines) /\ \A k \in 1 .. Len(lines) : Same(out[k], lines[k])
  BY <1>1 DEF Mirrors
<1>3. Begun(out)
  <2> SUFFICES ASSUME out # <<>> PROVE out[1].head
    BY DEF Begun
  <2>1. Len(out) # 0 /\ Len(lines) \in Nat
    BY <1>1
  <2>2. 1 \in 1 .. Len(lines) /\ lines # <<>>
    BY <1>2, <2>1
  <2>3. Same(out[1], lines[1])
    BY <1>2, <2>2
  <2> QED BY <1>1, <2>2, <2>3 DEF Begun, Same
<1>4. ASSUME NEW n \in ns PROVE Holds(out, n)
  <2>1. PICK k \in DOMAIN lines :
          /\ k + Len(n) - 1 <= Len(lines)
          /\ \A m \in DOMAIN n :
               lines[k + m - 1].says = n[m].says /\ lines[k + m - 1].field = n[m].field
    BY DEF Keeps, Holds
  <2>2. n \in Seq(Lines) /\ Len(n) \in Nat /\ DOMAIN n = 1 .. Len(n)
    OBVIOUS
  <2>3. DOMAIN lines = 1 .. Len(lines) /\ DOMAIN out = 1 .. Len(out) /\ Len(lines) \in Nat
    BY <1>1
  <2>4. ASSUME NEW m \in DOMAIN n
        PROVE  out[k + m - 1].says = n[m].says /\ out[k + m - 1].field = n[m].field
    <3>1. k + m - 1 \in 1 .. Len(lines)
      BY <2>1, <2>2, <2>3
    <3>2. Same(out[k + m - 1], lines[k + m - 1])
      BY <1>2, <3>1
    <3> QED BY <2>1, <3>2 DEF Same
  <2>5. k \in DOMAIN out /\ k + Len(n) - 1 <= Len(out)
    BY <1>2, <2>1, <2>3
  <2> QED BY <2>4, <2>5 DEF Holds
<1> QED BY <1>3, <1>4 DEF Keeps, out

\* A log at the end of a file takes nothing from it, and holds its body.
LEMMA KeepsWritten ==
  ASSUME NEW lines \in Seq(Lines), NEW ns, ns \subseteq Seq(Lines), Keeps(lines, ns),
         NEW log \in Logs(Lines)
  PROVE  /\ Keeps(lines \o Written(log), ns)
         /\ Holds(lines \o Written(log), log.body)
<1> DEFINE w == Written(log)
           body == log.body
           out == lines \o w
<1>1. body \in Seq(Lines) /\ Len(body) \in Nat /\ DOMAIN body = 1 .. Len(body)
  BY DEF Logs
<1>2. /\ w \in Seq(Lines) /\ Len(w) = 1 + Len(body)
      /\ w[1].head
      /\ \A k \in 1 .. Len(body) : w[1 + k] = body[k]
  <2>1. log.title \in Lines /\ log.stamp \in 0 .. Unknown
    BY DEF Logs
  <2>2. [log.title EXCEPT !.head = TRUE, !.stamp = log.stamp].head = TRUE
    BY <2>1 DEF Lines
  <2> QED BY <2>2, LinesClosed, WrittenLog
<1> HIDE DEF w, body
<1>3. Len(lines) \in Nat /\ DOMAIN lines = 1 .. Len(lines)
  OBVIOUS
<1>4. /\ out \in Seq(Lines) /\ Len(out) = Len(lines) + Len(w)
      /\ \A i \in 1 .. Len(lines) + Len(w) : out[i] =
           IF i <= Len(lines) THEN lines[i] ELSE w[i - Len(lines)]
  <2>1. w \in Seq(Lines)
    BY <1>2
  <2> QED BY <2>1, ConcatProperties
<1> HIDE DEF out
<1>5. \A k \in 1 .. Len(lines) : out[k] = lines[k]
  <2> SUFFICES ASSUME NEW k \in 1 .. Len(lines) PROVE out[k] = lines[k]
    OBVIOUS
  <2>1. Len(w) \in Nat
    BY <1>1, <1>2
  <2>2. k \in 1 .. Len(lines) + Len(w) /\ k <= Len(lines)
    BY <1>3, <2>1
  <2> QED BY <1>4, <2>2
<1>6. \A k \in 1 .. 1 + Len(body) : out[Len(lines) + k] = w[k]
  <2> SUFFICES ASSUME NEW k \in 1 .. 1 + Len(body) PROVE out[Len(lines) + k] = w[k]
    OBVIOUS
  <2>1. /\ Len(lines) + k \in 1 .. Len(lines) + Len(w) /\ ~(Len(lines) + k <= Len(lines))
        /\ (Len(lines) + k) - Len(lines) = k
    BY <1>1, <1>2, <1>3
  <2> QED BY <1>4, <2>1
<1>7. Len(out) = Len(lines) + 1 + Len(body) /\ DOMAIN out = 1 .. Len(out)
  BY <1>1, <1>2, <1>3, <1>4
<1>8. Begun(out)
  <2>1. CASE lines = <<>>
    <3>1. Len(lines) = 0 /\ 1 \in 1 .. 1 + Len(body) /\ Len(lines) + 1 = 1
      BY <1>1, <2>1
    <3>2. out[1] = w[1]
      BY <1>6, <3>1
    <3> QED BY <1>2, <3>2 DEF Begun
  <2>2. CASE lines # <<>>
    <3>1. 1 \in 1 .. Len(lines)
      BY <1>3, <2>2
    <3> QED BY <1>5, <2>2, <3>1 DEF Begun, Keeps
  <2> QED BY <2>1, <2>2
<1>9. ASSUME NEW n \in ns PROVE Holds(out, n)
  <2>1. PICK k \in DOMAIN lines :
          /\ k + Len(n) - 1 <= Len(lines)
          /\ \A m \in DOMAIN n :
               lines[k + m - 1].says = n[m].says /\ lines[k + m - 1].field = n[m].field
    BY DEF Keeps, Holds
  <2>2. n \in Seq(Lines) /\ Len(n) \in Nat /\ DOMAIN n = 1 .. Len(n)
    OBVIOUS
  <2>3. ASSUME NEW m \in DOMAIN n
        PROVE  out[k + m - 1].says = n[m].says /\ out[k + m - 1].field = n[m].field
    <3>1. k + m - 1 \in 1 .. Len(lines)
      BY <1>3, <2>1, <2>2
    <3>2. out[k + m - 1] = lines[k + m - 1]
      BY <1>5, <3>1
    <3> QED BY <2>1, <3>2
  <2>4. k \in DOMAIN out /\ k + Len(n) - 1 <= Len(out)
    BY <1>1, <1>3, <1>7, <2>1, <2>2
  <2> QED BY <2>3, <2>4 DEF Holds
<1>10. Holds(out, body)
  <2>1. CASE Len(body) = 0
    <3>1. Len(lines) + 1 \in DOMAIN out /\ (Len(lines) + 1) + Len(body) - 1 <= Len(out)
      BY <1>1, <1>3, <1>7, <2>1
    <3>2. DOMAIN body = {}
      BY <1>1, <2>1
    <3> QED BY <3>1, <3>2 DEF Holds
  <2>2. CASE Len(body) # 0
    <3> DEFINE k == Len(lines) + 2
    <3>1. k \in DOMAIN out /\ k + Len(body) - 1 <= Len(out)
      BY <1>1, <1>3, <1>7, <2>2
    <3>2. ASSUME NEW m \in DOMAIN body
          PROVE  out[k + m - 1].says = body[m].says /\ out[k + m - 1].field = body[m].field
      <4>1. m \in 1 .. Len(body) /\ 1 + m \in 1 .. 1 + Len(body)
        BY <1>1
      <4>2. k + m - 1 = Len(lines) + (1 + m)
        BY <1>3, <4>1
      <4>3. out[Len(lines) + (1 + m)] = w[1 + m] /\ w[1 + m] = body[m]
        BY <1>2, <1>6, <4>1
      <4> QED BY <4>2, <4>3
    <3> HIDE DEF k
    <3> QED BY <3>1, <3>2 DEF Holds
  <2> QED BY <2>1, <2>2
<1> QED BY <1>8, <1>9, <1>10 DEF Keeps, out, w, body

\* No step takes a note out of the file, or out of the memory a run will write.
LEMMA NotesStep ==
  ASSUME Typed, Planning, NotesKept, Next
  PROVE  NotesKept'
<1>0. /\ disk \in Seq(Lines) /\ memory \in Seq(Logs(Lines)) /\ Store(Lines)
      /\ clock \in 1 .. MaxClock /\ notes \subseteq Notes
      /\ notes \subseteq Seq(Lines)
      /\ Keeps(disk, notes) /\ (pc # "idle" => Keeps(Render(memory), notes))
      /\ pc \in {"idle", "turn", "asked"}
  BY RecallAssumption DEF Typed, Store, NotesKept
<1>1. ASSUME NEW n \in Notes, Note(n) PROVE NotesKept'
  <2> DEFINE log == [stamp |-> clock, title |-> Plain, body |-> n]
             old == Render(Parse(disk))
  <2>1. log \in Logs(Lines) /\ log.body = n
    <3>1. n \in Seq(Lines)
      BY RecallAssumption
    <3> QED BY <1>0, <3>1, LinesClosed, EntriesTyped
  <2>2. Parse(disk) \in Seq(Logs(Lines))
    BY <1>0, LinesClosed, Parsed
  <2>3. old \in Seq(Lines)
    BY <2>2, LinesClosed, RenderTyped
  <2>4. Keeps(old, notes)
    BY <1>0, KeepsParsed
  <2>5. disk' = Render(Append(Parse(disk), log)) /\ notes' = notes \cup {n} /\ pc' = "idle"
    BY <1>1 DEF Note
  <2> HIDE DEF log
  <2>6. disk' = old \o Written(log)
    BY <2>1, <2>2, <2>5, LinesClosed, RenderAppend
  <2> HIDE DEF old
  <2>7. Keeps(old \o Written(log), notes) /\ Holds(old \o Written(log), n)
    BY <1>0, <2>1, <2>3, <2>4, KeepsWritten
  <2>8. Keeps(disk', notes')
    BY <2>5, <2>6, <2>7 DEF Keeps
  <2> QED BY <2>5, <2>8 DEF NotesKept
<1>2. ASSUME NEW i \in Instructions, NEW chain \in Chains, Begin(i, chain) PROVE NotesKept'
  <2>1. disk' = disk /\ memory' = Parse(disk) /\ notes' = notes
    BY <1>2 DEF Begin
  <2>2. Keeps(Render(Parse(disk)), notes)
    BY <1>0, KeepsParsed
  <2> QED BY <1>0, <2>1, <2>2 DEF NotesKept
<1>3. ASSUME NEW planner \in {"mock", "model"}, Ask(planner) PROVE NotesKept'
  BY <1>0, <1>3 DEF Ask, NotesKept
<1>4. ASSUME Refuse PROVE NotesKept'
  BY <1>0, <1>4 DEF Refuse, Close, NotesKept
<1>5. ASSUME Stop \/ \E s \in Catalog : Execute(s) PROVE NotesKept'
  <2>0. pc # "idle"
    BY <1>5 DEF Stop, Execute
  <2>1. Recorded(Lines)
    <3>1. reasons' \subseteq Texts(Lines)
      BY ReasonsStep DEF Typed
    <3>2. \A r \in reasons' : WithPrefix(r) \in Seq(Lines)
      BY <3>1, LinesClosed, WithPrefixTyped DEF Texts
    <3> QED BY <1>0, <1>5, <2>0, <3>2, LinesClosed, OriginalText, RunsRecord
  <2>2. PICK entries \in Seq(Recollections(Lines)), log \in Logs(Lines) :
          /\ Record(entries, log)
          /\ \/ Close
             \/ /\ pc' = "turn" /\ memory' = Append(memory, log)
                /\ \E planning, failure, replans :
                     run' = [run EXCEPT !.planning = planning, !.failure = failure,
                                        !.replans = replans, !.candidate = 1]
    BY <2>1 DEF Recorded
  <2>3. disk' = Render(Append(memory, log)) /\ disk' = Render(memory) \o Written(log)
    BY <1>0, <2>2, LinesClosed, RecordWrites
  <2>4. Keeps(disk', notes)
    <3>1. Render(memory) \in Seq(Lines)
      BY <1>0, LinesClosed, RenderTyped
    <3> QED BY <1>0, <2>0, <2>3, <3>1, KeepsWritten
  <2>5. notes' = notes
    BY <2>2 DEF Record
  <2>6. pc' = "idle" \/ Render(memory') = disk'
    BY <2>2, <2>3 DEF Close
  <2> QED BY <2>4, <2>5, <2>6 DEF NotesKept
<1> QED BY <1>1, <1>2, <1>3, <1>4, <1>5 DEF Next

-----------------------------------------------------------------------------
(***************************************************************************)
(* What the invariant says of a prompt.                                    *)
(***************************************************************************)

\* The lines of a prompt.
Headed == Lines \cup {ContextHeading}

\* The heading of the context is told from every line somebody writes.
LEMMA HeadingIsNoLine == ContextHeading \notin Lines
<1>1. ContextHeading.says = {"context"}
  BY DEF ContextHeading, Line
<1> QED BY <1>1, RecallAssumption DEF Lines

\* The prompt is what the run plans and, for a model with a context, the heading and the context.
LEMMA PromptOfRun ==
  ASSUME Typed, Asked, pc = "asked"
  PROVE  /\ run.planning \in Seq(Lines) /\ run.context \in Seq(Lines)
         /\ Len(run.planning) \in Nat /\ Len(turn.prompt) \in Nat
         /\ turn.prompt \in Seq(Headed)
         /\ Len(run.planning) <= Len(turn.prompt)
         /\ \A k \in 1 .. Len(run.planning) : turn.prompt[k] = run.planning[k]
         /\ run.context = <<>> \/ turn.planner = "mock" => turn.prompt = run.planning
         /\ ~(run.context = <<>> \/ turn.planner = "mock") =>
              /\ Len(turn.prompt) = Len(run.planning) + 1 + Len(run.context)
              /\ turn.prompt[Len(run.planning) + 1] = ContextHeading
              /\ \A k \in 1 .. Len(run.context) :
                   turn.prompt[Len(run.planning) + 1 + k] = run.context[k]
<1> DEFINE a == run.planning
           c == run.context
           h == <<ContextHeading>>
           p == turn.prompt
<1>1. a \in Seq(Lines) /\ c \in Seq(Lines)
  BY DEF Typed, RunRecord
<1>2. p = WithContext(a, c, turn.planner)
  BY DEF Asked
<1> HIDE DEF a, c, p
<1>3. a \in Seq(Headed) /\ c \in Seq(Headed) /\ Len(a) \in Nat /\ Len(c) \in Nat
  BY <1>1 DEF Headed
<1>4. CASE c = <<>> \/ turn.planner = "mock"
  <2>1. p = a
    BY <1>2, <1>4 DEF WithContext
  <2>2. p \in Seq(Headed) /\ Len(p) = Len(a) /\ \A k \in 1 .. Len(a) : p[k] = a[k]
    BY <1>3, <2>1
  <2>3. Len(p) \in Nat /\ Len(a) <= Len(p)
    BY <1>3, <2>2
  <2> QED BY <1>1, <1>3, <1>4, <2>1, <2>2, <2>3 DEF a, c, p
<1>5. CASE ~(c = <<>> \/ turn.planner = "mock")
  <2>1. p = (a \o h) \o c
    BY <1>2, <1>5 DEF WithContext
  <2>2. h \in Seq(Headed) /\ Len(h) = 1 /\ h[1] = ContextHeading
    <3>1. ContextHeading \in Headed
      BY DEF Headed
    <3> QED BY <3>1
  <2> HIDE DEF h
  <2> DEFINE b == a \o h
  <2>3. /\ b \in Seq(Headed) /\ Len(b) = Len(a) + Len(h)
        /\ \A i \in 1 .. Len(a) + Len(h) : b[i] = IF i <= Len(a) THEN a[i] ELSE h[i - Len(a)]
    <3>1. a \in Seq(Headed) /\ h \in Seq(Headed)
      BY <1>3, <2>2
    <3> QED BY <3>1, ConcatProperties
  <2> HIDE DEF b
  <2>4. Len(b) = Len(a) + 1 /\ b[Len(a) + 1] = ContextHeading
    <3>1. /\ Len(a) + 1 \in 1 .. Len(a) + Len(h) /\ ~(Len(a) + 1 <= Len(a))
          /\ (Len(a) + 1) - Len(a) = 1
      BY <1>3, <2>2
    <3> QED BY <2>2, <2>3, <3>1
  <2>5. \A k \in 1 .. Len(a) : b[k] = a[k]
    <3> SUFFICES ASSUME NEW k \in 1 .. Len(a) PROVE b[k] = a[k]
      OBVIOUS
    <3>1. k \in 1 .. Len(a) + Len(h) /\ k <= Len(a)
      BY <1>3, <2>2
    <3> QED BY <2>3, <3>1
  <2> DEFINE t == b \o c
  <2>6. /\ t \in Seq(Headed) /\ Len(t) = Len(b) + Len(c)
        /\ \A i \in 1 .. Len(b) + Len(c) : t[i] = IF i <= Len(b) THEN b[i] ELSE c[i - Len(b)]
    <3>1. b \in Seq(Headed) /\ c \in Seq(Headed)
      BY <1>3, <2>3
    <3> QED BY <3>1, ConcatProperties
  <2> HIDE DEF t
  <2>7. p = t
    BY <2>1 DEF t, b
  <2>8. Len(t) = Len(a) + 1 + Len(c) /\ Len(t) \in Nat /\ Len(a) <= Len(t)
    BY <1>3, <2>4, <2>6
  <2>9. \A k \in 1 .. Len(a) + 1 : t[k] = b[k]
    <3> SUFFICES ASSUME NEW k \in 1 .. Len(a) + 1 PROVE t[k] = b[k]
      OBVIOUS
    <3>1. k \in 1 .. Len(b) + Len(c) /\ k <= Len(b)
      BY <1>3, <2>4
    <3> QED BY <2>6, <3>1
  <2>10. t[Len(a) + 1] = ContextHeading /\ \A k \in 1 .. Len(a) : t[k] = a[k]
    BY <1>3, <2>4, <2>5, <2>9
  <2>11. \A k \in 1 .. Len(c) : t[Len(a) + 1 + k] = c[k]
    <3> SUFFICES ASSUME NEW k \in 1 .. Len(c) PROVE t[Len(a) + 1 + k] = c[k]
      OBVIOUS
    <3>1. /\ Len(a) + 1 + k \in 1 .. Len(b) + Len(c) /\ ~(Len(a) + 1 + k <= Len(b))
          /\ (Len(a) + 1 + k) - Len(b) = k
      BY <1>3, <2>4
    <3> QED BY <2>6, <3>1
  <2> QED BY <1>1, <1>3, <1>5, <2>6, <2>7, <2>8, <2>10, <2>11 DEF a, c, p
<1> QED BY <1>4, <1>5

\* The first index of a text with a property.
LEMMA FirstIndex ==
  ASSUME NEW T, NEW text \in Seq(T), NEW label, NEW k \in 1 .. Len(text),
         ~text[k].head, text[k].field.label = label,
         \A j \in 1 .. k - 1 : text[j].field.label # label
  PROVE  Field(text, label) = text[k].field.value
<1> DEFINE I == {i \in 1 .. Len(text) : ~text[i].head /\ text[i].field.label = label}
<1>0. Len(text) \in Nat
  OBVIOUS
<1>1. k \in I /\ \A i \in I : i \in Nat /\ k <= i
  BY <1>0
<1> DEFINE m == CHOOSE x \in I : \A y \in I : x =< y
<1> HIDE DEF I
<1>2. m \in I /\ \A y \in I : m =< y
  BY <1>1
<1>3. Min(I) = m
  BY DEF Min
<1> HIDE DEF m
<1>a. m \in Nat /\ k <= m /\ m <= k
  BY <1>1, <1>2
<1>4. Min(I) = k /\ I # {} /\ k # 0
  BY <1>0, <1>1, <1>3, <1>a
<1>5. SelectInSeq(text, LAMBDA line : ~line.head /\ line.field.label = label) = k
  BY <1>4 DEF SelectInSeq, I
<1> QED BY <1>4, <1>5 DEF Field

\* A text none of whose lines has the field.
LEMMA NoFieldFound ==
  ASSUME NEW T, NEW text \in Seq(T), NEW label,
         \A j \in 1 .. Len(text) : text[j].field.label # label
  PROVE  Field(text, label) = "none"
<1> DEFINE I == {i \in 1 .. Len(text) : ~text[i].head /\ text[i].field.label = label}
<1>1. I = {}
  OBVIOUS
<1> HIDE DEF I
<1>2. SelectInSeq(text, LAMBDA line : ~line.head /\ line.field.label = label) = 0
  BY <1>1 DEF SelectInSeq, I
<1> QED BY <1>2 DEF Field

\* What the lines of a request to replan say of themselves.
LEMMA FieldsTold ==
  /\ NoField.label = "none" /\ NoField.label # "failed step" /\ NoField.label # "failed tool"
  /\ \A s : /\ FailedStep(s).field.label = "failed step" /\ FailedStep(s).field.value = s
           /\ FailedStep(s).field.label # "failed tool" /\ FailedStep(s).head = FALSE
  /\ \A t : /\ FailedTool(t).field.label = "failed tool" /\ FailedTool(t).field.value = t
           /\ FailedTool(t).head = FALSE
<1>1. NoField.label = "none" /\ "none" # "failed step" /\ "none" # "failed tool"
  BY DEF NoField
<1>2. ASSUME NEW s
      PROVE  /\ FailedStep(s).field.label = "failed step" /\ FailedStep(s).field.value = s
             /\ FailedStep(s).field.label # "failed tool" /\ FailedStep(s).head = FALSE
  <2> DEFINE field == [label |-> "failed step", value |-> s]
  <2>1. field.label = "failed step" /\ field.value = s
    OBVIOUS
  <2> HIDE DEF field
  <2>2. FailedStep(s) = Line({}, TRUE, field)
    BY DEF FailedStep, field
  <2>3. FailedStep(s).field = field /\ FailedStep(s).head = FALSE
    BY <2>2 DEF Line
  <2>4. "failed step" # "failed tool"
    OBVIOUS
  <2> QED BY <2>1, <2>3, <2>4
<1>3. ASSUME NEW t
      PROVE  /\ FailedTool(t).field.label = "failed tool" /\ FailedTool(t).field.value = t
             /\ FailedTool(t).head = FALSE
  <2> DEFINE field == [label |-> "failed tool", value |-> t]
  <2>1. field.label = "failed tool" /\ field.value = t
    OBVIOUS
  <2> HIDE DEF field
  <2>2. FailedTool(t) = Line({}, FALSE, field)
    BY DEF FailedTool, field
  <2>3. FailedTool(t).field = field /\ FailedTool(t).head = FALSE
    BY <2>2 DEF Line
  <2> QED BY <2>1, <2>3
<1> QED BY <1>1, <1>2, <1>3

\* Without a failure reported no rule matches.
LEMMA NothingToRecover == Candidates("none", "none") = {}
  BY RecallAssumption DEF Candidates, Matches

-----------------------------------------------------------------------------
(***************************************************************************)
(* The theorems.                                                           *)
(***************************************************************************)

\* The invariant holds at the start and is kept by every step.
LEMMA IInvInductive ==
  /\ Init => IInv
  /\ IInv /\ [Next]_vars => IInv'
<1>1. ASSUME Init PROVE IInv
  <2>1. <<>> \in Seq(Lines) /\ <<>> \in Seq(Silent) /\ <<>> \in Seq(Logs(Lines))
    OBVIOUS
  <2>2. \A S : <<>> \in Seq(S)
    OBVIOUS
  <2>3. NoRun \in RunRecord
    BY RecallAssumption DEF NoRun, RunRecord
  <2>4. 1 \in 1 .. MaxClock
    BY RecallAssumption
  <2>5. \A S : Store(S)
    BY <1>1, <2>2 DEF Init, Store
  <2>6. Typed
    BY <1>1, <2>2, <2>3, <2>4, <2>5 DEF Init, Typed
  <2>7. Planning /\ Asked /\ Quiet
    BY <1>1, <2>5 DEF Init, Planning, Asked, Quiet, Within
  <2>8. NotesKept
    BY <1>1 DEF Init, NotesKept, Keeps, Begun
  <2> QED BY <2>6, <2>7, <2>8 DEF IInv
<1>2. ASSUME IInv, Next PROVE IInv'
  <2>1. Typed /\ Planning /\ Asked /\ Quiet /\ NotesKept
    BY <1>2 DEF IInv
  <2>2. Typed' /\ Planning' /\ Asked' /\ Quiet' /\ NotesKept'
    BY <1>2, <2>1, TypedStep, SessionStep, AskedStep, QuietStep, NotesStep
  <2> QED BY <2>2 DEF IInv
<1>3. ASSUME IInv, UNCHANGED vars PROVE IInv'
  BY <1>3 DEF IInv, vars, Typed, Store, Planning, Original, ReplanText, Asked, Quiet, Untold,
              Told, Within, NotesKept
<1> QED BY <1>1, <1>2, <1>3

\* Every reachable state of a session satisfies the invariant.
THEOREM IInvariant == Spec => []IInv
<1>1. Init => IInv
  BY IInvInductive
<1>2. IInv /\ [Next]_vars => IInv'
  BY IInvInductive
<1> QED BY <1>1, <1>2, PTL DEF Spec

\* Whatever is noted and however often the memory is read, searched and written, long_term.md,
\* the events and the logs in memory stay text of known lines.
THEOREM TypeCorrect == Spec => []Typed
<1>1. IInv => Typed
  BY DEF IInv
<1> QED BY <1>1, IInvariant, PTL

\* Nothing noted is lost from long_term.md: the file begins with a header, so that parsing it
\* takes every line, and a run writes back the notes it read.
THEOREM NotesAreKept == Spec => []NotesSurvive
<1>1. IInv => NotesSurvive
  BY DEF IInv, NotesKept, Keeps, NotesSurvive
<1> QED BY <1>1, IInvariant, PTL

\* A model gets the context once, after what the run plans; the mock planner never does.
THEOREM ContextIsGivenOnce == Spec => []ContextOnce
<1>1. ASSUME IInv, pc = "asked"
      PROVE  LET times == {k \in DOMAIN turn.prompt : turn.prompt[k] = ContextHeading}
             IN  IF turn.planner = "mock" \/ run.context = <<>>
                 THEN times = {} ELSE times = {Len(run.planning) + 1}
  <2> DEFINE times == {k \in DOMAIN turn.prompt : turn.prompt[k] = ContextHeading}
             n == Len(run.planning)
             c == run.context
             p == turn.prompt
  <2>0. Typed /\ Asked
    BY <1>1 DEF IInv
  <2>1. run.planning \in Seq(Lines) /\ c \in Seq(Lines) /\ p \in Seq(Headed)
    BY <1>1, <2>0, PromptOfRun
  <2>2. n \in Nat /\ Len(c) \in Nat /\ Len(p) \in Nat /\ DOMAIN p = 1 .. Len(p)
    BY <2>1
  <2>3. /\ \A k \in 1 .. n : run.planning[k] # ContextHeading
        /\ \A k \in 1 .. Len(c) : c[k] # ContextHeading
    BY <2>1, HeadingIsNoLine
  <2>4. \A k \in 1 .. n : p[k] # ContextHeading
    <3>1. \A k \in 1 .. n : p[k] = run.planning[k]
      BY <1>1, <2>0, PromptOfRun
    <3> QED BY <2>3, <3>1
  <2>5. CASE c = <<>> \/ turn.planner = "mock"
    <3>1. p = run.planning
      BY <1>1, <2>0, <2>5, PromptOfRun
    <3>2. times = {}
      BY <2>1, <2>3, <3>1
    <3> QED BY <2>5, <3>2
  <2>6. CASE ~(c = <<>> \/ turn.planner = "mock")
    <3>1. /\ Len(p) = n + 1 + Len(c)
          /\ p[n + 1] = ContextHeading
          /\ \A k \in 1 .. Len(c) : p[n + 1 + k] = c[k]
      BY <1>1, <2>0, <2>6, PromptOfRun
    <3> HIDE DEF n, c, p
    <3>2. n + 1 \in times
      <4>1. n + 1 \in 1 .. Len(p)
        BY <2>2, <3>1
      <4> QED BY <2>2, <3>1, <4>1 DEF p
    <3>3. ASSUME NEW k \in times PROVE k = n + 1
      <4>1. k \in 1 .. Len(p) /\ p[k] = ContextHeading
        BY <2>2 DEF p
      <4>2. k \notin 1 .. n
        BY <2>4, <4>1
      <4>3. ASSUME k > n + 1 PROVE FALSE
        <5>1. /\ k - (n + 1) \in 1 .. Len(c)
              /\ n + 1 + (k - (n + 1)) = k
          BY <2>2, <3>1, <4>1, <4>3
        <5>2. p[n + 1 + (k - (n + 1))] = c[k - (n + 1)]
          BY <3>1, <5>1
        <5> QED BY <2>3, <4>1, <5>1, <5>2
      <4>4. k \in Int /\ 1 <= k
        BY <4>1
      <4> QED BY <2>2, <4>2, <4>3, <4>4
    <3> HIDE DEF times
    <3>4. times = {n + 1}
      BY <3>2, <3>3
    <3> QED BY <2>6, <3>4 DEF times, n, c, p
  <2> QED BY <2>5, <2>6
<1>2. IInv => ContextOnce
  BY <1>1 DEF ContextOnce
<1> QED BY <1>2, IInvariant, PTL

\* When no note, instruction or context file and no model's reason tells the session of a failure,
\* nothing it stores reports one, so that a first turn offers a model the whole catalog.
THEOREM OwnLogsAreHarmless == Spec => []OwnLogsNarrowNothing
<1>1. ASSUME IInv, pc = "asked", turn.planner = "model", run.failure = "none", Untold
      PROVE  turn.offered = Catalog
  <2>0. Typed /\ Planning /\ Asked /\ Quiet
    BY <1>1 DEF IInv
  <2>1. run.context \in Seq(Silent)
    BY <1>1, <2>0 DEF Quiet, Within
  <2>2. run.planning \in Seq(Silent)
    <3>1. run.instruction \in ToSet(runs) /\ run.planning = InstructionText[run.instruction]
      BY <1>1, <2>0 DEF Planning, Original
    <3>2. ToldIn(Silent, notes, runs, reasons)
      BY <1>1, <2>0, UntoldIsSilent DEF Typed
    <3> QED BY <3>1, <3>2 DEF ToldIn, Texts
  <2> DEFINE a == run.planning
             c == run.context
             p == turn.prompt
             n == Len(a)
  <2>3. /\ a \in Seq(Silent) /\ c \in Seq(Silent) /\ p \in Seq(Headed)
        /\ \A k \in 1 .. n : p[k] = a[k]
        /\ ~(c = <<>>) =>
             /\ Len(p) = n + 1 + Len(c)
             /\ p[n + 1] = ContextHeading
             /\ \A k \in 1 .. Len(c) : p[n + 1 + k] = c[k]
        /\ c = <<>> => p = a
    BY <1>1, <2>0, <2>1, <2>2, PromptOfRun
  <2> HIDE DEF a, c, p
  <2>4. ContextHeading.field = NoField
    BY DEF ContextHeading, Line
  <2>5. /\ n \in Nat /\ Len(c) \in Nat /\ Len(p) \in Nat
        /\ \A k \in 1 .. n : a[k].field = NoField
        /\ \A k \in 1 .. Len(c) : c[k].field = NoField
    <3>1. \A l \in Silent : l.field = NoField
      BY DEF Silent
    <3>2. \A x \in Seq(Silent) : Len(x) \in Nat /\ \A k \in 1 .. Len(x) : x[k].field = NoField
      BY <3>1
    <3>3. Len(p) \in Nat
      BY <2>3
    <3> QED BY <2>3, <3>2, <3>3
  <2>6. ASSUME NEW k \in 1 .. Len(p) PROVE p[k].field = NoField
    <3>1. CASE k \in 1 .. n
      BY <2>3, <2>5, <3>1
    <3>2. CASE c = <<>>
      <4>1. k \in 1 .. n
        BY <2>3, <3>2
      <4> QED BY <3>1, <4>1
    <3>3. CASE k = n + 1 /\ ~(c = <<>>)
      BY <2>3, <2>4, <3>3
    <3>4. CASE k > n + 1 /\ ~(c = <<>>)
      <4>1. Len(p) = n + 1 + Len(c)
        BY <2>3, <3>4
      <4> HIDE DEF n
      <4>2. k - (n + 1) \in 1 .. Len(c) /\ n + 1 + (k - (n + 1)) = k
        BY <2>5, <3>4, <4>1
      <4>3. p[n + 1 + (k - (n + 1))] = c[k - (n + 1)]
        BY <2>3, <3>4, <4>2 DEF n
      <4> QED BY <2>5, <4>2, <4>3
    <3>5. k \in 1 .. n \/ k = n + 1 \/ k > n + 1
      BY <2>5
    <3> QED BY <3>1, <3>2, <3>3, <3>4, <3>5
  <2>7. \A k \in 1 .. Len(p) : p[k].field.label # "failed step" /\ p[k].field.label # "failed tool"
    BY <2>6, FieldsTold
  <2>8. Field(p, "failed step") = "none" /\ Field(p, "failed tool") = "none"
    BY <2>3, <2>7, NoFieldFound
  <2>9. CandidatesIn(p) = {}
    BY <2>8, NothingToRecover DEF CandidatesIn
  <2>10. turn.offered = Offered(p, "model")
    BY <1>1, <2>0 DEF Asked, p
  <2> QED BY <2>9, <2>10 DEF Offered, Allowed
<1>2. IInv => OwnLogsNarrowNothing
  BY <1>1 DEF OwnLogsNarrowNothing, Untold
<1> QED BY <1>2, IInvariant, PTL

\* The first failed step and the first failed tool of a prompt are those of the replan, which goes
\* before the context: the skills offered are those whose rules match them.
THEOREM RecoveriesAreOnTarget == Spec => []RecoveryOnTarget
<1>1. ASSUME IInv, pc = "asked", run.failure # "none", ~TellsOfFailure(run.instruction),
             Candidates(run.failure, ToolOf[run.failure]) # {}
      PROVE  turn.offered = IF turn.planner = "mock"
                            THEN First(Candidates(run.failure, ToolOf[run.failure]))
                            ELSE Candidates(run.failure, ToolOf[run.failure])
  <2> DEFINE n == Len(Original)
             step == run.failure
             p == turn.prompt
  <2>0. Typed /\ Planning /\ Asked
    BY <1>1 DEF IInv
  <2>1. /\ Original = InstructionText[run.instruction] /\ Original \in Texts(Lines)
        /\ run.planning = ReplanText(step) /\ step \in Steps
    BY <1>1, <2>0, OriginalText DEF Planning
  <2>2. n \in Nat /\ \A k \in 1 .. n : Original[k].field = NoField
    BY <1>1, <2>1 DEF TellsOfFailure, Texts
  <2>3. /\ Len(run.planning) = n + 5
        /\ run.planning[1] = Plain
        /\ \A k \in 1 .. n : run.planning[1 + k] = Original[k]
        /\ run.planning[n + 2] = Line({}, TRUE, NoField)
        /\ run.planning[n + 3] = FailedStep(step)
        /\ run.planning[n + 4] = FailedTool(ToolOf[step])
    BY <2>1, ReplanTyped
  <2>4. /\ p \in Seq(Headed) /\ Len(p) \in Nat /\ n + 5 <= Len(p)
        /\ \A k \in 1 .. n + 5 : p[k] = run.planning[k]
    BY <1>1, <2>0, <2>3, PromptOfRun
  <2> HIDE DEF n, p, step
  <2>5. /\ p[1] = Plain
        /\ \A k \in 1 .. n : p[1 + k] = Original[k]
        /\ p[n + 2] = Line({}, TRUE, NoField)
        /\ p[n + 3] = FailedStep(step)
        /\ p[n + 4] = FailedTool(ToolOf[step])
    <3>1. /\ 1 \in 1 .. n + 5 /\ n + 2 \in 1 .. n + 5 /\ n + 3 \in 1 .. n + 5
          /\ n + 4 \in 1 .. n + 5 /\ \A k \in 1 .. n : 1 + k \in 1 .. n + 5
      BY <2>2
    <3> QED BY <2>3, <2>4, <3>1
  <2>6. ASSUME NEW k \in 1 .. n + 2 PROVE p[k].field = NoField
    <3>1. CASE k = 1
      BY <2>5, <3>1 DEF Plain, Line
    <3>2. CASE k = n + 2
      BY <2>5, <3>2 DEF Line
    <3>3. CASE k # 1 /\ k # n + 2
      <4>1. k - 1 \in 1 .. n /\ 1 + (k - 1) = k
        BY <2>2, <3>3
      <4>2. p[1 + (k - 1)] = Original[k - 1]
        BY <2>5, <4>1
      <4> QED BY <2>2, <4>1, <4>2
    <3> QED BY <3>1, <3>2, <3>3
  <2>7. /\ p[n + 3].field.label = "failed step" /\ p[n + 3].field.value = step
        /\ p[n + 3].head = FALSE /\ p[n + 3].field.label # "failed tool"
        /\ p[n + 4].field.label = "failed tool" /\ p[n + 4].field.value = ToolOf[step]
        /\ p[n + 4].head = FALSE
    <3> DEFINE l == p[n + 3]
               m == p[n + 4]
               tool == ToolOf[step]
    <3>1. l = FailedStep(step) /\ m = FailedTool(tool)
      BY <2>5
    <3> HIDE DEF l, m, tool
    <3>2. /\ l.field.label = "failed step" /\ l.field.value = step
          /\ l.head = FALSE /\ l.field.label # "failed tool"
      BY <3>1, FieldsTold
    <3>3. m.field.label = "failed tool" /\ m.field.value = tool /\ m.head = FALSE
      BY <3>1, FieldsTold
    <3> QED BY <3>2, <3>3 DEF l, m, tool
  <2>8. Field(p, "failed step") = step
    <3>1. n + 3 \in 1 .. Len(p) /\ (n + 3) - 1 = n + 2
      BY <2>2, <2>4
    <3>2. \A j \in 1 .. (n + 3) - 1 : p[j].field.label # "failed step"
      BY <2>6, <3>1, FieldsTold
    <3>3. Field(p, "failed step") = p[n + 3].field.value
      BY <2>4, <2>7, <3>1, <3>2, FirstIndex
    <3> QED BY <2>7, <3>3
  <2>9. Field(p, "failed tool") = ToolOf[step]
    <3>1. n + 4 \in 1 .. Len(p) /\ (n + 4) - 1 = n + 3
      BY <2>2, <2>4
    <3>2. ASSUME NEW j \in 1 .. (n + 4) - 1 PROVE p[j].field.label # "failed tool"
      <4>1. j \in 1 .. n + 2 \/ j = n + 3
        BY <2>2
      <4> QED BY <2>6, <2>7, <4>1, FieldsTold
    <3>3. Field(p, "failed tool") = p[n + 4].field.value
      BY <2>4, <2>7, <3>1, <3>2, FirstIndex
    <3> QED BY <2>7, <3>3
  <2>10. IsReplan(p)
    <3>1. n + 2 \in DOMAIN p /\ p[n + 2].flag
      BY <2>2, <2>4, <2>5 DEF Line
    <3> QED BY <3>1 DEF IsReplan
  <2>11. CandidatesIn(p) = Candidates(step, ToolOf[step]) /\ CandidatesIn(p) # {}
    BY <1>1, <2>8, <2>9 DEF CandidatesIn, step
  <2>12. turn.offered = Offered(p, turn.planner)
    BY <1>1, <2>0 DEF Asked, p
  <2> QED BY <2>10, <2>11, <2>12 DEF Offered, Allowed, MockChoice, step
<1>2. IInv => RecoveryOnTarget
  BY <1>1 DEF RecoveryOnTarget
<1> QED BY <1>2, IInvariant, PTL

=============================================================================
