---------------------------- MODULE ComputationsProofs ----------------------------
(***************************************************************************)
(* The arithmetic around an interview, for every set of durations the      *)
(* schema allows, of evaluations it admits and of spoken words, and for    *)
(* any number of answers: no planned stage is left without a question and  *)
(* a middle stage with a larger share never gets fewer, one answer cannot  *)
(* distort a category, the overall score stays between the category        *)
(* scores, a best answer never lowers a category, and the metrics of a     *)
(* spoken answer fit together.  The first parts are facts about sums and   *)
(* weighted means of any length.                                           *)
(***************************************************************************)
EXTENDS Computations, InterviewRulesProofs, SequenceTheorems

-----------------------------------------------------------------------------
(* Sums.                                                                   *)

\* g holds the partial sums of the first m terms.
SumsTo(terms, m, g) ==
    /\ g \in [0 .. m -> Int]
    /\ g[0] = 0
    /\ \A k \in 1 .. m : g[k] = g[k - 1] + terms[k]

LEMMA PartialSumsChosen ==
    ASSUME NEW terms
    PROVE  PartialSums(terms) =
              CHOOSE sum : sum = [k \in 0 .. Len(terms) |->
                                    IF k = 0 THEN 0 ELSE sum[k - 1] + terms[k]]
  BY DEF PartialSums

\* The partial sums of any number of terms exist.
LEMMA SumsExist ==
    ASSUME NEW n \in Nat, NEW terms, \A k \in 1 .. n : terms[k] \in Int
    PROVE  \E g : SumsTo(terms, n, g)
<1> DEFINE Fails == {m \in 1 .. n + 1 : ~\E g : SumsTo(terms, m - 1, g)}
<1>1. CASE Fails = {}
  <2>1. n + 1 \in 1 .. n + 1 /\ n + 1 - 1 = n
    OBVIOUS
  <2>2. n + 1 \notin Fails
    BY <1>1
  <2>3. \E g : SumsTo(terms, n + 1 - 1, g)
    BY <2>1, <2>2
  <2> QED
    BY <2>1, <2>3
<1>2. CASE Fails # {}
  <2>1. PICK m \in Fails : \A j \in Fails : m <= j
    <3>1. Fails \in SUBSET (1 .. n + 1) /\ n + 1 \in Nat
      OBVIOUS
    <3> HIDE DEF Fails
    <3> QED
      BY <1>2, <3>1, FirstPlace
  <2>2. m \in 1 .. n + 1 /\ ~\E g : SumsTo(terms, m - 1, g)
    OBVIOUS
  <2>3. m # 1
    <3>1. SumsTo(terms, 0, [k \in 0 .. 0 |-> 0])
      BY DEF SumsTo
    <3> QED
      BY <2>2, <3>1
  <2>4. m - 1 \in 1 .. n + 1 /\ m - 1 \notin Fails /\ m - 1 \in 1 .. n
    BY <2>1, <2>2, <2>3
  <2>5. PICK g : SumsTo(terms, m - 1 - 1, g)
    BY <2>4
  <2> DEFINE l == m - 1
             h == [k \in 0 .. l |-> IF k = l THEN g[l - 1] + terms[l] ELSE g[k]]
  <2>6. l \in 1 .. n /\ terms[l] \in Int /\ SumsTo(terms, l - 1, g)
    BY <2>4, <2>5
  <2>7. SumsTo(terms, l, h)
    <3> HIDE DEF l
    <3>1. /\ g \in [0 .. l - 1 -> Int] /\ g[0] = 0 /\ l - 1 \in 0 .. l - 1
          /\ \A k \in 1 .. l - 1 : g[k] = g[k - 1] + terms[k]
      BY <2>6 DEF SumsTo
    <3>2. \A k \in 0 .. l - 1 : h[k] = g[k] /\ g[k] \in Int
      BY <2>6, <3>1
    <3>3. h[l] = g[l - 1] + terms[l] /\ h[l] \in Int
      <4>1. l \in 0 .. l /\ g[l - 1] \in Int
        BY <2>6, <3>1
      <4>2. h[l] = g[l - 1] + terms[l]
        BY <4>1
      <4> QED
        BY <2>6, <4>1, <4>2
    <3>4. h \in [0 .. l -> Int]
      <4>1. \A k \in 0 .. l : h[k] \in Int
        <5>1. \A k \in 0 .. l : k = l \/ k \in 0 .. l - 1
          BY <2>6
        <5>2. \A k \in 0 .. l - 1 : h[k] \in Int
          BY <3>2
        <5> HIDE DEF h
        <5> QED
          BY <3>3, <5>1, <5>2
      <4>2. h = [k \in 0 .. l |-> h[k]]
        OBVIOUS
      <4> HIDE DEF h
      <4> QED
        BY <4>1, <4>2
    <3>5. \A k \in 1 .. l : h[k] = h[k - 1] + terms[k]
      <4> SUFFICES ASSUME NEW k \in 1 .. l
                   PROVE  h[k] = h[k - 1] + terms[k]
        OBVIOUS
      <4>1. k - 1 \in 0 .. l - 1
        BY <2>6
      <4>2. CASE k = l
        BY <3>2, <3>3, <4>1, <4>2
      <4>3. CASE k # l
        <5>1. k \in 1 .. l - 1 /\ k \in 0 .. l - 1
          BY <2>6, <4>3
        <5> QED
          BY <3>1, <3>2, <4>1, <5>1
      <4> QED
        BY <4>2, <4>3
    <3>6. h[0] = 0
      BY <2>6, <3>1, <3>2
    <3> QED
      BY <3>4, <3>5, <3>6 DEF SumsTo
  <2> QED
    BY <2>2, <2>7
<1> QED
  BY <1>1, <1>2

\* What PartialSums returns are the partial sums.
LEMMA PartialSumsAre ==
    ASSUME NEW terms \in Seq(Int)
    PROVE  SumsTo(terms, Len(terms), PartialSums(terms))
<1> DEFINE n == Len(terms)
           Unfolded(sum) == [k \in 0 .. n |-> IF k = 0 THEN 0 ELSE sum[k - 1] + terms[k]]
<1>1. n \in Nat /\ \A k \in 1 .. n : terms[k] \in Int
  BY LenProperties, ElementOfSeq
<1>2. PICK g : SumsTo(terms, n, g)
  BY <1>1, SumsExist
<1>3. g = Unfolded(g)
  <2>1. g = [k \in 0 .. n |-> g[k]]
    BY <1>2 DEF SumsTo
  <2>2. \A k \in 0 .. n : g[k] = IF k = 0 THEN 0 ELSE g[k - 1] + terms[k]
    BY <1>1, <1>2 DEF SumsTo
  <2> QED
    BY <2>1, <2>2
<1>4. PartialSums(terms) = CHOOSE sum : sum = Unfolded(sum)
  BY PartialSumsChosen
<1>5. PartialSums(terms) = Unfolded(PartialSums(terms))
  BY <1>3, <1>4
<1> DEFINE s == PartialSums(terms)
<1>6. s = [k \in 0 .. n |-> s[k]]
  BY <1>5
<1>7. \A k \in 0 .. n : s[k] = IF k = 0 THEN 0 ELSE s[k - 1] + terms[k]
  BY <1>5
<1> HIDE DEF s, n
<1>8. s[0] = 0 /\ \A k \in 1 .. n : s[k] = s[k - 1] + terms[k]
  <2>1. 0 \in 0 .. n /\ \A k \in 1 .. n : k \in 0 .. n /\ k # 0
    BY <1>1
  <2> QED
    BY <1>7, <2>1
<1>9. \A k \in 0 .. n : s[k] = g[k]
  <2> DEFINE Fails == {k \in 1 .. n : s[k] # g[k]}
  <2>1. s[0] = g[0]
    BY <1>2, <1>8 DEF SumsTo
  <2>2. CASE Fails # {}
    <3>1. PICK k \in Fails : \A j \in Fails : k <= j
      <4>1. Fails \in SUBSET (1 .. n)
        OBVIOUS
      <4> HIDE DEF Fails
      <4> QED
        BY <1>1, <2>2, <4>1, FirstPlace
    <3>2. k \in 1 .. n /\ s[k] # g[k]
      OBVIOUS
    <3>3. s[k - 1] = g[k - 1]
      BY <1>1, <2>1, <3>1, <3>2
    <3> QED
      BY <1>2, <1>8, <3>2, <3>3 DEF SumsTo
  <2>3. CASE Fails = {}
    <3>1. \A k \in 1 .. n : s[k] = g[k]
      BY <2>3
    <3> QED
      BY <1>1, <2>1, <3>1
  <2> QED
    BY <2>2, <2>3
<1>10. s = g
  BY <1>2, <1>6, <1>9 DEF SumsTo
<1> QED
  BY <1>2, <1>10 DEF s, n

LEMMA TotalIsInt ==
    ASSUME NEW terms \in Seq(Int)
    PROVE  Total(terms) \in Int
<1>1. SumsTo(terms, Len(terms), PartialSums(terms)) /\ Len(terms) \in Nat
  BY PartialSumsAre, LenProperties
<1> QED
  BY <1>1 DEF SumsTo, Total

\* Numbers that are term by term at least (at most) a multiple of others have
\* a total that is at least (at most) that multiple of the others' total.
LEMMA TotalAtLeast ==
    ASSUME NEW terms \in Seq(Int), NEW others \in Seq(Int), NEW factor \in Int,
           Len(others) = Len(terms),
           \A k \in 1 .. Len(terms) : factor * others[k] <= terms[k]
    PROVE  factor * Total(others) <= Total(terms)
<1> DEFINE n == Len(terms)
           s == PartialSums(terms)
           o == PartialSums(others)
           Fails == {k \in 1 .. n : ~(factor * o[k] <= s[k])}
<1>1. n \in Nat /\ SumsTo(terms, n, s) /\ SumsTo(others, n, o)
  BY PartialSumsAre, LenProperties
<1>2. \A k \in 1 .. n : /\ terms[k] \in Int /\ others[k] \in Int
                        /\ factor * others[k] <= terms[k]
  BY ElementOfSeq
<1>3. Total(terms) = s[n] /\ Total(others) = o[n]
  BY DEF Total
<1> HIDE DEF n, s, o
<1>4. Fails = {}
  <2> SUFFICES ASSUME Fails # {}
               PROVE  FALSE
    OBVIOUS
  <2>1. PICK k \in Fails : \A j \in Fails : k <= j
    <3>1. Fails \in SUBSET (1 .. n)
      OBVIOUS
    <3> HIDE DEF Fails
    <3> QED
      BY <1>1, <3>1, FirstPlace
  <2>2. k \in 1 .. n /\ ~(factor * o[k] <= s[k])
    OBVIOUS
  <2>3. factor * o[k - 1] <= s[k - 1]
    <3>1. CASE k = 1
      BY <1>1, <3>1 DEF SumsTo
    <3>2. CASE k # 1
      <4>1. k - 1 \in 1 .. n /\ k - 1 \notin Fails
        BY <1>1, <2>1, <2>2, <3>2
      <4> QED
        BY <4>1
    <3> QED
      BY <3>1, <3>2
  <2>4. /\ o[k] = o[k - 1] + others[k] /\ s[k] = s[k - 1] + terms[k]
        /\ o[k - 1] \in Int /\ s[k - 1] \in Int
    <3>1. k - 1 \in 0 .. n
      BY <1>1, <2>2
    <3> QED
      BY <1>1, <2>2, <3>1 DEF SumsTo
  <2>5. \A a, b, x, y \in Int : factor * a <= b /\ factor * x <= y
                                   => factor * (a + x) <= b + y
    OBVIOUS
  <2> QED
    BY <1>2, <2>2, <2>3, <2>4, <2>5
<1>5. CASE n = 0
  BY <1>1, <1>3, <1>5 DEF SumsTo
<1>6. CASE n # 0
  <2>1. n \in 1 .. n /\ n \notin Fails
    BY <1>1, <1>4, <1>6
  <2> QED
    BY <1>3, <2>1
<1> QED
  BY <1>5, <1>6

LEMMA TotalAtMost ==
    ASSUME NEW terms \in Seq(Int), NEW others \in Seq(Int), NEW factor \in Int,
           Len(others) = Len(terms),
           \A k \in 1 .. Len(terms) : terms[k] <= factor * others[k]
    PROVE  Total(terms) <= factor * Total(others)
<1> DEFINE n == Len(terms)
           s == PartialSums(terms)
           o == PartialSums(others)
           Fails == {k \in 1 .. n : ~(s[k] <= factor * o[k])}
<1>1. n \in Nat /\ SumsTo(terms, n, s) /\ SumsTo(others, n, o)
  BY PartialSumsAre, LenProperties
<1>2. \A k \in 1 .. n : /\ terms[k] \in Int /\ others[k] \in Int
                        /\ terms[k] <= factor * others[k]
  BY ElementOfSeq
<1>3. Total(terms) = s[n] /\ Total(others) = o[n]
  BY DEF Total
<1> HIDE DEF n, s, o
<1>4. Fails = {}
  <2> SUFFICES ASSUME Fails # {}
               PROVE  FALSE
    OBVIOUS
  <2>1. PICK k \in Fails : \A j \in Fails : k <= j
    <3>1. Fails \in SUBSET (1 .. n)
      OBVIOUS
    <3> HIDE DEF Fails
    <3> QED
      BY <1>1, <3>1, FirstPlace
  <2>2. k \in 1 .. n /\ ~(s[k] <= factor * o[k])
    OBVIOUS
  <2>3. s[k - 1] <= factor * o[k - 1]
    <3>1. CASE k = 1
      BY <1>1, <3>1 DEF SumsTo
    <3>2. CASE k # 1
      <4>1. k - 1 \in 1 .. n /\ k - 1 \notin Fails
        BY <1>1, <2>1, <2>2, <3>2
      <4> QED
        BY <4>1
    <3> QED
      BY <3>1, <3>2
  <2>4. /\ o[k] = o[k - 1] + others[k] /\ s[k] = s[k - 1] + terms[k]
        /\ o[k - 1] \in Int /\ s[k - 1] \in Int
    <3>1. k - 1 \in 0 .. n
      BY <1>1, <2>2
    <3> QED
      BY <1>1, <2>2, <3>1 DEF SumsTo
  <2>5. \A a, b, x, y \in Int : b <= factor * a /\ y <= factor * x
                                   => b + y <= factor * (a + x)
    OBVIOUS
  <2> QED
    BY <1>2, <2>2, <2>3, <2>4, <2>5
<1>5. CASE n = 0
  BY <1>1, <1>3, <1>5 DEF SumsTo
<1>6. CASE n # 0
  <2>1. n \in 1 .. n /\ n \notin Fails
    BY <1>1, <1>4, <1>6
  <2> QED
    BY <1>3, <2>1
<1> QED
  BY <1>5, <1>6

\* A total follows the change of one of its terms.
LEMMA TotalChanges ==
    ASSUME NEW terms \in Seq(Int), NEW others \in Seq(Int),
           Len(others) = Len(terms), NEW j \in 1 .. Len(terms),
           \A k \in 1 .. Len(terms) : k # j => others[k] = terms[k]
    PROVE  Total(others) = Total(terms) + (others[j] - terms[j])
<1> DEFINE n == Len(terms)
           s == PartialSums(terms)
           o == PartialSums(others)
           d == others[j] - terms[j]
           Ok(k) == o[k] = IF k >= j THEN s[k] + d ELSE s[k]
           Fails == {k \in 1 .. n : ~Ok(k)}
<1>1. n \in Nat /\ SumsTo(terms, n, s) /\ SumsTo(others, n, o)
  BY PartialSumsAre, LenProperties
<1>2. \A k \in 1 .. n : terms[k] \in Int /\ others[k] \in Int
  BY ElementOfSeq
<1>3. Total(terms) = s[n] /\ Total(others) = o[n] /\ j \in 1 .. n
  BY DEF Total
<1>4. \A k \in 1 .. n : others[k] = IF k = j THEN terms[k] + d ELSE terms[k]
  BY <1>2
<1>5. d \in Int
  BY <1>2
<1> HIDE DEF n, s, o, d
<1>6. Fails = {}
  <2> SUFFICES ASSUME Fails # {}
               PROVE  FALSE
    OBVIOUS
  <2>1. PICK k \in Fails : \A i \in Fails : k <= i
    <3>1. Fails \in SUBSET (1 .. n)
      OBVIOUS
    <3> HIDE DEF Fails
    <3> QED
      BY <1>1, <3>1, FirstPlace
  <2>2. k \in 1 .. n /\ ~Ok(k)
    OBVIOUS
  <2>3. k - 1 \in 0 .. n /\ s[k - 1] \in Int /\ o[k - 1] \in Int
    <3>1. k - 1 \in 0 .. n
      BY <1>1, <2>2
    <3> QED
      BY <1>1, <3>1 DEF SumsTo
  <2>4. Ok(k - 1)
    <3>1. CASE k = 1
      BY <1>1, <1>3, <3>1 DEF SumsTo
    <3>2. CASE k # 1
      <4>1. k - 1 \in 1 .. n /\ k - 1 \notin Fails
        BY <1>1, <2>1, <2>2, <3>2
      <4> QED
        BY <4>1
    <3> QED
      BY <3>1, <3>2
  <2>5. o[k] = o[k - 1] + others[k] /\ s[k] = s[k - 1] + terms[k]
    BY <1>1, <2>2 DEF SumsTo
  <2>6. /\ terms[k] \in Int /\ k \in Int /\ j \in Int
        /\ others[k] = IF k = j THEN terms[k] + d ELSE terms[k]
        /\ o[k - 1] = IF k - 1 >= j THEN s[k - 1] + d ELSE s[k - 1]
    BY <1>2, <1>3, <1>4, <2>2, <2>4
  <2>7. o[k] = IF k >= j THEN s[k] + d ELSE s[k]
    BY <1>5, <2>3, <2>5, <2>6, SMTT(30)
  <2> QED
    BY <2>2, <2>7
<1>7. n \in 1 .. n /\ n \notin Fails /\ n >= j
  BY <1>1, <1>3, <1>6
<1> QED
  BY <1>3, <1>7 DEF d

\* A number is added at the end.
LEMMA TotalAppend ==
    ASSUME NEW terms \in Seq(Int), NEW others \in Seq(Int),
           Len(others) = Len(terms) + 1,
           \A k \in 1 .. Len(terms) : others[k] = terms[k]
    PROVE  Total(others) = Total(terms) + others[Len(others)]
<1> DEFINE n == Len(terms)
           s == PartialSums(terms)
           o == PartialSums(others)
           Fails == {k \in 1 .. n : o[k] # s[k]}
<1>1. n \in Nat /\ SumsTo(terms, n, s) /\ SumsTo(others, n + 1, o)
  BY PartialSumsAre, LenProperties
<1>2. /\ Total(terms) = s[n] /\ Total(others) = o[n + 1] /\ Len(others) = n + 1
      /\ \A k \in 1 .. n : others[k] = terms[k]
  BY DEF Total
<1> HIDE DEF n, s, o
<1>3. Fails = {}
  <2> SUFFICES ASSUME Fails # {}
               PROVE  FALSE
    OBVIOUS
  <2>1. PICK k \in Fails : \A i \in Fails : k <= i
    <3>1. Fails \in SUBSET (1 .. n)
      OBVIOUS
    <3> HIDE DEF Fails
    <3> QED
      BY <1>1, <3>1, FirstPlace
  <2>2. k \in 1 .. n /\ k \in 1 .. n + 1 /\ o[k] # s[k]
    BY <1>1
  <2>3. o[k - 1] = s[k - 1]
    <3>1. CASE k = 1
      BY <1>1, <3>1 DEF SumsTo
    <3>2. CASE k # 1
      <4>1. k - 1 \in 1 .. n /\ k - 1 \notin Fails
        BY <1>1, <2>1, <2>2, <3>2
      <4> QED
        BY <4>1
    <3> QED
      BY <3>1, <3>2
  <2>4. o[k] = o[k - 1] + others[k] /\ s[k] = s[k - 1] + terms[k]
    BY <1>1, <2>2 DEF SumsTo
  <2> QED
    BY <1>2, <2>2, <2>3, <2>4
<1>4. o[n] = s[n]
  <2>1. CASE n = 0
    BY <1>1, <2>1 DEF SumsTo
  <2>2. CASE n # 0
    BY <1>1, <1>3, <2>2
  <2> QED
    BY <2>1, <2>2
<1>5. o[n + 1] = o[n] + others[n + 1]
  <2>1. n + 1 \in 1 .. n + 1 /\ n + 1 - 1 = n
    BY <1>1
  <2> QED
    BY <1>1, <2>1 DEF SumsTo
<1> QED
  BY <1>2, <1>4, <1>5

-----------------------------------------------------------------------------
(* Means.                                                                  *)

Answer == [difficulty : DOMAIN DifficultyWeights,
           scores : [ReportCategories -> (0..100) \union {NoScore}]]

\* One number for each answer of a subset, zero for the others.
PointsIn(answers, c, subset) ==
    [i \in DOMAIN answers |->
        IF i \in subset THEN ScoreOf(answers, c, i) * WeightOf(answers, i) ELSE 0]
WeightsIn(answers, subset) ==
    [i \in DOMAIN answers |-> IF i \in subset THEN WeightOf(answers, i) ELSE 0]

LEMMA AnswersTyped ==
    ASSUME NEW answers \in Seq(Answer), NEW c \in ReportCategories
    PROVE  /\ Len(answers) \in Nat /\ DOMAIN answers = 1 .. Len(answers)
           /\ Samples(answers, c) \in SUBSET (1 .. Len(answers))
           /\ \A i \in Samples(answers, c) : /\ ScoreOf(answers, c, i) \in 0..100
                                          /\ ScoreOf(answers, c, i) \in Int
           /\ \A i \in 1 .. Len(answers) : WeightOf(answers, i) \in {4, 5, 6}
<1>1. Len(answers) \in Nat /\ DOMAIN answers = 1 .. Len(answers)
  BY LenProperties
<1>2. \A i \in 1 .. Len(answers) : answers[i] \in Answer
  BY ElementOfSeq
<1>3. \A i \in 1 .. Len(answers) : ScoreOf(answers, c, i) \in (0..100) \union {NoScore}
  BY <1>2 DEF Answer, ScoreOf
<1>4. \A i \in 1 .. Len(answers) : WeightOf(answers, i) \in {4, 5, 6}
  BY <1>2 DEF Answer, WeightOf, DifficultyWeights
<1>5. \A i \in 1 .. Len(answers) :
         ScoreOf(answers, c, i) # NoScore => /\ ScoreOf(answers, c, i) \in 0..100
                                             /\ ScoreOf(answers, c, i) \in Int
  <2>1. \A s \in 0..100 : s \in Int
    OBVIOUS
  <2> QED
    BY <1>3, <2>1
<1>6. \A i \in Samples(answers, c) : i \in 1 .. Len(answers) /\ ScoreOf(answers, c, i) # NoScore
  BY <1>1 DEF Samples
<1> QED
  BY <1>1, <1>4, <1>5, <1>6

\* Products of a score and a weight.
LEMMA Products ==
    ASSUME NEW w \in {4, 5, 6}, NEW x \in Int, NEW y \in Int
    PROVE  /\ x * w \in Int
           /\ x <= y => x * w <= y * w
<1>1. w = 4 \/ w = 5 \/ w = 6
  OBVIOUS
<1> QED
  BY <1>1

LEMMA SubsetTyped ==
    ASSUME NEW answers \in Seq(Answer), NEW c \in ReportCategories,
           NEW subset \in SUBSET Samples(answers, c)
    PROVE  /\ \A i \in subset : /\ i \in 1 .. Len(answers)
                                /\ ScoreOf(answers, c, i) \in 0..100
                                /\ ScoreOf(answers, c, i) \in Int
                                /\ WeightOf(answers, i) \in {4, 5, 6}
           /\ \A i \in 1 .. Len(answers) :
                 \/ /\ i \in subset
                    /\ PointsIn(answers, c, subset)[i]
                         = ScoreOf(answers, c, i) * WeightOf(answers, i)
                    /\ WeightsIn(answers, subset)[i] = WeightOf(answers, i)
                 \/ /\ i \notin subset
                    /\ PointsIn(answers, c, subset)[i] = 0
                    /\ WeightsIn(answers, subset)[i] = 0
           /\ PointsIn(answers, c, subset) \in Seq(Int)
           /\ Len(PointsIn(answers, c, subset)) = Len(answers)
           /\ WeightsIn(answers, subset) \in Seq(Int)
           /\ Len(WeightsIn(answers, subset)) = Len(answers)
<1> DEFINE n == Len(answers)
           samples == Samples(answers, c)
<1>1. /\ n \in Nat /\ DOMAIN answers = 1 .. n /\ samples \in SUBSET (1 .. n)
      /\ \A i \in samples : /\ ScoreOf(answers, c, i) \in 0..100
                            /\ ScoreOf(answers, c, i) \in Int
      /\ \A i \in 1 .. n : WeightOf(answers, i) \in {4, 5, 6}
  BY AnswersTyped
<1>2. \A i \in subset : i \in samples /\ i \in 1 .. n
  BY <1>1
<1> HIDE DEF samples
<1>3. \A i \in subset : /\ i \in 1 .. n /\ ScoreOf(answers, c, i) \in 0..100
                        /\ ScoreOf(answers, c, i) \in Int
                        /\ WeightOf(answers, i) \in {4, 5, 6}
  BY <1>1, <1>2
<1>4. \A i \in subset : ScoreOf(answers, c, i) * WeightOf(answers, i) \in Int
  <2> SUFFICES ASSUME NEW i \in subset
               PROVE  ScoreOf(answers, c, i) * WeightOf(answers, i) \in Int
    OBVIOUS
  <2>1. ScoreOf(answers, c, i) \in Int /\ WeightOf(answers, i) \in {4, 5, 6}
    BY <1>3
  <2> QED
    BY <2>1, Products
<1>5. PointsIn(answers, c, subset) \in [1 .. n -> Int]
  BY <1>1, <1>4 DEF PointsIn
<1>6. WeightsIn(answers, subset) \in [1 .. n -> Int]
  BY <1>1 DEF WeightsIn
<1>7. \A i \in 1 .. n :
         \/ /\ i \in subset
            /\ PointsIn(answers, c, subset)[i]
                 = ScoreOf(answers, c, i) * WeightOf(answers, i)
            /\ WeightsIn(answers, subset)[i] = WeightOf(answers, i)
         \/ /\ i \notin subset
            /\ PointsIn(answers, c, subset)[i] = 0
            /\ WeightsIn(answers, subset)[i] = 0
  BY <1>1 DEF PointsIn, WeightsIn
<1> HIDE DEF n
<1>8. /\ PointsIn(answers, c, subset) \in Seq(Int) /\ Len(PointsIn(answers, c, subset)) = n
      /\ WeightsIn(answers, subset) \in Seq(Int) /\ Len(WeightsIn(answers, subset)) = n
  BY <1>1, <1>5, <1>6
<1> QED
  BY <1>3, <1>7, <1>8 DEF n

\* The mean of a subset lies between any two bounds of its scores.
LEMMA MeanBetween ==
    ASSUME NEW answers \in Seq(Answer), NEW c \in ReportCategories,
           NEW subset \in SUBSET Samples(answers, c), NEW bound \in Int
    PROVE  LET numerator   == Total(PointsIn(answers, c, subset))
               denominator == Total(WeightsIn(answers, subset))
           IN  /\ (\A i \in subset : bound <= ScoreOf(answers, c, i))
                     => bound * denominator <= numerator
               /\ (\A i \in subset : ScoreOf(answers, c, i) <= bound)
                     => numerator <= bound * denominator
<1> DEFINE n == Len(answers)
           points == PointsIn(answers, c, subset)
           weights == WeightsIn(answers, subset)
<1>1. \A i \in subset : ScoreOf(answers, c, i) \in Int /\ WeightOf(answers, i) \in {4, 5, 6}
  BY SubsetTyped
<1>2. points \in Seq(Int) /\ Len(points) = n /\ weights \in Seq(Int) /\ Len(weights) = n
  BY SubsetTyped
<1>3. \A i \in 1 .. n :
         \/ /\ i \in subset /\ weights[i] = WeightOf(answers, i)
            /\ points[i] = ScoreOf(answers, c, i) * WeightOf(answers, i)
         \/ i \notin subset /\ weights[i] = 0 /\ points[i] = 0
  BY SubsetTyped
<1> HIDE DEF n, points, weights
<1>4. ASSUME \A i \in subset : bound <= ScoreOf(answers, c, i)
      PROVE  bound * Total(weights) <= Total(points)
  <2>1. \A i \in 1 .. n : bound * weights[i] <= points[i]
    <3> SUFFICES ASSUME NEW i \in 1 .. n
                 PROVE  bound * weights[i] <= points[i]
      OBVIOUS
    <3>1. CASE i \in subset
      <4>1. /\ WeightOf(answers, i) \in {4, 5, 6} /\ ScoreOf(answers, c, i) \in Int
            /\ bound <= ScoreOf(answers, c, i)
        BY <1>1, <1>4, <3>1
      <4>2. bound * WeightOf(answers, i) <= ScoreOf(answers, c, i) * WeightOf(answers, i)
        BY <4>1, Products
      <4> QED
        BY <1>3, <3>1, <4>2
    <3>2. CASE i \notin subset
      BY <1>3, <3>2
    <3> QED
      BY <3>1, <3>2
  <2> QED
    BY <1>2, <2>1, TotalAtLeast
<1>5. ASSUME \A i \in subset : ScoreOf(answers, c, i) <= bound
      PROVE  Total(points) <= bound * Total(weights)
  <2>1. \A i \in 1 .. n : points[i] <= bound * weights[i]
    <3> SUFFICES ASSUME NEW i \in 1 .. n
                 PROVE  points[i] <= bound * weights[i]
      OBVIOUS
    <3>1. CASE i \in subset
      <4>1. /\ WeightOf(answers, i) \in {4, 5, 6} /\ ScoreOf(answers, c, i) \in Int
            /\ ScoreOf(answers, c, i) <= bound
        BY <1>1, <1>5, <3>1
      <4>2. ScoreOf(answers, c, i) * WeightOf(answers, i) <= bound * WeightOf(answers, i)
        BY <4>1, Products
      <4> QED
        BY <1>3, <3>1, <4>2
    <3>2. CASE i \notin subset
      BY <1>3, <3>2
    <3> QED
      BY <3>1, <3>2
  <2> QED
    BY <1>2, <2>1, TotalAtMost
<1> QED
  BY <1>4, <1>5 DEF points, weights

\* Taking one answer out of a subset.
LEMMA MeanWithout ==
    ASSUME NEW answers \in Seq(Answer), NEW c \in ReportCategories,
           NEW subset \in SUBSET Samples(answers, c), NEW i \in subset
    PROVE  /\ Total(PointsIn(answers, c, subset \ {i}))
                 = Total(PointsIn(answers, c, subset))
                     - ScoreOf(answers, c, i) * WeightOf(answers, i)
           /\ Total(WeightsIn(answers, subset \ {i}))
                 = Total(WeightsIn(answers, subset)) - WeightOf(answers, i)
<1> DEFINE n == Len(answers)
           points == PointsIn(answers, c, subset)
           weights == WeightsIn(answers, subset)
           fewer == PointsIn(answers, c, subset \ {i})
           lighter == WeightsIn(answers, subset \ {i})
           score == ScoreOf(answers, c, i)
           weight == WeightOf(answers, i)
           product == score * weight
<1>1. i \in 1 .. n /\ score \in Int /\ weight \in {4, 5, 6}
  BY SubsetTyped
<1>2. points \in Seq(Int) /\ Len(points) = n /\ weights \in Seq(Int) /\ Len(weights) = n
  BY SubsetTyped
<1>3. subset \ {i} \in SUBSET Samples(answers, c)
  OBVIOUS
<1>4. fewer \in Seq(Int) /\ Len(fewer) = n /\ lighter \in Seq(Int) /\ Len(lighter) = n
  BY <1>3, SubsetTyped
<1>5. /\ \A k \in 1 .. n : k # i => fewer[k] = points[k]
      /\ \A k \in 1 .. n : k # i => lighter[k] = weights[k]
      /\ fewer[i] = 0 /\ lighter[i] = 0
      /\ points[i] = product /\ weights[i] = weight
  <2>1. DOMAIN answers = 1 .. n
    BY AnswersTyped
  <2> QED
    BY <1>1, <2>1 DEF PointsIn, WeightsIn
<1>6. product \in Int /\ Total(points) \in Int /\ Total(weights) \in Int
  BY <1>1, <1>2, Products, TotalIsInt
<1> HIDE DEF n, points, weights, fewer, lighter, score, weight, product
<1>7. Total(fewer) = Total(points) + (fewer[i] - points[i])
  <2>1. /\ Len(fewer) = Len(points) /\ i \in 1 .. Len(points)
        /\ \A k \in 1 .. Len(points) : k # i => fewer[k] = points[k]
    BY <1>1, <1>2, <1>4, <1>5
  <2> QED
    BY <1>2, <1>4, <2>1, TotalChanges
<1>8. Total(lighter) = Total(weights) + (lighter[i] - weights[i])
  <2>1. /\ Len(lighter) = Len(weights) /\ i \in 1 .. Len(weights)
        /\ \A k \in 1 .. Len(weights) : k # i => lighter[k] = weights[k]
    BY <1>1, <1>2, <1>4, <1>5
  <2> QED
    BY <1>2, <1>4, <2>1, TotalChanges
<1>9. Total(fewer) = Total(points) - product /\ Total(lighter) = Total(weights) - weight
  BY <1>1, <1>5, <1>6, <1>7, <1>8
<1> QED
  BY <1>9 DEF points, weights, fewer, lighter, score, weight, product

\* A subset that is not empty has weight.
LEMMA WeightPositive ==
    ASSUME NEW answers \in Seq(Answer), NEW c \in ReportCategories,
           NEW subset \in SUBSET Samples(answers, c), subset # {}
    PROVE  Total(WeightsIn(answers, subset)) \in Nat \ {0}
<1> PICK i \in subset : TRUE
  OBVIOUS
<1> DEFINE n == Len(answers)
           weights == WeightsIn(answers, subset)
           lighter == WeightsIn(answers, subset \ {i})
<1>1. subset \ {i} \in SUBSET Samples(answers, c)
  OBVIOUS
<1>2. lighter \in Seq(Int) /\ Len(lighter) = n /\ weights \in Seq(Int)
  BY <1>1, SubsetTyped
<1>3. \A k \in 1 .. n : lighter[k] \in {0, 4, 5, 6}
  <2>1. DOMAIN answers = 1 .. n /\ \A k \in 1 .. n : WeightOf(answers, k) \in {4, 5, 6}
    BY AnswersTyped
  <2> QED
    BY <2>1 DEF WeightsIn
<1>4. WeightOf(answers, i) \in {4, 5, 6}
  BY SubsetTyped
<1>5. Total(lighter) = Total(weights) - WeightOf(answers, i)
  BY MeanWithout
<1> HIDE DEF lighter, weights, n
<1>6. \A k \in 1 .. n : 0 * lighter[k] <= lighter[k]
  BY <1>3
<1>7. Total(lighter) \in Int /\ Total(weights) \in Int
  BY <1>2, TotalIsInt
<1>8. 0 * Total(lighter) <= Total(lighter)
  BY <1>2, <1>6, TotalAtLeast
<1>9. 0 * Total(lighter) = 0
  BY <1>7
<1>10. Total(weights) \in Nat \ {0}
  BY <1>4, <1>5, <1>7, <1>8, <1>9
<1> QED
  BY <1>10 DEF weights

-----------------------------------------------------------------------------
(* The order of the answers by score.                                      *)

LEMMA RanksOrder ==
    ASSUME NEW answers \in Seq(Answer), NEW c \in ReportCategories,
           NEW i \in Samples(answers, c), NEW j \in Samples(answers, c)
    PROVE  /\ i = j \/ RanksBelow(answers, c, i, j) \/ RanksBelow(answers, c, j, i)
           /\ ~(RanksBelow(answers, c, i, j) /\ RanksBelow(answers, c, j, i))
           /\ ~RanksBelow(answers, c, i, i)
           /\ RanksBelow(answers, c, i, j)
                 => ScoreOf(answers, c, i) <= ScoreOf(answers, c, j)
<1>1. Len(answers) \in Nat /\ i \in 1 .. Len(answers) /\ j \in 1 .. Len(answers)
  BY AnswersTyped
<1>2. i \in Int /\ j \in Int
  BY <1>1
<1>3. ScoreOf(answers, c, i) \in Int /\ ScoreOf(answers, c, j) \in Int
  BY AnswersTyped
<1> QED
  BY <1>2, <1>3 DEF RanksBelow

LEMMA LeastExists ==
    ASSUME NEW answers \in Seq(Answer), NEW c \in ReportCategories,
           NEW subset \in SUBSET Samples(answers, c), subset # {}
    PROVE  \E i \in subset : \A j \in subset \ {i} : RanksBelow(answers, c, i, j)
<1> DEFINE n == Len(answers)
           key == [i \in 1 .. n |-> IF i \in subset THEN ScoreOf(answers, c, i) ELSE 0]
<1>1. n \in Nat
  BY AnswersTyped
<1>2. \A i \in subset : i \in 1 .. n /\ ScoreOf(answers, c, i) \in Int
  BY SubsetTyped
<1>3. key \in [1 .. n -> Int] /\ subset \in SUBSET (1 .. n)
  BY <1>2
<1>4. \A i \in subset : key[i] = ScoreOf(answers, c, i)
  BY <1>2
<1> HIDE DEF key, n
<1>5. \E i \in subset : \A j \in subset \ {i} :
         key[i] < key[j] \/ (key[i] = key[j] /\ i < j)
  BY <1>1, <1>3, SmallestKey
<1> QED
  BY <1>4, <1>5 DEF RanksBelow

LEMMA GreatestExists ==
    ASSUME NEW answers \in Seq(Answer), NEW c \in ReportCategories,
           NEW subset \in SUBSET Samples(answers, c), subset # {}
    PROVE  \E i \in subset : \A j \in subset \ {i} : RanksBelow(answers, c, j, i)
<1> DEFINE n == Len(answers)
           s(i) == ScoreOf(answers, c, i)
           places == {n + 1 - i : i \in subset}
           key == [p \in 1 .. n |-> IF p \in places THEN 0 - s(n + 1 - p) ELSE 0]
<1>1. n \in Nat
  BY AnswersTyped
<1>2. \A i \in subset : i \in 1 .. n /\ s(i) \in Int
  BY SubsetTyped
<1> HIDE DEF s, n
<1>3. \A i \in subset : i \in Int /\ n + 1 - i \in 1 .. n /\ n + 1 - (n + 1 - i) = i
  BY <1>1, <1>2
<1>4. places \in SUBSET (1 .. n) /\ places # {}
  BY <1>3
<1>5. key \in [1 .. n -> Int]
  BY <1>2, <1>3
<1>6. \A i \in subset : key[n + 1 - i] = 0 - s(i)
  BY <1>3
<1> HIDE DEF key
<1>7. PICK p \in places : \A q \in places \ {p} :
                             key[p] < key[q] \/ (key[p] = key[q] /\ p < q)
  <2> HIDE DEF places
  <2> QED
    BY <1>1, <1>4, <1>5, SmallestKey
<1>8. PICK i \in subset : p = n + 1 - i
  BY <1>7
<1>9. ASSUME NEW j \in subset, j # i
      PROVE  s(j) < s(i) \/ (s(j) = s(i) /\ j < i)
  <2>1. n + 1 - j \in places /\ n + 1 - j # n + 1 - i
    BY <1>1, <1>3, <1>9
  <2>2. \/ 0 - s(i) < 0 - s(j)
        \/ 0 - s(i) = 0 - s(j) /\ n + 1 - i < n + 1 - j
    BY <1>6, <1>7, <1>8, <2>1
  <2>3. /\ s(i) \in Int /\ s(j) \in Int /\ i \in Int /\ j \in Int /\ n \in Int
    BY <1>1, <1>2, <1>3
  <2>4. /\ 0 - s(i) < 0 - s(j) => s(j) < s(i)
        /\ 0 - s(i) = 0 - s(j) => s(j) = s(i)
        /\ n + 1 - i < n + 1 - j => j < i
    BY <2>3
  <2> QED
    BY <2>2, <2>4
<1> QED
  BY <1>9 DEF RanksBelow, s

LEMMA Extremes ==
    ASSUME NEW answers \in Seq(Answer), NEW c \in ReportCategories,
           Samples(answers, c) # {}
    PROVE  /\ Lowest(answers, c) \in Samples(answers, c)
           /\ \A j \in Samples(answers, c) \ {Lowest(answers, c)} :
                 RanksBelow(answers, c, Lowest(answers, c), j)
           /\ Highest(answers, c) \in Samples(answers, c)
           /\ \A j \in Samples(answers, c) \ {Highest(answers, c)} :
                 RanksBelow(answers, c, j, Highest(answers, c))
<1> DEFINE samples == Samples(answers, c)
<1>1. samples \in SUBSET Samples(answers, c) /\ samples # {}
  OBVIOUS
<1>2. \E i \in samples : \A j \in samples \ {i} : RanksBelow(answers, c, i, j)
  BY <1>1, LeastExists
<1>3. \E i \in samples : \A j \in samples \ {i} : RanksBelow(answers, c, j, i)
  BY <1>1, GreatestExists
<1> QED
  BY <1>2, <1>3 DEF Lowest, Highest

\* What is kept is a non-empty part of the samples.
LEMMA KeptTyped ==
    ASSUME NEW answers \in Seq(Answer), NEW c \in ReportCategories
    PROVE  /\ Kept(answers, c) \in SUBSET Samples(answers, c)
           /\ IsFiniteSet(Samples(answers, c)) /\ Cardinality(Samples(answers, c)) \in Nat
           /\ Samples(answers, c) # {} => Kept(answers, c) # {}
<1> DEFINE samples == Samples(answers, c)
<1>1. IsFiniteSet(samples) /\ Cardinality(samples) \in Nat
  <2>1. Len(answers) \in Nat /\ samples \in SUBSET (1 .. Len(answers))
    BY AnswersTyped
  <2>2. Cardinality(samples) \in 0 .. Len(answers) /\ IsFiniteSet(samples)
    BY <2>1, Ranks
  <2> QED
    BY <2>1, <2>2
<1>2. Kept(answers, c) \in SUBSET samples
  BY DEF Kept
<1>3. CASE Cardinality(samples) < 4
  BY <1>1, <1>2, <1>3 DEF Kept, OutlierTrimMinSamples
<1>4. CASE ~(Cardinality(samples) < 4)
  <2> DEFINE low == Lowest(answers, c)
             high == Highest(answers, c)
  <2>1. Kept(answers, c) = (samples \ {low}) \ {high}
    BY <1>4 DEF Kept, OutlierTrimMinSamples
  <2>2. ASSUME NEW set, IsFiniteSet(set), NEW x
        PROVE  IsFiniteSet(set \ {x}) /\ Cardinality(set \ {x}) >= Cardinality(set) - 1
    <3>1. Cardinality(set) \in Nat
      BY <2>2, FS_CardinalityType
    <3>2. /\ IsFiniteSet(set \ {x})
          /\ Cardinality(set \ {x})
                = IF x \in set THEN Cardinality(set) - 1 ELSE Cardinality(set)
      BY <2>2, FS_RemoveElement
    <3> QED
      BY <3>1, <3>2
  <2> DEFINE rest == samples \ {low}
             kept == rest \ {high}
  <2>3. IsFiniteSet(rest) /\ Cardinality(rest) >= Cardinality(samples) - 1
    BY <1>1, <2>2
  <2>4. IsFiniteSet(kept) /\ Cardinality(kept) >= Cardinality(rest) - 1
    <3> HIDE DEF rest
    <3> QED
      BY <2>2, <2>3
  <2>5. Cardinality(rest) \in Nat /\ Cardinality(kept) \in Nat
    BY <2>3, <2>4, FS_CardinalityType
  <2>6. Cardinality(kept) # 0
    <3> HIDE DEF kept, rest, samples
    <3> QED
      BY <1>1, <1>4, <2>3, <2>4, <2>5
  <2>7. kept # {}
    BY <2>6, FS_EmptySet
  <2> QED
    BY <1>1, <1>2, <2>1, <2>7
<1> QED
  BY <1>3, <1>4

-----------------------------------------------------------------------------
(* Rounding.                                                               *)

\* The division of integers, by its two bounds.
LEMMA DivisionBounds ==
    ASSUME NEW a \in Int, NEW d \in Nat \ {0}
    PROVE  a \div d \in Int /\ d * (a \div d) <= a /\ a < d * (a \div d) + d
  OBVIOUS

\* A rounded fraction is one of two neighbours, it exists, and it stays within
\* the integer bounds of the fraction.
LEMMA NearestIs ==
    ASSUME NEW a \in Int, NEW d \in Nat \ {0}
    PROVE  /\ Nearest(a, d) # {}
           /\ a \div d \in Int
           /\ Nearest(a, d) \in SUBSET {a \div d, a \div d + 1}
           /\ \A s \in Nearest(a, d) :
                 /\ s \in Int
                 /\ \A low \in Int : low * d <= a => low <= s
                 /\ \A high \in Int : a <= high * d => s <= high
<1> DEFINE b == a \div d
<1>1. b \in Int /\ d * b <= a /\ a < d * b + d
  BY DivisionBounds
<1>2. Nearest(a, d) = {s \in {b, b + 1} : /\ 2 * a <= d * (2 * s + 1)
                                         /\ 2 * a >= d * (2 * s - 1)}
  BY DEF Nearest
<1> HIDE DEF b
<1>3. \A s \in Int : d * (2 * s + 1) = 2 * (d * s) + d /\ d * (2 * s - 1) = 2 * (d * s) - d
  OBVIOUS
<1>4. d * b \in Int /\ d * (b + 1) = d * b + d
  BY <1>1
<1>5. b \in Nearest(a, d) \/ b + 1 \in Nearest(a, d)
  <2>1. /\ d * (2 * b + 1) = 2 * (d * b) + d /\ d * (2 * b - 1) = 2 * (d * b) - d
    BY <1>1, <1>3
  <2>2. d * (2 * (b + 1) + 1) = 2 * (d * (b + 1)) + d
        /\ d * (2 * (b + 1) - 1) = 2 * (d * (b + 1)) - d
    BY <1>1, <1>3
  <2>3. CASE 2 * a <= 2 * (d * b) + d
    BY <1>1, <1>2, <1>4, <2>1, <2>3
  <2>4. CASE ~(2 * a <= 2 * (d * b) + d)
    BY <1>1, <1>2, <1>4, <2>2, <2>4
  <2> QED
    BY <2>3, <2>4
<1>6. ASSUME NEW s \in Nearest(a, d)
      PROVE  /\ s \in Int
             /\ \A low \in Int : low * d <= a => low <= s
             /\ \A high \in Int : a <= high * d => s <= high
  <2>1. s \in Int /\ 2 * a <= 2 * (d * s) + d /\ 2 * a >= 2 * (d * s) - d
    BY <1>1, <1>2, <1>3
  <2>2. d * s \in Int /\ d * (s + 1) = d * s + d /\ d * (s - 1) = d * s - d
    BY <2>1
  <2>3. \A x, y \in Int : x <= y => x * d <= y * d
    OBVIOUS
  <2>4. ASSUME NEW low \in Int, low * d <= a, ~(low <= s)
        PROVE  FALSE
    <3>1. (s + 1) * d <= low * d
      BY <2>1, <2>3, <2>4
    <3> QED
      BY <2>1, <2>2, <2>4, <3>1
  <2>5. ASSUME NEW high \in Int, a <= high * d, ~(s <= high)
        PROVE  FALSE
    <3>1. high * d <= (s - 1) * d
      BY <2>1, <2>3, <2>5
    <3> QED
      BY <2>1, <2>2, <2>5, <3>1
  <2> QED
    BY <2>1, <2>4, <2>5
<1> QED
  BY <1>1, <1>2, <1>5, <1>6 DEF b

-----------------------------------------------------------------------------
(* The score of a category.                                                *)

LEMMA MeanOfKept ==
    ASSUME NEW answers \in Seq(Answer), NEW c \in ReportCategories,
           Samples(answers, c) # {}
    PROVE  /\ MeanNumerator(answers, c) = Total(PointsIn(answers, c, Kept(answers, c)))
           /\ MeanDenominator(answers, c) = Total(WeightsIn(answers, Kept(answers, c)))
           /\ MeanNumerator(answers, c) \in Int
           /\ MeanDenominator(answers, c) \in Nat \ {0}
           /\ CategoryScores(answers, c)
                 = Nearest(MeanNumerator(answers, c), MeanDenominator(answers, c))
<1>1. Kept(answers, c) \in SUBSET Samples(answers, c) /\ Kept(answers, c) # {}
  BY KeptTyped
<1>2. MeanNumerator(answers, c) = Total(PointsIn(answers, c, Kept(answers, c)))
  BY DEF MeanNumerator, PointsIn
<1>3. MeanDenominator(answers, c) = Total(WeightsIn(answers, Kept(answers, c)))
  BY DEF MeanDenominator, WeightOfAll, WeightsIn
<1>4. PointsIn(answers, c, Kept(answers, c)) \in Seq(Int)
  BY <1>1, SubsetTyped
<1>5. Total(PointsIn(answers, c, Kept(answers, c))) \in Int
  BY <1>4, TotalIsInt
<1>6. Total(WeightsIn(answers, Kept(answers, c))) \in Nat \ {0}
  BY <1>1, WeightPositive
<1> QED
  BY <1>2, <1>3, <1>5, <1>6 DEF CategoryScores

\* There is a score to store for a category, whichever way halves go.
LEMMA ScoreChosen ==
    ASSUME NEW answers \in Seq(Answer), NEW c \in ReportCategories, NEW up,
           NEW halves, c \in halves => Cardinality(CategoryScores(answers, c)) = 2
    PROVE  \E s \in CategoryScores(answers, c) :
               c \in halves => (c \in up <=> s - 1 \in CategoryScores(answers, c))
<1> DEFINE scores == CategoryScores(answers, c)
<1> SUFFICES \E s \in scores : c \in halves => (c \in up <=> s - 1 \in scores)
  OBVIOUS
<1>1. CASE Samples(answers, c) = {}
  <2>1. scores = {NoScore} /\ Cardinality({NoScore}) = 1
    BY <1>1, FS_Singleton DEF CategoryScores
  <2> QED
    BY <2>1
<1>2. CASE Samples(answers, c) # {}
  <2> DEFINE b == MeanNumerator(answers, c) \div MeanDenominator(answers, c)
  <2>1. b \in Int /\ scores \in SUBSET {b, b + 1} /\ scores # {}
    <3>1. /\ MeanNumerator(answers, c) \in Int /\ MeanDenominator(answers, c) \in Nat \ {0}
          /\ scores = Nearest(MeanNumerator(answers, c), MeanDenominator(answers, c))
      BY <1>2, MeanOfKept
    <3> HIDE DEF scores
    <3> QED
      BY <3>1, NearestIs
  <2> HIDE DEF b, scores
  <2>2. CASE c \notin halves
    BY <2>1, <2>2
  <2>3. CASE c \in halves
    <3>1. Cardinality(scores) = 2
      BY <2>3 DEF scores
    <3>2. \A x : scores # {x}
      <4> SUFFICES ASSUME NEW x, scores = {x}
                   PROVE  FALSE
        OBVIOUS
      <4>1. Cardinality({x}) = 1
        BY FS_Singleton
      <4>2. Cardinality(scores) = 1
        BY <4>1
      <4> QED
        BY <3>1, <4>2
    <3>3. b \in scores /\ b + 1 \in scores
      BY <2>1, <3>2, ZenonT(30)
    <3>4. b - 1 \notin scores
      BY <2>1, <3>3
    <3>5. CASE c \in up
      <4>1. PICK s \in scores : s = b + 1
        BY <3>3
      <4>2. s - 1 = b
        BY <2>1, <4>1
      <4> QED
        BY <3>3, <3>5, <4>2
    <3>6. CASE c \notin up
      BY <3>3, <3>4, <3>6
    <3> QED
      BY <3>5, <3>6
  <2> QED
    BY <2>2, <2>3
<1> QED
  BY <1>1, <1>2

\* A category score is None exactly when there is no sample.
LEMMA ScoreTyped ==
    ASSUME NEW answers \in Seq(Answer), NEW c \in ReportCategories,
           NEW s \in CategoryScores(answers, c)
    PROVE  /\ s = NoScore <=> Samples(answers, c) = {}
           /\ s # NoScore => s \in Int
<1>1. CASE Samples(answers, c) = {}
  BY <1>1 DEF CategoryScores
<1>2. CASE Samples(answers, c) # {}
  <2>1. s \in Int
    BY <1>2, MeanOfKept, NearestIs
  <2> QED
    BY <1>2, <2>1, EvaluationsAssumption
<1> QED
  BY <1>1, <1>2

\* With an outlier on each side dropped, the score lies between the second
\* lowest and the second highest sample.
LEMMA TrimmedScoreBetween ==
    ASSUME NEW answers \in Seq(Answer), NEW c \in ReportCategories,
           Cardinality(Samples(answers, c)) >= 4,
           NEW s \in CategoryScores(answers, c)
    PROVE  LET samples     == Samples(answers, c)
               below(i)    == {j \in samples : RanksBelow(answers, c, j, i)}
               above(i)    == {j \in samples : RanksBelow(answers, c, i, j)}
           IN  /\ \E i \in samples : /\ Cardinality(below(i)) = 1
                                     /\ s >= ScoreOf(answers, c, i)
               /\ \E i \in samples : /\ Cardinality(above(i)) = 1
                                     /\ s <= ScoreOf(answers, c, i)
<1> DEFINE samples == Samples(answers, c)
           low == Lowest(answers, c)
           high == Highest(answers, c)
           kept == (samples \ {low}) \ {high}
           a == MeanNumerator(answers, c)
           d == MeanDenominator(answers, c)
<1>1. samples # {} /\ Cardinality(samples) \in Nat
  BY FS_EmptySet, KeptTyped
<1>2. Kept(answers, c) = kept
  <2>1. ~(Cardinality(samples) < 4)
    BY <1>1
  <2> QED
    BY <2>1 DEF Kept, OutlierTrimMinSamples
<1>3. kept # {} /\ kept \in SUBSET samples
  BY <1>1, <1>2, KeptTyped
<1>4. /\ low \in samples /\ \A j \in samples \ {low} : RanksBelow(answers, c, low, j)
      /\ high \in samples /\ \A j \in samples \ {high} : RanksBelow(answers, c, j, high)
  BY <1>1, Extremes
<1>5. /\ a = Total(PointsIn(answers, c, kept)) /\ d = Total(WeightsIn(answers, kept))
      /\ a \in Int /\ d \in Nat \ {0} /\ s \in Nearest(a, d)
  BY <1>1, <1>2, MeanOfKept
<1>6. \A i, j \in samples :
         /\ i = j \/ RanksBelow(answers, c, i, j) \/ RanksBelow(answers, c, j, i)
         /\ ~(RanksBelow(answers, c, i, j) /\ RanksBelow(answers, c, j, i))
         /\ ~RanksBelow(answers, c, i, i)
         /\ RanksBelow(answers, c, i, j) => ScoreOf(answers, c, i) <= ScoreOf(answers, c, j)
  BY RanksOrder
<1>7. \A i \in samples : ScoreOf(answers, c, i) \in Int
  BY AnswersTyped
<1> HIDE DEF a, d, low, high, kept, samples
<1>8. \E i \in samples : /\ Cardinality({j \in samples : RanksBelow(answers, c, j, i)}) = 1
                         /\ s >= ScoreOf(answers, c, i)
  <2>1. samples \ {low} \in SUBSET Samples(answers, c) /\ samples \ {low} # {}
    BY <1>3 DEF kept, samples
  <2>2. PICK i \in samples \ {low} :
           \A j \in (samples \ {low}) \ {i} : RanksBelow(answers, c, i, j)
    BY <2>1, LeastExists
  <2>3. {j \in samples : RanksBelow(answers, c, j, i)} = {low}
    BY <1>4, <1>6, <2>2
  <2>4. \A j \in kept : ScoreOf(answers, c, i) <= ScoreOf(answers, c, j)
    BY <1>3, <1>6, <1>7, <2>2 DEF kept
  <2>5. ScoreOf(answers, c, i) * d <= a
    BY <1>3, <1>5, <1>7, <2>2, <2>4, MeanBetween DEF samples
  <2>6. ScoreOf(answers, c, i) <= s /\ s \in Int
    BY <1>5, <1>7, <2>2, <2>5, NearestIs
  <2> QED
    BY <1>7, <2>2, <2>3, <2>6, FS_Singleton
<1>9. \E i \in samples : /\ Cardinality({j \in samples : RanksBelow(answers, c, i, j)}) = 1
                         /\ s <= ScoreOf(answers, c, i)
  <2>1. samples \ {high} \in SUBSET Samples(answers, c) /\ samples \ {high} # {}
    BY <1>3 DEF kept, samples
  <2>2. PICK i \in samples \ {high} :
           \A j \in (samples \ {high}) \ {i} : RanksBelow(answers, c, j, i)
    BY <2>1, GreatestExists
  <2>3. {j \in samples : RanksBelow(answers, c, i, j)} = {high}
    BY <1>4, <1>6, <2>2
  <2>4. \A j \in kept : ScoreOf(answers, c, j) <= ScoreOf(answers, c, i)
    BY <1>3, <1>6, <1>7, <2>2 DEF kept
  <2>5. a <= ScoreOf(answers, c, i) * d
    BY <1>3, <1>5, <1>7, <2>2, <2>4, MeanBetween DEF samples
  <2>6. s <= ScoreOf(answers, c, i)
    BY <1>5, <1>7, <2>2, <2>5, NearestIs
  <2> QED
    BY <2>2, <2>3, <2>6, FS_Singleton
<1> QED
  BY <1>8, <1>9 DEF samples

-----------------------------------------------------------------------------
(* One more answer.                                                        *)

\* Longer is answers and one more.
Extends(longer, answers) ==
    /\ Len(longer) = Len(answers) + 1
    /\ \A i \in 1 .. Len(answers) : longer[i] = answers[i]

LEMMA SamplesOfLonger ==
    ASSUME NEW answers \in Seq(Answer), NEW longer \in Seq(Answer),
           Extends(longer, answers), NEW c \in ReportCategories
    PROVE  /\ \A i \in 1 .. Len(answers) :
                 /\ ScoreOf(longer, c, i) = ScoreOf(answers, c, i)
                 /\ WeightOf(longer, i) = WeightOf(answers, i)
           /\ Samples(longer, c) \ {Len(longer)} = Samples(answers, c)
           /\ Len(longer) \notin Samples(answers, c)
<1>1. /\ Len(answers) \in Nat /\ DOMAIN answers = 1 .. Len(answers)
      /\ DOMAIN longer = 1 .. Len(longer) /\ Len(longer) = Len(answers) + 1
  BY AnswersTyped DEF Extends
<1>2. \A i \in 1 .. Len(answers) :
         /\ ScoreOf(longer, c, i) = ScoreOf(answers, c, i)
         /\ WeightOf(longer, i) = WeightOf(answers, i)
  BY DEF Extends, ScoreOf, WeightOf
<1>3. \A i : i \in DOMAIN longer \ {Len(longer)} <=> i \in DOMAIN answers
  BY <1>1
<1>4. Len(longer) \notin DOMAIN answers
  BY <1>1
<1> QED
  BY <1>1, <1>2, <1>3, <1>4 DEF Samples

\* Over samples of the shorter list, both lists have the same totals.
LEMMA TotalsOfLonger ==
    ASSUME NEW answers \in Seq(Answer), NEW longer \in Seq(Answer),
           Extends(longer, answers), NEW c \in ReportCategories,
           NEW subset \in SUBSET Samples(answers, c)
    PROVE  /\ subset \in SUBSET Samples(longer, c)
           /\ Total(PointsIn(longer, c, subset)) = Total(PointsIn(answers, c, subset))
           /\ Total(WeightsIn(longer, subset)) = Total(WeightsIn(answers, subset))
<1> DEFINE n == Len(answers)
           points == PointsIn(answers, c, subset)
           weights == WeightsIn(answers, subset)
           more == PointsIn(longer, c, subset)
           heavier == WeightsIn(longer, subset)
<1>1. /\ \A i \in 1 .. n : /\ ScoreOf(longer, c, i) = ScoreOf(answers, c, i)
                           /\ WeightOf(longer, i) = WeightOf(answers, i)
      /\ Samples(longer, c) \ {Len(longer)} = Samples(answers, c)
      /\ Len(longer) \notin Samples(answers, c)
  BY SamplesOfLonger
<1>2. subset \in SUBSET Samples(longer, c)
  BY <1>1
<1>3. /\ points \in Seq(Int) /\ Len(points) = n /\ weights \in Seq(Int) /\ Len(weights) = n
      /\ more \in Seq(Int) /\ Len(more) = Len(longer)
      /\ heavier \in Seq(Int) /\ Len(heavier) = Len(longer)
  BY <1>2, SubsetTyped
<1>4. /\ n \in Nat /\ DOMAIN answers = 1 .. n
      /\ Len(longer) = n + 1 /\ DOMAIN longer = 1 .. n + 1
  BY AnswersTyped DEF Extends
<1>5. \A i \in 1 .. n : i \in 1 .. n + 1
  BY <1>4
<1>6. \A i \in 1 .. n : more[i] = points[i]
  BY <1>1, <1>4, <1>5 DEF PointsIn
<1>7. \A i \in 1 .. n : heavier[i] = weights[i]
  BY <1>1, <1>4, <1>5 DEF WeightsIn
<1>8. n + 1 \in 1 .. n + 1 /\ n + 1 \notin subset
  BY <1>1, <1>4
<1>9. more[n + 1] = 0 /\ heavier[n + 1] = 0
  BY <1>4, <1>8 DEF PointsIn, WeightsIn
<1> HIDE DEF n, points, weights, more, heavier
<1>10. Total(more) = Total(points) + more[n + 1]
  BY <1>3, <1>4, <1>6, TotalAppend
<1>11. Total(heavier) = Total(weights) + heavier[n + 1]
  BY <1>3, <1>4, <1>7, TotalAppend
<1>12. Total(points) \in Int /\ Total(weights) \in Int
  BY <1>3, TotalIsInt
<1>13. Total(more) = Total(points) /\ Total(heavier) = Total(weights)
  BY <1>9, <1>10, <1>11, <1>12
<1> QED
  BY <1>2, <1>13 DEF points, weights, more, heavier

\* A mean, taken as a fraction a/d, does not fall when a weighted number at
\* least as large joins, or one at most as large leaves, and does not rise when
\* one at least as large leaves.
LEMMA MeanChanges ==
    ASSUME NEW a \in Int, NEW d \in Int, NEW x \in Int, NEW w \in {4, 5, 6}
    PROVE  /\ a <= x * d => (a + x * w) * d >= a * (d + w)
           /\ x * d <= a => (a - x * w) * d >= a * (d - w)
           /\ a <= x * d => a * (d - w) >= (a - x * w) * d
<1>1. x * d \in Int /\ a * d \in Int
  OBVIOUS
<1>2. CASE w = 4
  <2>1. /\ (a + x * 4) * d = a * d + 4 * (x * d) /\ a * (d + 4) = a * d + 4 * a
        /\ (a - x * 4) * d = a * d - 4 * (x * d) /\ a * (d - 4) = a * d - 4 * a
    OBVIOUS
  <2> QED
    BY <1>1, <1>2, <2>1
<1>3. CASE w = 5
  <2>1. /\ (a + x * 5) * d = a * d + 5 * (x * d) /\ a * (d + 5) = a * d + 5 * a
        /\ (a - x * 5) * d = a * d - 5 * (x * d) /\ a * (d - 5) = a * d - 5 * a
    OBVIOUS
  <2> QED
    BY <1>1, <1>3, <2>1
<1>4. CASE w = 6
  <2>1. /\ (a + x * 6) * d = a * d + 6 * (x * d) /\ a * (d + 6) = a * d + 6 * a
        /\ (a - x * 6) * d = a * d - 6 * (x * d) /\ a * (d - 6) = a * d - 6 * a
    OBVIOUS
  <2> QED
    BY <1>1, <1>4, <2>1
<1> QED
  BY <1>2, <1>3, <1>4

\* An answer at least as good as every earlier one never lowers the mean.
LEMMA BestNeverLowers ==
    ASSUME NEW answers \in Seq(Answer), NEW longer \in Seq(Answer),
           Extends(longer, answers), NEW c \in ReportCategories,
           Samples(answers, c) # {}, Len(longer) \in Samples(longer, c),
           \A i \in Samples(answers, c) :
               ScoreOf(answers, c, i) <= ScoreOf(longer, c, Len(longer))
    PROVE  MeanNumerator(longer, c) * MeanDenominator(answers, c)
              >= MeanNumerator(answers, c) * MeanDenominator(longer, c)
<1> DEFINE new == Len(longer)
           samples == Samples(answers, c)
           all == Samples(longer, c)
           low == Lowest(answers, c)
           high == Highest(answers, c)
           P(subset) == Total(PointsIn(answers, c, subset))
           W(subset) == Total(WeightsIn(answers, subset))
           a == MeanNumerator(answers, c)
           d == MeanDenominator(answers, c)
<1>1. /\ \A i \in 1 .. Len(answers) : /\ ScoreOf(longer, c, i) = ScoreOf(answers, c, i)
                                      /\ WeightOf(longer, i) = WeightOf(answers, i)
      /\ all \ {new} = samples /\ new \notin samples
  BY SamplesOfLonger
<1>2. samples \in SUBSET (1 .. Len(answers)) /\ Len(answers) \in Nat /\ new = Len(answers) + 1
  BY AnswersTyped DEF Extends
<1>3. all = samples \union {new} /\ new \in all
  BY <1>1
<1>4. \A i \in samples : i < new /\ i \in 1 .. Len(answers)
  BY <1>2
<1>5. low \in samples /\ \A j \in samples \ {low} : RanksBelow(answers, c, low, j)
  BY Extremes
<1>6. high \in samples /\ \A j \in samples \ {high} : RanksBelow(answers, c, j, high)
  BY Extremes
<1>7. \A i, j \in samples : RanksBelow(longer, c, i, j) <=> RanksBelow(answers, c, i, j)
  <2> HIDE DEF samples
  <2> QED
    BY <1>1, <1>4 DEF RanksBelow
<1>8. \A i \in all : ScoreOf(longer, c, i) \in Int
  BY AnswersTyped
<1>9. \A i \in samples : RanksBelow(longer, c, i, new)
  <2>1. \A i \in samples : ScoreOf(longer, c, i) <= ScoreOf(longer, c, new)
    BY <1>1, <1>4
  <2> HIDE DEF new, samples, all
  <2> QED
    BY <1>3, <1>4, <1>8, <2>1 DEF RanksBelow
<1>10. Lowest(longer, c) = low /\ Highest(longer, c) = new
  <2>1. /\ Lowest(longer, c) \in all /\ Highest(longer, c) \in all
        /\ \A j \in all \ {Lowest(longer, c)} : RanksBelow(longer, c, Lowest(longer, c), j)
        /\ \A j \in all \ {Highest(longer, c)} : RanksBelow(longer, c, j, Highest(longer, c))
    BY <1>3, Extremes
  <2>2. \A i, j \in all : ~(RanksBelow(longer, c, i, j) /\ RanksBelow(longer, c, j, i))
    BY RanksOrder
  <2>3. \A j \in all \ {low} : RanksBelow(longer, c, low, j)
    BY <1>3, <1>5, <1>7, <1>9
  <2> HIDE DEF new, samples, all, low
  <2> QED
    BY <1>3, <1>5, <1>9, <2>1, <2>2, <2>3
<1>11. /\ IsFiniteSet(samples) /\ Cardinality(samples) \in Nat
       /\ Cardinality(all) = Cardinality(samples) + 1
  <2>1. IsFiniteSet(samples) /\ Cardinality(samples) \in Nat
    BY KeptTyped
  <2> HIDE DEF samples, all, new
  <2> QED
    BY <1>1, <1>3, <2>1, FS_AddElement
<1>12. /\ a = P(Kept(answers, c)) /\ d = W(Kept(answers, c))
       /\ a \in Int /\ d \in Nat \ {0}
  BY MeanOfKept
<1>13. /\ MeanNumerator(longer, c) = Total(PointsIn(longer, c, Kept(longer, c)))
       /\ MeanDenominator(longer, c) = Total(WeightsIn(longer, Kept(longer, c)))
  BY <1>3, MeanOfKept
<1>14. /\ ScoreOf(answers, c, low) \in Int /\ WeightOf(answers, low) \in {4, 5, 6}
       /\ ScoreOf(answers, c, high) \in Int /\ WeightOf(answers, high) \in {4, 5, 6}
  <2>1. \A i \in samples : ScoreOf(answers, c, i) \in Int /\ WeightOf(answers, i) \in {4, 5, 6}
    <3>1. samples \in SUBSET Samples(answers, c)
      OBVIOUS
    <3> HIDE DEF samples
    <3> QED
      BY <3>1, SubsetTyped
  <2> HIDE DEF low, high
  <2> QED
    BY <1>5, <1>6, <2>1
<1>15. CASE Cardinality(samples) < 3
  <2>1. Kept(answers, c) = samples /\ Kept(longer, c) = all
    BY <1>11, <1>15 DEF Kept, OutlierTrimMinSamples
  <2> DEFINE x == ScoreOf(longer, c, new)
             w == WeightOf(longer, new)
  <2>2. x \in Int /\ w \in {4, 5, 6}
    BY <1>3, SubsetTyped
  <2>3. /\ Total(PointsIn(longer, c, all \ {new})) = Total(PointsIn(longer, c, all)) - x * w
        /\ Total(WeightsIn(longer, all \ {new})) = Total(WeightsIn(longer, all)) - w
    BY <1>3, MeanWithout
  <2>4. /\ Total(PointsIn(longer, c, samples)) = P(samples)
        /\ Total(WeightsIn(longer, samples)) = W(samples)
    BY TotalsOfLonger
  <2>5. a <= x * d
    BY <1>12, <2>1, <2>2, MeanBetween
  <2>6. MeanNumerator(longer, c) \in Int /\ MeanDenominator(longer, c) \in Int
    BY <1>3, MeanOfKept
  <2>7. x * w \in Int
    BY <2>2, Products
  <2>8. /\ a = MeanNumerator(longer, c) - x * w
        /\ d = MeanDenominator(longer, c) - w
    BY <1>1, <1>12, <1>13, <2>1, <2>3, <2>4
  <2> HIDE DEF a, d, x, w
  <2>9. MeanNumerator(longer, c) = a + x * w /\ MeanDenominator(longer, c) = d + w
    BY <1>12, <2>2, <2>6, <2>7, <2>8
  <2>10. (a + x * w) * d >= a * (d + w)
    BY <1>12, <2>2, <2>5, MeanChanges, SMTT(30)
  <2> QED
    BY <2>9, <2>10 DEF a, d
<1>16. CASE ~(Cardinality(samples) < 3)
  <2>1. Kept(longer, c) = samples \ {low}
    <3>1. Kept(longer, c) = all \ {low, new}
      BY <1>10, <1>11, <1>16 DEF Kept, OutlierTrimMinSamples
    <3> HIDE DEF all, samples, low, new
    <3> QED
      BY <1>1, <3>1
  <2> DEFINE rest == samples \ {low}
  <2>2. /\ Total(PointsIn(longer, c, rest)) = P(rest)
        /\ Total(WeightsIn(longer, rest)) = W(rest)
    BY TotalsOfLonger
  <2>3. MeanNumerator(longer, c) = P(rest) /\ MeanDenominator(longer, c) = W(rest)
    BY <1>13, <2>1, <2>2
  <2>4. CASE Cardinality(samples) < 4
    <3> DEFINE x == ScoreOf(answers, c, low)
               w == WeightOf(answers, low)
    <3>1. Kept(answers, c) = samples
      BY <2>4 DEF Kept, OutlierTrimMinSamples
    <3>2. P(rest) = P(samples) - x * w /\ W(rest) = W(samples) - w
      BY <1>5, MeanWithout
    <3>3. \A i \in samples : ScoreOf(answers, c, low) <= ScoreOf(answers, c, i)
      BY <1>5, <1>14, RanksOrder
    <3>4. x * d <= a
      BY <1>12, <1>14, <3>1, <3>3, MeanBetween
    <3>5. (a - x * w) * d >= a * (d - w)
      <4> HIDE DEF a, d
      <4> QED
        BY <1>12, <1>14, <3>4, MeanChanges
    <3> QED
      BY <1>12, <2>3, <3>1, <3>2, <3>5
  <2>5. CASE ~(Cardinality(samples) < 4)
    <3> DEFINE x == ScoreOf(answers, c, high)
               w == WeightOf(answers, high)
    <3>1. Kept(answers, c) = rest \ {high}
      BY <2>5 DEF Kept, OutlierTrimMinSamples
    <3>2. high \in rest
      <4>1. samples # {low}
        <5> SUFFICES ASSUME samples = {low}
                     PROVE  FALSE
          OBVIOUS
        <5>1. Cardinality({low}) = 1
          BY FS_Singleton
        <5>2. Cardinality(samples) = 1
          BY <5>1
        <5> HIDE DEF samples, low
        <5> QED
          BY <2>5, <5>2
      <4>2. PICK j \in samples : j # low
        BY <1>5, <4>1
      <4>3. CASE high = low
        BY <1>5, <1>6, <4>2, <4>3, RanksOrder
      <4> QED
        BY <1>6, <4>3
    <3>3. rest \in SUBSET samples
      OBVIOUS
    <3>4. P(rest \ {high}) = P(rest) - x * w /\ W(rest \ {high}) = W(rest) - w
      BY <3>2, <3>3, MeanWithout
    <3>5. \A i \in rest : ScoreOf(answers, c, i) <= ScoreOf(answers, c, high)
      BY <1>6, <1>14, RanksOrder
    <3>6. P(rest) <= x * W(rest)
      BY <1>14, <3>3, <3>5, MeanBetween
    <3>7. P(rest) \in Int /\ W(rest) \in Int
      BY <3>3, SubsetTyped, TotalIsInt
    <3>8. P(rest) * (W(rest) - w) >= (P(rest) - x * w) * W(rest)
      <4> HIDE DEF P, W, rest
      <4> QED
        BY <1>14, <3>6, <3>7, MeanChanges
    <3> QED
      BY <1>12, <2>3, <3>1, <3>4, <3>8
  <2> QED
    BY <2>4, <2>5
<1> QED
  BY <1>15, <1>16

-----------------------------------------------------------------------------
(* The overall score.                                                      *)

LEMMA CategoryScoreRange ==
    ASSUME NEW answers \in Seq(Answer), NEW c \in ReportCategories,
           NEW s \in CategoryScores(answers, c), s # NoScore
    PROVE  s \in 0..100
<1> DEFINE a == MeanNumerator(answers, c)
           d == MeanDenominator(answers, c)
           kept == Kept(answers, c)
<1>1. Samples(answers, c) # {}
  BY ScoreTyped
<1>2. /\ a = Total(PointsIn(answers, c, kept))
      /\ d = Total(WeightsIn(answers, kept))
      /\ a \in Int /\ d \in Nat \ {0} /\ s \in Nearest(a, d)
  BY <1>1, MeanOfKept
<1>3. kept \in SUBSET Samples(answers, c)
  BY KeptTyped
<1> HIDE DEF a, d, kept
<1>4. \A i \in kept : 0 <= ScoreOf(answers, c, i) /\ ScoreOf(answers, c, i) <= 100
  <2>1. \A i \in kept : ScoreOf(answers, c, i) \in 0..100
    BY <1>3, SubsetTyped
  <2>2. \A x \in 0..100 : 0 <= x /\ x <= 100
    OBVIOUS
  <2> QED
    BY <2>1, <2>2
<1>5. 0 * d <= a /\ a <= 100 * d
  BY <1>2, <1>3, <1>4, MeanBetween
<1>6. s \in Int /\ 0 <= s /\ s <= 100
  <2>1. /\ s \in Int
        /\ \A low \in Int : low * d <= a => low <= s
        /\ \A high \in Int : a <= high * d => s <= high
    BY <1>2, NearestIs
  <2>2. 0 \in Int /\ 100 \in Int
    OBVIOUS
  <2> QED
    BY <1>5, <2>1, <2>2
<1> QED
  BY <1>6

LEMMA Categories ==
    /\ DOMAIN CategoryOrder = 1 .. 7 /\ Len(CategoryOrder) = 7
    /\ \A k \in 1 .. 7 : CategoryOrder[k] \in ReportCategories
    /\ \A c \in ReportCategories : \E k \in 1 .. 7 : CategoryOrder[k] = c
    /\ \A c \in ReportCategories : CategoryWeights[c] \in {50, 125, 150, 200}
<1>1. DOMAIN CategoryOrder = 1 .. 7 /\ Len(CategoryOrder) = 7
  BY DEF CategoryOrder
<1>2. \A k \in 1 .. 7 : CategoryOrder[k] \in ReportCategories
  BY DEF CategoryOrder, ReportCategories, CategoryWeights
<1>3. ASSUME NEW c \in ReportCategories
      PROVE  \E k \in 1 .. 7 : CategoryOrder[k] = c
  <2>1. \/ c = CategoryOrder[1] \/ c = CategoryOrder[2] \/ c = CategoryOrder[3]
        \/ c = CategoryOrder[4] \/ c = CategoryOrder[5] \/ c = CategoryOrder[6]
        \/ c = CategoryOrder[7]
    BY DEF CategoryOrder, ReportCategories, CategoryWeights
  <2>2. /\ 1 \in 1 .. 7 /\ 2 \in 1 .. 7 /\ 3 \in 1 .. 7 /\ 4 \in 1 .. 7
        /\ 5 \in 1 .. 7 /\ 6 \in 1 .. 7 /\ 7 \in 1 .. 7
    OBVIOUS
  <2> QED
    BY <2>1, <2>2
<1>4. \A c \in ReportCategories : CategoryWeights[c] \in {50, 125, 150, 200}
  BY DEF ReportCategories, CategoryWeights
<1> QED
  BY <1>1, <1>2, <1>3, <1>4

\* Categories without a score weigh nothing; the others keep the overall score
\* between the lowest and the highest of them.
LEMMA OverallBetween ==
    ASSUME NEW scores,
           \A c \in ReportCategories : scores[c] # NoScore => scores[c] \in 0..100,
           NEW overall \in OverallScores(scores)
    PROVE  LET scored == {c \in ReportCategories : scores[c] # NoScore}
           IN  /\ overall = NoScore <=> scored = {}
               /\ scored # {} =>
                     \E low, high \in scored : /\ scores[low] <= overall
                                               /\ overall <= scores[high]
<1> DEFINE scored == {c \in ReportCategories : scores[c] # NoScore}
           points == PointsOfScored(scores)
           weights == WeightsOfScored(scores)
<1>1. CASE scored = {}
  BY <1>1 DEF OverallScores
<1>2. CASE scored # {}
  <2>1. \A c \in scored : scores[c] \in 0..100 /\ scores[c] \in Int /\ c \in ReportCategories
    <3>1. \A x \in 0..100 : x \in Int
      OBVIOUS
    <3> QED
      BY <3>1
  <2>2. \A k \in 1 .. 7 :
           \/ /\ CategoryOrder[k] \in scored
              /\ weights[k] = CategoryWeights[CategoryOrder[k]]
              /\ points[k] = scores[CategoryOrder[k]] * CategoryWeights[CategoryOrder[k]]
           \/ CategoryOrder[k] \notin scored /\ weights[k] = 0 /\ points[k] = 0
    BY Categories DEF PointsOfScored, WeightsOfScored
  <2>3. \A w \in {50, 125, 150, 200} : \A x, y \in Int :
           x * w \in Int /\ w \in Nat \ {0} /\ (x <= y => x * w <= y * w)
    <3> SUFFICES ASSUME NEW w \in {50, 125, 150, 200}, NEW x \in Int, NEW y \in Int
                 PROVE  x * w \in Int /\ w \in Nat \ {0} /\ (x <= y => x * w <= y * w)
      OBVIOUS
    <3>1. w = 50 \/ w = 125 \/ w = 150 \/ w = 200
      OBVIOUS
    <3> QED
      BY <3>1
  <2>4. \A k \in 1 .. 7 :
           /\ CategoryOrder[k] \in ReportCategories
           /\ CategoryWeights[CategoryOrder[k]] \in {50, 125, 150, 200}
    BY Categories
  <2>5. \A k \in 1 .. 7 : points[k] \in Int /\ weights[k] \in Nat
    <3> SUFFICES ASSUME NEW k \in 1 .. 7
                 PROVE  points[k] \in Int /\ weights[k] \in Nat
      OBVIOUS
    <3> HIDE DEF points, weights, scored
    <3>1. CASE CategoryOrder[k] \in scored
      <4>1. scores[CategoryOrder[k]] \in Int
        BY <2>1, <3>1
      <4> QED
        BY <2>2, <2>3, <2>4, <3>1, <4>1
    <3>2. CASE CategoryOrder[k] \notin scored
      BY <2>2, <3>2
    <3> QED
      BY <3>1, <3>2
  <2>6. points \in [1 .. 7 -> Int] /\ weights \in [1 .. 7 -> Int]
    <3>1. points = [k \in 1 .. 7 |-> points[k]] /\ weights = [k \in 1 .. 7 |-> weights[k]]
      BY Categories DEF PointsOfScored, WeightsOfScored
    <3> HIDE DEF points, weights
    <3>2. \A k \in 1 .. 7 : weights[k] \in Int
      BY <2>5
    <3> QED
      BY <2>5, <3>1, <3>2
  <2>7. points \in Seq(Int) /\ Len(points) = 7 /\ weights \in Seq(Int) /\ Len(weights) = 7
    <3> HIDE DEF points, weights
    <3>1. ASSUME NEW n \in Nat, NEW f \in [1 .. n -> Int]
          PROVE  f \in Seq(Int) /\ Len(f) = n
      OBVIOUS
    <3>2. 7 \in Nat
      OBVIOUS
    <3> QED
      BY <2>6, <3>1, <3>2
  <2> HIDE DEF points, weights, scored
  <2>8. Total(points) \in Int
    BY <2>7, TotalIsInt
  <2>9. Total(weights) \in Nat \ {0}
    <3> DEFINE s == PartialSums(weights)
    <3>1. SumsTo(weights, 7, s) /\ Total(weights) = s[7]
      BY <2>7, PartialSumsAre DEF Total
    <3> HIDE DEF s
    <3>2. /\ s[0] = 0 /\ s[1] = s[0] + weights[1] /\ s[2] = s[1] + weights[2]
          /\ s[3] = s[2] + weights[3] /\ s[4] = s[3] + weights[4]
          /\ s[5] = s[4] + weights[5] /\ s[6] = s[5] + weights[6]
          /\ s[7] = s[6] + weights[7]
      BY <3>1 DEF SumsTo
    <3>3. /\ weights[1] \in Nat /\ weights[2] \in Nat /\ weights[3] \in Nat
          /\ weights[4] \in Nat /\ weights[5] \in Nat /\ weights[6] \in Nat
          /\ weights[7] \in Nat
      BY <2>5
    <3>4. PICK c \in scored : TRUE
      BY <1>2
    <3>5. PICK k \in 1 .. 7 : CategoryOrder[k] = c
      BY <2>1, Categories
    <3>6. weights[k] \in Nat \ {0}
      BY <2>2, <2>3, <2>4, <3>4, <3>5
    <3>7. /\ s[1] \in Nat /\ s[2] \in Nat /\ s[3] \in Nat /\ s[4] \in Nat
          /\ s[5] \in Nat /\ s[6] \in Nat /\ s[7] \in Nat
          /\ weights[1] <= s[1] /\ weights[2] <= s[2] /\ weights[3] <= s[3]
          /\ weights[4] <= s[4] /\ weights[5] <= s[5] /\ weights[6] <= s[6]
          /\ weights[7] <= s[7]
      BY <3>2, <3>3
    <3>8. /\ s[1] <= s[7] /\ s[2] <= s[7] /\ s[3] <= s[7] /\ s[4] <= s[7]
          /\ s[5] <= s[7] /\ s[6] <= s[7]
      BY <3>2, <3>3, <3>7
    <3>9. k = 1 \/ k = 2 \/ k = 3 \/ k = 4 \/ k = 5 \/ k = 6 \/ k = 7
      BY <3>5
    <3>10. weights[k] <= s[7] /\ s[7] \in Nat
      BY <3>3, <3>7, <3>8, <3>9
    <3> QED
      BY <3>1, <3>6, <3>10
  <2>10. overall \in Nearest(Total(points), Total(weights))
    BY <1>2 DEF OverallScores, scored, points, weights
  <2>11. PICK low \in scored : \A c \in scored : scores[low] <= scores[c]
    <3> DEFINE Heights == {scores[c] + 1 : c \in scored}
    <3>1. \A x \in 0..100 : x + 1 \in 1 .. 101
      OBVIOUS
    <3>2. Heights \in SUBSET (1 .. 101) /\ Heights # {} /\ 101 \in Nat
      BY <1>2, <2>1, <3>1
    <3>3. \E v \in Heights : \A u \in Heights : v <= u
      <4> HIDE DEF Heights
      <4> QED
        BY <3>2, FirstPlace
    <3>4. PICK low \in scored : \A c \in scored : scores[low] + 1 <= scores[c] + 1
      BY <3>3
    <3> QED
      BY <2>1, <3>4
  <2>12. PICK high \in scored : \A c \in scored : scores[c] <= scores[high]
    <3> DEFINE Heights == {101 - scores[c] : c \in scored}
    <3>1. \A x \in 0..100 : 101 - x \in 1 .. 101
      OBVIOUS
    <3>2. Heights \in SUBSET (1 .. 101) /\ Heights # {} /\ 101 \in Nat
      BY <1>2, <2>1, <3>1
    <3>3. \E v \in Heights : \A u \in Heights : v <= u
      <4> HIDE DEF Heights
      <4> QED
        BY <3>2, FirstPlace
    <3>4. PICK high \in scored : \A c \in scored : 101 - scores[high] <= 101 - scores[c]
      BY <3>3
    <3> QED
      BY <2>1, <3>4
  <2>13. \A k \in 1 .. 7 : /\ scores[low] * weights[k] <= points[k]
                           /\ points[k] <= scores[high] * weights[k]
    <3> SUFFICES ASSUME NEW k \in 1 .. 7
                 PROVE  /\ scores[low] * weights[k] <= points[k]
                        /\ points[k] <= scores[high] * weights[k]
      OBVIOUS
    <3>1. scores[low] \in Int /\ scores[high] \in Int
      BY <2>1
    <3>2. CASE CategoryOrder[k] \in scored
      <4> DEFINE x == scores[CategoryOrder[k]]
                 w == CategoryWeights[CategoryOrder[k]]
      <4>1. x \in Int /\ scores[low] <= x /\ x <= scores[high] /\ w \in {50, 125, 150, 200}
        BY <2>1, <2>4, <2>11, <2>12, <3>2
      <4>2. scores[low] * w <= x * w /\ x * w <= scores[high] * w
        BY <2>3, <3>1, <4>1
      <4>3. weights[k] = w /\ points[k] = x * w
        BY <2>2, <3>2
      <4> HIDE DEF x, w
      <4> QED
        BY <4>2, <4>3
    <3>3. CASE CategoryOrder[k] \notin scored
      <4>1. weights[k] = 0 /\ points[k] = 0
        BY <2>2, <3>3
      <4> QED
        BY <3>1, <4>1
    <3> QED
      BY <3>2, <3>3
  <2>14. scores[low] \in Int /\ scores[high] \in Int
    BY <2>1
  <2>15. /\ \A k \in 1 .. Len(points) : scores[low] * weights[k] <= points[k]
         /\ \A k \in 1 .. Len(points) : points[k] <= scores[high] * weights[k]
    BY <2>7, <2>13
  <2>16. /\ scores[low] * Total(weights) <= Total(points)
         /\ Total(points) <= scores[high] * Total(weights)
    BY <2>7, <2>14, <2>15, TotalAtLeast, TotalAtMost
  <2>17. overall \in Int /\ scores[low] <= overall /\ overall <= scores[high]
    BY <2>8, <2>9, <2>10, <2>14, <2>16, NearestIs
  <2>18. overall # NoScore
    BY <2>17, EvaluationsAssumption
  <2> QED
    BY <1>2, <2>17, <2>18 DEF scored
<1> QED
  BY <1>1, <1>2

-----------------------------------------------------------------------------
(* The question budget.                                                    *)

\* A plan under construction: questions for stages of the interview type.
Budgeted(t, b) ==
    /\ DOMAIN b \subseteq DOMAIN StageAllocation[t]
    /\ Anchors \subseteq DOMAIN b
    /\ b = [s \in DOMAIN b |-> b[s]]
    /\ \A s \in DOMAIN b : b[s] \in Nat \ {0}

LEMMA StagesOfType ==
    ASSUME NEW t \in InterviewTypes
    PROVE  /\ DOMAIN StageAllocation[t] \subseteq AskingStages
           /\ Anchors \subseteq DOMAIN StageAllocation[t]
           /\ \A s \in DOMAIN StageAllocation[t] : StageAllocation[t][s] \in Nat
<1>1. t = "MIXED" \/ t = "TECHNICAL" \/ t = "BEHAVIORAL"
  BY DEF InterviewTypes
<1>2. CASE t = "MIXED"
  BY <1>2 DEF StageAllocation, AskingStages, Anchors
<1>3. CASE t = "TECHNICAL"
  BY <1>3 DEF StageAllocation, AskingStages, Anchors
<1>4. CASE t = "BEHAVIORAL"
  BY <1>4 DEF StageAllocation, AskingStages, Anchors
<1> QED
  BY <1>1, <1>2, <1>3, <1>4

\* Of some stages one has the smallest key, and comes first among those that do.
LEMMA LeastStage ==
    ASSUME NEW S \in SUBSET Stages, S # {}, NEW key \in [S -> Int]
    PROVE  \E s \in S : \A u \in S \ {s} :
              key[s] < key[u] \/ (key[s] = key[u] /\ StageIndex(s) < StageIndex(u))
<1> DEFINE places == {StageIndex(s) : s \in S}
           stage(i) == CHOOSE s \in S : StageIndex(s) = i
           keyAt == [i \in 1 .. 9 |-> IF i \in places THEN key[stage(i)] ELSE 0]
<1>1. \A s \in S : StageIndex(s) \in 1 .. 9 /\ stage(StageIndex(s)) = s
  <2>1. \A s, u \in S : StageIndex(s) = StageIndex(u) => s = u
    BY StageIndexOrder
  <2> QED
    BY <2>1, StageIndexOrder
<1> HIDE DEF stage
<1>2. places \in SUBSET (1 .. 9) /\ places # {} /\ 9 \in Nat
  BY <1>1
<1>3. keyAt \in [1 .. 9 -> Int]
  BY <1>1
<1>4. \A s \in S : keyAt[StageIndex(s)] = key[s]
  BY <1>1
<1> HIDE DEF keyAt
<1>5. PICK i \in places : \A j \in places \ {i} :
                             keyAt[i] < keyAt[j] \/ (keyAt[i] = keyAt[j] /\ i < j)
  <2> HIDE DEF places
  <2> QED
    BY <1>2, <1>3, SmallestKey
<1>6. PICK s \in S : i = StageIndex(s)
  BY <1>5
<1>7. ASSUME NEW u \in S \ {s}
      PROVE  key[s] < key[u] \/ (key[s] = key[u] /\ StageIndex(s) < StageIndex(u))
  <2>1. StageIndex(u) \in places /\ StageIndex(u) # StageIndex(s)
    BY <1>1
  <2> QED
    BY <1>4, <1>5, <1>6, <2>1
<1> QED
  BY <1>7

\* What a stage of a plan is owed is a number.
LEMMA OwedIsInt ==
    ASSUME NEW t \in InterviewTypes, NEW budget \in Int, NEW b, Budgeted(t, b)
    PROVE  /\ DOMAIN b \in SUBSET Stages /\ DOMAIN b # {}
           /\ \A s \in DOMAIN b : Owed(t, budget, b, s) \in Int
<1>1. ASSUME NEW s \in DOMAIN b
      PROVE  s \in Stages /\ Owed(t, budget, b, s) \in Int
  <2>1. s \in Stages /\ StageAllocation[t][s] \in Nat /\ b[s] \in Nat
    BY StagesOfType DEF Budgeted, Stages
  <2> QED
    BY <2>1 DEF Owed, RawShare
<1> QED
  BY <1>1 DEF Budgeted, Anchors

\* The trim loop finds a stage of two questions or more, the one owed least.
LEMMA TrimCandidateTrimmable ==
    ASSUME NEW t \in InterviewTypes, NEW budget \in Int, NEW b, Budgeted(t, b),
           Trimmable(b) # {}
    PROVE  /\ TrimCandidate(t, budget, b) \in Trimmable(b)
           /\ \A u \in Trimmable(b) :
                 Owed(t, budget, b, TrimCandidate(t, budget, b)) <= Owed(t, budget, b, u)
<1> DEFINE S == Trimmable(b)
           key == [s \in S |-> Owed(t, budget, b, s)]
           First(s) == \A u \in S \ {s} :
                           \/ Owed(t, budget, b, s) < Owed(t, budget, b, u)
                           \/ /\ Owed(t, budget, b, s) = Owed(t, budget, b, u)
                              /\ StageIndex(s) < StageIndex(u)
           c == TrimCandidate(t, budget, b)
<1>1. S \in SUBSET Stages /\ \A s \in S : Owed(t, budget, b, s) \in Int
  BY OwedIsInt DEF Trimmable
<1>2. c = CHOOSE s \in S : First(s)
  BY DEF TrimCandidate
<1> HIDE DEF S, c
<1>3. key \in [S -> Int]
  BY <1>1
<1>4. \E s \in S : \A u \in S \ {s} :
         key[s] < key[u] \/ (key[s] = key[u] /\ StageIndex(s) < StageIndex(u))
  <2> HIDE DEF key
  <2> QED
    BY <1>1, <1>3, LeastStage DEF S
<1>5. \E s \in S : First(s)
  BY <1>4
<1> HIDE DEF First
<1>6. c \in S /\ First(c)
  BY <1>2, <1>5
<1> QED
  BY <1>1, <1>6 DEF First, S, c

\* The top-up loop finds the stage that is owed most.
LEMMA TopUpCandidateOwedMost ==
    ASSUME NEW t \in InterviewTypes, NEW budget \in Int, NEW b, Budgeted(t, b)
    PROVE  /\ TopUpCandidate(t, budget, b) \in DOMAIN b
           /\ \A u \in DOMAIN b :
                 Owed(t, budget, b, TopUpCandidate(t, budget, b)) >= Owed(t, budget, b, u)
<1> DEFINE S == DOMAIN b
           key == [s \in S |-> 0 - Owed(t, budget, b, s)]
           First(s) == \A u \in S \ {s} :
                           \/ Owed(t, budget, b, s) > Owed(t, budget, b, u)
                           \/ /\ Owed(t, budget, b, s) = Owed(t, budget, b, u)
                              /\ StageIndex(s) < StageIndex(u)
           c == TopUpCandidate(t, budget, b)
<1>1. S \in SUBSET Stages /\ S # {} /\ \A s \in S : Owed(t, budget, b, s) \in Int
  BY OwedIsInt
<1>2. c = CHOOSE s \in S : First(s)
  BY DEF TopUpCandidate
<1> HIDE DEF S, c
<1>3. key \in [S -> Int]
  BY <1>1
<1>4. \E s \in S : \A u \in S \ {s} :
         key[s] < key[u] \/ (key[s] = key[u] /\ StageIndex(s) < StageIndex(u))
  <2> HIDE DEF key
  <2> QED
    BY <1>1, <1>3, LeastStage
<1>5. \E s \in S : First(s)
  BY <1>1, <1>4
<1> HIDE DEF First
<1>6. c \in S /\ First(c)
  BY <1>2, <1>5
<1> QED
  BY <1>1, <1>6 DEF First, S, c

\* The initial plan.
LEMMA InitiallyBudgeted ==
    ASSUME NEW t \in InterviewTypes, NEW budget \in Nat
    PROVE  Budgeted(t, InitialBudgets(t, budget))
<1> DEFINE planned == PlannedStages(t, budget)
           b == InitialBudgets(t, budget)
<1>1. planned \subseteq DOMAIN StageAllocation[t] /\ Anchors \subseteq planned
  BY StagesOfType DEF PlannedStages
<1>2. b = [s \in planned |-> Max({1, RawShare(t, budget, s) \div 100})]
  BY DEF InitialBudgets
<1>3. \A x \in Int : Max({1, x}) \in Nat \ {0}
  <2> SUFFICES ASSUME NEW x \in Int
               PROVE  Max({1, x}) \in Nat \ {0}
    OBVIOUS
  <2>1. \E m \in {1, x} : \A y \in {1, x} : m >= y
    OBVIOUS
  <2>2. Max({1, x}) \in {1, x} /\ \A y \in {1, x} : Max({1, x}) >= y
    BY <2>1 DEF Max
  <2> QED
    BY <2>2
<1>4. \A s \in planned : RawShare(t, budget, s) \div 100 \in Int
  <2> SUFFICES ASSUME NEW s \in planned
               PROVE  RawShare(t, budget, s) \div 100 \in Int
    OBVIOUS
  <2>1. StageAllocation[t][s] \in Nat
    BY <1>1, StagesOfType
  <2>2. RawShare(t, budget, s) \in Int
    BY <2>1 DEF RawShare
  <2> QED
    BY <2>2
<1> HIDE DEF planned, b
<1>5. DOMAIN b = planned /\ \A s \in planned : b[s] \in Nat \ {0}
  BY <1>2, <1>3, <1>4
<1>6. b = [s \in DOMAIN b |-> b[s]]
  BY <1>2
<1> QED
  BY <1>1, <1>5, <1>6 DEF Budgeted, b

\* Both loops keep a plan.
LEMMA AdjustedBudgeted ==
    ASSUME NEW t \in InterviewTypes, NEW b, Budgeted(t, b), NEW s
    PROVE  /\ Budgeted(t, [b EXCEPT ![s] = @ + 1])
           /\ s \in Trimmable(b) => Budgeted(t, [b EXCEPT ![s] = @ - 1])
<1>1. /\ DOMAIN b \subseteq DOMAIN StageAllocation[t] /\ Anchors \subseteq DOMAIN b
      /\ \A u \in DOMAIN b : b[u] \in Nat \ {0}
  BY DEF Budgeted
<1>2. Budgeted(t, [b EXCEPT ![s] = @ + 1])
  <2> DEFINE more == [b EXCEPT ![s] = @ + 1]
  <2>1. DOMAIN more = DOMAIN b /\ more = [u \in DOMAIN more |-> more[u]]
    OBVIOUS
  <2>2. \A u \in DOMAIN b : more[u] = IF u = s THEN b[u] + 1 ELSE b[u]
    OBVIOUS
  <2> HIDE DEF more
  <2>3. \A u \in DOMAIN b : more[u] \in Nat \ {0}
    BY <1>1, <2>2
  <2> QED
    BY <1>1, <2>1, <2>3 DEF Budgeted, more
<1>3. ASSUME s \in Trimmable(b)
      PROVE  Budgeted(t, [b EXCEPT ![s] = @ - 1])
  <2> DEFINE fewer == [b EXCEPT ![s] = @ - 1]
  <2>1. DOMAIN fewer = DOMAIN b /\ fewer = [u \in DOMAIN fewer |-> fewer[u]]
    OBVIOUS
  <2>2. \A u \in DOMAIN b : fewer[u] = IF u = s THEN b[u] - 1 ELSE b[u]
    OBVIOUS
  <2>3. b[s] > 1
    BY <1>3 DEF Trimmable
  <2> HIDE DEF fewer
  <2>4. \A u \in DOMAIN b : fewer[u] \in Nat \ {0}
    BY <1>1, <2>2, <2>3
  <2> QED
    BY <1>1, <2>1, <2>4 DEF Budgeted, fewer
<1> QED
  BY <1>2, <1>3

-----------------------------------------------------------------------------
(* Larger fractions.                                                       *)

\* Among the stages between the anchors, a larger fraction has as many
\* questions as a smaller one, or more.
FractionsRespected(t, b) ==
    \A s, u \in DOMAIN StageAllocation[t] \ Anchors :
        StageAllocation[t][s] > StageAllocation[t][u] => At(b, s) >= At(b, u)

LEMMA BudgetInRange ==
    ASSUME minutes \in Durations
    PROVE  Budget \in 3 .. 30
<1>1. minutes \in Int
  BY DurationsAssumption
<1>2. minutes \div 2 \in Int
  BY <1>1
<1> QED
  BY <1>2 DEF Budget, ComputeQuestionBudget

\* Shares compare as the fractions do.
LEMMA SharesCompare ==
    ASSUME NEW budget \in Nat \ {0}, NEW x \in Nat, NEW y \in Nat, x > y
    PROVE  /\ budget * x \in Int /\ budget * y \in Int /\ budget * x > budget * y
           /\ (budget * x) \div 100 \in Int /\ (budget * y) \div 100 \in Int
           /\ (budget * x) \div 100 >= (budget * y) \div 100
<1>1. budget * x \in Int /\ budget * y \in Int /\ budget * x > budget * y
  OBVIOUS
<1>2. \A p, q \in Int : p > q => p \div 100 >= q \div 100
  OBVIOUS
<1>3. \A p \in Int : p \div 100 \in Int
  OBVIOUS
<1> HIDE <1>1
<1> QED
  BY <1>1, <1>2, <1>3

LEMMA StagesFinite == IsFiniteSet(AskingStages) /\ Cardinality(Anchors) \in Nat
<1> DEFINE a == {"INTRODUCTION"} \union {"CLOSING"}
           b == a \union {"CANDIDATE_BACKGROUND"}
           c == b \union {"RESUME_DISCUSSION"}
           d == c \union {"PROJECT_DEEP_DIVE"}
           e == d \union {"ROLE_SPECIFIC"}
           f == e \union {"BEHAVIORAL"}
           g == f \union {"ADAPTIVE_PROBING"}
<1>1. AskingStages = g /\ Anchors = a
  BY DEF AskingStages, Anchors
<1>2. IsFiniteSet({"INTRODUCTION"})
  BY FS_Singleton
<1>3. IsFiniteSet(a)
  BY <1>2, FS_AddElement
<1> HIDE DEF a
<1>4. IsFiniteSet(b)
  BY <1>3, FS_AddElement
<1> HIDE DEF b
<1>5. IsFiniteSet(c)
  BY <1>4, FS_AddElement
<1> HIDE DEF c
<1>6. IsFiniteSet(d)
  BY <1>5, FS_AddElement
<1> HIDE DEF d
<1>7. IsFiniteSet(e)
  BY <1>6, FS_AddElement
<1> HIDE DEF e
<1>8. IsFiniteSet(f)
  BY <1>7, FS_AddElement
<1> HIDE DEF f
<1>9. IsFiniteSet(g)
  BY <1>8, FS_AddElement
<1> QED
  BY <1>1, <1>3, <1>9, FS_CardinalityType

\* Stages that are preferred fit first.
LEMMA LargerIsPlanned ==
    ASSUME NEW t \in InterviewTypes, NEW budget \in Int,
           NEW s \in DOMAIN StageAllocation[t] \ Anchors,
           NEW u \in DOMAIN StageAllocation[t] \ Anchors,
           StageAllocation[t][s] > StageAllocation[t][u],
           u \in PlannedStages(t, budget)
    PROVE  s \in PlannedStages(t, budget)
<1> DEFINE f == StageAllocation[t]
           middles == DOMAIN f \ Anchors
           Above(v) == {w \in middles : Preferred(f, w, v)}
           room == budget - Cardinality(Anchors)
<1>1. CASE budget >= Cardinality(DOMAIN f)
  BY <1>1 DEF PlannedStages
<1>2. CASE ~(budget >= Cardinality(DOMAIN f))
  <2>1. \A v \in middles : v \in PlannedStages(t, budget) <=> Cardinality(Above(v)) < room
    BY <1>2 DEF PlannedStages
  <2>2. Above(s) \subseteq Above(u)
    <3>1. \A w \in DOMAIN f : f[w] \in Nat
      BY StagesOfType
    <3>2. \A w \in middles : Preferred(f, w, s) => Preferred(f, w, u)
      BY <3>1 DEF Preferred
    <3> QED
      BY <3>2
  <2>3. IsFiniteSet(Above(u))
    <3>1. Above(u) \subseteq AskingStages
      BY StagesOfType
    <3> HIDE DEF Above
    <3> QED
      BY <3>1, StagesFinite, FS_Subset
  <2>4. /\ Cardinality(Above(s)) \in Nat /\ Cardinality(Above(u)) \in Nat
        /\ Cardinality(Above(s)) <= Cardinality(Above(u))
    <3> HIDE DEF Above
    <3> QED
      BY <2>2, <2>3, FS_Subset, FS_CardinalityType
  <2>5. room \in Int
    BY StagesFinite
  <2> HIDE DEF Above, room
  <2> QED
    BY <2>1, <2>4, <2>5
<1> QED
  BY <1>1, <1>2

LEMMA InitiallyRespected ==
    ASSUME NEW t \in InterviewTypes, NEW budget \in Nat \ {0}
    PROVE  FractionsRespected(t, InitialBudgets(t, budget))
<1> DEFINE f == StageAllocation[t]
           b == InitialBudgets(t, budget)
<1>1. /\ DOMAIN b = PlannedStages(t, budget) /\ Budgeted(t, b)
      /\ \A s \in DOMAIN b : b[s] = Max({1, RawShare(t, budget, s) \div 100})
  BY InitiallyBudgeted DEF InitialBudgets
<1> SUFFICES ASSUME NEW s \in DOMAIN f \ Anchors, NEW u \in DOMAIN f \ Anchors, f[s] > f[u]
             PROVE  At(b, s) >= At(b, u)
  BY DEF FractionsRespected
<1>2. CASE u \in DOMAIN b
  <2>1. s \in DOMAIN b
    BY <1>1, <1>2, LargerIsPlanned
  <2> DEFINE x == (budget * f[s]) \div 100
             y == (budget * f[u]) \div 100
  <2>2. x \in Int /\ y \in Int /\ x >= y
    BY StagesOfType, SharesCompare
  <2>3. b[s] = Max({1, x}) /\ b[u] = Max({1, y})
    BY <1>1, <1>2, <2>1 DEF RawShare
  <2> HIDE DEF x, y, b
  <2>4. \A z \in Int : Max({1, z}) = IF z >= 1 THEN z ELSE 1
    <3> SUFFICES ASSUME NEW z \in Int
                 PROVE  Max({1, z}) = IF z >= 1 THEN z ELSE 1
      OBVIOUS
    <3>1. \E m \in {1, z} : \A v \in {1, z} : m >= v
      OBVIOUS
    <3>2. Max({1, z}) \in {1, z} /\ \A v \in {1, z} : Max({1, z}) >= v
      BY <3>1 DEF Max
    <3> QED
      BY <3>2
  <2> QED
    BY <1>2, <2>1, <2>2, <2>3, <2>4 DEF At
<1>3. CASE u \notin DOMAIN b
  BY <1>1, <1>3 DEF At, Budgeted
<1> QED
  BY <1>2, <1>3

\* Neither loop gives the smaller fraction more: the stage topped up is the one
\* owed most, the stage trimmed the one owed least.
LEMMA LoopsRespect ==
    ASSUME NEW t \in InterviewTypes, NEW budget \in Nat \ {0}, NEW b,
           Budgeted(t, b), FractionsRespected(t, b)
    PROVE  /\ FractionsRespected(t, [b EXCEPT ![TopUpCandidate(t, budget, b)] = @ + 1])
           /\ Trimmable(b) # {} =>
                 FractionsRespected(t, [b EXCEPT ![TrimCandidate(t, budget, b)] = @ - 1])
<1> DEFINE f == StageAllocation[t]
           middles == DOMAIN f \ Anchors
<1>1. /\ DOMAIN b \subseteq DOMAIN f
      /\ \A s \in DOMAIN b : b[s] \in Nat \ {0} /\ At(b, s) = b[s]
      /\ \A s : s \notin DOMAIN b => At(b, s) = 0
  BY DEF Budgeted, At
<1>2. ASSUME NEW s \in middles, NEW u \in middles, f[s] > f[u], u \in DOMAIN b
      PROVE  /\ s \in DOMAIN b /\ b[s] >= b[u]
             /\ Owed(t, budget, b, u) >= Owed(t, budget, b, s) => b[s] > b[u]
  <2>1. s \in DOMAIN b /\ b[s] >= b[u]
    BY <1>1, <1>2 DEF FractionsRespected
  <2>2. /\ budget * f[s] \in Int /\ budget * f[u] \in Int
        /\ budget * f[s] > budget * f[u]
    BY <1>2, StagesOfType, SharesCompare
  <2>3. /\ Owed(t, budget, b, u) = budget * f[u] - 100 * b[u]
        /\ Owed(t, budget, b, s) = budget * f[s] - 100 * b[s]
    BY DEF Owed, RawShare
  <2> QED
    BY <1>1, <1>2, <2>1, <2>2, <2>3
<1>3. FractionsRespected(t, [b EXCEPT ![TopUpCandidate(t, budget, b)] = @ + 1])
  <2> DEFINE c == TopUpCandidate(t, budget, b)
             more == [b EXCEPT ![c] = @ + 1]
  <2>1. c \in DOMAIN b /\ \A s \in DOMAIN b : Owed(t, budget, b, c) >= Owed(t, budget, b, s)
    BY TopUpCandidateOwedMost
  <2>2. DOMAIN more = DOMAIN b /\ \A s \in DOMAIN b : more[s] = IF s = c THEN b[s] + 1 ELSE b[s]
    OBVIOUS
  <2> HIDE DEF c, more
  <2> SUFFICES ASSUME NEW s \in middles, NEW u \in middles, f[s] > f[u]
               PROVE  At(more, s) >= At(more, u)
    BY DEF FractionsRespected, more, c
  <2>3. CASE u \in DOMAIN b
    <3>1. /\ s \in DOMAIN b /\ b[s] >= b[u] /\ b[s] \in Nat /\ b[u] \in Nat
          /\ u = c => b[s] > b[u]
      BY <1>1, <1>2, <2>1, <2>3
    <3>2. At(more, s) = more[s] /\ At(more, u) = more[u]
      BY <2>2, <2>3, <3>1 DEF At
    <3> QED
      BY <2>2, <2>3, <3>1, <3>2
  <2>4. CASE u \notin DOMAIN b
    <3>1. At(more, u) = 0 /\ At(more, s) \in Nat
      BY <1>1, <2>2, <2>4 DEF At
    <3> QED
      BY <3>1
  <2> QED
    BY <2>3, <2>4
<1>4. ASSUME Trimmable(b) # {}
      PROVE  FractionsRespected(t, [b EXCEPT ![TrimCandidate(t, budget, b)] = @ - 1])
  <2> DEFINE c == TrimCandidate(t, budget, b)
             fewer == [b EXCEPT ![c] = @ - 1]
  <2>1. /\ c \in DOMAIN b /\ b[c] > 1
        /\ \A s \in DOMAIN b : b[s] > 1 => Owed(t, budget, b, c) <= Owed(t, budget, b, s)
    <3>1. /\ c \in Trimmable(b)
          /\ \A s \in Trimmable(b) : Owed(t, budget, b, c) <= Owed(t, budget, b, s)
      BY <1>4, TrimCandidateTrimmable
    <3> HIDE DEF c
    <3> QED
      BY <3>1 DEF Trimmable
  <2>2. DOMAIN fewer = DOMAIN b /\ \A s \in DOMAIN b : fewer[s] = IF s = c THEN b[s] - 1 ELSE b[s]
    OBVIOUS
  <2> HIDE DEF c, fewer
  <2> SUFFICES ASSUME NEW s \in middles, NEW u \in middles, f[s] > f[u]
               PROVE  At(fewer, s) >= At(fewer, u)
    BY DEF FractionsRespected, fewer, c
  <2>3. CASE u \in DOMAIN b
    <3>1. /\ s \in DOMAIN b /\ b[s] >= b[u] /\ b[s] \in Nat /\ b[u] \in Nat
          /\ Owed(t, budget, b, u) >= Owed(t, budget, b, s) => b[s] > b[u]
      BY <1>1, <1>2, <2>3
    <3>2. s = c => b[s] > b[u]
      <4>1. CASE b[u] > 1
        BY <2>1, <2>3, <3>1, <4>1
      <4>2. CASE ~(b[u] > 1)
        BY <2>1, <3>1, <4>2
      <4> QED
        BY <4>1, <4>2
    <3>3. At(fewer, s) = fewer[s] /\ At(fewer, u) = fewer[u]
      BY <2>2, <2>3, <3>1 DEF At
    <3> QED
      BY <2>2, <2>3, <3>1, <3>2, <3>3
  <2>4. CASE u \notin DOMAIN b
    <3>1. At(fewer, u) = 0 /\ At(fewer, s) \in Nat
      BY <1>1, <2>1, <2>2, <2>4 DEF At
    <3> QED
      BY <3>1
  <2> QED
    BY <2>3, <2>4
<1> QED
  BY <1>3, <1>4

-----------------------------------------------------------------------------
(* The invariants and the theorems.                                        *)

BudgetInv ==
    /\ type \in InterviewTypes
    /\ minutes \in Durations
    /\ Budgeted(type, budgets)
    /\ FractionsRespected(type, budgets)

ReadinessInv ==
    /\ evaluations \in Seq(Answer)
    /\ report # NoScore =>
          /\ \A c \in ReportCategories :
                report.scores[c] \in CategoryScores(evaluations, c)
          /\ report.overall \in OverallScores(report.scores)

LEMMA BudgetInitial == ComputationsInit => BudgetInv
<1> SUFFICES ASSUME ComputationsInit
             PROVE  BudgetInv
  OBVIOUS
<1>1. /\ type \in InterviewTypes /\ minutes \in Durations
      /\ budgets = InitialBudgets(type, Budget)
  BY DEF ComputationsInit, NumbersInit, Init
<1> QED
  BY <1>1, BudgetInRange, InitiallyBudgeted, InitiallyRespected DEF BudgetInv

LEMMA BudgetStep == BudgetInv /\ [ComputationsNext]_computed => BudgetInv'
<1> SUFFICES ASSUME BudgetInv, [ComputationsNext]_computed
             PROVE  BudgetInv'
  OBVIOUS
<1>1. /\ type \in InterviewTypes /\ minutes \in Durations
      /\ Budgeted(type, budgets) /\ FractionsRespected(type, budgets)
      /\ Budget \in Nat \ {0}
  BY BudgetInRange DEF BudgetInv
<1>2. CASE TopUp
  <2>1. /\ budgets' = [budgets EXCEPT ![TopUpCandidate(type, Budget, budgets)] = @ + 1]
        /\ UNCHANGED <<type, minutes>>
    BY <1>2 DEF TopUp
  <2>2. /\ Budgeted(type, budgets') /\ FractionsRespected(type, budgets')
    BY <1>1, <2>1, AdjustedBudgeted, LoopsRespect
  <2> QED
    BY <1>1, <2>1, <2>2 DEF BudgetInv
<1>3. CASE Trim
  <2>1. /\ Trimmable(budgets) # {} /\ UNCHANGED <<type, minutes>>
        /\ budgets' = [budgets EXCEPT ![TrimCandidate(type, Budget, budgets)] = @ - 1]
    BY <1>3 DEF Trim
  <2>2. TrimCandidate(type, Budget, budgets) \in Trimmable(budgets)
    BY <1>1, <2>1, TrimCandidateTrimmable
  <2>3. Budgeted(type, budgets') /\ FractionsRespected(type, budgets')
    BY <1>1, <2>1, <2>2, AdjustedBudgeted, LoopsRespect
  <2> QED
    BY <1>1, <2>1, <2>3 DEF BudgetInv
<1>4. CASE UNCHANGED vars
  BY <1>1, <1>4 DEF BudgetInv, vars
<1>5. TopUp \/ Trim \/ UNCHANGED vars
  BY DEF ComputationsNext, NumbersNext, Next, Return, AnswerQuestion, Report, Follow,
         computed, numbers, vars
<1> QED
  BY <1>2, <1>3, <1>4, <1>5

\* Both loops of the allocation leave every planned stage a question, and the
\* plan an opening and a closing (allocate_stage_budgets).
THEOREM StagesKeepQuestions == ComputationsSpec => []EveryStageKeepsAQuestion
<1>1. BudgetInv => EveryStageKeepsAQuestion
  BY DEF BudgetInv, Budgeted, EveryStageKeepsAQuestion
<1> QED
  BY BudgetInitial, BudgetStep, <1>1, PTL DEF ComputationsSpec

\* A middle stage, one other than the opening and the closing stage, with a larger
\* fraction than another never gets fewer questions, whatever the duration
\* (allocate_stage_budgets).
THEOREM FractionsAreRespected == ComputationsSpec => []LargerFractionNeverLoses
<1>1. BudgetInv => LargerFractionNeverLoses
  BY DEF BudgetInv, FractionsRespected, LargerFractionNeverLoses
<1> QED
  BY BudgetInitial, BudgetStep, <1>1, PTL DEF ComputationsSpec

LEMMA ProfiledTyped ==
    ASSUME NEW evaluation \in Evaluations
    PROVE  Profiled(evaluation) \in Answer
<1>1. /\ evaluation.difficulty \in DOMAIN DifficultyWeights
      /\ evaluation.scores \in [ReportCategories -> 0..100]
  BY EvaluationsAssumption
<1>2. \A c \in ReportCategories : evaluation.scores[c] \in 0..100
  BY <1>1
<1> QED
  BY <1>1, <1>2 DEF Profiled, Answer

\* What a step does to the evaluations and the report.
LEMMA ReadinessActions ==
    [ComputationsNext]_computed =>
        \/ \E evaluation \in Evaluations : Evaluate(evaluation)
        \/ ComputeReadiness
        \/ UNCHANGED <<evaluations, report>>
  BY DEF ComputationsNext, NumbersNext, AnswerQuestion, Report, Follow, computed, numbers

LEMMA ReadinessInitial == ComputationsInit => ReadinessInv
<1>1. <<>> \in Seq(Answer)
  OBVIOUS
<1> QED
  BY <1>1 DEF ComputationsInit, NumbersInit, ReadinessInit, ReadinessInv

LEMMA ReadinessStep == ReadinessInv /\ [ComputationsNext]_computed => ReadinessInv'
<1> SUFFICES ASSUME ReadinessInv, [ComputationsNext]_computed
             PROVE  ReadinessInv'
  OBVIOUS
<1>1. evaluations \in Seq(Answer)
  BY DEF ReadinessInv
<1>2. ASSUME NEW evaluation \in Evaluations, Evaluate(evaluation)
      PROVE  ReadinessInv'
  <2>1. /\ evaluations' = Append(evaluations, Profiled(evaluation))
        /\ report = NoScore /\ report' = report
    BY <1>2 DEF Evaluate
  <2>2. Profiled(evaluation) \in Answer
    BY ProfiledTyped
  <2>3. evaluations' \in Seq(Answer)
    BY <1>1, <2>1, <2>2
  <2> QED
    BY <2>1, <2>3 DEF ReadinessInv
<1>3. CASE ComputeReadiness
  <2> DEFINE halves == {c \in ReportCategories :
                           Cardinality(CategoryScores(evaluations, c)) = 2}
             Rounded(up) == [c \in ReportCategories |->
                                CHOOSE s \in CategoryScores(evaluations, c) :
                                    c \in halves =>
                                        (c \in up <=> s - 1 \in CategoryScores(evaluations, c))]
  <2>1. /\ evaluations' = evaluations
        /\ \E up \in SUBSET halves : \E scores \in {Rounded(up)} :
              \E overall \in OverallScores(scores) :
                 report' = [scores  |-> scores, overall |-> overall,
                            level   |-> ReadinessLevel(overall)]
    BY <1>3 DEF ComputeReadiness
  <2>2. PICK up \in SUBSET halves : \E overall \in OverallScores(Rounded(up)) :
           report' = [scores  |-> Rounded(up), overall |-> overall,
                      level   |-> ReadinessLevel(overall)]
    <3> HIDE DEF halves, Rounded
    <3> QED
      BY <2>1
  <2>3. \A c \in ReportCategories :
           c \in halves => Cardinality(CategoryScores(evaluations, c)) = 2
    OBVIOUS
  <2>4. \A c \in ReportCategories : Rounded(up)[c] \in CategoryScores(evaluations, c)
    <3> HIDE DEF halves
    <3> SUFFICES ASSUME NEW c \in ReportCategories
                 PROVE  (CHOOSE s \in CategoryScores(evaluations, c) :
                            c \in halves =>
                                (c \in up <=> s - 1 \in CategoryScores(evaluations, c)))
                        \in CategoryScores(evaluations, c)
      OBVIOUS
    <3>1. c \in halves => Cardinality(CategoryScores(evaluations, c)) = 2
      BY <2>3
    <3>2. \E s \in CategoryScores(evaluations, c) :
             c \in halves => (c \in up <=> s - 1 \in CategoryScores(evaluations, c))
      BY <1>1, <3>1, ScoreChosen
    <3> QED
      BY <3>2
  <2> HIDE DEF Rounded
  <2>5. report'.scores = Rounded(up) /\ report'.overall \in OverallScores(Rounded(up))
    BY <2>2
  <2> QED
    BY <1>1, <2>1, <2>4, <2>5 DEF ReadinessInv
<1>4. CASE UNCHANGED <<evaluations, report>>
  BY <1>4 DEF ReadinessInv
<1> QED
  BY <1>2, <1>3, <1>4, ReadinessActions

LEMMA ReadinessInvariance == ComputationsSpec => []ReadinessInv
  BY ReadinessInitial, ReadinessStep, PTL DEF ComputationsSpec

\* One answer cannot distort a category, however many answers there are
\* (readiness.py): with four samples the score is between the second lowest and
\* the second highest.
THEOREM OutliersAreTrimmed == ComputationsSpec => []OutlierCannotDistort
<1>1. ReadinessInv => OutlierCannotDistort
  <2> SUFFICES ASSUME ReadinessInv, report # NoScore, NEW c \in ReportCategories,
                      Cardinality(Samples(evaluations, c)) >= 4
               PROVE  LET samples  == Samples(evaluations, c)
                          below(i) == {j \in samples : RanksBelow(evaluations, c, j, i)}
                          above(i) == {j \in samples : RanksBelow(evaluations, c, i, j)}
                      IN  /\ \E i \in samples :
                                /\ Cardinality(below(i)) = 1
                                /\ report.scores[c] >= ScoreOf(evaluations, c, i)
                          /\ \E i \in samples :
                                /\ Cardinality(above(i)) = 1
                                /\ report.scores[c] <= ScoreOf(evaluations, c, i)
    BY DEF OutlierCannotDistort
  <2>1. /\ evaluations \in Seq(Answer)
        /\ report.scores[c] \in CategoryScores(evaluations, c)
    BY DEF ReadinessInv
  <2> QED
    BY <2>1, TrimmedScoreBetween
<1> QED
  BY ReadinessInvariance, <1>1, PTL

\* The overall score lies between two category scores: categories without a
\* sample have their weight redistributed (readiness.py).
THEOREM OverallIsWithinCategories == ComputationsSpec => []OverallWithinCategories
<1>1. ReadinessInv => OverallWithinCategories
  <2> SUFFICES ASSUME ReadinessInv, report # NoScore
               PROVE  LET scored == {c \in ReportCategories : report.scores[c] # NoScore}
                      IN  /\ report.overall = NoScore <=> scored = {}
                          /\ scored # {} =>
                                \E low, high \in scored :
                                   /\ report.scores[low] <= report.overall
                                   /\ report.overall <= report.scores[high]
    BY DEF OverallWithinCategories
  <2>1. /\ evaluations \in Seq(Answer)
        /\ \A c \in ReportCategories :
              report.scores[c] \in CategoryScores(evaluations, c)
        /\ report.overall \in OverallScores(report.scores)
    BY DEF ReadinessInv
  <2>2. \A c \in ReportCategories :
           report.scores[c] # NoScore => report.scores[c] \in 0..100
    BY <2>1, CategoryScoreRange
  <2> QED
    BY <2>1, <2>2, OverallBetween
<1> QED
  BY ReadinessInvariance, <1>1, PTL

\* An answer at least as good as every earlier one never lowers a category,
\* whatever its difficulty and whether or not the trimming starts with it.
THEOREM BestAnswersNeverLower == ComputationsSpec => BestAnswerNeverLowers
<1>1. ASSUME ReadinessInv, [ComputationsNext]_computed, evaluations' # evaluations,
             NEW c \in ReportCategories,
             Len(evaluations') > Len(evaluations),
             Samples(evaluations, c) # {},
             Len(evaluations') \in Samples(evaluations', c),
             \A i \in Samples(evaluations, c) :
                 ScoreOf(evaluations, c, i) <= ScoreOf(evaluations', c, Len(evaluations'))
      PROVE  MeanNumerator(evaluations', c) * MeanDenominator(evaluations, c)
                >= MeanNumerator(evaluations, c) * MeanDenominator(evaluations', c)
  <2>1. PICK evaluation \in Evaluations : Evaluate(evaluation)
    BY <1>1, ReadinessActions DEF ComputeReadiness
  <2>2. evaluations \in Seq(Answer) /\ Profiled(evaluation) \in Answer
    BY <1>1, ProfiledTyped DEF ReadinessInv
  <2>3. evaluations' = Append(evaluations, Profiled(evaluation))
    BY <2>1 DEF Evaluate
  <2>4. evaluations' \in Seq(Answer) /\ Extends(evaluations', evaluations)
    BY <2>2, <2>3 DEF Extends
  <2> QED
    BY <1>1, <2>2, <2>4, BestNeverLowers
<1>2. ReadinessInv /\ [ComputationsNext]_computed =>
         [\A c \in ReportCategories :
             LET n == Len(evaluations')
             IN  /\ n > Len(evaluations)
                 /\ Samples(evaluations, c) # {}
                 /\ n \in Samples(evaluations', c)
                 /\ \A i \in Samples(evaluations, c) :
                       ScoreOf(evaluations, c, i) <= ScoreOf(evaluations', c, n)
                 => MeanNumerator(evaluations', c) * MeanDenominator(evaluations, c)
                       >= MeanNumerator(evaluations, c) * MeanDenominator(evaluations', c)
         ]_evaluations
  BY <1>1
<1> QED
  BY ReadinessInvariance, <1>2, PTL DEF ComputationsSpec, BestAnswerNeverLowers

-----------------------------------------------------------------------------
(* The metrics of a spoken answer.                                         *)

\* A one at each place of a set, zero elsewhere.
Ones(n, P) == [k \in 1 .. n |-> IF k \in P THEN 1 ELSE 0]

LEMMA OnesTyped ==
    ASSUME NEW n \in Nat, NEW P
    PROVE  Ones(n, P) \in Seq(Int) /\ Len(Ones(n, P)) = n
<1>1. Ones(n, P) \in [1 .. n -> Int]
  BY DEF Ones
<1> QED
  BY <1>1, IsASeq, LenProperties DEF Ones

\* Their total is the number of places.
LEMMA OnesCount ==
    ASSUME NEW n \in Nat, NEW P \in SUBSET (1 .. n)
    PROVE  Total(Ones(n, P)) = Cardinality(P)
<1> DEFINE s == PartialSums(Ones(n, P))
           Lower(k) == {i \in P : i <= k}
           Counted == {k \in 0 .. n : s[k] = Cardinality(Lower(k))}
<1>0. \A i \in P : i \in 1 .. n
  OBVIOUS
<1>1. SumsTo(Ones(n, P), n, s) /\ Total(Ones(n, P)) = s[n]
  BY OnesTyped, PartialSumsAre DEF Total
<1> HIDE DEF s
<1>2. 0 \in Counted
  <2>1. Lower(0) = {}
    <3>1. \A i \in P : ~(i <= 0)
      BY <1>0
    <3> QED
      BY <3>1
  <2> QED
    BY <1>1, <2>1, FS_EmptySet DEF SumsTo
<1>3. \A k \in 1 .. n : k - 1 \in Counted => k \in Counted
  <2> SUFFICES ASSUME NEW k \in 1 .. n, k - 1 \in Counted
               PROVE  k \in Counted
    OBVIOUS
  <2>1. k - 1 \in 0 .. n /\ k \in 0 .. n /\ s[k - 1] = Cardinality(Lower(k - 1))
    OBVIOUS
  <2>2. s[k] = s[k - 1] + (IF k \in P THEN 1 ELSE 0)
    BY <1>1 DEF SumsTo, Ones
  <2>3. IsFiniteSet(Lower(k - 1)) /\ Cardinality(Lower(k - 1)) \in Nat
    BY Ranks
  <2>4. CASE k \in P
    <3>1. Lower(k) = Lower(k - 1) \union {k} /\ k \notin Lower(k - 1)
      <4>1. \A i \in P : i <= k <=> i <= k - 1 \/ i = k
        BY <1>0
      <4>2. ~(k <= k - 1)
        OBVIOUS
      <4> QED
        BY <2>4, <4>1, <4>2
    <3> HIDE DEF Lower
    <3> QED
      BY <2>1, <2>2, <2>3, <2>4, <3>1, FS_AddElement
  <2>5. CASE k \notin P
    <3>1. Lower(k) = Lower(k - 1)
      <4>1. \A i \in P : i <= k <=> i <= k - 1
        BY <1>0, <2>5
      <4> QED
        BY <4>1
    <3> HIDE DEF Lower
    <3> QED
      BY <2>1, <2>2, <2>3, <2>5, <3>1
  <2> QED
    BY <2>4, <2>5
<1>4. n \in Counted
  <2> HIDE DEF Counted
  <2> QED
    BY <1>2, <1>3, Everywhere
<1>5. Lower(n) = P
  <2>1. \A i \in P : i <= n
    BY <1>0
  <2> QED
    BY <2>1
<1> QED
  BY <1>1, <1>4, <1>5

\* Lengths and gaps on a line add up to the way from its start to its end.
OnLine(n, lengths, gaps, from, to) ==
    /\ n \in Nat \ {0}
    /\ lengths \in Seq(Int) /\ Len(lengths) = n /\ gaps \in Seq(Int) /\ Len(gaps) = n
    /\ \A k \in 1 .. n : from[k] \in Int /\ to[k] \in Int
    /\ \A k \in 1 .. n : lengths[k] = to[k] - from[k]
    /\ gaps[1] = 0
    /\ \A k \in 2 .. n : gaps[k] = from[k] - to[k - 1]

LEMMA Telescope ==
    ASSUME NEW n, NEW lengths, NEW gaps, NEW from, NEW to,
           OnLine(n, lengths, gaps, from, to)
    PROVE  Total(lengths) + Total(gaps) = to[n] - from[1]
<1>0. /\ n \in Nat \ {0}
      /\ lengths \in Seq(Int) /\ Len(lengths) = n /\ gaps \in Seq(Int) /\ Len(gaps) = n
      /\ \A k \in 1 .. n : from[k] \in Int /\ to[k] \in Int
      /\ \A k \in 1 .. n : lengths[k] = to[k] - from[k]
      /\ gaps[1] = 0
      /\ \A k \in 2 .. n : gaps[k] = from[k] - to[k - 1]
  BY DEF OnLine
<1> DEFINE l == PartialSums(lengths)
           g == PartialSums(gaps)
           Reached == {k \in 0 .. n : k # 0 => l[k] + g[k] = to[k] - from[1]}
<1>1. /\ SumsTo(lengths, n, l) /\ SumsTo(gaps, n, g)
      /\ Total(lengths) = l[n] /\ Total(gaps) = g[n]
  BY <1>0, PartialSumsAre DEF Total
<1> HIDE DEF l, g
<1>2. \A k \in 0 .. n : l[k] \in Int /\ g[k] \in Int
  BY <1>0, <1>1 DEF SumsTo
<1>3. 0 \in Reached
  BY <1>0
<1>4. \A k \in 1 .. n : k - 1 \in Reached => k \in Reached
  <2> SUFFICES ASSUME NEW k \in 1 .. n, k - 1 \in Reached
               PROVE  k \in Reached
    OBVIOUS
  <2>1. l[k] = l[k - 1] + (to[k] - from[k]) /\ g[k] = g[k - 1] + gaps[k]
    BY <1>0, <1>1 DEF SumsTo
  <2>2. k \in 0 .. n /\ k - 1 \in 0 .. n
    BY <1>0
  <2>3. CASE k = 1
    <3>1. l[0] = 0 /\ g[0] = 0
      BY <1>0, <1>1 DEF SumsTo
    <3>2. l[k] = to[k] - from[k] /\ g[k] = 0
      BY <1>0, <2>1, <2>3, <3>1
    <3>3. from[1] \in Int /\ to[1] \in Int
      BY <1>0
    <3>4. l[k] + g[k] = to[k] - from[1]
      BY <2>3, <3>2, <3>3
    <3> QED
      BY <2>2, <3>4
  <2>4. CASE k # 1
    <3>1. k \in 2 .. n /\ k - 1 \in 1 .. n
      BY <1>0, <2>4
    <3>2. l[k - 1] + g[k - 1] = to[k - 1] - from[1]
      BY <3>1
    <3>3. g[k] = g[k - 1] + (from[k] - to[k - 1])
      BY <1>0, <2>1, <3>1
    <3>4. /\ l[k - 1] \in Int /\ g[k - 1] \in Int /\ from[1] \in Int
          /\ from[k] \in Int /\ to[k] \in Int /\ to[k - 1] \in Int
      BY <1>0, <1>2, <2>2, <3>1
    <3>5. l[k] + g[k] = (l[k - 1] + (to[k] - from[k])) + (g[k - 1] + (from[k] - to[k - 1]))
      BY <2>1, <3>3
    <3>6. l[k] + g[k] = to[k] - from[1]
      <4> DEFINE a == l[k - 1]  b == g[k - 1]  c == from[1]
                 d == from[k]  e == to[k]  f == to[k - 1]  y == l[k] + g[k]
      <4>1. /\ a \in Int /\ b \in Int /\ c \in Int /\ d \in Int /\ e \in Int /\ f \in Int
            /\ a + b = f - c /\ y = (a + (e - d)) + (b + (d - f))
        BY <3>2, <3>4, <3>5
      <4>2. y = e - c
        <5> HIDE DEF a, b, c, d, e, f, y
        <5> QED
          BY <4>1
      <4> QED
        BY <4>2
    <3> QED
      BY <2>2, <3>6
  <2> QED
    BY <2>3, <2>4
<1>5. n \in Reached
  <2>1. n \in Nat /\ n \in 0 .. n
    BY <1>0
  <2> HIDE DEF Reached
  <2> QED
    BY <1>3, <1>4, <2>1, Everywhere
<1> QED
  BY <1>0, <1>1, <1>5

\* A rounded quotient stays within the integer bounds of the exact one, and is
\* off by at most a half.
LEMMA QuotientBetween ==
    ASSUME NEW n \in Int, NEW d \in Nat \ {0}, NEW unit \in Nat
    PROVE  /\ Quotient(n, d, unit) \in Int
           /\ \A low \in Int : low * d <= n * unit => low <= Quotient(n, d, unit)
           /\ \A high \in Int : n * unit <= high * d => Quotient(n, d, unit) <= high
           /\ 2 * (Quotient(n, d, unit) * d) <= 2 * (n * unit) + d
<1> DEFINE q == Quotient(n, d, unit)
           x == n * unit
<1>1. x \in Int /\ 2 * n * unit = 2 * x
  OBVIOUS
<1> HIDE DEF x
<1>2. q = (2 * x + d) \div (2 * d)
  BY <1>1 DEF Quotient
<1>3. 2 * d \in Nat \ {0} /\ 2 * x + d \in Int
  BY <1>1
<1>4. q \in Int /\ 2 * d * q <= 2 * x + d /\ 2 * x + d < 2 * d * q + 2 * d
  BY <1>2, <1>3, DivisionBounds
<1> HIDE DEF q
<1> DEFINE y == q * d
<1>5. y \in Int /\ 2 * d * q = 2 * y
  BY <1>4
<1>6. 2 * y <= 2 * x + d /\ 2 * x < 2 * y + d
  BY <1>1, <1>3, <1>4, <1>5
<1>7. ASSUME NEW low \in Int, low * d <= x
      PROVE  low <= q
  <2> SUFFICES ASSUME low >= q + 1
               PROVE  FALSE
    BY <1>4
  <2>1. low * d >= (q + 1) * d /\ (q + 1) * d = y + d /\ low * d \in Int
    BY <1>4
  <2> QED
    BY <1>1, <1>5, <1>6, <1>7, <2>1
<1>8. ASSUME NEW high \in Int, x <= high * d
      PROVE  q <= high
  <2> SUFFICES ASSUME q >= high + 1
               PROVE  FALSE
    BY <1>4
  <2>1. q * d >= (high + 1) * d /\ (high + 1) * d = high * d + d /\ high * d \in Int
    BY <1>4
  <2> QED
    BY <1>1, <1>5, <1>6, <1>8, <2>1
<1> QED
  BY <1>4, <1>6, <1>7, <1>8 DEF q, x

\* Two cases of the bounds on totals: no negative term, and terms of which none
\* is larger than its counterpart.
LEMMA TotalNonNegative ==
    ASSUME NEW terms \in Seq(Int), \A k \in 1 .. Len(terms) : terms[k] >= 0
    PROVE  Total(terms) >= 0
<1> DEFINE zero == 0
<1>1. \A x \in Int : x >= 0 <=> zero * x <= x
  OBVIOUS
<1>2. zero \in Int /\ \A k \in 1 .. Len(terms) : zero * terms[k] <= terms[k]
  BY <1>1, ElementOfSeq
<1> HIDE DEF zero
<1>3. zero * Total(terms) <= Total(terms)
  BY <1>2, TotalAtLeast
<1> QED
  BY <1>1, <1>3, TotalIsInt

LEMMA TotalNotLarger ==
    ASSUME NEW terms \in Seq(Int), NEW others \in Seq(Int), Len(others) = Len(terms),
           \A k \in 1 .. Len(terms) : terms[k] <= others[k]
    PROVE  Total(terms) <= Total(others)
<1> DEFINE one == 1
<1>1. \A x \in Int : one * x = x
  OBVIOUS
<1>2. one \in Int /\ \A k \in 1 .. Len(terms) : terms[k] <= one * others[k]
  BY <1>1, ElementOfSeq
<1> HIDE DEF one
<1>3. Total(terms) <= one * Total(others)
  BY <1>2, TotalAtMost
<1> QED
  BY <1>1, <1>3, TotalIsInt

LEMMA DisjointUnion ==
    ASSUME NEW S, NEW T, IsFiniteSet(S), IsFiniteSet(T), S \intersect T = {}
    PROVE  /\ IsFiniteSet(S \union T)
           /\ Cardinality(S \union T) = Cardinality(S) + Cardinality(T)
<1>1. Cardinality(S) \in Nat /\ Cardinality(T) \in Nat /\ Cardinality({}) = 0
  BY FS_CardinalityType, FS_EmptySet
<1>2. /\ IsFiniteSet(S \union T)
      /\ Cardinality(S \union T) = Cardinality(S) + Cardinality(T) - Cardinality(S \intersect T)
  BY FS_Union
<1>3. Cardinality(S \intersect T) = 0
  BY <1>1
<1> QED
  BY <1>1, <1>2, <1>3

\* The words of an answer: none ends before it starts, the first not before the
\* recording does.
TimedWord ==
    {word \in [token : {spoken.token : spoken \in SpokenWords}, start : Int, end : Int] :
        word.end >= word.start}

WordsTyped == words \in Seq(TimedWord) /\ (words # <<>> => words[1].start >= 0)

LEMMA WordTimes ==
    ASSUME WordsTyped, words # <<>>
    PROVE  /\ Len(words) \in Nat \ {0} /\ DOMAIN words = 1 .. Len(words)
           /\ \A i \in 1 .. Len(words) : /\ words[i].start \in Int /\ words[i].end \in Int
                                         /\ words[i].end >= words[i].start
                                         /\ GapBefore(i) \in Int
<1>1. Len(words) \in Nat /\ DOMAIN words = 1 .. Len(words) /\ Len(words) # 0
  BY LenProperties DEF WordsTyped
<1>2. \A i \in 1 .. Len(words) : words[i] \in TimedWord
  BY ElementOfSeq DEF WordsTyped
<1>3. \A i \in 1 .. Len(words) : /\ words[i].start \in Int /\ words[i].end \in Int
                                 /\ words[i].end >= words[i].start
  BY <1>2 DEF TimedWord
<1>4. ASSUME NEW i \in 1 .. Len(words)
      PROVE  GapBefore(i) \in Int
  <2>1. CASE i = 1
    BY <2>1 DEF GapBefore
  <2>2. CASE i # 1
    <3>1. i - 1 \in 1 .. Len(words)
      BY <1>1, <2>2
    <3> QED
      BY <1>3, <2>2, <3>1 DEF GapBefore
  <2> QED
    BY <2>1, <2>2
<1> QED
  BY <1>1, <1>3, <1>4

\* The three kinds of hesitation are at different words, and two of them never
\* at the first.
LEMMA HesitationsFit ==
    ASSUME WordsTyped, words # <<>>
    PROVE  LET hesitations == FillerCount + Cardinality(Repetitions)
           IN  /\ FillerCount \in 0 .. Len(words) /\ hesitations \in Int
               /\ hesitations <= Len(words)
               /\ Token(1) \notin FillerWords => hesitations < Len(words)
<1> DEFINE n == Len(words)
           all == (Fillers \union YouKnows) \union Repetitions
<1>1. n \in Nat \ {0} /\ DOMAIN words = 1 .. n
  BY WordTimes
<1>2. Fillers \in SUBSET (1 .. n) /\ YouKnows \in SUBSET (2 .. n) /\ Repetitions \in SUBSET (2 .. n)
  <2>1. \A i \in 1 .. n : i > 1 => i \in 2 .. n
    BY <1>1
  <2>2. Fillers \in SUBSET (1 .. n)
    BY <1>1 DEF Fillers
  <2>3. YouKnows \in SUBSET (2 .. n)
    BY <1>1, <2>1 DEF YouKnows
  <2>4. Repetitions \in SUBSET (2 .. n)
    BY <1>1, <2>1 DEF Repetitions
  <2> QED
    BY <2>2, <2>3, <2>4
<1>3. Fillers \intersect YouKnows = {} /\ (Fillers \union YouKnows) \intersect Repetitions = {}
  <2>1. "know" \notin FillerWords /\ "you" # "know"
    BY DEF FillerWords
  <2> QED
    BY <2>1 DEF Fillers, YouKnows, Repetitions
<1>4. /\ IsFiniteSet(Fillers) /\ IsFiniteSet(YouKnows) /\ IsFiniteSet(Repetitions)
      /\ Cardinality(Fillers) \in Nat /\ Cardinality(YouKnows) \in Nat
      /\ Cardinality(Repetitions) \in Nat
  <2>1. n \in Nat /\ 2 .. n \subseteq 1 .. n
    BY <1>1
  <2>2. YouKnows \in SUBSET (1 .. n) /\ Repetitions \in SUBSET (1 .. n)
    BY <1>2, <2>1
  <2> QED
    BY <1>2, <2>1, <2>2, Ranks
<1>5. /\ IsFiniteSet(Fillers \union YouKnows)
      /\ Cardinality(Fillers \union YouKnows) = FillerCount
  BY <1>3, <1>4, DisjointUnion DEF FillerCount
<1>6. Cardinality(all) = FillerCount + Cardinality(Repetitions)
  BY <1>3, <1>4, <1>5, DisjointUnion
<1>7. FillerCount \in Nat
  BY <1>4 DEF FillerCount
<1>8. Cardinality(all) <= n
  <2>1. all \in SUBSET (1 .. n) /\ n \in Nat
    BY <1>1, <1>2
  <2>2. Cardinality(all) \in 0 .. n
    BY <2>1, Ranks
  <2> QED
    BY <1>1, <2>2
<1>9. CASE Token(1) \in FillerWords
  BY <1>1, <1>4, <1>6, <1>7, <1>8, <1>9
<1>10. CASE Token(1) \notin FillerWords
  <2>1. 1 \notin all
    <3>1. 1 \notin Fillers
      BY <1>10 DEF Fillers
    <3> QED
      BY <1>2, <3>1
  <2>2. 1 \in 1 .. n /\ n \in Nat /\ IsFiniteSet(1 .. n) /\ Cardinality(1 .. n) = n
    BY <1>1, IntervalFinite
  <2> DEFINE others == (1 .. n) \ {1}
  <2>3. all \in SUBSET others
    BY <1>1, <1>2, <2>1
  <2>4. IsFiniteSet(others) /\ Cardinality(others) = n - 1
    BY <2>2, FS_RemoveElement
  <2>5. Cardinality(all) <= n - 1
    <3> HIDE DEF all, others
    <3>1. Cardinality(all) <= Cardinality(others)
      BY <2>3, <2>4, FS_Subset
    <3> QED
      BY <2>4, <3>1
  <2> QED
    BY <1>1, <1>4, <1>6, <1>7, <2>5
<1> QED
  BY <1>9, <1>10

\* Times of an answer as sequences of numbers.
Lengths == [i \in DOMAIN words |-> LargerOf(words[i].end - words[i].start, 0)]
Gaps == [i \in DOMAIN words |-> GapBefore(i)]
Silences == [i \in DOMAIN words |-> IF i \in Pauses THEN GapBefore(i) ELSE 0]

LEMMA TimesTyped ==
    ASSUME WordsTyped, words # <<>>
    PROVE  /\ Lengths \in Seq(Int) /\ Len(Lengths) = Len(words)
           /\ Gaps \in Seq(Int) /\ Len(Gaps) = Len(words)
           /\ Silences \in Seq(Int) /\ Len(Silences) = Len(words)
           /\ \A i \in 1 .. Len(words) :
                 /\ Lengths[i] = words[i].end - words[i].start /\ Lengths[i] >= 0
                 /\ Gaps[i] = GapBefore(i)
                 /\ Silences[i] = IF i \in Pauses THEN GapBefore(i) ELSE 0
           /\ Speaking = Total(Lengths) /\ Paused = Total(Silences)
           /\ Speaking \in Int /\ Paused \in Int /\ Speaking >= 0
<1> DEFINE n == Len(words)
<1>1. /\ n \in Nat \ {0} /\ DOMAIN words = 1 .. n
      /\ \A i \in 1 .. n : /\ words[i].start \in Int /\ words[i].end \in Int
                           /\ words[i].end >= words[i].start
                           /\ GapBefore(i) \in Int
  BY WordTimes
<1>2. \A i \in 1 .. n : /\ Lengths[i] = words[i].end - words[i].start
                        /\ Lengths[i] \in Int /\ Lengths[i] >= 0
  BY <1>1 DEF Lengths, LargerOf
<1>3. /\ \A i \in 1 .. n : Gaps[i] = GapBefore(i) /\ Gaps[i] \in Int
      /\ \A i \in 1 .. n : Silences[i] = IF i \in Pauses THEN GapBefore(i) ELSE 0
      /\ \A i \in 1 .. n : Silences[i] \in Int
  BY <1>1 DEF Gaps, Silences
<1>4. ASSUME NEW f, f = [i \in 1 .. n |-> f[i]], \A i \in 1 .. n : f[i] \in Int
      PROVE  f \in Seq(Int) /\ Len(f) = n
  <2>1. f \in [1 .. n -> Int]
    BY <1>4
  <2> QED
    BY <1>1, <2>1
<1>5. /\ Lengths = [i \in 1 .. n |-> Lengths[i]] /\ Gaps = [i \in 1 .. n |-> Gaps[i]]
      /\ Silences = [i \in 1 .. n |-> Silences[i]]
  BY <1>1 DEF Lengths, Gaps, Silences
<1>6. /\ Lengths \in Seq(Int) /\ Len(Lengths) = n /\ Gaps \in Seq(Int) /\ Len(Gaps) = n
      /\ Silences \in Seq(Int) /\ Len(Silences) = n
  BY <1>2, <1>3, <1>4, <1>5
<1>7. Speaking = Total(Lengths) /\ Paused = Total(Silences)
  BY DEF Speaking, Paused, Lengths, Silences
<1>8. Total(Lengths) \in Int /\ Total(Silences) \in Int
  BY <1>6, TotalIsInt
<1>9. Total(Lengths) >= 0
  BY <1>2, <1>6, TotalNonNegative
<1> QED
  BY <1>2, <1>3, <1>6, <1>7, <1>8, <1>9

\* When no words overlap, speech and the gaps fill the way to the last word's
\* end; so speech, and the gaps above any threshold, fit into it.
LEMMA SpeechFits ==
    ASSUME WordsTyped, words # <<>>,
           \A i \in 2 .. Len(words) : words[i - 1].end <= words[i].start
    PROVE  /\ Total(Gaps) \in Int
           /\ Speaking + Total(Gaps) <= words[Len(words)].end
           /\ Paused <= Total(Gaps) /\ Total(Gaps) >= 0
           /\ Cardinality(GapsAbove(LongPauseThreshold)) * LongPauseThreshold <= Total(Gaps)
<1> DEFINE n == Len(words)
           long == GapsAbove(LongPauseThreshold)
<1>1. /\ n \in Nat \ {0} /\ DOMAIN words = 1 .. n
      /\ \A i \in 1 .. n : /\ words[i].start \in Int /\ words[i].end \in Int
                           /\ words[i].end >= words[i].start
                           /\ GapBefore(i) \in Int
  BY WordTimes
<1>2. /\ Lengths \in Seq(Int) /\ Len(Lengths) = n /\ Gaps \in Seq(Int) /\ Len(Gaps) = n
      /\ Silences \in Seq(Int) /\ Len(Silences) = n
      /\ \A i \in 1 .. n : /\ Lengths[i] = words[i].end - words[i].start
                           /\ Gaps[i] = GapBefore(i)
                           /\ Silences[i] = IF i \in Pauses THEN GapBefore(i) ELSE 0
      /\ Speaking = Total(Lengths) /\ Paused = Total(Silences)
      /\ Speaking \in Int /\ Paused \in Int
  BY TimesTyped
<1>3. Gaps[1] = 0 /\ \A k \in 2 .. n : Gaps[k] = words[k].start - words[k - 1].end
  <2>1. 1 \in 1 .. n /\ \A k \in 2 .. n : k \in 1 .. n /\ k # 1
    BY <1>1
  <2> QED
    BY <1>2, <2>1 DEF GapBefore
<1>4. \A k \in 1 .. n : GapBefore(k) >= 0
  <2> SUFFICES ASSUME NEW k \in 1 .. n
               PROVE  GapBefore(k) >= 0
    OBVIOUS
  <2>1. CASE k = 1
    BY <2>1 DEF GapBefore
  <2>2. CASE k # 1
    <3>1. k \in 2 .. n /\ k - 1 \in 1 .. n
      BY <1>1, <2>2
    <3> QED
      BY <1>1, <2>2, <3>1 DEF GapBefore
  <2> QED
    BY <2>1, <2>2
<1>5. Total(Gaps) \in Int
  BY <1>2, TotalIsInt
<1>6. Speaking + Total(Gaps) = words[n].end - words[1].start
  <2> DEFINE from == [k \in 1 .. n |-> words[k].start]
             to == [k \in 1 .. n |-> words[k].end]
  <2>1. /\ \A k \in 1 .. n : from[k] = words[k].start /\ to[k] = words[k].end
        /\ 1 \in 1 .. n /\ n \in 1 .. n /\ \A k \in 2 .. n : k \in 1 .. n /\ k - 1 \in 1 .. n
    BY <1>1
  <2> HIDE DEF from, to
  <2>2. /\ \A k \in 1 .. n : from[k] \in Int /\ to[k] \in Int
        /\ \A k \in 1 .. n : Lengths[k] = to[k] - from[k]
        /\ \A k \in 2 .. n : Gaps[k] = from[k] - to[k - 1]
    BY <1>1, <1>2, <1>3, <2>1
  <2>3. Total(Lengths) + Total(Gaps) = to[n] - from[1]
    <3>1. OnLine(n, Lengths, Gaps, from, to)
      BY <1>1, <1>2, <1>3, <2>2 DEF OnLine
    <3> HIDE DEF n
    <3> QED
      BY <1>2, <3>1, Telescope
  <2> QED
    BY <1>2, <2>1, <2>3
<1>7. Speaking + Total(Gaps) <= words[n].end
  <2>1. words[1].start >= 0 /\ words[1].start \in Int /\ words[n].end \in Int
    <3>1. 1 \in 1 .. n /\ n \in 1 .. n
      BY <1>1
    <3> QED
      BY <1>1, <3>1 DEF WordsTyped
  <2> QED
    BY <1>6, <2>1
<1>8. Paused <= Total(Gaps)
  <2>1. ASSUME NEW k \in 1 .. n
        PROVE  Silences[k] <= Gaps[k]
    <3>1. CASE k \in Pauses
      BY <1>1, <1>2, <3>1
    <3>2. CASE k \notin Pauses
      BY <1>1, <1>2, <1>4, <3>2
    <3> QED
      BY <3>1, <3>2
  <2> QED
    BY <1>2, <2>1, TotalNotLarger
<1>9. Total(Gaps) >= 0
  <2>1. \A k \in 1 .. Len(Gaps) : Gaps[k] >= 0
    BY <1>2, <1>4
  <2> QED
    BY <1>2, <2>1, TotalNonNegative
<1>10. Cardinality(long) * LongPauseThreshold <= Total(Gaps)
  <2>1. long \in SUBSET (1 .. n) /\ n \in Nat
    BY <1>1 DEF GapsAbove
  <2>2. /\ Ones(n, long) \in Seq(Int) /\ Len(Ones(n, long)) = n
        /\ Total(Ones(n, long)) = Cardinality(long) /\ Cardinality(long) \in 0 .. n
    BY <2>1, OnesTyped, OnesCount, Ranks
  <2>3. \A k \in 1 .. Len(Gaps) : LongPauseThreshold * Ones(n, long)[k] <= Gaps[k]
    <3> SUFFICES ASSUME NEW k \in 1 .. n
                 PROVE  LongPauseThreshold * Ones(n, long)[k] <= Gaps[k]
      BY <1>2
    <3>1. CASE k \in long
      BY <1>1, <1>2, <3>1 DEF Ones, GapsAbove, LongPauseThreshold
    <3>2. CASE k \notin long
      BY <1>1, <1>2, <1>4, <3>2 DEF Ones, LongPauseThreshold
    <3> QED
      BY <3>1, <3>2
  <2>4. LongPauseThreshold \in Int
    BY DEF LongPauseThreshold
  <2>5. LongPauseThreshold * Total(Ones(n, long)) <= Total(Gaps)
    BY <1>2, <2>2, <2>3, <2>4, TotalAtLeast
  <2> QED
    BY <2>2, <2>5 DEF LongPauseThreshold
<1> QED
  BY <1>5, <1>7, <1>8, <1>9, <1>10

\* The pauses lie between the threshold and the longest one, and so does their
\* mean.
Longest == Max({GapBefore(i) : i \in Pauses})

LEMMA PausesBetween ==
    ASSUME WordsTyped, words # <<>>, Pauses # {}
    PROVE  /\ Cardinality(Pauses) \in Nat \ {0}
           /\ \E i \in Pauses : Longest = GapBefore(i)
           /\ Longest \in Int /\ \A i \in Pauses : GapBefore(i) <= Longest
           /\ PauseThreshold * Cardinality(Pauses) <= Paused
           /\ Paused <= Longest * Cardinality(Pauses)
<1> DEFINE n == Len(words)
<1>1. /\ n \in Nat \ {0} /\ DOMAIN words = 1 .. n
      /\ \A i \in 1 .. n : GapBefore(i) \in Int
  BY WordTimes
<1>2. Pauses \in SUBSET (1 .. n) /\ n \in Nat
  BY <1>1 DEF Pauses, GapsAbove
<1>3. Cardinality(Pauses) \in Nat \ {0}
  <2>1. Cardinality(Pauses) \in 0 .. n /\ IsFiniteSet(Pauses)
    BY <1>2, Ranks
  <2> QED
    BY <1>1, <2>1, FS_EmptySet
<1>4. \E i \in Pauses : \A j \in Pauses : GapBefore(j) <= GapBefore(i)
  <2> DEFINE key == [i \in 1 .. n |-> 0 - GapBefore(i)]
  <2>1. key \in [1 .. n -> Int] /\ \A i \in 1 .. n : key[i] = 0 - GapBefore(i)
    BY <1>1
  <2> HIDE DEF key
  <2>2. PICK i \in Pauses : \A j \in Pauses \ {i} : key[i] < key[j] \/ (key[i] = key[j] /\ i < j)
    BY <1>2, <2>1, SmallestKey
  <2>3. ASSUME NEW j \in Pauses
        PROVE  GapBefore(j) <= GapBefore(i)
    <3>1. /\ GapBefore(i) \in Int /\ GapBefore(j) \in Int
          /\ key[i] = 0 - GapBefore(i) /\ key[j] = 0 - GapBefore(j)
      BY <1>1, <1>2, <2>1
    <3>2. CASE i = j
      BY <3>1, <3>2
    <3>3. CASE i # j
      <4>1. key[i] < key[j] \/ key[i] = key[j]
        BY <2>2, <3>3
      <4> QED
        BY <3>1, <4>1
    <3> QED
      BY <3>2, <3>3
  <2> QED
    BY <2>3
<1>5. /\ \E i \in Pauses : Longest = GapBefore(i)
      /\ \A i \in Pauses : GapBefore(i) <= Longest
  <2> DEFINE gaps == {GapBefore(i) : i \in Pauses}
  <2>1. \E m \in gaps : \A x \in gaps : m >= x
    <3>1. PICK i \in Pauses : \A j \in Pauses : GapBefore(j) <= GapBefore(i)
      BY <1>4
    <3>2. \A j \in Pauses : GapBefore(j) \in Int
      BY <1>1, <1>2
    <3>3. \A j \in Pauses : GapBefore(i) >= GapBefore(j)
      BY <3>1, <3>2
    <3> QED
      BY <3>3
  <2>2. Longest \in gaps /\ \A x \in gaps : Longest >= x
    <3> HIDE DEF gaps
    <3>1. Max(gaps) \in gaps /\ \A x \in gaps : Max(gaps) >= x
      BY <2>1 DEF Max
    <3> QED
      BY <3>1 DEF Longest, gaps
  <2>3. \A i \in Pauses : GapBefore(i) \in gaps /\ GapBefore(i) \in Int
    BY <1>1, <1>2
  <2>4. \E i \in Pauses : Longest = GapBefore(i)
    BY <2>2
  <2> HIDE DEF gaps
  <2> QED
    BY <2>2, <2>3, <2>4
<1>6. Longest \in Int
  BY <1>1, <1>2, <1>5
<1> DEFINE ones == Ones(n, Pauses)
<1>7. /\ ones \in Seq(Int) /\ Len(ones) = n /\ Total(ones) = Cardinality(Pauses)
      /\ \A k \in 1 .. n : ones[k] = IF k \in Pauses THEN 1 ELSE 0
  BY <1>2, OnesTyped, OnesCount DEF Ones
<1>8. /\ Silences \in Seq(Int) /\ Len(Silences) = n /\ Paused = Total(Silences)
      /\ \A i \in 1 .. n : Silences[i] = IF i \in Pauses THEN GapBefore(i) ELSE 0
  BY TimesTyped
<1> HIDE DEF ones
<1>9. PauseThreshold * Total(ones) <= Total(Silences)
  <2>1. ASSUME NEW k \in 1 .. n
        PROVE  PauseThreshold * ones[k] <= Silences[k]
    <3>1. CASE k \in Pauses
      <4>1. GapBefore(k) > 3
        BY <3>1 DEF Pauses, GapsAbove, PauseThreshold
      <4> QED
        BY <1>1, <1>7, <1>8, <3>1, <4>1 DEF PauseThreshold
    <3>2. CASE k \notin Pauses
      BY <1>7, <1>8, <3>2 DEF PauseThreshold
    <3> QED
      BY <3>1, <3>2
  <2>2. PauseThreshold \in Int
    BY DEF PauseThreshold
  <2> QED
    BY <1>7, <1>8, <2>1, <2>2, TotalAtLeast
<1>10. Total(Silences) <= Longest * Total(ones)
  <2>1. ASSUME NEW k \in 1 .. n
        PROVE  Silences[k] <= Longest * ones[k]
    <3>1. CASE k \in Pauses
      BY <1>1, <1>5, <1>6, <1>7, <1>8, <3>1
    <3>2. CASE k \notin Pauses
      BY <1>6, <1>7, <1>8, <3>2
    <3> QED
      BY <3>1, <3>2
  <2> QED
    BY <1>6, <1>7, <1>8, <2>1, TotalAtMost
<1> QED
  BY <1>3, <1>5, <1>6, <1>7, <1>8, <1>9, <1>10

LEMMA MetricsFit ==
    ASSUME WordsTyped, words # <<>>, NEW audioDuration \in Int
    PROVE  AddsUp(ComputeSpeechMetrics(audioDuration))
<1> DEFINE m == ComputeSpeechMetrics(audioDuration)
           n == Len(words)
           audio == LargerOf(audioDuration, 0)
           pauses == Cardinality(Pauses)
           long == GapsAbove(LongPauseThreshold)
<1>1. /\ m.speaking_duration = Speaking /\ m.word_count = n
      /\ m.long_pause_count = Cardinality(long)
      /\ m.avg_pause_duration = IF Pauses = {} THEN 0 ELSE Quotient(Paused, pauses, 100)
      /\ m.max_pause_duration = IF Pauses = {} THEN 0 ELSE 100 * Longest
      /\ m.filler_word_frequency = IF n > 0 THEN Quotient(100 * FillerCount, n, 100) ELSE 0
      /\ m.hesitation_count = FillerCount + Cardinality(Repetitions)
      /\ m.silence_duration = LargerOf(audio - Speaking, 0)
      /\ m.response_duration = audio
      /\ m.speech_completeness = IF audio = 0 THEN 0
                                 ELSE IF Speaking >= audio THEN 1000
                                 ELSE Quotient(Speaking, audio, 1000)
  BY DEF ComputeSpeechMetrics, Longest
<1>2. n \in Nat \ {0} /\ DOMAIN words = 1 .. n
  BY WordTimes
<1>3. audio \in Nat
  BY DEF LargerOf
<1>4. Speaking \in Int /\ Speaking >= 0 /\ Paused \in Int
  BY TimesTyped
<1>5. Pauses \in SUBSET (1 .. n) /\ long \in SUBSET (1 .. n) /\ long \in SUBSET Pauses
  <2>1. \A i \in 1 .. n : GapBefore(i) \in Int
    BY WordTimes
  <2> QED
    BY <1>2, <2>1 DEF Pauses, GapsAbove, PauseThreshold, LongPauseThreshold
<1>6. /\ IsFiniteSet(Pauses) /\ IsFiniteSet(long)
      /\ pauses \in Nat /\ Cardinality(long) \in Nat
      /\ pauses = 0 <=> Pauses = {}
      /\ Cardinality(long) = 0 <=> long = {}
  <2>1. n \in Nat
    BY <1>2
  <2>2. IsFiniteSet(Pauses) /\ IsFiniteSet(long) /\ pauses \in 0 .. n /\ Cardinality(long) \in 0 .. n
    BY <1>5, <2>1, Ranks
  <2> QED
    BY <2>1, <2>2, FS_EmptySet
<1> HIDE DEF m, n, audio, pauses, long
<1>7. /\ m.hesitation_count <= m.word_count
      /\ Token(1) \notin FillerWords => m.hesitation_count < m.word_count
  BY <1>1, HesitationsFit DEF n
<1>8. m.filler_word_frequency \in 0..10000
  <2>1. FillerCount \in 0 .. n
    BY HesitationsFit DEF n
  <2> DEFINE f == 100 * FillerCount
             unit == 100
             low == 0
             high == 10000
  <2>2. f \in Int /\ unit \in Nat /\ low \in Int /\ high \in Int
    BY <1>2, <2>1
  <2>3. low * n <= f * unit /\ f * unit <= high * n
    BY <1>2, <2>1
  <2>4. m.filler_word_frequency = Quotient(f, n, unit)
    BY <1>1, <1>2
  <2> HIDE DEF f, unit, low, high
  <2> DEFINE q == Quotient(f, n, unit)
  <2>5. q \in Int /\ low <= q /\ q <= high
    BY <1>2, <2>2, <2>3, QuotientBetween
  <2>6. q \in 0..10000
    <3> HIDE DEF q
    <3> QED
      BY <2>5 DEF low, high
  <2> QED
    BY <2>4, <2>6
<1>9. m.speech_completeness \in 0..1000
  <2>1. CASE audio = 0 \/ Speaking >= audio
    BY <1>1, <2>1
  <2>2. CASE audio # 0 /\ ~(Speaking >= audio)
    <3> DEFINE unit == 1000
               low == 0
    <3>1. /\ audio \in Nat \ {0} /\ unit \in Nat /\ low \in Int /\ unit \in Int
          /\ low * audio <= Speaking * unit /\ Speaking * unit <= unit * audio
      BY <1>3, <1>4, <2>2
    <3>2. m.speech_completeness = Quotient(Speaking, audio, unit)
      BY <1>1, <2>2
    <3> HIDE DEF unit, low
    <3>3. /\ Quotient(Speaking, audio, unit) \in Int
          /\ low <= Quotient(Speaking, audio, unit)
          /\ Quotient(Speaking, audio, unit) <= unit
      BY <1>4, <3>1, QuotientBetween
    <3>4. \A x \in Int : low <= x /\ x <= unit => x \in 0..1000
      BY DEF unit, low
    <3>5. Quotient(Speaking, audio, unit) \in 0..1000
      BY <3>3, <3>4
    <3> QED
      BY <3>2, <3>5
  <2> QED
    BY <2>1, <2>2
<1> DEFINE ordered == \A i \in 2 .. n : words[i - 1].end <= words[i].start
           within == words[n].end <= m.response_duration
           fitting ==
              /\ m.speaking_duration + m.silence_duration = m.response_duration
              /\ m.avg_pause_duration * pauses <= 100 * m.silence_duration + pauses
              /\ m.long_pause_count * LongPauseThreshold <= m.silence_duration
              /\ pauses # 0 =>
                    /\ m.avg_pause_duration >= 100 * PauseThreshold
                    /\ m.avg_pause_duration <= m.max_pause_duration
              /\ m.max_pause_duration > 100 * LongPauseThreshold
                    <=> m.long_pause_count > 0
<1>10. ASSUME ordered, within
       PROVE  fitting
  <2>0. words[n].end <= audio
    BY <1>1, <1>10
  <2>1. /\ Total(Gaps) \in Int /\ Total(Gaps) >= 0
        /\ Speaking + Total(Gaps) <= words[n].end
        /\ Paused <= Total(Gaps)
        /\ Cardinality(long) * LongPauseThreshold <= Total(Gaps)
    BY <1>10, SpeechFits DEF n, long
  <2>2. words[n].end \in Int
    <3>1. n \in 1 .. n
      BY <1>2
    <3> QED
      BY <3>1, WordTimes DEF n
  <2>3. Speaking + Total(Gaps) <= audio
    BY <1>3, <1>4, <2>0, <2>1, <2>2
  <2>4. /\ m.silence_duration = audio - Speaking /\ m.silence_duration \in Int
        /\ Total(Gaps) <= m.silence_duration
    BY <1>1, <1>3, <1>4, <2>1, <2>3 DEF LargerOf
  <2>5. m.speaking_duration + m.silence_duration = m.response_duration
    BY <1>1, <1>3, <1>4, <2>4
  <2>6. m.long_pause_count * LongPauseThreshold <= m.silence_duration
    BY <1>1, <1>6, <2>1, <2>4 DEF LongPauseThreshold
  <2>7. CASE Pauses = {}
    <3>1. pauses = 0 /\ Cardinality(long) = 0
      BY <1>5, <1>6, <2>7
    <3>2. m.avg_pause_duration = 0 /\ m.max_pause_duration = 0 /\ m.long_pause_count = 0
      BY <1>1, <2>7, <3>1
    <3>3. m.avg_pause_duration * pauses <= 100 * m.silence_duration + pauses
      BY <2>1, <2>4, <3>1, <3>2
    <3>4. m.max_pause_duration > 100 * LongPauseThreshold <=> m.long_pause_count > 0
      BY <3>2 DEF LongPauseThreshold
    <3> QED
      BY <2>5, <2>6, <3>1, <3>3, <3>4
  <2>8. CASE Pauses # {}
    <3> DEFINE avg == Quotient(Paused, pauses, 100)
    <3>1. /\ pauses \in Nat \ {0} /\ Longest \in Int
          /\ \E i \in Pauses : Longest = GapBefore(i)
          /\ \A i \in Pauses : GapBefore(i) <= Longest
          /\ PauseThreshold * pauses <= Paused /\ Paused <= Longest * pauses
      BY <2>8, PausesBetween DEF pauses
    <3>2. m.avg_pause_duration = avg /\ m.max_pause_duration = 100 * Longest
      BY <1>1, <2>8
    <3> DEFINE unit == 100
               low == 100 * PauseThreshold
               high == 100 * Longest
    <3>3. unit \in Nat /\ low \in Int /\ high \in Int
      BY <3>1 DEF PauseThreshold
    <3>4. low * pauses <= Paused * unit
      BY <1>4, <3>1 DEF PauseThreshold
    <3>5. Paused * unit <= high * pauses
      <4> DEFINE most == Longest * pauses
      <4>1. most \in Int /\ high * pauses = 100 * most /\ Paused <= most
        BY <3>1
      <4> HIDE DEF most, high
      <4> QED
        BY <1>4, <4>1
    <3>6. /\ avg \in Int /\ low <= avg /\ avg <= high
          /\ 2 * (avg * pauses) <= 2 * (Paused * unit) + pauses
      <4>1. avg = Quotient(Paused, pauses, unit)
        OBVIOUS
      <4> HIDE DEF avg, unit, low, high
      <4> QED
        BY <1>4, <3>1, <3>3, <3>4, <3>5, <4>1, QuotientBetween
    <3> HIDE DEF avg
    <3>7. m.avg_pause_duration * pauses <= 100 * m.silence_duration + pauses
      <4> DEFINE product == avg * pauses
      <4>1. product \in Int /\ 2 * product <= 200 * Paused + pauses
        BY <1>4, <3>1, <3>6
      <4> HIDE DEF product
      <4>2. product <= 100 * m.silence_duration + pauses
        BY <1>4, <2>1, <2>4, <3>1, <4>1
      <4> QED
        BY <3>2, <4>2 DEF product
    <3>8. m.max_pause_duration > 100 * LongPauseThreshold <=> m.long_pause_count > 0
      <4>1. Longest > LongPauseThreshold <=> long # {}
        <5>1. \A i \in 1 .. n : GapBefore(i) \in Int
          BY WordTimes DEF n
        <5>2. \A i \in Pauses : i \in long <=> GapBefore(i) > LongPauseThreshold
          BY <1>2, <1>5 DEF long, GapsAbove
        <5>3. ASSUME NEW i \in long
              PROVE  Longest > LongPauseThreshold
          <6>1. i \in Pauses /\ i \in 1 .. n
            BY <1>5
          <6>2. GapBefore(i) > LongPauseThreshold /\ GapBefore(i) <= Longest /\ GapBefore(i) \in Int
            BY <3>1, <5>1, <5>2, <6>1
          <6> QED
            BY <3>1, <6>2 DEF LongPauseThreshold
        <5> QED
          BY <3>1, <5>2, <5>3
      <4>2. m.long_pause_count > 0 <=> long # {}
        BY <1>1, <1>6
      <4>3. 100 * Longest > 100 * LongPauseThreshold <=> Longest > LongPauseThreshold
        BY <3>1 DEF LongPauseThreshold
      <4> QED
        BY <3>2, <4>1, <4>2, <4>3
    <3> QED
      BY <2>5, <2>6, <3>2, <3>6, <3>7, <3>8
  <2> QED
    BY <2>7, <2>8
<1> DEFINE fewer ==
              /\ m.hesitation_count <= m.word_count
              /\ Token(1) \notin FillerWords => m.hesitation_count < m.word_count
           rates == m.filler_word_frequency \in 0..10000 /\ m.speech_completeness \in 0..1000
<1>11. AddsUp(m) <=> fewer /\ rates /\ (ordered /\ within => fitting)
  BY DEF AddsUp, n, pauses
<1>12. fewer /\ rates
  <2>1. fewer
    BY <1>7
  <2>2. rates
    BY <1>8, <1>9, SMTT(30)
  <2> HIDE DEF fewer, rates
  <2> QED
    BY <2>1, <2>2
<1> HIDE DEF ordered, within, fitting, fewer, rates
<1>13. ordered /\ within => fitting
  BY <1>10
<1>14. AddsUp(m)
  BY <1>11, <1>12, <1>13
<1> QED
  BY <1>14 DEF m

SpeechInv ==
    /\ WordsTyped
    /\ metrics # NoMetrics /\ metrics.outcome = "MEASURED" =>
          /\ words # <<>>
          /\ \E audioDuration \in Int : metrics.values = ComputeSpeechMetrics(audioDuration)

LEMMA SpeechInitial == ComputationsInit => SpeechInv
<1>1. <<>> \in Seq(TimedWord)
  OBVIOUS
<1> QED
  BY <1>1 DEF ComputationsInit, SpeechInit, SpeechInv, WordsTyped

\* What a step does to the words and the metrics.
LEMMA SpeechActions ==
    [ComputationsNext]_computed => SpeechNext \/ UNCHANGED <<words, metrics>>
  BY DEF ComputationsNext, Follow, computed

LEMMA SpeechStep == SpeechInv /\ [ComputationsNext]_computed => SpeechInv'
<1> SUFFICES ASSUME SpeechInv, [ComputationsNext]_computed
             PROVE  SpeechInv'
  OBVIOUS
<1>1. WordsTyped /\ words \in Seq(TimedWord)
  BY DEF SpeechInv, WordsTyped
<1>2. ASSUME NEW word \in SpokenWords, Say(word)
      PROVE  SpeechInv'
  <2> DEFINE last  == IF words = <<>> THEN [start |-> 0, end |-> 0] ELSE words[Len(words)]
             start == LargerOf(last.end + word.gap, last.start)
             heard == [token |-> word.token, start |-> start, end |-> start + word.length]
  <2>1. metrics = NoMetrics /\ metrics' = metrics /\ words' = Append(words, heard)
    BY <1>2 DEF Say
  <2>2. last.start \in Int /\ last.end \in Int /\ (words = <<>> => last.start = 0)
    <3>1. CASE words = <<>>
      BY <3>1
    <3>2. CASE words # <<>>
      <4>1. Len(words) \in 1 .. Len(words)
        BY <1>1, <3>2, WordTimes
      <4> QED
        BY <1>1, <3>2, <4>1, WordTimes
    <3> QED
      BY <3>1, <3>2
  <2>3. word.gap \in Int /\ word.length \in Nat
    BY SpokenWordsAssumption
  <2> HIDE DEF last
  <2>4. start \in Int /\ (words = <<>> => start >= 0)
    BY <2>2, <2>3 DEF LargerOf
  <2> HIDE DEF start
  <2>5. heard \in TimedWord
    BY <2>3, <2>4 DEF TimedWord
  <2>6. words' \in Seq(TimedWord) /\ words'[1].start >= 0
    <3>1. words' \in Seq(TimedWord)
      BY <1>1, <2>1, <2>5
    <3>2. CASE words = <<>>
      <4>1. words'[1] = heard
        BY <2>1, <3>2
      <4> QED
        BY <2>4, <3>1, <3>2, <4>1
    <3>3. CASE words # <<>>
      <4>1. 1 \in 1 .. Len(words)
        BY <1>1, <3>3, WordTimes
      <4>2. words'[1] = words[1]
        BY <1>1, <2>1, <2>5, <4>1, AppendProperties
      <4> QED
        BY <1>1, <3>1, <3>3, <4>2 DEF WordsTyped
    <3> QED
      BY <3>2, <3>3
  <2> QED
    BY <2>1, <2>6 DEF SpeechInv, WordsTyped
<1>3. ASSUME NEW recording \in Recordings, NEW tail \in Tails, MeasureAnswer(recording, tail)
      PROVE  SpeechInv'
  <2>1. /\ words' = words
        /\ metrics' =
              IF AudioRejection(recording) # "none"
              THEN [outcome |-> "REJECTED", reason |-> AudioRejection(recording)]
              ELSE IF words = <<>> THEN [outcome |-> "REJECTED", reason |-> "EMPTY_TRANSCRIPT"]
              ELSE [outcome |-> "MEASURED",
                    values  |-> ComputeSpeechMetrics(words[Len(words)].end + tail)]
    BY <1>3 DEF MeasureAnswer
  <2>2. WordsTyped'
    BY <1>1, <2>1 DEF WordsTyped
  <2>3. CASE AudioRejection(recording) # "none" \/ words = <<>>
    <3>1. metrics'.outcome = "REJECTED"
      BY <2>1, <2>3
    <3> QED
      BY <2>2, <3>1 DEF SpeechInv
  <2>4. CASE AudioRejection(recording) = "none" /\ words # <<>>
    <3> DEFINE audioDuration == words[Len(words)].end + tail
    <3>1. audioDuration \in Int
      <4>1. Len(words) \in 1 .. Len(words) /\ tail \in Int
        BY <1>1, <2>4, WordTimes, SpokenWordsAssumption
      <4> QED
        BY <1>1, <2>4, <4>1, WordTimes
    <3>2. metrics'.values = ComputeSpeechMetrics(audioDuration)
      BY <2>1, <2>4
    <3> HIDE DEF audioDuration
    <3>3. words' = words
      BY <2>1
    <3>4. \A a \in Int : ComputeSpeechMetrics(a)' = ComputeSpeechMetrics(a)
      BY <3>3 DEF ComputeSpeechMetrics, Speaking, Paused, Pauses, GapsAbove, GapBefore,
                  FillerCount, Fillers, YouKnows, Repetitions, Token
    <3> QED
      BY <2>1, <2>2, <2>4, <3>1, <3>2, <3>4 DEF SpeechInv
  <2> QED
    BY <2>3, <2>4
<1>4. CASE TranscriptionFails
  <2>1. words' = words /\ metrics'.outcome = "REJECTED"
    BY <1>4 DEF TranscriptionFails
  <2> QED
    BY <1>1, <2>1 DEF SpeechInv, WordsTyped
<1>5. CASE UNCHANGED <<words, metrics>>
  <2>1. words' = words /\ metrics' = metrics
    BY <1>5
  <2>2. \A a \in Int : ComputeSpeechMetrics(a)' = ComputeSpeechMetrics(a)
    BY <2>1 DEF ComputeSpeechMetrics, Speaking, Paused, Pauses, GapsAbove, GapBefore,
                FillerCount, Fillers, YouKnows, Repetitions, Token
  <2> QED
    BY <2>1, <2>2 DEF SpeechInv, WordsTyped
<1> QED
  BY <1>2, <1>3, <1>4, <1>5, SpeechActions DEF SpeechNext

\* The metrics of an answer fit together, however many words it has
\* (compute_speech_metrics).
THEOREM MetricsFitTogether == ComputationsSpec => []SpeechAddsUp
<1>1. SpeechInv => SpeechAddsUp
  BY MetricsFit DEF SpeechInv, SpeechAddsUp
<1> QED
  BY SpeechInitial, SpeechStep, <1>1, PTL DEF ComputationsSpec
===================================================================================
