------------------------- MODULE InterviewRulesProofs -------------------------
(***************************************************************************)
(* Facts that several of the proofs rest on: about the operators of        *)
(* InterviewRules, and about numbered places, which are how these proofs   *)
(* do induction.                                                           *)
(***************************************************************************)
EXTENDS InterviewRules, FiniteSetTheorems, TLAPS

-----------------------------------------------------------------------------
(* Facts about the rule tables.                                            *)

\* STAGE_ORDER numbers the stages from 1 to 9.
LEMMA StageIndexValues ==
    /\ StageIndex("INTRODUCTION") = 1
    /\ StageIndex("CANDIDATE_BACKGROUND") = 2
    /\ StageIndex("RESUME_DISCUSSION") = 3
    /\ StageIndex("PROJECT_DEEP_DIVE") = 4
    /\ StageIndex("ROLE_SPECIFIC") = 5
    /\ StageIndex("BEHAVIORAL") = 6
    /\ StageIndex("ADAPTIVE_PROBING") = 7
    /\ StageIndex("CLOSING") = 8
    /\ StageIndex("COMPLETED") = 9
  BY DEF StageIndex

LEMMA StageIndexOrder ==
    /\ \A s \in Stages : StageIndex(s) \in 1..9
    /\ \A s, t \in Stages : StageIndex(s) = StageIndex(t) => s = t
    /\ \A s \in AskingStages : StageIndex(s) <= 8
  BY StageIndexValues DEF Stages, AskingStages

\* Among the planned stages of any non-empty set one comes first.
LEMMA FirstStageExists ==
    ASSUME NEW later \in SUBSET AskingStages, later # {}
    PROVE  \E s \in later : \A t \in later : StageIndex(s) <= StageIndex(t)
<1> SUFFICES ASSUME \A s \in later : \E t \in later : ~(StageIndex(s) <= StageIndex(t))
             PROVE  FALSE
  OBVIOUS
<1>1. "INTRODUCTION" \notin later
  BY StageIndexValues DEF AskingStages
<1>2. "CANDIDATE_BACKGROUND" \notin later
  BY <1>1, StageIndexValues DEF AskingStages
<1>3. "RESUME_DISCUSSION" \notin later
  BY <1>1, <1>2, StageIndexValues DEF AskingStages
<1>4. "PROJECT_DEEP_DIVE" \notin later
  BY <1>1, <1>2, <1>3, StageIndexValues DEF AskingStages
<1>5. "ROLE_SPECIFIC" \notin later
  BY <1>1, <1>2, <1>3, <1>4, StageIndexValues DEF AskingStages
<1>6. "BEHAVIORAL" \notin later
  BY <1>1, <1>2, <1>3, <1>4, <1>5, StageIndexValues DEF AskingStages
<1>7. "ADAPTIVE_PROBING" \notin later
  BY <1>1, <1>2, <1>3, <1>4, <1>5, <1>6, StageIndexValues DEF AskingStages
<1>8. "CLOSING" \notin later
  BY <1>1, <1>2, <1>3, <1>4, <1>5, <1>6, <1>7, StageIndexValues DEF AskingStages
<1> QED
  BY <1>1, <1>2, <1>3, <1>4, <1>5, <1>6, <1>7, <1>8 DEF AskingStages

\* next_stage returns the first planned stage after the current one, and
\* COMPLETED when there is none.
LEMMA NextStageSpec ==
    ASSUME NEW current \in Stages, NEW planned \in SUBSET AskingStages
    PROVE  LET later == {s \in planned : StageIndex(s) > StageIndex(current)}
               next  == NextStage(current, planned)
           IN  \/ later = {} /\ next = "COMPLETED"
               \/ next \in later /\ \A t \in later : StageIndex(next) <= StageIndex(t)
<1> DEFINE later == {s \in planned : StageIndex(s) > StageIndex(current)}
<1>1. CASE later = {}
  BY <1>1 DEF NextStage
<1>2. CASE later # {}
  <2>1. \E s \in later : \A t \in later : StageIndex(s) <= StageIndex(t)
    BY <1>2, FirstStageExists
  <2>2. NextStage(current, planned)
            = CHOOSE s \in later : \A t \in later : StageIndex(s) <= StageIndex(t)
    BY <1>2 DEF NextStage
  <2> QED
    BY <2>1, <2>2
<1> QED
  BY <1>1, <1>2

\* One more question in a stage is one more question in total.
LEMMA TotalOfIncrement ==
    ASSUME NEW f \in [AskingStages -> Nat], NEW s \in AskingStages
    PROVE  TotalOf([f EXCEPT ![s] = @ + 1]) = TotalOf(f) + 1
  BY DEF TotalOf, At, AskingStages

\* A stage has at most all the questions.
LEMMA TotalOfPart ==
    ASSUME NEW f \in [AskingStages -> Nat], NEW s \in AskingStages
    PROVE  f[s] <= TotalOf(f)
  BY DEF TotalOf, At, AskingStages

\* Counters below their shares sum up to at most the budget, and reach it
\* only when every stage has used its share.
LEMMA TotalOfBound ==
    ASSUME NEW f \in [AskingStages -> Nat], NEW g,
           \A s \in AskingStages : At(g, s) \in Nat /\ f[s] <= At(g, s)
    PROVE  /\ TotalOf(f) <= TotalOf(g)
           /\ TotalOf(f) >= TotalOf(g) => \A s \in AskingStages : f[s] = At(g, s)
<1> DEFINE G == [s \in AskingStages |-> At(g, s)]
           Sum(h) == h["INTRODUCTION"] + h["CANDIDATE_BACKGROUND"]
                     + h["RESUME_DISCUSSION"] + h["PROJECT_DEEP_DIVE"]
                     + h["ROLE_SPECIFIC"] + h["BEHAVIORAL"]
                     + h["ADAPTIVE_PROBING"] + h["CLOSING"]
           Below(s) == f[s] \in Nat /\ G[s] \in Nat /\ f[s] <= G[s]
<1>1. TotalOf(g) = Sum(G) /\ TotalOf(f) = Sum(f)
  BY DEF TotalOf, At, AskingStages
<1>2. /\ Below("INTRODUCTION") /\ Below("CANDIDATE_BACKGROUND")
      /\ Below("RESUME_DISCUSSION") /\ Below("PROJECT_DEEP_DIVE")
      /\ Below("ROLE_SPECIFIC") /\ Below("BEHAVIORAL")
      /\ Below("ADAPTIVE_PROBING") /\ Below("CLOSING")
  BY DEF AskingStages
<1> HIDE DEF G
<1>3. /\ Sum(f) <= Sum(G)
      /\ Sum(f) >= Sum(G) =>
            /\ f["INTRODUCTION"] = G["INTRODUCTION"]
            /\ f["CANDIDATE_BACKGROUND"] = G["CANDIDATE_BACKGROUND"]
            /\ f["RESUME_DISCUSSION"] = G["RESUME_DISCUSSION"]
            /\ f["PROJECT_DEEP_DIVE"] = G["PROJECT_DEEP_DIVE"]
            /\ f["ROLE_SPECIFIC"] = G["ROLE_SPECIFIC"]
            /\ f["BEHAVIORAL"] = G["BEHAVIORAL"]
            /\ f["ADAPTIVE_PROBING"] = G["ADAPTIVE_PROBING"]
            /\ f["CLOSING"] = G["CLOSING"]
  BY <1>2
<1>4. \A s \in AskingStages : G[s] = At(g, s)
  BY DEF G
<1> QED
  BY <1>1, <1>3, <1>4 DEF AskingStages

-----------------------------------------------------------------------------
(* Numbering the members of a finite set of numbers.  FirstPlace is how    *)
(* these proofs do induction: of the places where a claim fails, the first *)
(* one is looked at.                                                       *)

Upto(P, i) == {j \in 1 .. i : j \in P}
Rank(P, i) == Cardinality(Upto(P, i))

LEMMA IntervalFinite ==
    ASSUME NEW n \in Nat
    PROVE  IsFiniteSet(1 .. n) /\ Cardinality(1 .. n) = n
<1>1. 1 \in Int /\ n \in Int
  OBVIOUS
<1>2. /\ IsFiniteSet(1 .. n)
      /\ Cardinality(1 .. n) = IF 1 > n THEN 0 ELSE n - 1 + 1
  BY <1>1, FS_Interval
<1> QED
  BY <1>2

\* Ranks grow from 1 to the number of members, one by one.
LEMMA Ranks ==
    ASSUME NEW n \in Nat, NEW P \in SUBSET (1 .. n)
    PROVE  /\ IsFiniteSet(P) /\ Cardinality(P) \in 0 .. n
           /\ \A i \in P : Rank(P, i) \in 1 .. Cardinality(P)
           /\ \A i, j \in P : i < j => Rank(P, i) < Rank(P, j)
           /\ \A k \in 1 .. Cardinality(P) : \E i \in P : Rank(P, i) = k
<1>1. IsFiniteSet(1 .. n) /\ Cardinality(1 .. n) = n
  BY IntervalFinite
<1>2. IsFiniteSet(P) /\ Cardinality(P) \in Nat /\ Cardinality(P) <= n
  BY <1>1, FS_Subset, FS_CardinalityType
<1>3. \A i \in P : /\ Upto(P, i) \subseteq P /\ i \in Upto(P, i)
                   /\ IsFiniteSet(Upto(P, i)) /\ Rank(P, i) \in Nat
                   /\ Rank(P, i) <= Cardinality(P)
  <2> SUFFICES ASSUME NEW i \in P
               PROVE  /\ Upto(P, i) \subseteq P /\ i \in Upto(P, i)
                      /\ IsFiniteSet(Upto(P, i)) /\ Rank(P, i) \in Nat
                      /\ Rank(P, i) <= Cardinality(P)
    OBVIOUS
  <2>1. Upto(P, i) \subseteq P /\ i \in Upto(P, i)
    BY DEF Upto
  <2>2. IsFiniteSet(Upto(P, i)) /\ Cardinality(Upto(P, i)) <= Cardinality(P)
    BY <1>2, <2>1, FS_Subset
  <2> QED
    BY <2>1, <2>2, FS_CardinalityType DEF Rank
<1>4. \A i \in P : Rank(P, i) \in 1 .. Cardinality(P)
  <2> SUFFICES ASSUME NEW i \in P
               PROVE  Rank(P, i) # 0
    BY <1>2, <1>3
  <2>1. IsFiniteSet(Upto(P, i)) /\ Upto(P, i) # {}
    BY <1>3
  <2> QED
    BY <2>1, FS_EmptySet DEF Rank
<1>5. ASSUME NEW i \in P, NEW j \in P, i < j
      PROVE  Rank(P, i) < Rank(P, j)
  <2>1. Upto(P, i) \subseteq Upto(P, j) /\ j \notin Upto(P, i)
    BY <1>5 DEF Upto
  <2>2. IsFiniteSet(Upto(P, j)) /\ j \in Upto(P, j)
    BY <1>3
  <2>3. /\ Rank(P, i) <= Rank(P, j)
        /\ Rank(P, j) = Rank(P, i) => Upto(P, j) = Upto(P, i)
    BY <2>1, <2>2, FS_Subset DEF Rank
  <2>4. Rank(P, i) # Rank(P, j)
    BY <2>1, <2>2, <2>3
  <2> QED
    BY <1>3, <2>3, <2>4
<1>6. \A k \in 1 .. Cardinality(P) : \E i \in P : Rank(P, i) = k
  <2> DEFINE T == 1 .. Cardinality(P)
             f == [i \in P |-> Rank(P, i)]
  <2>1. f \in [P -> T]
    BY <1>4
  <2>2. \A i, j \in P : f[i] = f[j] => i = j
    <3> SUFFICES ASSUME NEW i \in P, NEW j \in P, Rank(P, i) = Rank(P, j)
                 PROVE  i = j
      OBVIOUS
    <3>1. Rank(P, i) \in Nat /\ i \in Int /\ j \in Int
      BY <1>3
    <3> QED
      BY <1>5, <3>1
  <2>3. IsFiniteSet(T) /\ Cardinality(T) = Cardinality(P)
    BY <1>2, IntervalFinite
  <2>4. f \in Injection(P, T)
    BY <2>1, <2>2 DEF Injection, IsInjective
  <2>5. f \in Surjection(P, T)
    BY <2>3, <2>4, FS_Injection
  <2>6. \A k \in T : \E i \in P : f[i] = k
    BY <2>5 DEF Surjection
  <2> QED
    BY <2>6
<1> QED
  BY <1>2, <1>4, <1>5, <1>6

\* A non-empty set of places has a first one.
LEMMA FirstPlace ==
    ASSUME NEW n \in Nat, NEW P \in SUBSET (1 .. n), P # {}
    PROVE  \E i \in P : \A j \in P : i <= j
<1>1. /\ IsFiniteSet(P) /\ Cardinality(P) \in Nat
      /\ \A i \in P : Rank(P, i) \in 1 .. Cardinality(P)
      /\ \A i, j \in P : i < j => Rank(P, i) < Rank(P, j)
      /\ \A k \in 1 .. Cardinality(P) : \E i \in P : Rank(P, i) = k
  BY Ranks
<1>2. 1 \in 1 .. Cardinality(P)
  BY <1>1, FS_EmptySet
<1>3. PICK i \in P : Rank(P, i) = 1
  BY <1>1, <1>2
<1>4. \A j \in P : ~(j < i)
  BY <1>1, <1>3
<1> QED
  BY <1>4

\* Induction over places.
LEMMA Everywhere ==
    ASSUME NEW n \in Nat, NEW P, 0 \in P, \A k \in 1 .. n : k - 1 \in P => k \in P
    PROVE  \A k \in 0 .. n : k \in P
<1> DEFINE Fails == {k \in 1 .. n : k \notin P}
<1>1. CASE Fails = {}
  <2>1. \A k \in 0 .. n : k = 0 \/ k \in 1 .. n
    OBVIOUS
  <2> QED
    BY <1>1, <2>1
<1>2. CASE Fails # {}
  <2>1. PICK k \in Fails : \A j \in Fails : k <= j
    <3>1. Fails \in SUBSET (1 .. n)
      OBVIOUS
    <3> HIDE DEF Fails
    <3> QED
      BY <1>2, <3>1, FirstPlace
  <2>2. k \in 1 .. n /\ k \notin P
    OBVIOUS
  <2>3. k - 1 = 0 \/ k - 1 \in 1 .. n
    BY <2>2
  <2>4. k - 1 \in P
    BY <2>1, <2>2, <2>3
  <2> QED
    BY <2>2, <2>4
<1> QED
  BY <1>1, <1>2

\* A function defined by recursion on places, and that there is one, with
\* values where the step's are.
Iterates(f, n, base, step) ==
    f = [k \in 0 .. n |-> IF k = 0 THEN base ELSE step[<<k, f[k - 1]>>]]

LEMMA RecursionExists ==
    ASSUME NEW n \in Nat, NEW Y, NEW base \in Y, NEW step \in [(1 .. n) \X Y -> Y]
    PROVE  \E f : Iterates(f, n, base, step) /\ \A k \in 0 .. n : f[k] \in Y
<1> DEFINE Recursive(m, f) ==
               /\ f = [k \in 0 .. m |-> IF k = 0 THEN base ELSE step[<<k, f[k - 1]>>]]
               /\ \A k \in 0 .. m : f[k] \in Y
           P == {m \in 0 .. n : \E f : Recursive(m, f)}
<1>1. 0 \in P
  <2>1. Recursive(0, [k \in 0 .. 0 |-> base])
    <3>1. \A k \in 0 .. 0 : k = 0
      OBVIOUS
    <3> QED
      BY <3>1
  <2>2. 0 \in 0 .. n
    OBVIOUS
  <2> QED
    BY <2>1, <2>2
<1>2. ASSUME NEW m \in 1 .. n, \E f : Recursive(m - 1, f)
      PROVE  \E f : Recursive(m, f)
  <2>1. PICK f : Recursive(m - 1, f)
    BY <1>2
  <2> DEFINE g == [k \in 0 .. m |-> IF k = m THEN step[<<m, f[m - 1]>>] ELSE f[k]]
  <2>2. /\ \A k \in 0 .. m - 1 : /\ k \in 0 .. m /\ k # m /\ g[k] = f[k] /\ f[k] \in Y
                                 /\ f[k] = IF k = 0 THEN base ELSE step[<<k, f[k - 1]>>]
        /\ g[m] = step[<<m, f[m - 1]>>]
    BY <2>1
  <2>3. ASSUME NEW k \in 0 .. m
        PROVE  g[k] = (IF k = 0 THEN base ELSE step[<<k, g[k - 1]>>]) /\ g[k] \in Y
    <3>1. CASE k = m
      <4>1. m - 1 \in 0 .. m - 1 /\ m # 0
        OBVIOUS
      <4>2. f[m - 1] \in Y /\ g[m - 1] = f[m - 1]
        BY <2>2, <4>1
      <4> HIDE DEF g
      <4>3. step[<<m, f[m - 1]>>] \in Y
        BY <4>2
      <4> QED
        BY <2>2, <3>1, <4>1, <4>2, <4>3
    <3>2. CASE k = 0
      <4>1. 0 \in 0 .. m - 1
        OBVIOUS
      <4> QED
        BY <2>2, <3>2, <4>1
    <3>3. CASE k # m /\ k # 0
      <4>1. k \in 0 .. m - 1 /\ k - 1 \in 0 .. m - 1
        BY <3>3
      <4> QED
        BY <2>2, <3>3, <4>1
    <3> QED
      BY <3>1, <3>2, <3>3
  <2>4. g = [k \in 0 .. m |-> g[k]]
    OBVIOUS
  <2> HIDE DEF g
  <2>5. Recursive(m, g)
    BY <2>3, <2>4
  <2> QED
    BY <2>5
<1>3. n \in P
  <2>1. \A m \in 1 .. n : m - 1 \in P => m \in P
    <3>1. \A m \in 1 .. n : m \in 0 .. n
      OBVIOUS
    <3> HIDE DEF Recursive
    <3> QED
      BY <1>2, <3>1
  <2>2. n \in 0 .. n
    OBVIOUS
  <2> HIDE DEF P
  <2> QED
    BY <1>1, <2>1, <2>2, Everywhere
<1> QED
  BY <1>3 DEF Iterates

\* Of a non-empty set of numbered places, one has the smallest key, and comes
\* first among those that do.
LEMMA SmallestKey ==
    ASSUME NEW n \in Nat, NEW P \in SUBSET (1 .. n), P # {}, NEW key \in [1 .. n -> Int]
    PROVE  \E i \in P : \A j \in P \ {i} : key[i] < key[j] \/ (key[i] = key[j] /\ i < j)
<1> DEFINE Smallest(m) == \E i \in P : /\ i <= m
                                       /\ \A j \in P \ {i} :
                                             j <= m => \/ key[i] < key[j]
                                                       \/ key[i] = key[j] /\ i < j
           Fails == {m \in 1 .. n : (\E j \in P : j <= m) /\ ~Smallest(m)}
<1>1. CASE Fails = {}
  <2>1. \A j \in P : j \in 1 .. n /\ j <= n
    OBVIOUS
  <2>2. n \in 1 .. n
    <3>1. PICK j \in P : TRUE
      OBVIOUS
    <3>2. 1 <= j /\ j <= n
      OBVIOUS
    <3> QED
      BY <3>2
  <2>3. Smallest(n)
    BY <1>1, <2>1, <2>2
  <2> QED
    BY <2>1, <2>3
<1>2. CASE Fails # {}
  <2>1. PICK m \in Fails : \A k \in Fails : m <= k
    <3>1. Fails \in SUBSET (1 .. n)
      OBVIOUS
    <3> HIDE DEF Fails
    <3> QED
      BY <1>2, <3>1, FirstPlace
  <2>2. m \in 1 .. n /\ (\E j \in P : j <= m) /\ ~Smallest(m)
    OBVIOUS
  <2>3. \A j \in P : j \in Int /\ 1 <= j /\ key[j] \in Int
    OBVIOUS
  <2>4. CASE \A j \in P : ~(j <= m - 1)
    <3>1. PICK i \in P : i <= m
      BY <2>2
    <3>2. \A j \in P : j <= m => j = i
      BY <2>2, <2>3, <2>4, <3>1
    <3> QED
      BY <2>2, <3>1, <3>2
  <2>5. CASE \E j \in P : j <= m - 1
    <3>1. m - 1 \in 1 .. n
      BY <2>2, <2>3, <2>5
    <3>2. m - 1 \notin Fails
      <4> HIDE DEF Fails
      <4>1. ASSUME m - 1 \in Fails
            PROVE  m <= m - 1
        BY <2>1, <4>1
      <4> QED
        BY <2>2, <4>1
    <3>3. Smallest(m - 1)
      BY <2>5, <3>1, <3>2
    <3>4. PICK i \in P : /\ i <= m - 1
                         /\ \A j \in P \ {i} : j <= m - 1 => \/ key[i] < key[j]
                                                             \/ key[i] = key[j] /\ i < j
      BY <3>3
    <3> HIDE DEF Fails
    <3> m \in Int /\ key[i] \in Int
      BY <2>2, <2>3, <3>4
    <3>5. CASE m \in P /\ key[m] < key[i]
      <4>1. ASSUME NEW j \in P \ {m}, j <= m
            PROVE  key[m] < key[j]
        <5>1. j <= m - 1 /\ key[j] \in Int /\ key[m] \in Int
          BY <2>3, <3>5, <4>1
        <5>2. j = i \/ key[i] < key[j] \/ key[i] = key[j]
          BY <3>4, <5>1
        <5> QED
          BY <3>5, <5>1, <5>2
      <4> QED
        BY <2>2, <3>5, <4>1
    <3>6. CASE ~(m \in P /\ key[m] < key[i])
      <4>1. ASSUME NEW j \in P \ {i}, j <= m
            PROVE  key[i] < key[j] \/ (key[i] = key[j] /\ i < j)
        <5>1. j \in Int /\ i \in Int /\ key[j] \in Int
          BY <2>3
        <5>2. CASE j = m
          BY <3>4, <3>6, <5>1, <5>2
        <5>3. CASE j # m
          <6>1. j <= m - 1
            BY <4>1, <5>1, <5>3
          <6> QED
            BY <3>4, <6>1
        <5> QED
          BY <5>2, <5>3
      <4>2. i <= m
        BY <2>2, <2>3, <3>4
      <4> QED
        BY <2>2, <4>1, <4>2
    <3> QED
      BY <3>5, <3>6
  <2> QED
    BY <2>4, <2>5
<1> QED
  BY <1>1, <1>2
=============================================================================
