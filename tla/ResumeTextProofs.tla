---------------------------- MODULE ResumeTextProofs ----------------------------
(***************************************************************************)
(* The text of a resume on its way through the backend, for texts and      *)
(* documents of any length: the guard over AI-written text lets no number  *)
(* into a resume unaccounted for, cutting the pages of an upload into      *)
(* sections loses no line, and on the way from the saved sections to the   *)
(* font no character is lost, added or repeated, unless a command of the   *)
(* template reads on into a text.                                          *)
(***************************************************************************)
EXTENDS Computations, InterviewRulesProofs, SequenceTheorems

-----------------------------------------------------------------------------
(* The numbers of a text.                                                  *)

\* What is left of a row of digits without the zeros at its end: all of it up
\* to the last other digit.
LEMMA TrailingZeros ==
    ASSUME NEW s \in Seq(0..9)
    PROVE  LET t == WithoutTrailingZeros(s)
           IN  /\ t \in Seq(0..9) /\ Len(t) \in 0 .. Len(s)
               /\ \A i \in 1 .. Len(t) : t[i] = s[i]
               /\ \A i \in Len(t) + 1 .. Len(s) : s[i] = 0
               /\ Len(t) # 0 => t[Len(t)] # 0
<1> DEFINE n == Len(s)
           others == {i \in DOMAIN s : s[i] # 0}
           m == Max({0} \union others)
           t == WithoutTrailingZeros(s)
<1>1. n \in Nat /\ DOMAIN s = 1 .. n /\ others \in SUBSET (1 .. n)
  BY LenProperties
<1>2. m \in {0} \union others /\ \A i \in {0} \union others : m >= i
  <2>1. \E x \in {0} \union others : \A y \in {0} \union others : x >= y
    <3>1. CASE others = {}
      BY <3>1
    <3>2. CASE others # {}
      <4> DEFINE key == [i \in 1 .. n |-> 0 - i]
      <4>1. key \in [1 .. n -> Int] /\ \A i \in 1 .. n : key[i] = 0 - i
        OBVIOUS
      <4> HIDE DEF key, others
      <4>2. PICK x \in others : \A y \in others \ {x} : key[x] < key[y] \/ (key[x] = key[y] /\ x < y)
        BY <1>1, <3>2, <4>1, SmallestKey
      <4>3. \A y \in others : y \in 1 .. n /\ x \in 1 .. n
        BY <1>1
      <4>4. ASSUME NEW y \in {0} \union others
            PROVE  x >= y
        BY <4>1, <4>2, <4>3, <4>4
      <4> QED
        BY <4>4
    <3> QED
      BY <3>1, <3>2
  <2> HIDE DEF others
  <2> QED
    BY <2>1 DEF Max
<1>3. t = SubSeq(s, 1, m)
  BY DEF WithoutTrailingZeros
<1>4. m \in 0 .. n /\ (m # 0 => s[m] # 0)
  BY <1>1, <1>2
<1>5. \A i \in m + 1 .. n : s[i] = 0
  BY <1>1, <1>2, <1>4
<1> HIDE DEF m, t, others
<1>6. t \in Seq(0..9) /\ Len(t) = m /\ \A i \in 1 .. m : t[i] = s[i]
  BY <1>1, <1>3, <1>4
<1> QED
  BY <1>4, <1>5, <1>6 DEF t

\* And without the zeros at its start: all of it from the first other digit on.
LEMMA LeadingZeros ==
    ASSUME NEW s \in Seq(0..9)
    PROVE  LET t == WithoutLeadingZeros(s)
               k == Len(s) - Len(t)
           IN  /\ t \in Seq(0..9) /\ Len(t) \in 0 .. Len(s)
               /\ \A i \in 1 .. Len(t) : t[i] = s[i + k]
               /\ \A i \in 1 .. k : s[i] = 0
               /\ Len(t) # 0 => t[1] # 0
<1> DEFINE n == Len(s)
           others == {i \in DOMAIN s : s[i] # 0}
           m == Min({n + 1} \union others)
           t == WithoutLeadingZeros(s)
<1>1. n \in Nat /\ DOMAIN s = 1 .. n /\ others \in SUBSET (1 .. n)
  BY LenProperties
<1>2. m \in {n + 1} \union others /\ \A i \in {n + 1} \union others : m <= i
  <2>1. \E x \in {n + 1} \union others : \A y \in {n + 1} \union others : x <= y
    <3>1. CASE others = {}
      BY <1>1, <3>1
    <3>2. CASE others # {}
      <4> HIDE DEF others
      <4>1. PICK x \in others : \A y \in others : x <= y
        BY <1>1, <3>2, FirstPlace
      <4>2. x <= n + 1
        BY <1>1
      <4> QED
        BY <4>1, <4>2
    <3> QED
      BY <3>1, <3>2
  <2> HIDE DEF others
  <2> QED
    BY <2>1 DEF Min
<1>3. t = SubSeq(s, m, n)
  BY DEF WithoutLeadingZeros
<1>4. m \in 1 .. n + 1 /\ (m # n + 1 => s[m] # 0)
  BY <1>1, <1>2
<1>5. \A i \in 1 .. m - 1 : s[i] = 0
  <2> SUFFICES ASSUME NEW i \in 1 .. m - 1, s[i] # 0
               PROVE  FALSE
    OBVIOUS
  <2>1. i \in 1 .. n /\ i < m
    BY <1>1, <1>4
  <2>2. m <= i
    BY <1>1, <1>2, <2>1
  <2> QED
    BY <1>4, <2>1, <2>2
<1> HIDE DEF m, t, others
<1>6. t \in Seq(0..9) /\ Len(t) = n - m + 1 /\ \A i \in 1 .. n - m + 1 : t[i] = s[i + (m - 1)]
  BY <1>1, <1>3, <1>4
<1>7. n - Len(t) = m - 1 /\ Len(t) \in 0 .. n
  BY <1>1, <1>4, <1>6
<1>8. Len(t) # 0 => t[1] # 0
  <2> SUFFICES ASSUME Len(t) # 0
               PROVE  t[1] # 0
    OBVIOUS
  <2>1. m # n + 1 /\ 1 \in 1 .. n - m + 1 /\ 1 + (m - 1) = m
    BY <1>1, <1>4, <1>6
  <2> QED
    BY <1>4, <1>6, <2>1
<1> QED
  BY <1>5, <1>6, <1>7, <1>8 DEF t

\* The digits other than zero of the whole part, with their places.
Above(s) == {<<Len(s) - i, s[i]>> : i \in {j \in DOMAIN s : s[j] # 0}}
\* Those after the point.
Below(s) == {<<0 - i, s[i]>> : i \in {j \in DOMAIN s : s[j] # 0}}

LEMMA ValueIs ==
    ASSUME NEW number
    PROVE  Value(number) = Above(number.whole) \union Below(number.fraction)
  BY DEF Value, Above, Below

\* The zeros left out do not count.
LEMMA ZerosDoNotCount ==
    ASSUME NEW s \in Seq(0..9)
    PROVE  Above(WithoutLeadingZeros(s)) = Above(s) /\ Below(WithoutTrailingZeros(s)) = Below(s)
<1>0. Len(s) \in Nat /\ DOMAIN s = 1 .. Len(s)
  BY LenProperties
<1>1. Above(WithoutLeadingZeros(s)) = Above(s)
  <2> DEFINE t == WithoutLeadingZeros(s)
             k == Len(s) - Len(t)
  <2>1. /\ t \in Seq(0..9) /\ Len(t) \in 0 .. Len(s)
        /\ \A i \in 1 .. Len(t) : t[i] = s[i + k]
        /\ \A i \in 1 .. k : s[i] = 0
    BY LeadingZeros
  <2> HIDE DEF t
  <2>2. DOMAIN t = 1 .. Len(t) /\ Len(t) \in Nat /\ k \in Nat
    BY <1>0, <2>1, LenProperties
  <2>3. ASSUME NEW p \in Above(t)
        PROVE  p \in Above(s)
    <3>1. PICK i \in 1 .. Len(t) : t[i] # 0 /\ p = <<Len(t) - i, t[i]>>
      BY <2>2 DEF Above
    <3>2. /\ i + k \in 1 .. Len(s) /\ s[i + k] = t[i]
          /\ Len(s) - (i + k) = Len(t) - i
      BY <1>0, <2>1, <2>2
    <3> QED
      BY <1>0, <3>1, <3>2 DEF Above
  <2>4. ASSUME NEW p \in Above(s)
        PROVE  p \in Above(t)
    <3>1. PICK i \in 1 .. Len(s) : s[i] # 0 /\ p = <<Len(s) - i, s[i]>>
      BY <1>0 DEF Above
    <3>2. i \notin 1 .. k
      BY <2>1, <3>1
    <3>3. i - k \in 1 .. Len(t) /\ (i - k) + k = i
      BY <1>0, <2>1, <2>2, <3>2
    <3>4. t[i - k] = s[i] /\ Len(t) - (i - k) = Len(s) - i
      BY <1>0, <2>1, <2>2, <3>3
    <3> QED
      BY <2>2, <3>1, <3>3, <3>4 DEF Above
  <2>5. Above(t) \in SUBSET Above(s) /\ Above(s) \in SUBSET Above(t)
    <3> HIDE DEF Above
    <3> QED
      BY <2>3, <2>4
  <2> HIDE DEF Above
  <2>6. Above(t) = Above(s)
    BY <2>5
  <2> QED
    BY <2>6 DEF t
<1>2. Below(WithoutTrailingZeros(s)) = Below(s)
  <2> DEFINE t == WithoutTrailingZeros(s)
  <2>1. /\ t \in Seq(0..9) /\ Len(t) \in 0 .. Len(s)
        /\ \A i \in 1 .. Len(t) : t[i] = s[i]
        /\ \A i \in Len(t) + 1 .. Len(s) : s[i] = 0
    BY TrailingZeros
  <2> HIDE DEF t
  <2>2. DOMAIN t = 1 .. Len(t) /\ Len(t) \in Nat
    BY LenProperties, <2>1
  <2>3. \A i \in DOMAIN t : i \in DOMAIN s /\ t[i] = s[i]
    BY <1>0, <2>1, <2>2
  <2>4. \A i \in DOMAIN s : s[i] # 0 => i \in DOMAIN t /\ t[i] = s[i]
    <3> SUFFICES ASSUME NEW i \in 1 .. Len(s), s[i] # 0
                 PROVE  i \in 1 .. Len(t) /\ t[i] = s[i]
      BY <1>0, <2>2
    <3>1. i \notin Len(t) + 1 .. Len(s)
      BY <2>1
    <3> QED
      BY <1>0, <2>1, <2>2, <3>1
  <2>5. ASSUME NEW p \in Below(t)
        PROVE  p \in Below(s)
    <3>1. PICK i \in DOMAIN t : t[i] # 0 /\ p = <<0 - i, t[i]>>
      BY DEF Below
    <3> QED
      BY <2>3, <3>1 DEF Below
  <2>6. ASSUME NEW p \in Below(s)
        PROVE  p \in Below(t)
    <3>1. PICK i \in DOMAIN s : s[i] # 0 /\ p = <<0 - i, s[i]>>
      BY DEF Below
    <3> QED
      BY <2>4, <3>1 DEF Below
  <2> HIDE DEF Below
  <2>7. Below(t) \in SUBSET Below(s) /\ Below(s) \in SUBSET Below(t)
    BY <2>5, <2>6
  <2>8. Below(t) = Below(s)
    BY <2>7
  <2> QED
    BY <2>8 DEF t
<1> QED
  BY <1>1, <1>2

\* Rows without superfluous zeros that count alike are the same.
LEMMA WholePartIs ==
    ASSUME NEW s \in Seq(0..9), NEW t \in Seq(0..9), Above(s) = Above(t),
           Len(s) # 0 => s[1] # 0, Len(t) # 0 => t[1] # 0
    PROVE  s = t
<1>1. /\ Len(s) \in Nat /\ DOMAIN s = 1 .. Len(s) /\ Len(t) \in Nat /\ DOMAIN t = 1 .. Len(t)
  BY LenProperties
<1>2. ASSUME NEW a \in Seq(0..9), NEW b \in Seq(0..9), Above(a) = Above(b),
             NEW i \in 1 .. Len(a), a[i] # 0
      PROVE  \E j \in 1 .. Len(b) : Len(b) - j = Len(a) - i /\ b[j] = a[i]
  <2>1. DOMAIN a = 1 .. Len(a) /\ DOMAIN b = 1 .. Len(b)
    BY LenProperties
  <2>2. <<Len(a) - i, a[i]>> \in Above(b)
    BY <1>2, <2>1 DEF Above
  <2> QED
    BY <2>1, <2>2 DEF Above
<1>3. Len(s) = Len(t)
  <2>1. CASE Len(s) # 0
    <3>1. 1 \in 1 .. Len(s)
      BY <1>1, <2>1
    <3>2. PICK j \in 1 .. Len(t) : Len(t) - j = Len(s) - 1
      BY <1>2, <2>1, <3>1
    <3>3. 1 \in 1 .. Len(t) /\ t[1] # 0
      BY <1>1, <3>2
    <3>4. PICK i \in 1 .. Len(s) : Len(s) - i = Len(t) - 1
      BY <1>2, <3>3
    <3>5. j >= 1 /\ i >= 1 /\ Len(t) = Len(s) - 1 + j /\ Len(s) = Len(t) - 1 + i
      BY <1>1, <3>2, <3>4
    <3> QED
      BY <1>1, <3>5
  <2>2. CASE Len(s) = 0
    <3>1. CASE Len(t) = 0
      BY <2>2, <3>1
    <3>2. CASE Len(t) # 0
      <4>1. 1 \in 1 .. Len(t) /\ t[1] # 0
        BY <1>1, <3>2
      <4>2. \E i \in 1 .. Len(s) : Len(s) - i = Len(t) - 1
        BY <1>2, <4>1
      <4> QED
        BY <1>1, <2>2, <4>2
    <3> QED
      BY <3>1, <3>2
  <2> QED
    BY <2>1, <2>2
<1>4. ASSUME NEW i \in 1 .. Len(s)
      PROVE  s[i] = t[i]
  <2>1. CASE s[i] # 0
    <3>1. PICK j \in 1 .. Len(t) : Len(t) - j = Len(s) - i /\ t[j] = s[i]
      BY <1>2, <2>1
    <3>2. j = i
      BY <1>1, <1>3, <3>1
    <3> QED
      BY <3>1, <3>2
  <2>2. CASE s[i] = 0
    <3>1. CASE t[i] = 0
      BY <2>2, <3>1
    <3>2. CASE t[i] # 0
      <4>1. i \in 1 .. Len(t)
        BY <1>3
      <4>2. PICK j \in 1 .. Len(s) : Len(s) - j = Len(t) - i /\ s[j] = t[i]
        BY <1>2, <3>2, <4>1
      <4>3. j = i
        BY <1>1, <1>3, <4>2
      <4> QED
        BY <4>2, <4>3
    <3> QED
      BY <3>1, <3>2
  <2> QED
    BY <2>1, <2>2
<1> QED
  BY <1>3, <1>4, SeqEqual

LEMMA FractionIs ==
    ASSUME NEW s \in Seq(0..9), NEW t \in Seq(0..9), Below(s) = Below(t),
           Len(s) # 0 => s[Len(s)] # 0, Len(t) # 0 => t[Len(t)] # 0
    PROVE  s = t
<1>1. /\ Len(s) \in Nat /\ DOMAIN s = 1 .. Len(s) /\ Len(t) \in Nat /\ DOMAIN t = 1 .. Len(t)
  BY LenProperties
<1>2. ASSUME NEW a \in Seq(0..9), NEW b \in Seq(0..9), Below(a) = Below(b),
             NEW i \in 1 .. Len(a), a[i] # 0
      PROVE  i \in 1 .. Len(b) /\ b[i] = a[i]
  <2>1. DOMAIN a = 1 .. Len(a) /\ DOMAIN b = 1 .. Len(b)
    BY LenProperties
  <2>2. <<0 - i, a[i]>> \in Below(b)
    BY <1>2, <2>1 DEF Below
  <2>3. PICK j \in 1 .. Len(b) : 0 - j = 0 - i /\ b[j] = a[i]
    BY <2>1, <2>2 DEF Below
  <2>4. j = i
    BY <2>3
  <2> QED
    BY <2>3, <2>4
<1>3. Len(s) = Len(t)
  <2>1. Len(s) # 0 => Len(s) \in 1 .. Len(s) /\ Len(s) \in 1 .. Len(t)
    BY <1>1, <1>2
  <2>2. Len(t) # 0 => Len(t) \in 1 .. Len(t) /\ Len(t) \in 1 .. Len(s)
    BY <1>1, <1>2
  <2>3. (Len(s) # 0 => Len(s) <= Len(t)) /\ (Len(t) # 0 => Len(t) <= Len(s))
    BY <1>1, <2>1, <2>2
  <2> DEFINE n == Len(s)
             m == Len(t)
  <2>4. n \in Nat /\ m \in Nat /\ (n # 0 => n <= m) /\ (m # 0 => m <= n)
    BY <1>1, <2>3
  <2> HIDE DEF n, m
  <2>5. n = m
    BY <2>4
  <2> QED
    BY <2>5 DEF n, m
<1>4. ASSUME NEW i \in 1 .. Len(s)
      PROVE  s[i] = t[i]
  <2>1. CASE s[i] # 0
    BY <1>2, <2>1
  <2>2. CASE s[i] = 0
    <3>1. i \in 1 .. Len(t)
      BY <1>3
    <3>2. t[i] # 0 => s[i] = t[i]
      BY <1>2, <3>1
    <3> QED
      BY <2>2, <3>2
  <2> QED
    BY <2>1, <2>2
<1> QED
  BY <1>3, <1>4, SeqEqual

\* Two spellings have the same normal form exactly when they have the same value.
LEMMA NormalFormIsValue ==
    ASSUME NEW a \in Spellings
    PROVE  /\ NormalizeNumber(a) \in Spellings
           /\ Value(NormalizeNumber(a)) = Value(a)
           /\ \A b \in Spellings :
                 Value(a) = Value(b) <=> NormalizeNumber(a) = NormalizeNumber(b)
<1> DEFINE W(n) == WithoutLeadingZeros(n.whole)
           F(n) == WithoutTrailingZeros(n.fraction)
<1>1. ASSUME NEW n \in Spellings
      PROVE  /\ n.whole \in Seq(0..9) /\ n.fraction \in Seq(0..9)
             /\ W(n) \in Seq(0..9) /\ F(n) \in Seq(0..9)
             /\ Above(W(n)) = Above(n.whole) /\ Below(F(n)) = Below(n.fraction)
  <2>1. n.whole \in Seq(0..9) /\ n.fraction \in Seq(0..9)
    BY DEF Spellings
  <2> QED
    BY <2>1, LeadingZeros, TrailingZeros, ZerosDoNotCount
<1>2. ASSUME NEW n \in Spellings
      PROVE  NormalizeNumber(n) \in Spellings /\ Value(NormalizeNumber(n)) = Value(n)
  <2>1. CASE W(n) = <<>> /\ F(n) = <<>>
    <3> DEFINE zero == [whole |-> <<0>>, fraction |-> <<>>]
    <3>1. NormalizeNumber(n) = zero
      BY <2>1 DEF NormalizeNumber
    <3>2. zero \in Spellings
      BY DEF Spellings
    <3>3. Above(<<0>>) = {} /\ Above(<<>>) = {} /\ Below(<<>>) = {}
      BY DEF Above, Below
    <3>4. Value(zero) = {} /\ Value(n) = {}
      BY <1>1, <2>1, <3>3, ValueIs
    <3> QED
      BY <3>1, <3>2, <3>4
  <2>2. CASE ~(W(n) = <<>> /\ F(n) = <<>>)
    <3>1. NormalizeNumber(n) = [whole |-> W(n), fraction |-> F(n)]
      BY <2>2 DEF NormalizeNumber
    <3>2. [whole |-> W(n), fraction |-> F(n)] \in Spellings
      BY <1>1 DEF Spellings
    <3> QED
      BY <1>1, <3>1, <3>2, ValueIs
  <2> QED
    BY <2>1, <2>2
<1>3. ASSUME NEW b \in Spellings, Value(a) = Value(b)
      PROVE  NormalizeNumber(a) = NormalizeNumber(b)
  <2>1. ASSUME NEW x \in Spellings, NEW y \in Spellings, Value(x) = Value(y)
        PROVE  Above(x.whole) \in SUBSET Above(y.whole) /\ Below(x.fraction) \in SUBSET Below(y.fraction)
    <3>1. ASSUME NEW s \in Seq(0..9)
          PROVE  /\ \A p \in Above(s) : p[1] >= 0
                 /\ \A p \in Below(s) : ~(p[1] >= 0)
      <4>1. DOMAIN s = 1 .. Len(s) /\ Len(s) \in Nat
        BY LenProperties
      <4> QED
        BY <4>1 DEF Above, Below
    <3>2. Above(x.whole) \union Below(x.fraction) = Above(y.whole) \union Below(y.fraction)
      BY <2>1, ValueIs
    <3>3. /\ \A p \in Above(x.whole) : p \notin Below(y.fraction)
          /\ \A p \in Below(x.fraction) : p \notin Above(y.whole)
      <4>1. /\ x.whole \in Seq(0..9) /\ x.fraction \in Seq(0..9)
            /\ y.whole \in Seq(0..9) /\ y.fraction \in Seq(0..9)
        BY <1>1
      <4> HIDE DEF Above, Below
      <4> QED
        BY <3>1, <4>1
    <3> HIDE DEF Above, Below
    <3> QED
      BY <3>2, <3>3
  <2>2. /\ Above(a.whole) \in SUBSET Above(b.whole) /\ Above(b.whole) \in SUBSET Above(a.whole)
        /\ Below(a.fraction) \in SUBSET Below(b.fraction) /\ Below(b.fraction) \in SUBSET Below(a.fraction)
    <3>1. Value(b) = Value(a)
      BY <1>3
    <3> HIDE DEF Above, Below
    <3> QED
      BY <1>3, <2>1, <3>1
  <2>2a. Above(a.whole) = Above(b.whole) /\ Below(a.fraction) = Below(b.fraction)
    <3> HIDE DEF Above, Below
    <3> QED
      BY <2>2
  <2>3. W(a) = W(b)
    BY <1>1, <2>2a, LeadingZeros, WholePartIs
  <2>4. F(a) = F(b)
    BY <1>1, <2>2a, TrailingZeros, FractionIs
  <2> HIDE DEF W, F
  <2> QED
    BY <2>3, <2>4 DEF NormalizeNumber, W, F
<1> QED
  BY <1>2, <1>3

LEMMA UnsupportedChosen ==
    ASSUME NEW text, NEW sourceNumbers
    PROVE  FindUnsupportedNumbers(text, sourceNumbers) =
              (CHOOSE found : found =
                 [i \in 0 .. Len(text) |->
                    IF i = 0 THEN <<>>
                    ELSE LET n == NormalizeNumber(text[i].number)
                         IN  IF text[i].bracketed \/ n \in sourceNumbers \union ToSet(found[i - 1])
                             THEN found[i - 1] ELSE Append(found[i - 1], n)])[Len(text)]
  BY DEF FindUnsupportedNumbers

\* The normal forms claimed by the first k numbers of a text.
ClaimedBy(text, k) ==
    {NormalizeNumber(text[i].number) : i \in {j \in 1 .. k : ~text[j].bracketed}}

NoneTwice(s) == \A i, j \in 1 .. Len(s) : s[i] = s[j] => i = j

LEMMA AppendedSet ==
    ASSUME NEW X, NEW s \in Seq(X), NEW x \in X
    PROVE  ToSet(Append(s, x)) = ToSet(s) \union {x}
<1> DEFINE t == Append(s, x)
           n == Len(s)
<1>1. /\ t \in Seq(X) /\ Len(t) = n + 1 /\ n \in Nat /\ DOMAIN s = 1 .. n /\ DOMAIN t = 1 .. n + 1
      /\ t[n + 1] = x /\ \A i \in 1 .. n : t[i] = s[i]
  BY AppendProperties, LenProperties
<1> HIDE DEF t, n
<1>2. ToSet(s) = {s[i] : i \in 1 .. n} /\ ToSet(t) = {t[i] : i \in 1 .. n + 1}
  BY <1>1 DEF ToSet
<1>3. n + 1 \in 1 .. n + 1 /\ \A i \in 1 .. n + 1 : i \in 1 .. n \/ i = n + 1
  BY <1>1
<1>4. \A i \in 1 .. n : i \in 1 .. n + 1
  BY <1>1
<1>5. ToSet(t) = ToSet(s) \union {x}
  BY <1>1, <1>2, <1>3, <1>4
<1> QED
  BY <1>5 DEF t

LEMMA AppendedOnce ==
    ASSUME NEW X, NEW s \in Seq(X), NEW x \in X, x \notin ToSet(s), NoneTwice(s)
    PROVE  /\ Append(s, x) \in Seq(X)
           /\ ToSet(Append(s, x)) = ToSet(s) \union {x}
           /\ NoneTwice(Append(s, x))
<1> DEFINE t == Append(s, x)
           n == Len(s)
<1>1. /\ t \in Seq(X) /\ Len(t) = n + 1 /\ n \in Nat /\ DOMAIN s = 1 .. n /\ DOMAIN t = 1 .. n + 1
      /\ t[n + 1] = x /\ \A i \in 1 .. n : t[i] = s[i]
  BY AppendProperties, LenProperties
<1> HIDE DEF t, n
<1>2. ToSet(s) = {s[i] : i \in 1 .. n}
  BY <1>1 DEF ToSet
<1>3. ToSet(t) = ToSet(s) \union {x}
  BY AppendedSet DEF t
<1>4. NoneTwice(t)
  <2> SUFFICES ASSUME NEW i \in 1 .. n + 1, NEW j \in 1 .. n + 1, t[i] = t[j]
               PROVE  i = j
    BY <1>1 DEF NoneTwice
  <2>1. \A k \in 1 .. n : t[k] # x
    BY <1>1, <1>2
  <2>2. CASE i \in 1 .. n /\ j \in 1 .. n
    BY <1>1, <2>2 DEF NoneTwice, n
  <2>3. CASE i = n + 1
    <3>1. j \notin 1 .. n
      BY <1>1, <2>1, <2>3
    <3> QED
      BY <1>1, <2>3, <3>1
  <2>4. CASE j = n + 1
    <3>1. i \notin 1 .. n
      BY <1>1, <2>1, <2>4
    <3> QED
      BY <1>1, <2>4, <3>1
  <2> QED
    BY <1>1, <2>2, <2>3, <2>4
<1> QED
  BY <1>1, <1>3, <1>4 DEF t

\* The flags of a text are the normal forms it claims outside placeholders that
\* are not among the source's, each one once.
LEMMA FlagsAre ==
    ASSUME NEW text \in Texts, NEW sourceNumbers
    PROVE  /\ FindUnsupportedNumbers(text, sourceNumbers) \in Seq(Spellings)
           /\ ToSet(FindUnsupportedNumbers(text, sourceNumbers)) =
                 ClaimedBy(text, Len(text)) \ sourceNumbers
           /\ NoneTwice(FindUnsupportedNumbers(text, sourceNumbers))
<1> DEFINE n == Len(text)
           N(i) == NormalizeNumber(text[i].number)
           next(i, s) == IF text[i].bracketed \/ N(i) \in sourceNumbers \union ToSet(s)
                         THEN s ELSE Append(s, N(i))
           step == [x \in (1 .. n) \X Seq(Spellings) |-> next(x[1], x[2])]
           Chosen(f) == f = [i \in 0 .. n |-> IF i = 0 THEN <<>> ELSE next(i, f[i - 1])]
           Fine(k, s) == /\ s \in Seq(Spellings)
                         /\ ToSet(s) = ClaimedBy(text, k) \ sourceNumbers
                         /\ NoneTwice(s)
<1>1. n \in Nat /\ \A i \in 1 .. n : text[i].number \in Spellings /\ N(i) \in Spellings
  <2>1. n \in Nat /\ \A i \in 1 .. n : text[i] \in [number : Spellings, bracketed : BOOLEAN]
    BY LenProperties, ElementOfSeq DEF Texts
  <2>2. \A i \in 1 .. n : text[i].number \in Spellings
    BY <2>1
  <2> QED
    BY <2>1, <2>2, NormalFormIsValue
<1>2. ASSUME NEW i \in 1 .. n, NEW s, Fine(i - 1, s)
      PROVE  Fine(i, next(i, s))
  <2>1. ClaimedBy(text, i) = IF text[i].bracketed THEN ClaimedBy(text, i - 1)
                             ELSE ClaimedBy(text, i - 1) \union {N(i)}
    <3>1. /\ \A j \in 1 .. i : j \in 1 .. i - 1 \/ j = i
          /\ i \in 1 .. i /\ \A j \in 1 .. i - 1 : j \in 1 .. i
      BY <1>1
    <3> QED
      BY <3>1 DEF ClaimedBy
  <2>2. CASE text[i].bracketed
    BY <1>2, <2>1, <2>2
  <2>3. CASE ~text[i].bracketed /\ N(i) \in sourceNumbers \union ToSet(s)
    BY <1>2, <2>1, <2>3
  <2>4. CASE ~text[i].bracketed /\ N(i) \notin sourceNumbers \union ToSet(s)
    <3>1. next(i, s) = Append(s, N(i))
      BY <2>4
    <3>2. Append(s, N(i)) \in Seq(Spellings) /\ NoneTwice(Append(s, N(i)))
          /\ ToSet(Append(s, N(i))) = ToSet(s) \union {N(i)}
      BY <1>1, <1>2, <2>4, AppendedOnce
    <3> QED
      BY <1>2, <2>1, <2>4, <3>1, <3>2
  <2> QED
    BY <2>2, <2>3, <2>4
<1>3. Fine(0, <<>>)
  <2>1. ClaimedBy(text, 0) = {} /\ ToSet(<<>>) = {} /\ NoneTwice(<<>>)
    BY DEF ClaimedBy, ToSet, NoneTwice
  <2> QED
    BY <2>1
<1>4. step \in [(1 .. n) \X Seq(Spellings) -> Seq(Spellings)]
  <2>1. ASSUME NEW k \in 1 .. n, NEW s \in Seq(Spellings)
        PROVE  next(k, s) \in Seq(Spellings)
    BY <1>1
  <2> HIDE DEF next
  <2>2. \A x \in (1 .. n) \X Seq(Spellings) : next(x[1], x[2]) \in Seq(Spellings)
    BY <2>1
  <2> QED
    BY <2>2
<1>5. ASSUME NEW k \in 1 .. n, NEW s \in Seq(Spellings)
      PROVE  step[<<k, s>>] = next(k, s)
  <2> HIDE DEF next
  <2> QED
    OBVIOUS
<1>6. PICK f : Iterates(f, n, <<>>, step) /\ \A k \in 0 .. n : f[k] \in Seq(Spellings)
  <2>1. n \in Nat /\ <<>> \in Seq(Spellings)
    BY <1>1
  <2> HIDE DEF step, n
  <2> QED
    BY <1>4, <2>1, RecursionExists
<1>7. Chosen(f)
  <2>1. ASSUME NEW i \in 0 .. n, i # 0
        PROVE  step[<<i, f[i - 1]>>] = next(i, f[i - 1])
    <3>1. i \in 1 .. n /\ i - 1 \in 0 .. n
      BY <1>1, <2>1
    <3> HIDE DEF step, next
    <3> QED
      BY <1>5, <1>6, <3>1
  <2> HIDE DEF step, next
  <2> QED
    BY <1>6, <2>1 DEF Iterates
<1> DEFINE g == CHOOSE found : Chosen(found)
<1>8. Chosen(g)
  <2> HIDE DEF Chosen
  <2> QED
    BY <1>7
<1>9. FindUnsupportedNumbers(text, sourceNumbers) = g[n]
  BY UnsupportedChosen
<1> HIDE DEF g
<1>10. \A k \in 0 .. n : Fine(k, g[k])
  <2> DEFINE P == {k \in 0 .. n : Fine(k, g[k])}
  <2>1. 0 \in P
    <3>1. 0 \in 0 .. n
      BY <1>1
    <3>2. g[0] = <<>>
      BY <1>8, <3>1
    <3> QED
      BY <1>3, <3>1, <3>2
  <2>2. \A k \in 1 .. n : k - 1 \in P => k \in P
    <3> SUFFICES ASSUME NEW k \in 1 .. n, Fine(k - 1, g[k - 1])
                 PROVE  k \in 0 .. n /\ Fine(k, g[k])
      OBVIOUS
    <3>1. k \in 0 .. n /\ k # 0
      BY <1>1
    <3>2. g[k] = next(k, g[k - 1])
      <4> HIDE DEF next
      <4> QED
        BY <1>8, <3>1
    <3> HIDE DEF Fine, next
    <3> QED
      BY <1>2, <3>1, <3>2
  <2>3. \A k \in 0 .. n : k \in P
    <3> HIDE DEF P
    <3> QED
      BY <1>1, <2>1, <2>2, Everywhere
  <2> QED
    BY <2>3
<1>11. Fine(n, g[n])
  <2>1. n \in 0 .. n
    BY <1>1
  <2> QED
    BY <1>10, <2>1
<1> QED
  BY <1>9, <1>11

Claims(text) == {text[i].number : i \in {j \in DOMAIN text : ~text[j].bracketed}}
Bracketed(text) == {text[i].number : i \in {j \in DOMAIN text : text[j].bracketed}}

LEMMA TextNumbers ==
    ASSUME NEW text \in Texts
    PROVE  /\ DOMAIN text = 1 .. Len(text) /\ Len(text) \in Nat
           /\ NumbersIn(text) \in SUBSET Spellings
           /\ NumbersIn(text) = Claims(text) \union Bracketed(text)
<1>1. Len(text) \in Nat /\ DOMAIN text = 1 .. Len(text)
      /\ \A i \in 1 .. Len(text) : text[i] \in [number : Spellings, bracketed : BOOLEAN]
  BY LenProperties, ElementOfSeq DEF Texts
<1>2. \A i \in DOMAIN text : text[i].number \in Spellings
  BY <1>1
<1> QED
  BY <1>1, <1>2 DEF NumbersIn, Claims, Bracketed

\* As many values as places, when no two places have the same.
LEMMA CountedOnce ==
    ASSUME NEW s, Len(s) \in Nat, DOMAIN s = 1 .. Len(s),
           \A i, j \in 1 .. Len(s) : Value(s[i]) = Value(s[j]) => i = j
    PROVE  Cardinality(Values(ToSet(s))) = Len(s)
<1> DEFINE P == 1 .. Len(s)
           T == Values(ToSet(s))
           f == [i \in P |-> Value(s[i])]
<1>1. T = {Value(s[i]) : i \in P}
  BY DEF Values, ToSet
<1>2. \A i \in P : f[i] = Value(s[i])
  OBVIOUS
<1>3. f \in [P -> T]
  BY <1>1
<1> HIDE DEF f, T
<1>4. f \in Injection(P, T)
  <2>1. ASSUME NEW i \in P, NEW j \in P, f[i] = f[j]
        PROVE  i = j
    BY <1>2, <2>1
  <2> QED
    BY <1>3, <2>1 DEF Injection, IsInjective
<1>5. f \in Surjection(P, T)
  BY <1>1, <1>2, <1>3 DEF Surjection
<1>6. ExistsBijection(P, T)
  BY <1>4, <1>5 DEF ExistsBijection, Bijection
<1>7. IsFiniteSet(P) /\ Cardinality(P) = Len(s)
  BY FS_Interval
<1> HIDE DEF P
<1>8. Cardinality(T) = Len(s)
  BY <1>6, <1>7, FS_Bijection
<1> QED
  BY <1>8 DEF T

\* By value, the flags of a text are what it claims and the source does not
\* state, and as many as there are.
LEMMA FlagsByValue ==
    ASSUME NEW text \in Texts, NEW stated \in SUBSET Spellings
    PROVE  LET flags == FindUnsupportedNumbers(text, ExtractNumbers(stated))
           IN  /\ flags \in Seq(Spellings)
               /\ Values(ToSet(flags)) = Values(Claims(text)) \ Values(stated)
               /\ Cardinality(Values(ToSet(flags))) = Len(flags)
<1> DEFINE flags == FindUnsupportedNumbers(text, ExtractNumbers(stated))
           N(c) == NormalizeNumber(c)
<1>1. DOMAIN text = 1 .. Len(text) /\ Claims(text) \in SUBSET Spellings
  BY TextNumbers
<1>2. /\ flags \in Seq(Spellings) /\ NoneTwice(flags)
      /\ ToSet(flags) = {N(c) : c \in Claims(text)} \ ExtractNumbers(stated)
  <2>1. ClaimedBy(text, Len(text)) = {N(c) : c \in Claims(text)}
    BY <1>1 DEF ClaimedBy, Claims
  <2> QED
    BY <2>1, FlagsAre
<1> HIDE DEF flags
<1>3. \A c \in Spellings : N(c) \in ExtractNumbers(stated) <=> Value(c) \in Values(stated)
  <2> SUFFICES ASSUME NEW c \in Spellings
               PROVE  (\E b \in stated : N(c) = N(b)) <=> (\E b \in stated : Value(c) = Value(b))
    BY DEF ExtractNumbers, Values
  <2>1. \A b \in stated : Value(c) = Value(b) <=> N(c) = N(b)
    BY NormalFormIsValue
  <2> QED
    BY <2>1
<1>4. \A c \in Spellings : Value(N(c)) = Value(c)
  BY NormalFormIsValue
<1> HIDE DEF N
<1>5. Values(ToSet(flags)) = Values(Claims(text)) \ Values(stated)
  <2>1. ASSUME NEW v \in Values(ToSet(flags))
        PROVE  v \in Values(Claims(text)) \ Values(stated)
    <3>1. PICK f \in ToSet(flags) : v = Value(f)
      BY DEF Values
    <3>2. PICK c \in Claims(text) : f = N(c)
      BY <1>2
    <3>3. v = Value(c) /\ c \in Spellings /\ N(c) \notin ExtractNumbers(stated)
      BY <1>1, <1>2, <1>4, <3>1, <3>2
    <3>4. v \notin Values(stated)
      BY <1>3, <3>3
    <3> QED
      BY <3>2, <3>3, <3>4 DEF Values
  <2>2. ASSUME NEW v \in Values(Claims(text)), v \notin Values(stated)
        PROVE  v \in Values(ToSet(flags))
    <3>1. PICK c \in Claims(text) : v = Value(c)
      BY DEF Values
    <3>2. N(c) \notin ExtractNumbers(stated) /\ Value(N(c)) = v
      BY <1>1, <1>3, <1>4, <2>2, <3>1
    <3>3. N(c) \in ToSet(flags)
      BY <1>2, <3>2
    <3> QED
      BY <3>2, <3>3 DEF Values
  <2> QED
    BY <2>1, <2>2
<1>6. Cardinality(Values(ToSet(flags))) = Len(flags)
  <2>1. Len(flags) \in Nat /\ DOMAIN flags = 1 .. Len(flags)
    BY <1>2, LenProperties
  <2>2. ASSUME NEW i \in 1 .. Len(flags), NEW j \in 1 .. Len(flags), Value(flags[i]) = Value(flags[j])
        PROVE  i = j
    <3>1. flags[i] \in ToSet(flags) /\ flags[j] \in ToSet(flags)
      BY <2>1 DEF ToSet
    <3>2. PICK c \in Claims(text), d \in Claims(text) : flags[i] = N(c) /\ flags[j] = N(d)
      BY <1>2, <3>1
    <3>3. Value(c) = Value(d) /\ c \in Spellings /\ d \in Spellings
      BY <1>1, <1>4, <2>2, <3>2
    <3>4. N(c) = N(d)
      BY <3>3, NormalFormIsValue DEF N
    <3> QED
      BY <1>2, <3>2, <3>4 DEF NoneTwice
  <2> QED
    BY <2>1, <2>2, CountedOnce
<1> QED
  BY <1>2, <1>5, <1>6 DEF flags

\* The numbers of an entry and of a content, and of a content with one bullet
\* of one entry replaced.
LEMMA ContentNumbers ==
    ASSUME NEW content \in Contents
    PROVE  /\ DOMAIN content = 1 .. Len(content) /\ Len(content) \in Nat
           /\ NumbersOfContent(content) \in SUBSET Spellings
           /\ \A e \in DOMAIN content :
                 /\ content[e] \in [context : Texts, bullets : Seq(Texts)]
                 /\ NumbersOfEntry(content[e]) \in SUBSET NumbersOfContent(content)
<1>1. /\ DOMAIN content = 1 .. Len(content) /\ Len(content) \in Nat
      /\ \A e \in DOMAIN content : content[e] \in [context : Texts, bullets : Seq(Texts)]
  BY LenProperties, ElementOfSeq DEF Contents
<1>2. ASSUME NEW e \in DOMAIN content
      PROVE  NumbersOfEntry(content[e]) \in SUBSET Spellings
  <2>1. content[e].context \in Texts /\ content[e].bullets \in Seq(Texts)
    BY <1>1
  <2>2. \A i \in DOMAIN content[e].bullets : content[e].bullets[i] \in Texts
    BY <2>1, LenProperties, ElementOfSeq
  <2>3. NumbersIn(content[e].context) \in SUBSET Spellings
    BY <2>1, TextNumbers
  <2>4. \A i \in DOMAIN content[e].bullets : NumbersIn(content[e].bullets[i]) \in SUBSET Spellings
    BY <2>2, TextNumbers
  <2> QED
    BY <2>3, <2>4 DEF NumbersOfEntry
<1> QED
  BY <1>1, <1>2 DEF NumbersOfContent

LEMMA BulletReplaced ==
    ASSUME NEW content \in Contents, NEW e \in DOMAIN content,
           NEW k \in DOMAIN content[e].bullets, NEW text \in Texts
    PROVE  LET new == [content EXCEPT ![e].bullets[k] = text]
           IN  /\ new \in Contents
               /\ NumbersOfContent(new) \in SUBSET (NumbersOfContent(content) \union NumbersIn(text))
<1> DEFINE entry == content[e]
           bullets == [entry.bullets EXCEPT ![k] = text]
           changed == [entry EXCEPT !.bullets = bullets]
           new == [content EXCEPT ![e] = changed]
<1>1. /\ DOMAIN content = 1 .. Len(content) /\ Len(content) \in Nat
      /\ \A d \in DOMAIN content : content[d] \in [context : Texts, bullets : Seq(Texts)]
  BY ContentNumbers
<1>2. entry.bullets \in Seq(Texts) /\ entry.context \in Texts
  BY <1>1
<1>3. /\ bullets \in Seq(Texts) /\ DOMAIN bullets = DOMAIN entry.bullets
      /\ \A i \in DOMAIN bullets : bullets[i] = IF i = k THEN text ELSE entry.bullets[i]
  BY <1>2, ExceptSeq, LenProperties
<1>4. /\ changed \in [context : Texts, bullets : Seq(Texts)]
      /\ changed.bullets = bullets /\ changed.context = entry.context
  BY <1>1, <1>2, <1>3
<1> HIDE DEF changed, bullets
<1>5. /\ new \in Contents /\ DOMAIN new = DOMAIN content
      /\ \A d \in DOMAIN new : new[d] = IF d = e THEN changed ELSE content[d]
  BY <1>1, <1>4, ExceptSeq, LenProperties DEF Contents
<1>6. NumbersOfEntry(changed) \in SUBSET (NumbersOfEntry(entry) \union NumbersIn(text))
  BY <1>3, <1>4 DEF NumbersOfEntry
<1> HIDE DEF new
<1>7. NumbersOfContent(new) \in SUBSET (NumbersOfContent(content) \union NumbersIn(text))
  BY <1>5, <1>6 DEF NumbersOfContent
<1>8. new = [content EXCEPT ![e].bullets[k] = text]
  BY DEF new, changed, bullets
<1> QED
  BY <1>5, <1>7, <1>8

-----------------------------------------------------------------------------
(* Every number is accounted for (ContentAssist).                          *)

\* The user wrote the number, in whatever spelling, or applied it with a flag
\* or in a placeholder.
Known(n) == Value(n) \in Values(typed \union noticed)

AssistInv ==
    /\ resume \in [DOMAIN resume -> Contents]
    /\ \A t \in DOMAIN resume : \A n \in NumbersOfContent(resume[t]) : Known(n)
    /\ advice # NoAdvice =>
          /\ advice.texts \in Seq(Texts)
          /\ advice.source \in SUBSET Spellings
          /\ \A n \in advice.source : Known(n)
          /\ advice.flags = [k \in DOMAIN advice.texts |->
                                FindUnsupportedNumbers(advice.texts[k],
                                                       ExtractNumbers(advice.source))]

LEMMA AssistInitial == ComputationsInit => AssistInv
<1> SUFFICES ASSUME ComputationsInit
             PROVE  AssistInv
  OBVIOUS
<1>1. resume = [t \in {} |-> <<>>] /\ advice = NoAdvice
  BY DEF ComputationsInit, AssistInit
<1>2. DOMAIN resume = {} /\ resume \in [{} -> Contents]
  BY <1>1
<1> QED
  BY <1>1, <1>2 DEF AssistInv

\* What a step does to the resume, the advice and the histories.
LEMMA AssistActions ==
    [ComputationsNext]_computed => AssistNext \/ UNCHANGED assistVars
  BY DEF ComputationsNext, Follow, computed

\* What was known stays known.
LEMMA KnownGrows ==
    ASSUME typed \subseteq typed', noticed \subseteq noticed', NEW n, Known(n)
    PROVE  Known(n)'
  BY DEF Known, Values

\* A response for texts whose source is known and in the resume.
LEMMA RespondKeeps ==
    ASSUME AssistInv, NEW t, NEW entry, NEW stated \in SUBSET Spellings, NEW texts \in Seq(Texts),
           \A n \in stated : Known(n), Respond(t, entry, stated, texts),
           UNCHANGED <<resume, typed, noticed>>
    PROVE  AssistInv'
<1>1. /\ advice'.texts = texts /\ advice'.source = stated
      /\ advice'.flags = [k \in DOMAIN texts |->
                             FindUnsupportedNumbers(texts[k], ExtractNumbers(stated))]
  BY DEF Respond
<1>2. resume' = resume /\ \A n : Known(n)' = Known(n)
  BY DEF Known
<1> QED
  BY <1>1, <1>2 DEF AssistInv

LEMMA AssistStep == AssistInv /\ [ComputationsNext]_computed => AssistInv'
<1> SUFFICES ASSUME AssistInv, [ComputationsNext]_computed
             PROVE  AssistInv'
  OBVIOUS
<1>0. /\ resume \in [DOMAIN resume -> Contents]
      /\ \A t \in DOMAIN resume : /\ resume[t] \in Contents
                                  /\ NumbersOfContent(resume[t]) \in SUBSET Spellings
                                  /\ \A n \in NumbersOfContent(resume[t]) : Known(n)
  <2>1. resume \in [DOMAIN resume -> Contents]
    BY DEF AssistInv
  <2>2. \A t \in DOMAIN resume : resume[t] \in Contents
    BY <2>1
  <2> QED
    BY <2>1, <2>2, ContentNumbers DEF AssistInv
<1>1. ASSUME NEW section \in Written, WriteSection(section[1], section[2])
      PROVE  AssistInv'
  <2> DEFINE t == section[1]
             content == section[2]
  <2>1. /\ resume' = [u \in DOMAIN resume \union {t} |-> IF u = t THEN content ELSE resume[u]]
        /\ typed' = typed \union NumbersOfContent(content)
        /\ advice' = advice /\ noticed' = noticed
    BY <1>1 DEF WriteSection
  <2>2. content \in Contents
    BY AssistAssumption
  <2>3. \A n : Known(n) => Known(n)'
    BY <2>1, KnownGrows
  <2>4. \A n \in NumbersOfContent(content) : Known(n)'
    BY <2>1 DEF Known, Values
  <2> HIDE DEF content, t
  <2>5. /\ DOMAIN resume' = DOMAIN resume \union {t}
        /\ \A u \in DOMAIN resume' : resume'[u] = content \/ (u \in DOMAIN resume /\ resume'[u] = resume[u])
    BY <2>1
  <2>6. resume' \in [DOMAIN resume' -> Contents]
    BY <1>0, <2>1, <2>2, <2>5
  <2>7. \A u \in DOMAIN resume' : \A n \in NumbersOfContent(resume'[u]) : Known(n)'
    BY <1>0, <2>3, <2>4, <2>5
  <2> QED
    BY <2>1, <2>3, <2>6, <2>7 DEF AssistInv
<1>2. ASSUME NEW t \in DOMAIN resume, RemoveSection(t)
      PROVE  AssistInv'
  <2>1. /\ resume' = [u \in DOMAIN resume \ {t} |-> resume[u]]
        /\ advice' = advice /\ typed' = typed /\ noticed' = noticed
    BY <1>2 DEF RemoveSection
  <2>2. \A n : Known(n)' = Known(n)
    BY <2>1 DEF Known
  <2>3. /\ DOMAIN resume' = DOMAIN resume \ {t}
        /\ \A u \in DOMAIN resume' : u \in DOMAIN resume /\ resume'[u] = resume[u]
    BY <2>1
  <2>4. resume' \in [DOMAIN resume' -> Contents]
    BY <1>0, <2>1, <2>3
  <2> QED
    BY <1>0, <2>1, <2>2, <2>3, <2>4 DEF AssistInv
<1>3. ASSUME NEW text \in Improvements, AssistSummary(text)
      PROVE  AssistInv'
  <2> DEFINE stated == NumbersOfSections(DOMAIN resume)
  <2>1. Respond("SUMMARY", 1, stated, <<text>>) /\ UNCHANGED <<resume, typed, noticed>>
    BY <1>3 DEF AssistSummary
  <2>2. stated \in SUBSET Spellings /\ \A n \in stated : Known(n)
    BY <1>0 DEF NumbersOfSections
  <2>3. <<text>> \in Seq(Texts)
    BY AssistAssumption
  <2> HIDE DEF stated
  <2> QED
    BY <2>1, <2>2, <2>3, RespondKeeps
<1>4. ASSUME NEW t \in DOMAIN resume, NEW index \in -1..1, NEW answered \in 0 .. MaxAnswered,
             NEW texts \in [1 .. answered -> Improvements], AssistBullets(t, index, texts)
      PROVE  AssistInv'
  <2> DEFINE stated == NumbersOfEntry(resume[t][index + 1])
  <2>1. /\ 0 <= index /\ index < Len(resume[t])
        /\ Respond(t, index + 1, stated, texts) /\ UNCHANGED <<resume, typed, noticed>>
    BY <1>4 DEF AssistBullets
  <2>2. index + 1 \in DOMAIN resume[t]
    BY <1>0, <2>1, ContentNumbers
  <2>3. stated \in SUBSET NumbersOfContent(resume[t])
    BY <1>0, <2>2, ContentNumbers
  <2>4. texts \in Seq(Texts)
    <3>1. answered \in Nat /\ texts \in [1 .. answered -> Texts]
      BY AssistAssumption
    <3> QED
      BY <3>1, IsASeq
  <2> HIDE DEF stated
  <2>5. stated \in SUBSET Spellings /\ \A n \in stated : Known(n)
    BY <1>0, <2>3
  <2> QED
    BY <2>1, <2>4, <2>5, RespondKeeps
<1>5. ASSUME NEW k \in 1 .. MaxAnswered, Apply(k)
      PROVE  AssistInv'
  <2> DEFINE t     == advice.section
             text  == advice.texts[k]
             e     == advice.entry
             flags == advice.flags[k]
  <2>1. /\ advice # NoAdvice /\ k \in DOMAIN advice.texts
        /\ noticed' = noticed \union ToSet(flags) \union Bracketed(text)
        /\ advice' = advice /\ typed' = typed
    BY <1>5 DEF Apply, Bracketed
  <2>2. \/ resume' = [u \in DOMAIN resume \union {t} |->
                         IF u = t THEN <<[context |-> text, bullets |-> <<>>]>> ELSE resume[u]]
        \/ /\ t \in DOMAIN resume /\ e \in DOMAIN resume[t]
           /\ k \in DOMAIN resume[t][e].bullets
           /\ resume' = [resume EXCEPT ![t][e].bullets[k] = text]
    BY <1>5 DEF Apply
  <2>3. /\ text \in Texts
        /\ flags = FindUnsupportedNumbers(text, ExtractNumbers(advice.source))
        /\ advice.source \in SUBSET Spellings
        /\ \A n \in advice.source : Known(n)
    <3>1. advice.texts \in Seq(Texts) /\ DOMAIN advice.texts = 1 .. Len(advice.texts)
      BY <2>1, LenProperties DEF AssistInv
    <3>2. text \in Texts
      BY <2>1, <3>1, ElementOfSeq
    <3> QED
      BY <2>1, <3>2 DEF AssistInv
  <2> HIDE DEF text, flags, t, e
  <2>4. \A n : Known(n) => Known(n)'
    BY <2>1, KnownGrows
  <2>5. \A n \in NumbersIn(text) : Known(n)'
    <3> SUFFICES ASSUME NEW n \in NumbersIn(text)
                 PROVE  Known(n)'
      OBVIOUS
    <3>1. CASE n \in Bracketed(text)
      BY <2>1, <3>1 DEF Known, Values
    <3>2. CASE n \in Claims(text)
      <4>1. Value(n) \in Values(Claims(text))
        BY <3>2 DEF Values
      <4>2. Value(n) \in Values(ToSet(flags)) \/ Value(n) \in Values(advice.source)
        BY <2>3, <4>1, FlagsByValue
      <4>3. CASE Value(n) \in Values(ToSet(flags))
        BY <2>1, <4>3 DEF Known, Values
      <4>4. CASE Value(n) \in Values(advice.source)
        <5>1. PICK m \in advice.source : Value(n) = Value(m)
          BY <4>4 DEF Values
        <5>2. Known(m)'
          BY <2>3, <2>4, <5>1
        <5>3. Value(n)' = Value(n) /\ Value(m)' = Value(m)
          BY DEF Value
        <5> QED
          BY <5>1, <5>2, <5>3 DEF Known
      <4> QED
        BY <4>2, <4>3, <4>4
    <3> QED
      BY <2>3, <3>1, <3>2, TextNumbers
  <2>6. /\ resume' \in [DOMAIN resume' -> Contents]
        /\ \A u \in DOMAIN resume' : \A n \in NumbersOfContent(resume'[u]) : Known(n)'
    <3>1. ASSUME NEW content \in Contents, NEW U,
                 resume' = [u \in U |-> IF u = t THEN content ELSE resume[u]],
                 \A u \in U : u # t => u \in DOMAIN resume,
                 \A n \in NumbersOfContent(content) : Known(n)'
          PROVE  /\ resume' \in [DOMAIN resume' -> Contents]
                 /\ \A u \in DOMAIN resume' : \A n \in NumbersOfContent(resume'[u]) : Known(n)'
      <4>1. /\ DOMAIN resume' = U
            /\ \A u \in U : resume'[u] = content \/ (u \in DOMAIN resume /\ resume'[u] = resume[u])
        BY <3>1
      <4>2. \A u \in U : resume'[u] \in Contents
        BY <1>0, <4>1
      <4>3. resume' \in [U -> Contents]
        BY <3>1, <4>2
      <4>4. \A u \in U : \A n \in NumbersOfContent(resume'[u]) : Known(n)'
        BY <1>0, <2>4, <3>1, <4>1
      <4> QED
        BY <4>1, <4>3, <4>4
    <3>2. CASE resume' = [u \in DOMAIN resume \union {t} |->
                            IF u = t THEN <<[context |-> text, bullets |-> <<>>]>> ELSE resume[u]]
      <4> DEFINE entry == [context |-> text, bullets |-> <<>>]
                 content == <<entry>>
      <4>1. entry \in [context : Texts, bullets : Seq(Texts)]
        BY <2>3
      <4>2. NumbersOfEntry(entry) = NumbersIn(text)
        BY DEF NumbersOfEntry
      <4>3. resume' = [u \in DOMAIN resume \union {t} |-> IF u = t THEN content ELSE resume[u]]
        BY <3>2
      <4> HIDE DEF entry
      <4>4. content \in Contents /\ NumbersOfContent(content) = NumbersOfEntry(entry)
        BY <4>1 DEF Contents, NumbersOfContent
      <4>5. \A n \in NumbersOfContent(content) : Known(n)'
        BY <2>5, <4>2, <4>4
      <4> HIDE DEF content
      <4> QED
        BY <3>1, <4>3, <4>4, <4>5
    <3>3. CASE /\ t \in DOMAIN resume /\ e \in DOMAIN resume[t]
               /\ k \in DOMAIN resume[t][e].bullets
               /\ resume' = [resume EXCEPT ![t][e].bullets[k] = text]
      <4> DEFINE content == [resume[t] EXCEPT ![e].bullets[k] = text]
      <4>1. resume' = [u \in DOMAIN resume |-> IF u = t THEN content ELSE resume[u]]
        BY <1>0, <3>3
      <4>2. /\ content \in Contents
            /\ NumbersOfContent(content) \in SUBSET (NumbersOfContent(resume[t]) \union NumbersIn(text))
        <5>1. resume[t] \in Contents
          BY <1>0, <3>3
        <5> QED
          BY <2>3, <3>3, <5>1, BulletReplaced
      <4> HIDE DEF content
      <4>3. \A n \in NumbersOfContent(content) : Known(n)'
        BY <1>0, <2>4, <2>5, <3>3, <4>2
      <4> QED
        BY <3>1, <4>1, <4>2, <4>3
    <3> QED
      BY <2>2, <3>2, <3>3
  <2> QED
    BY <2>1, <2>4, <2>6 DEF AssistInv
<1>6. CASE UNCHANGED assistVars
  <2>1. /\ resume' = resume /\ advice' = advice /\ typed' = typed /\ noticed' = noticed
    BY <1>6 DEF assistVars
  <2>2. \A n : Known(n)' = Known(n)
    BY <2>1 DEF Known
  <2> QED
    BY <2>1, <2>2 DEF AssistInv
<1> QED
  BY <1>1, <1>2, <1>3, <1>4, <1>5, <1>6, AssistActions DEF AssistNext

\* Every number of the saved resume is one the user wrote, was flagged when it
\* was applied or stood in a placeholder, and the flags of a text are the values
\* it claims and its source does not state, for texts of any length and numbers
\* of any size (find_unsupported_numbers, _normalize_number).
THEOREM NumbersAreAccounted == ComputationsSpec => []EveryNumberAccounted
<1>1. AssistInv => EveryNumberAccounted
  <2> SUFFICES ASSUME AssistInv
               PROVE  EveryNumberAccounted
    OBVIOUS
  <2>1. Values(NumbersOfSections(DOMAIN resume)) \in SUBSET Values(typed \union noticed)
    <3>1. \A n \in NumbersOfSections(DOMAIN resume) : Known(n)
      BY DEF AssistInv, NumbersOfSections
    <3> QED
      BY <3>1 DEF Known, Values
  <2>2. ASSUME advice # NoAdvice, NEW k \in DOMAIN advice.texts
        PROVE  /\ Values(ToSet(advice.flags[k])) = Values(Claims(advice.texts[k])) \ Values(advice.source)
               /\ Cardinality(Values(ToSet(advice.flags[k]))) = Len(advice.flags[k])
    <3>1. /\ advice.texts \in Seq(Texts) /\ DOMAIN advice.texts = 1 .. Len(advice.texts)
          /\ advice.source \in SUBSET Spellings
      BY <2>2, LenProperties DEF AssistInv
    <3>2. advice.texts[k] \in Texts
      BY <2>2, <3>1, ElementOfSeq
    <3>3. advice.flags[k] = FindUnsupportedNumbers(advice.texts[k], ExtractNumbers(advice.source))
      BY <2>2 DEF AssistInv
    <3> QED
      BY <3>1, <3>2, <3>3, FlagsByValue
  <2> QED
    BY <2>1, <2>2 DEF EveryNumberAccounted, Claims
<1> QED
  BY AssistInitial, AssistStep, <1>1, PTL DEF ComputationsSpec

-----------------------------------------------------------------------------
(* Items selected, parts joined.                                           *)

LEMMA SelectChosen ==
    ASSUME NEW s, NEW positions
    PROVE  Select(s, positions) =
              (CHOOSE upTo : upTo =
                 [i \in 0 .. Len(s) |->
                    IF i = 0 THEN <<>>
                    ELSE IF i \in positions THEN Append(upTo[i - 1], s[i]) ELSE upTo[i - 1]])[Len(s)]
  BY DEF Select

LEMMA JoinedChosen ==
    ASSUME NEW parts
    PROVE  Joined(parts) =
              (CHOOSE upTo : upTo =
                 [i \in 0 .. Len(parts) |-> IF i = 0 THEN <<>> ELSE upTo[i - 1] \o parts[i]])[Len(parts)]
  BY DEF Joined

\* u[k] is the selection from the first k items.
Selects(u, n, s, positions) ==
    /\ u[0] = <<>>
    /\ \A k \in 1 .. n : u[k] = IF k \in positions THEN Append(u[k - 1], s[k]) ELSE u[k - 1]

LEMMA SelectIs ==
    ASSUME NEW X, NEW s \in Seq(X), NEW positions
    PROVE  \E u : /\ Selects(u, Len(s), s, positions)
                  /\ \A k \in 0 .. Len(s) : u[k] \in Seq(X)
                  /\ Select(s, positions) = u[Len(s)]
<1> DEFINE n == Len(s)
           next(k, t) == IF k \in positions THEN Append(t, s[k]) ELSE t
           step == [x \in (1 .. n) \X Seq(X) |-> next(x[1], x[2])]
           Chosen(f) == f = [i \in 0 .. n |-> IF i = 0 THEN <<>> ELSE next(i, f[i - 1])]
<1>1. n \in Nat /\ \A i \in 1 .. n : s[i] \in X
  BY LenProperties, ElementOfSeq
<1>2. ASSUME NEW k \in 1 .. n, NEW t \in Seq(X)
      PROVE  next(k, t) \in Seq(X)
  BY <1>1
<1>3. step \in [(1 .. n) \X Seq(X) -> Seq(X)]
  <2> HIDE DEF next
  <2>1. \A x \in (1 .. n) \X Seq(X) : next(x[1], x[2]) \in Seq(X)
    BY <1>2
  <2> QED
    BY <2>1
<1>4. ASSUME NEW k \in 1 .. n, NEW t \in Seq(X)
      PROVE  step[<<k, t>>] = next(k, t)
  <2> HIDE DEF next
  <2> QED
    OBVIOUS
<1> HIDE DEF next, step
<1>5. PICK f : Iterates(f, n, <<>>, step) /\ \A k \in 0 .. n : f[k] \in Seq(X)
  <2>1. n \in Nat /\ <<>> \in Seq(X)
    BY <1>1
  <2> HIDE DEF n
  <2> QED
    BY <1>3, <2>1, RecursionExists
<1>6. Chosen(f)
  <2>1. ASSUME NEW i \in 0 .. n, i # 0
        PROVE  step[<<i, f[i - 1]>>] = next(i, f[i - 1])
    <3>1. i \in 1 .. n /\ i - 1 \in 0 .. n
      BY <1>1, <2>1
    <3> QED
      BY <1>4, <1>5, <3>1
  <2> QED
    BY <1>5, <2>1 DEF Iterates
<1> DEFINE u == CHOOSE g : Chosen(g)
<1>7. Chosen(u)
  <2> HIDE DEF Chosen
  <2> QED
    BY <1>6
<1>8. Select(s, positions) = u[n]
  BY SelectChosen DEF next
<1> HIDE DEF u
<1>9. u[0] = <<>> /\ \A k \in 1 .. n : u[k] = next(k, u[k - 1])
  <2>1. 0 \in 0 .. n /\ \A k \in 1 .. n : k \in 0 .. n /\ k # 0
    BY <1>1
  <2> QED
    BY <1>7, <2>1
<1>10. \A k \in 0 .. n : u[k] \in Seq(X)
  <2> DEFINE P == {k \in 0 .. n : u[k] \in Seq(X)}
  <2>1. 0 \in P
    <3>1. 0 \in 0 .. n /\ <<>> \in Seq(X)
      BY <1>1
    <3> QED
      BY <1>9, <3>1
  <2>2. \A k \in 1 .. n : k - 1 \in P => k \in P
    <3> SUFFICES ASSUME NEW k \in 1 .. n, u[k - 1] \in Seq(X)
                 PROVE  k \in 0 .. n /\ u[k] \in Seq(X)
      OBVIOUS
    <3>1. k \in 0 .. n
      BY <1>1
    <3> QED
      BY <1>2, <1>9, <3>1
  <2>3. \A k \in 0 .. n : k \in P
    <3> HIDE DEF P
    <3> QED
      BY <1>1, <2>1, <2>2, Everywhere
  <2> QED
    BY <2>3
<1> QED
  BY <1>8, <1>9, <1>10 DEF next, Selects

Joins(u, n, parts) ==
    /\ u[0] = <<>>
    /\ \A k \in 1 .. n : u[k] = u[k - 1] \o parts[k]

LEMMA JoinedIs ==
    ASSUME NEW X, NEW parts \in Seq(Seq(X))
    PROVE  \E u : /\ Joins(u, Len(parts), parts)
                  /\ \A k \in 0 .. Len(parts) : u[k] \in Seq(X)
                  /\ Joined(parts) = u[Len(parts)]
<1> DEFINE n == Len(parts)
           next(k, t) == t \o parts[k]
           step == [x \in (1 .. n) \X Seq(X) |-> next(x[1], x[2])]
           Chosen(f) == f = [i \in 0 .. n |-> IF i = 0 THEN <<>> ELSE next(i, f[i - 1])]
<1>1. n \in Nat /\ \A i \in 1 .. n : parts[i] \in Seq(X)
  BY LenProperties, ElementOfSeq
<1>2. ASSUME NEW k \in 1 .. n, NEW t \in Seq(X)
      PROVE  next(k, t) \in Seq(X)
  BY <1>1
<1>3. step \in [(1 .. n) \X Seq(X) -> Seq(X)]
  <2> HIDE DEF next
  <2>1. \A x \in (1 .. n) \X Seq(X) : next(x[1], x[2]) \in Seq(X)
    BY <1>2
  <2> QED
    BY <2>1
<1>4. ASSUME NEW k \in 1 .. n, NEW t \in Seq(X)
      PROVE  step[<<k, t>>] = next(k, t)
  <2> HIDE DEF next
  <2> QED
    OBVIOUS
<1> HIDE DEF next, step
<1>5. PICK f : Iterates(f, n, <<>>, step) /\ \A k \in 0 .. n : f[k] \in Seq(X)
  <2>1. n \in Nat /\ <<>> \in Seq(X)
    BY <1>1
  <2> HIDE DEF n
  <2> QED
    BY <1>3, <2>1, RecursionExists
<1>6. Chosen(f)
  <2>1. ASSUME NEW i \in 0 .. n, i # 0
        PROVE  step[<<i, f[i - 1]>>] = next(i, f[i - 1])
    <3>1. i \in 1 .. n /\ i - 1 \in 0 .. n
      BY <1>1, <2>1
    <3> QED
      BY <1>4, <1>5, <3>1
  <2> QED
    BY <1>5, <2>1 DEF Iterates
<1> DEFINE u == CHOOSE g : Chosen(g)
<1>7. Chosen(u)
  <2> HIDE DEF Chosen
  <2> QED
    BY <1>6
<1>8. Joined(parts) = u[n]
  BY JoinedChosen DEF next
<1> HIDE DEF u
<1>9. u[0] = <<>> /\ \A k \in 1 .. n : u[k] = next(k, u[k - 1])
  <2>1. 0 \in 0 .. n /\ \A k \in 1 .. n : k \in 0 .. n /\ k # 0
    BY <1>1
  <2> QED
    BY <1>7, <2>1
<1>10. \A k \in 0 .. n : u[k] \in Seq(X)
  <2> DEFINE P == {k \in 0 .. n : u[k] \in Seq(X)}
  <2>1. 0 \in P
    <3>1. 0 \in 0 .. n /\ <<>> \in Seq(X)
      BY <1>1
    <3> QED
      BY <1>9, <3>1
  <2>2. \A k \in 1 .. n : k - 1 \in P => k \in P
    <3> SUFFICES ASSUME NEW k \in 1 .. n, u[k - 1] \in Seq(X)
                 PROVE  k \in 0 .. n /\ u[k] \in Seq(X)
      OBVIOUS
    <3>1. k \in 0 .. n
      BY <1>1
    <3> QED
      BY <1>2, <1>9, <3>1
  <2>3. \A k \in 0 .. n : k \in P
    <3> HIDE DEF P
    <3> QED
      BY <1>1, <2>1, <2>2, Everywhere
  <2> QED
    BY <2>3
<1> QED
  BY <1>8, <1>9, <1>10 DEF next, Joins

\* What holds of the empty sequence and of one with an item more holds of all.
LEMMA EverySequence ==
    ASSUME NEW X, NEW T, <<>> \in T, NEW s \in Seq(X),
           \A t \in Seq(X), x \in X : t \in T => Append(t, x) \in T
    PROVE  s \in T
<1> DEFINE n == Len(s)
           P == {k \in 0 .. n : SubSeq(s, 1, k) \in T}
<1>1. n \in Nat
  BY LenProperties
<1>2. 0 \in P
  <2>1. SubSeq(s, 1, 0) = <<>> /\ 0 \in 0 .. n
    BY <1>1
  <2> QED
    BY <2>1
<1>3. \A k \in 1 .. n : k - 1 \in P => k \in P
  <2> SUFFICES ASSUME NEW k \in 1 .. n, SubSeq(s, 1, k - 1) \in T
               PROVE  k \in 0 .. n /\ SubSeq(s, 1, k) \in T
    OBVIOUS
  <2>1. s[k] \in X /\ SubSeq(s, 1, k - 1) \in Seq(X) /\ SubSeq(s, 1, k) \in Seq(X) /\ k \in 0 .. n
    BY <1>1, ElementOfSeq
  <2>2. SubSeq(s, 1, k) = Append(SubSeq(s, 1, k - 1), s[k])
    BY <1>1, <2>1
  <2> QED
    BY <2>1, <2>2
<1>4. n \in P
  <2>1. n \in 0 .. n
    BY <1>1
  <2> HIDE DEF P, n
  <2> QED
    BY <1>1, <1>2, <1>3, <2>1, Everywhere
<1>5. SubSeq(s, 1, n) = s
  BY <1>1
<1> QED
  BY <1>4, <1>5

LEMMA SelectsAgree ==
    ASSUME NEW n \in Nat, NEW u, NEW v, NEW s, NEW t, NEW P, NEW Q,
           Selects(u, n, s, P), Selects(v, n, t, Q),
           \A k \in 1 .. n : s[k] = t[k] /\ (k \in P <=> k \in Q)
    PROVE  u[n] = v[n]
<1> DEFINE Same == {k \in 0 .. n : u[k] = v[k]}
<1>1. 0 \in Same
  <2>1. 0 \in 0 .. n
    OBVIOUS
  <2> QED
    BY <2>1 DEF Selects
<1>2. \A k \in 1 .. n : k - 1 \in Same => k \in Same
  <2>1. \A k \in 1 .. n : k \in 0 .. n
    OBVIOUS
  <2> QED
    BY <2>1 DEF Selects
<1>3. n \in 0 .. n
  OBVIOUS
<1>4. n \in Same
  <2> HIDE DEF Same
  <2> QED
    BY <1>1, <1>2, <1>3, Everywhere
<1> QED
  BY <1>4

\* Selecting from nothing, and from a sequence with an item more.
LEMMA SelectNone ==
    ASSUME NEW P
    PROVE  Select(<<>>, P) = <<>>
<1>1. <<>> \in Seq({}) /\ Len(<<>>) = 0
  OBVIOUS
<1>2. PICK u : Selects(u, 0, <<>>, P) /\ Select(<<>>, P) = u[0]
  BY <1>1, SelectIs
<1> QED
  BY <1>2 DEF Selects

LEMMA SelectAppend ==
    ASSUME NEW X, NEW s \in Seq(X), NEW x \in X, NEW P, NEW Q,
           \A i \in 1 .. Len(s) : i \in P <=> i \in Q
    PROVE  Select(Append(s, x), P) =
              IF Len(s) + 1 \in P THEN Append(Select(s, Q), x) ELSE Select(s, Q)
<1> DEFINE n == Len(s)
           t == Append(s, x)
<1>1. /\ n \in Nat /\ t \in Seq(X) /\ Len(t) = n + 1 /\ t[n + 1] = x
      /\ \A i \in 1 .. n : t[i] = s[i]
  BY AppendProperties, LenProperties
<1> HIDE DEF t
<1>2. PICK u : Selects(u, Len(t), t, P) /\ Select(t, P) = u[Len(t)]
  BY <1>1, SelectIs
<1>3. PICK v : Selects(v, n, s, Q) /\ Select(s, Q) = v[n]
  BY SelectIs
<1> HIDE DEF n
<1>4. Selects(u, n, t, P)
  BY <1>1, <1>2 DEF Selects
<1>5. u[n] = v[n]
  <2>1. \A k \in 1 .. n : t[k] = s[k] /\ (k \in P <=> k \in Q)
    BY <1>1 DEF n
  <2> QED
    BY <1>1, <1>3, <1>4, <2>1, SelectsAgree
<1>6. u[n + 1] = IF n + 1 \in P THEN Append(u[n], t[n + 1]) ELSE u[n]
  <2>1. n + 1 \in 1 .. n + 1 /\ n + 1 - 1 = n
    BY <1>1
  <2> QED
    BY <1>1, <1>2, <2>1 DEF Selects
<1> QED
  BY <1>1, <1>2, <1>3, <1>5, <1>6 DEF t, n

\* What is selected.
LEMMA SelectProperties ==
    ASSUME NEW X, NEW s \in Seq(X), NEW P
    PROVE  /\ Select(s, P) \in Seq(X)
           /\ Len(Select(s, P)) \in 0 .. Len(s)
           /\ ToSet(Select(s, P)) = {s[i] : i \in P \intersect (1 .. Len(s))}
<1> DEFINE Good(t) == /\ Select(t, P) \in Seq(X)
                      /\ Len(Select(t, P)) \in 0 .. Len(t)
                      /\ ToSet(Select(t, P)) = {t[i] : i \in P \intersect (1 .. Len(t))}
           T == {t \in Seq(X) : Good(t)}
<1>1. <<>> \in T
  <2>1. <<>> \in Seq(X) /\ Len(<<>>) = 0 /\ ToSet(<<>>) = {} /\ 1 .. 0 = {}
    BY DEF ToSet
  <2>2. Select(<<>>, P) = <<>>
    BY SelectNone
  <2>3. {<<>>[i] : i \in P \intersect (1 .. Len(<<>>))} = {}
    BY <2>1
  <2>4. Len(<<>>) \in 0 .. Len(<<>>)
    BY <2>1
  <2>5. Good(<<>>)
    BY <2>1, <2>2, <2>3, <2>4
  <2> HIDE DEF Good
  <2> QED
    BY <2>1, <2>5
<1>2. ASSUME NEW t \in Seq(X), NEW x \in X, Good(t)
      PROVE  Append(t, x) \in Seq(X) /\ Good(Append(t, x))
  <2> DEFINE n == Len(t)
             a == Append(t, x)
             old == Select(t, P)
  <2>1. /\ n \in Nat /\ a \in Seq(X) /\ Len(a) = n + 1 /\ a[n + 1] = x
        /\ \A i \in 1 .. n : a[i] = t[i]
    BY AppendProperties, LenProperties
  <2>2. Select(a, P) = IF n + 1 \in P THEN Append(old, x) ELSE old
    BY SelectAppend
  <2>3. /\ old \in Seq(X) /\ Len(old) \in 0 .. n
        /\ ToSet(old) = {t[i] : i \in P \intersect (1 .. n)}
    BY <1>2
  <2> HIDE DEF a, old, n
  <2>4. {a[i] : i \in P \intersect (1 .. n + 1)} =
           IF n + 1 \in P THEN ToSet(old) \union {x} ELSE ToSet(old)
    <3>1. n + 1 \in 1 .. n + 1 /\ \A i \in 1 .. n + 1 : i \in 1 .. n \/ i = n + 1
      BY <2>1
    <3>2. \A i \in 1 .. n : i \in 1 .. n + 1
      BY <2>1
    <3> QED
      BY <2>1, <2>3, <3>1, <3>2
  <2>5. CASE n + 1 \in P
    <3>1. Append(old, x) \in Seq(X) /\ Len(Append(old, x)) = Len(old) + 1
      BY <2>3, AppendProperties
    <3>2. ToSet(Append(old, x)) = ToSet(old) \union {x}
      BY <2>3, AppendedSet
    <3>3. Len(old) + 1 \in 0 .. n + 1
      BY <2>1, <2>3
    <3> QED
      BY <2>1, <2>2, <2>4, <2>5, <3>1, <3>2, <3>3 DEF a
  <2>6. CASE n + 1 \notin P
    <3>1. Len(old) \in 0 .. n + 1
      BY <2>1, <2>3
    <3> QED
      BY <2>1, <2>2, <2>3, <2>4, <2>6, <3>1 DEF a
  <2> QED
    BY <2>5, <2>6
<1> HIDE DEF Good
<1>3. \A t \in Seq(X), x \in X : t \in T => Append(t, x) \in T
  BY <1>2
<1>4. s \in T
  <2> HIDE DEF T
  <2> QED
    BY <1>1, <1>3, EverySequence
<1> QED
  BY <1>4 DEF Good

\* Joining no part, and one part more.
LEMMA JoinedNone == Joined(<<>>) = <<>>
<1>1. <<>> \in Seq(Seq({})) /\ Len(<<>>) = 0
  OBVIOUS
<1>2. PICK u : Joins(u, 0, <<>>) /\ Joined(<<>>) = u[0]
  BY <1>1, JoinedIs
<1> QED
  BY <1>2 DEF Joins

LEMMA JoinedAppend ==
    ASSUME NEW X, NEW parts \in Seq(Seq(X)), NEW part \in Seq(X)
    PROVE  /\ Joined(parts) \in Seq(X)
           /\ Joined(Append(parts, part)) = Joined(parts) \o part
<1> DEFINE n == Len(parts)
           all == Append(parts, part)
<1>1. /\ n \in Nat /\ all \in Seq(Seq(X)) /\ Len(all) = n + 1 /\ all[n + 1] = part
      /\ \A i \in 1 .. n : all[i] = parts[i]
  BY AppendProperties, LenProperties
<1> HIDE DEF all
<1>2. PICK u : Joins(u, Len(all), all) /\ Joined(all) = u[Len(all)]
  BY <1>1, JoinedIs
<1>3. PICK v : Joins(v, n, parts) /\ Joined(parts) = v[n] /\ \A k \in 0 .. n : v[k] \in Seq(X)
  BY JoinedIs
<1> HIDE DEF n
<1>4. \A k \in 0 .. n : u[k] = v[k]
  <2> DEFINE Same == {k \in 0 .. n : u[k] = v[k]}
  <2>1. 0 \in Same
    <3>1. 0 \in 0 .. n
      BY <1>1
    <3> QED
      BY <1>2, <1>3, <3>1 DEF Joins
  <2>2. \A k \in 1 .. n : k - 1 \in Same => k \in Same
    <3>1. \A k \in 1 .. n : k \in 0 .. n /\ k \in 1 .. Len(all)
      BY <1>1
    <3> QED
      BY <1>1, <1>2, <1>3, <3>1 DEF Joins
  <2>3. \A k \in 0 .. n : k \in Same
    <3> HIDE DEF Same
    <3> QED
      BY <1>1, <2>1, <2>2, Everywhere
  <2> QED
    BY <2>3
<1>5. u[n + 1] = u[n] \o all[n + 1]
  <2> DEFINE m == n + 1
  <2>1. m \in 1 .. m /\ m - 1 = n
    BY <1>1
  <2>2. \A k \in 1 .. m : u[k] = u[k - 1] \o all[k]
    <3>1. Len(all) = m
      BY <1>1
    <3> QED
      BY <1>2, <3>1 DEF Joins
  <2> HIDE DEF m
  <2>3. u[m] = u[m - 1] \o all[m]
    BY <2>1, <2>2
  <2>4. u[m] = u[n] \o all[m]
    BY <2>1, <2>3
  <2> QED
    BY <2>4 DEF m
<1>6. n \in 0 .. n
  BY <1>1
<1> QED
  BY <1>1, <1>2, <1>3, <1>4, <1>5, <1>6 DEF all, n

-----------------------------------------------------------------------------
(* The lines with text.                                                    *)

LEMMA TextOfNone == TextOf(<<>>) = <<>>
  BY SelectNone DEF TextOf

LEMMA TextOfAppend ==
    ASSUME NEW X, NEW s \in Seq(X), NEW x \in X
    PROVE  /\ TextOf(s) \in Seq(X)
           /\ TextOf(Append(s, x)) = IF IsText(x) THEN Append(TextOf(s), x) ELSE TextOf(s)
<1> DEFINE n == Len(s)
           a == Append(s, x)
           P == {j \in DOMAIN a : IsText(a[j])}
           Q == {j \in DOMAIN s : IsText(s[j])}
<1>1. /\ n \in Nat /\ DOMAIN s = 1 .. n /\ DOMAIN a = 1 .. n + 1 /\ a[n + 1] = x
      /\ \A i \in 1 .. n : a[i] = s[i]
  BY AppendProperties, LenProperties
<1>2. TextOf(a) = Select(a, P) /\ TextOf(s) = Select(s, Q)
  BY DEF TextOf
<1> HIDE DEF a
<1>3. \A i \in 1 .. n : i \in P <=> i \in Q
  <2>1. \A i \in 1 .. n : i \in 1 .. n + 1
    BY <1>1
  <2> QED
    BY <1>1, <2>1
<1>4. n + 1 \in P <=> IsText(x)
  <2>1. n + 1 \in 1 .. n + 1
    BY <1>1
  <2> QED
    BY <1>1, <2>1
<1> HIDE DEF P, Q
<1>5. Select(a, P) = IF n + 1 \in P THEN Append(Select(s, Q), x) ELSE Select(s, Q)
  BY <1>3, SelectAppend DEF a
<1> QED
  BY <1>2, <1>4, <1>5, SelectProperties DEF a

LEMMA TextOfConcat ==
    ASSUME NEW X, NEW s \in Seq(X), NEW t \in Seq(X)
    PROVE  TextOf(s \o t) = TextOf(s) \o TextOf(t)
<1> DEFINE T == {r \in Seq(X) : TextOf(s \o r) = TextOf(s) \o TextOf(r)}
<1>1. <<>> \in T
  <2>1. s \o <<>> = s /\ TextOf(s) \o <<>> = TextOf(s) /\ <<>> \in Seq(X)
    BY TextOfAppend, SelectProperties DEF TextOf
  <2> QED
    BY <2>1, TextOfNone
<1>2. ASSUME NEW r \in Seq(X), NEW x \in X, r \in T
      PROVE  Append(r, x) \in T
  <2>1. s \o Append(r, x) = Append(s \o r, x) /\ s \o r \in Seq(X) /\ Append(r, x) \in Seq(X)
    OBVIOUS
  <2>2. TextOf(s) \in Seq(X) /\ TextOf(r) \in Seq(X)
    BY TextOfAppend
  <2>3. TextOf(Append(s \o r, x)) =
           IF IsText(x) THEN Append(TextOf(s \o r), x) ELSE TextOf(s \o r)
    BY <2>1, TextOfAppend
  <2>4. TextOf(Append(r, x)) = IF IsText(x) THEN Append(TextOf(r), x) ELSE TextOf(r)
    BY TextOfAppend
  <2>5. TextOf(s) \o Append(TextOf(r), x) = Append(TextOf(s) \o TextOf(r), x)
    BY <2>2
  <2>6. TextOf(s \o r) = TextOf(s) \o TextOf(r)
    BY <1>2
  <2>7. TextOf(s \o Append(r, x)) = TextOf(s) \o TextOf(Append(r, x))
    BY <2>1, <2>3, <2>4, <2>5, <2>6
  <2> QED
    BY <2>1, <2>7
<1>3. t \in T
  <2> HIDE DEF T
  <2> QED
    BY <1>1, <1>2, EverySequence
<1> QED
  BY <1>3

\* A selection that keeps every line with text keeps the text.
LEMMA TextOfSelect ==
    ASSUME NEW X, NEW s \in Seq(X), NEW P, \A i \in 1 .. Len(s) : IsText(s[i]) => i \in P
    PROVE  TextOf(Select(s, P)) = TextOf(s)
<1> DEFINE Keeps(r) == \A i \in 1 .. Len(r) : IsText(r[i]) => i \in P
           T == {r \in Seq(X) : Keeps(r) => TextOf(Select(r, P)) = TextOf(r)}
<1>1. <<>> \in T
  BY SelectNone, TextOfNone
<1>2. ASSUME NEW r \in Seq(X), NEW x \in X, r \in T
      PROVE  Append(r, x) \in T
  <2> DEFINE n == Len(r)
             a == Append(r, x)
  <2>1. /\ n \in Nat /\ a \in Seq(X) /\ Len(a) = n + 1 /\ a[n + 1] = x
        /\ \A i \in 1 .. n : a[i] = r[i]
    BY AppendProperties, LenProperties
  <2>2. Select(r, P) \in Seq(X)
    BY SelectProperties
  <2>3. Select(a, P) = IF n + 1 \in P THEN Append(Select(r, P), x) ELSE Select(r, P)
    BY SelectAppend
  <2>4. /\ TextOf(Append(Select(r, P), x)) =
              IF IsText(x) THEN Append(TextOf(Select(r, P)), x) ELSE TextOf(Select(r, P))
        /\ TextOf(a) = IF IsText(x) THEN Append(TextOf(r), x) ELSE TextOf(r)
    BY <2>2, TextOfAppend
  <2> HIDE DEF a
  <2>5. ASSUME Keeps(a)
        PROVE  TextOf(Select(a, P)) = TextOf(a)
    <3>1. n + 1 \in 1 .. n + 1 /\ \A i \in 1 .. n : i \in 1 .. n + 1
      BY <2>1
    <3>2. Keeps(r) /\ (IsText(x) => n + 1 \in P)
      BY <2>1, <2>5, <3>1
    <3>3. TextOf(Select(r, P)) = TextOf(r)
      BY <1>2, <3>2
    <3>4. CASE n + 1 \in P
      BY <2>3, <2>4, <3>3, <3>4
    <3>5. CASE n + 1 \notin P
      BY <2>3, <2>4, <3>2, <3>3, <3>5
    <3> QED
      BY <3>4, <3>5
  <2> HIDE DEF Keeps
  <2> QED
    BY <2>1, <2>5 DEF a
<1>3. s \in T
  <2> HIDE DEF T
  <2> QED
    BY <1>1, <1>2, EverySequence
<1> QED
  BY <1>3

LEMMA TextOfFrom ==
    ASSUME NEW X, NEW s \in Seq(X), NEW i \in 1 .. Len(TextOf(s))
    PROVE  \E k \in 1 .. Len(s) : TextOf(s)[i] = s[k]
<1> DEFINE P == {j \in DOMAIN s : IsText(s[j])}
           r == Select(s, P)
<1>1. TextOf(s) = r
  BY DEF TextOf
<1> HIDE DEF P
<1>2. r \in Seq(X) /\ ToSet(r) = {s[k] : k \in P \intersect (1 .. Len(s))}
  BY SelectProperties
<1> HIDE DEF r
<1>3. DOMAIN r = 1 .. Len(r)
  BY <1>2, LenProperties
<1>4. r[i] \in ToSet(r)
  BY <1>1, <1>3 DEF ToSet
<1> QED
  BY <1>1, <1>2, <1>4

LEMMA NoTextOf ==
    ASSUME NEW X, NEW s \in Seq(X)
    PROVE  TextOf(s) = <<>> => \A i \in 1 .. Len(s) : ~IsText(s[i])
<1>1. DOMAIN s = 1 .. Len(s)
  BY LenProperties
<1>2. ToSet(TextOf(s)) = {s[i] : i \in {j \in DOMAIN s : IsText(s[j])} \intersect (1 .. Len(s))}
  BY SelectProperties DEF TextOf
<1>3. ToSet(<<>>) = {}
  BY DEF ToSet
<1> QED
  BY <1>1, <1>2, <1>3

LEMMA TypedSequence ==
    ASSUME NEW S, NEW n \in Nat, NEW f, f = [i \in 1 .. n |-> f[i]],
           \A i \in 1 .. n : f[i] \in S
    PROVE  f \in Seq(S) /\ Len(f) = n
<1>1. f \in [1 .. n -> S]
  OBVIOUS
<1> QED
  BY <1>1

\* The blank lines between pages are no text.
DocumentLines == Lines \union {BlankLine}

Spaced(ps) ==
    [i \in DOMAIN ps |->
        IF ps[i] = <<>> \/ \A j \in 1..(i - 1) : ps[j] = <<>> THEN ps[i]
        ELSE <<BlankLine>> \o ps[i]]

LEMMA SpacedAppend ==
    ASSUME NEW ps \in Seq(Seq(Lines)), NEW page \in Seq(Lines)
    PROVE  /\ Spaced(ps) \in Seq(Seq(DocumentLines))
           /\ \/ Spaced(Append(ps, page)) = Append(Spaced(ps), page)
              \/ Spaced(Append(ps, page)) = Append(Spaced(ps), <<BlankLine>> \o page)
<1> DEFINE n == Len(ps)
           a == Append(ps, page)
<1>1. /\ n \in Nat /\ DOMAIN ps = 1 .. n /\ DOMAIN a = 1 .. n + 1
      /\ a[n + 1] = page /\ \A i \in 1 .. n : a[i] = ps[i]
      /\ \A i \in 1 .. n : ps[i] \in Seq(Lines)
  BY AppendProperties, LenProperties, ElementOfSeq
<1> HIDE DEF a
<1>2. \A q \in Seq(Lines) : q \in Seq(DocumentLines) /\ <<BlankLine>> \o q \in Seq(DocumentLines)
  <2> SUFFICES ASSUME NEW q \in Seq(Lines)
               PROVE  q \in Seq(DocumentLines) /\ <<BlankLine>> \o q \in Seq(DocumentLines)
    OBVIOUS
  <2>1. q \in Seq(DocumentLines)
    <3>1. \A i \in 1 .. Len(q) : q[i] \in DocumentLines
      BY ElementOfSeq DEF DocumentLines
    <3>2. q \in [1 .. Len(q) -> DocumentLines] /\ Len(q) \in Nat
      BY <3>1, LenProperties
    <3> QED
      BY <3>2, SMTT(30)
  <2>2. <<BlankLine>> \in Seq(DocumentLines)
    BY DEF DocumentLines
  <2> HIDE DEF DocumentLines
  <2> QED
    BY <2>1, <2>2
<1>3. /\ DOMAIN Spaced(ps) = 1 .. n
      /\ \A i \in 1 .. n : Spaced(ps)[i] \in Seq(DocumentLines)
  BY <1>1, <1>2 DEF Spaced
<1>4. Spaced(ps) \in Seq(Seq(DocumentLines))
  <2> DEFINE sp == Spaced(ps)
             S == Seq(DocumentLines)
  <2>1. sp = [i \in 1 .. n |-> sp[i]] /\ \A i \in 1 .. n : sp[i] \in S
    BY <1>1, <1>3 DEF Spaced
  <2> HIDE DEF sp, S
  <2>2. sp \in Seq(S)
    BY <1>1, <2>1, TypedSequence
  <2> QED
    BY <2>2 DEF sp, S
<1>5. \/ Spaced(a) = Append(Spaced(ps), page)
      \/ Spaced(a) = Append(Spaced(ps), <<BlankLine>> \o page)
  <2> DEFINE last == Spaced(a)[n + 1]
             sp == Spaced(ps)
             sa == Spaced(a)
  <2>1. last = page \/ last = <<BlankLine>> \o page
    <3>1. n + 1 \in DOMAIN a
      BY <1>1
    <3> QED
      BY <1>1, <3>1 DEF Spaced
  <2>2. \A i \in 1 .. n : sa[i] = sp[i]
    <3> SUFFICES ASSUME NEW i \in 1 .. n
                 PROVE  Spaced(a)[i] = Spaced(ps)[i]
      OBVIOUS
    <3>1. i \in DOMAIN a /\ i \in DOMAIN ps /\ \A j \in 1 .. i - 1 : j \in 1 .. n
      BY <1>1
    <3>2. a[i] = ps[i] /\ \A j \in 1 .. i - 1 : a[j] = ps[j]
      BY <1>1, <3>1
    <3> QED
      BY <3>1, <3>2 DEF Spaced
  <2>3. last \in Seq(DocumentLines)
    BY <1>2, <2>1
  <2>4. sa = [i \in 1 .. n + 1 |-> sa[i]]
    BY <1>1 DEF Spaced
  <2>5. sp \in Seq(Seq(DocumentLines)) /\ Len(sp) = n
    BY <1>1, <1>3, <1>4, LenProperties
  <2>6. sa[n + 1] = last
    OBVIOUS
  <2> HIDE DEF sp, sa, last
  <2>7. /\ Append(sp, last) \in Seq(Seq(DocumentLines)) /\ Len(Append(sp, last)) = n + 1
        /\ Append(sp, last)[n + 1] = last
        /\ \A i \in 1 .. n : Append(sp, last)[i] = sp[i]
    BY <2>3, <2>5, AppendProperties
  <2>8. \A i \in 1 .. n + 1 : sa[i] \in Seq(DocumentLines) /\ sa[i] = Append(sp, last)[i]
    <3>1. \A i \in 1 .. n + 1 : i \in 1 .. n \/ i = n + 1
      BY <1>1
    <3>2. \A i \in 1 .. n : sp[i] \in Seq(DocumentLines)
      BY <2>5, ElementOfSeq
    <3> QED
      BY <2>2, <2>3, <2>6, <2>7, <3>1, <3>2
  <2>9. sa \in Seq(Seq(DocumentLines)) /\ Len(sa) = n + 1
    <3> DEFINE S == Seq(DocumentLines)
    <3>1. n + 1 \in Nat /\ \A i \in 1 .. n + 1 : sa[i] \in S
      BY <1>1, <2>8
    <3> HIDE DEF S
    <3>2. sa \in Seq(S) /\ Len(sa) = n + 1
      BY <2>4, <3>1, TypedSequence
    <3> QED
      BY <3>2 DEF S
  <2>10. sa = Append(sp, last)
    BY <2>7, <2>8, <2>9, SeqEqual
  <2> QED
    BY <2>1, <2>10 DEF sp, sa
<1> QED
  BY <1>4, <1>5 DEF a

LEMMA PagesKeepText ==
    ASSUME NEW ps \in Seq(Seq(Lines))
    PROVE  /\ Joined(Spaced(ps)) \in Seq(DocumentLines)
           /\ Joined(ps) \in Seq(Lines)
           /\ TextOf(Joined(Spaced(ps))) = TextOf(Joined(ps))
<1> DEFINE Good(q) == /\ Joined(Spaced(q)) \in Seq(DocumentLines)
                      /\ Joined(q) \in Seq(Lines)
                      /\ TextOf(Joined(Spaced(q))) = TextOf(Joined(q))
           T == {q \in Seq(Seq(Lines)) : Good(q)}
<1>0. \A q \in Seq(Lines) : q \in Seq(DocumentLines)
  <2> SUFFICES ASSUME NEW q \in Seq(Lines)
               PROVE  q \in Seq(DocumentLines)
    OBVIOUS
  <2>1. \A i \in 1 .. Len(q) : q[i] \in DocumentLines
    BY ElementOfSeq DEF DocumentLines
  <2>2. q \in [1 .. Len(q) -> DocumentLines] /\ Len(q) \in Nat
    BY <2>1, LenProperties
  <2> QED
    BY <2>2
<1>1. <<>> \in T
  <2>1. Spaced(<<>>) = <<>>
    BY DEF Spaced
  <2>2. Joined(<<>>) = <<>> /\ TextOf(<<>>) = <<>>
    BY JoinedNone, TextOfNone
  <2>3. <<>> \in Seq(Lines) /\ <<>> \in Seq(DocumentLines) /\ <<>> \in Seq(Seq(Lines))
    OBVIOUS
  <2> QED
    BY <2>1, <2>2, <2>3
<1>2. ASSUME NEW q \in Seq(Seq(Lines)), NEW page \in Seq(Lines), Good(q)
      PROVE  Append(q, page) \in Seq(Seq(Lines)) /\ Good(Append(q, page))
  <2>1. /\ Joined(Append(q, page)) = Joined(q) \o page
        /\ Joined(q) \in Seq(Lines)
    BY JoinedAppend
  <2>2. PICK tail \in {page, <<BlankLine>> \o page} : Spaced(Append(q, page)) = Append(Spaced(q), tail)
    BY SpacedAppend
  <2>3. Spaced(q) \in Seq(Seq(DocumentLines))
    BY SpacedAppend
  <2>4. /\ page \in Seq(DocumentLines) /\ <<BlankLine>> \in Seq(DocumentLines)
        /\ tail \in Seq(DocumentLines)
    <3>1. page \in Seq(DocumentLines)
      BY <1>0
    <3>2. <<BlankLine>> \in Seq(DocumentLines)
      BY DEF DocumentLines
    <3> HIDE DEF DocumentLines
    <3>3. <<BlankLine>> \o page \in Seq(DocumentLines)
      BY <3>1, <3>2
    <3> QED
      BY <2>2, <3>1, <3>2, <3>3
  <2>5. /\ Joined(Spaced(Append(q, page))) = Joined(Spaced(q)) \o tail
        /\ Joined(Spaced(q)) \in Seq(DocumentLines)
    BY <2>2, <2>3, <2>4, JoinedAppend
  <2>6. TextOf(tail) = TextOf(page)
    <3>1. CASE tail = page
      BY <3>1
    <3>2. CASE tail = <<BlankLine>> \o page
      <4>1. ~IsText(BlankLine) /\ BlankLine \in DocumentLines
        BY DEF IsText, BlankLine, DocumentLines
      <4>2. <<BlankLine>> = Append(<<>>, BlankLine) /\ <<>> \in Seq(DocumentLines)
        OBVIOUS
      <4>2a. TextOf(Append(<<>>, BlankLine)) =
                IF IsText(BlankLine) THEN Append(TextOf(<<>>), BlankLine) ELSE TextOf(<<>>)
        BY <4>1, <4>2, TextOfAppend
      <4>3. TextOf(<<BlankLine>>) = <<>>
        BY <4>1, <4>2, <4>2a, TextOfNone
      <4>4. TextOf(tail) = TextOf(<<BlankLine>>) \o TextOf(page)
        BY <2>4, <3>2, TextOfConcat
      <4>5. TextOf(page) \in Seq(DocumentLines)
        BY <2>4, SelectProperties DEF TextOf
      <4>6. <<>> \o TextOf(page) = TextOf(page)
        BY <4>5
      <4> QED
        BY <4>3, <4>4, <4>6
    <3> QED
      BY <2>2, <3>1, <3>2
  <2>7. TextOf(Joined(Spaced(q)) \o tail) = TextOf(Joined(Spaced(q))) \o TextOf(tail)
    BY <2>4, <2>5, TextOfConcat
  <2>8. TextOf(Joined(q) \o page) = TextOf(Joined(q)) \o TextOf(page)
    BY <2>1, TextOfConcat
  <2>9. /\ Joined(Spaced(Append(q, page))) \in Seq(DocumentLines)
        /\ Joined(Append(q, page)) \in Seq(Lines)
        /\ Append(q, page) \in Seq(Seq(Lines))
    BY <2>1, <2>4, <2>5
  <2> QED
    BY <1>2, <2>1, <2>5, <2>6, <2>7, <2>8, <2>9
<1> HIDE DEF Good
<1>3. \A q \in Seq(Seq(Lines)), page \in Seq(Lines) : q \in T => Append(q, page) \in T
  BY <1>2
<1>4. ps \in T
  <2> HIDE DEF T
  <2> QED
    BY <1>1, <1>3, EverySequence
<1> QED
  BY <1>4 DEF Good

-----------------------------------------------------------------------------
(* Normalising, stripping, and the places of the headings.                 *)

\* The first item selected is the one at the first position.
LEMMA FirstSelected ==
    ASSUME NEW X, NEW s \in Seq(X), NEW P, NEW m \in 1 .. Len(s), m \in P,
           \A i \in 1 .. m - 1 : i \notin P
    PROVE  Select(s, P) # <<>> /\ Select(s, P)[1] = s[m]
<1> DEFINE T == {t \in Seq(X) : IF Len(t) < m THEN Select(t, P) = <<>>
                                ELSE Select(t, P) # <<>> /\ Select(t, P)[1] = t[m]}
<1>0. m \in Nat /\ m >= 1 /\ Len(s) \in Nat
  BY LenProperties
<1>1. <<>> \in T
  BY <1>0, SelectNone
<1>2. ASSUME NEW t \in Seq(X), NEW x \in X, t \in T
      PROVE  Append(t, x) \in T
  <2> DEFINE n == Len(t)
             a == Append(t, x)
             old == Select(t, P)
  <2>1. /\ n \in Nat /\ a \in Seq(X) /\ Len(a) = n + 1 /\ a[n + 1] = x
        /\ \A i \in 1 .. n : a[i] = t[i]
    BY AppendProperties, LenProperties
  <2>2. Select(a, P) = IF n + 1 \in P THEN Append(old, x) ELSE old
    BY SelectAppend
  <2>3. old \in Seq(X) /\ (IF n < m THEN old = <<>> ELSE old # <<>> /\ old[1] = t[m])
    BY <1>2, SelectProperties
  <2> HIDE DEF a, old, n
  <2>4. CASE n + 1 < m
    <3>1. n + 1 \in 1 .. m - 1 /\ n < m
      BY <1>0, <2>1, <2>4
    <3> QED
      BY <2>1, <2>2, <2>3, <2>4, <3>1 DEF a
  <2>5. CASE n + 1 = m
    <3>1. n < m /\ ~(n + 1 < m)
      BY <1>0, <2>1, <2>5
    <3>2. Select(a, P) = Append(<<>>, x)
      BY <2>2, <2>3, <2>5, <3>1
    <3>3. Append(<<>>, x) # <<>> /\ Append(<<>>, x)[1] = x
      OBVIOUS
    <3> QED
      BY <2>1, <2>5, <3>1, <3>2, <3>3 DEF a
  <2>6. CASE n + 1 > m
    <3>1. ~(n < m) /\ ~(n + 1 < m) /\ m \in 1 .. n
      BY <1>0, <2>1, <2>6
    <3>2. old # <<>> /\ old[1] = t[m] /\ a[m] = t[m]
      BY <2>1, <2>3, <3>1
    <3>3. Append(old, x) # <<>> /\ Append(old, x)[1] = old[1]
      <4>1. 1 \in 1 .. Len(old) /\ Len(old) \in Nat
        BY <2>3, <3>2, LenProperties, EmptySeq
      <4>2. Len(Append(old, x)) = Len(old) + 1 /\ Append(old, x)[1] = old[1]
        BY <2>3, <4>1, AppendProperties
      <4> QED
        BY <4>1, <4>2
    <3> QED
      BY <2>1, <2>2, <3>1, <3>2, <3>3 DEF a
  <2> QED
    BY <1>0, <2>1, <2>4, <2>5, <2>6
<1>3. s \in T
  <2> HIDE DEF T
  <2> QED
    BY <1>1, <1>2, EverySequence
<1> QED
  BY <1>0, <1>3

LEMMA NormalizedKeeps ==
    ASSUME NEW X, NEW text \in Seq(X)
    PROVE  /\ Normalized(text) \in Seq(X)
           /\ TextOf(Normalized(text)) = TextOf(text)
           /\ Normalized(text) # <<>> => IsText(Normalized(text)[1])
<1> DEFINE n == Len(text)
           between(i) == /\ \E j \in 1..(i - 1) : IsText(text[j])
                         /\ \E j \in (i + 1)..n : IsText(text[j])
           P == {i \in DOMAIN text : IsText(text[i]) \/ (between(i) /\ IsText(text[i - 1]))}
<1>1. n \in Nat /\ DOMAIN text = 1 .. n
  BY LenProperties
<1>2. Normalized(text) = Select(text, P)
  BY DEF Normalized
<1>3. \A i \in 1 .. n : IsText(text[i]) => i \in P
  BY <1>1
<1>4. P \in SUBSET (1 .. n)
  BY <1>1
<1>5. ASSUME Normalized(text) # <<>>
      PROVE  IsText(Normalized(text)[1])
  <2>1. P # {}
    <3> HIDE DEF P
    <3>1. CASE P = {}
      <4>1. ToSet(Select(text, P)) = {} /\ Select(text, P) \in Seq(X)
        BY <3>1, SelectProperties
      <4>2. Len(Select(text, P)) \in Nat /\ DOMAIN Select(text, P) = 1 .. Len(Select(text, P))
        BY <4>1, LenProperties
      <4>3. 1 \notin 1 .. Len(Select(text, P))
        BY <4>1, <4>2 DEF ToSet
      <4>4. Len(Select(text, P)) = 0
        BY <4>2, <4>3
      <4> QED
        BY <1>2, <1>5, <4>1, <4>4, EmptySeq
    <3> QED
      BY <3>1
  <2>2. PICK m \in P : \A i \in P : m <= i
    <3> HIDE DEF P
    <3> QED
      BY <1>1, <1>4, <2>1, FirstPlace
  <2>3. m \in 1 .. n /\ \A i \in 1 .. m - 1 : i \notin P
    BY <1>1, <1>4, <2>2
  <2>4. IsText(text[m])
    <3>1. CASE between(m) /\ IsText(text[m - 1])
      <4>1. m - 1 \in 1 .. m - 1 /\ m - 1 \in 1 .. n
        BY <1>1, <2>3, <3>1
      <4> QED
        BY <1>3, <2>3, <3>1, <4>1
    <3> QED
      BY <2>2, <3>1
  <2>5. Select(text, P)[1] = text[m]
    <3> HIDE DEF P
    <3> QED
      BY <2>2, <2>3, FirstSelected
  <2> QED
    BY <1>2, <2>4, <2>5
<1> HIDE DEF P
<1> QED
  BY <1>2, <1>3, <1>5, SelectProperties, TextOfSelect

LEMMA StrippedKeeps ==
    ASSUME NEW X, NEW lines \in Seq(X)
    PROVE  /\ Stripped(lines) \in Seq(X)
           /\ TextOf(Stripped(lines)) = TextOf(lines)
           /\ Len(Stripped(lines)) \in 0 .. Len(lines)
<1> DEFINE P == {i \in DOMAIN lines : /\ \E j \in 1..i : IsText(lines[j])
                                      /\ \E j \in i..Len(lines) : IsText(lines[j])}
<1>1. Len(lines) \in Nat /\ DOMAIN lines = 1 .. Len(lines)
  BY LenProperties
<1>2. \A i \in 1 .. Len(lines) : IsText(lines[i]) => i \in P
  <2>1. \A i \in 1 .. Len(lines) : i \in 1 .. i /\ i \in i .. Len(lines)
    BY <1>1
  <2> QED
    BY <1>1, <2>1
<1>3. Stripped(lines) = Select(lines, P)
  BY DEF Stripped
<1> HIDE DEF P
<1> QED
  BY <1>2, <1>3, SelectProperties, TextOfSelect

Rising(s) == \A i, j \in 1 .. Len(s) : i < j => s[i] < s[j]

LEMMA RisingSelect ==
    ASSUME NEW s \in Seq(Nat), Rising(s), NEW P
    PROVE  Rising(Select(s, P))
<1> DEFINE T == {t \in Seq(Nat) : Rising(t) => Rising(Select(t, P))}
<1>1. <<>> \in T
  <2>1. Select(<<>>, P) = <<>> /\ Rising(<<>>)
    BY SelectNone DEF Rising
  <2> QED
    BY <2>1
<1>2. ASSUME NEW t \in Seq(Nat), NEW x \in Nat, t \in T
      PROVE  Append(t, x) \in T
  <2> DEFINE n == Len(t)
             a == Append(t, x)
             old == Select(t, P)
             new == Append(old, x)
             m == Len(old)
  <2>1. /\ n \in Nat /\ a \in Seq(Nat) /\ Len(a) = n + 1 /\ a[n + 1] = x
        /\ \A i \in 1 .. n : a[i] = t[i]
    BY AppendProperties, LenProperties
  <2>2. Select(a, P) = IF n + 1 \in P THEN new ELSE old
    BY SelectAppend
  <2>3. old \in Seq(Nat) /\ ToSet(old) = {t[i] : i \in P \intersect (1 .. n)}
    BY SelectProperties
  <2>4. /\ m \in Nat /\ DOMAIN old = 1 .. m /\ Len(new) = m + 1 /\ new[m + 1] = x
        /\ \A i \in 1 .. m : new[i] = old[i]
    BY <2>3, AppendProperties, LenProperties
  <2> HIDE DEF a, old, new, n, m
  <2>5. ASSUME Rising(a)
        PROVE  Rising(Select(a, P))
    <3>1. Rising(old)
      <4>1. Rising(t)
        <5>1. \A i \in 1 .. n : i \in 1 .. n + 1
          BY <2>1
        <5> QED
          BY <2>1, <2>5, <5>1 DEF Rising, n
      <4> QED
        BY <1>2, <4>1 DEF old
    <3>2. \A i \in 1 .. m : old[i] < x
      <4> SUFFICES ASSUME NEW i \in 1 .. m
                   PROVE  old[i] < x
        OBVIOUS
      <4>1. old[i] \in ToSet(old)
        BY <2>4 DEF ToSet
      <4>2. PICK k \in 1 .. n : old[i] = t[k]
        BY <2>3, <4>1
      <4>3. k \in 1 .. n + 1 /\ n + 1 \in 1 .. n + 1 /\ k < n + 1
        BY <2>1
      <4> QED
        BY <2>1, <2>5, <4>2, <4>3 DEF Rising
    <3>3. Rising(new)
      <4> SUFFICES ASSUME NEW i \in 1 .. m + 1, NEW j \in 1 .. m + 1, i < j
                   PROVE  new[i] < new[j]
        BY <2>4 DEF Rising
      <4>1. i \in 1 .. m /\ (j \in 1 .. m \/ j = m + 1)
        BY <2>4
      <4> QED
        BY <2>4, <3>1, <3>2, <4>1 DEF Rising, m
    <3> QED
      BY <2>2, <3>1, <3>3
  <2> QED
    BY <2>1, <2>5 DEF a
<1>3. s \in T
  <2> HIDE DEF T
  <2> QED
    BY <1>1, <1>2, EverySequence
<1> QED
  BY <1>3

\* The boundaries are the headings, in order; between one and the next start
\* there is no other.
LEMMA Cuts ==
    ASSUME NEW X, NEW lines \in Seq(X)
    PROVE  LET b == Boundaries(lines)
               n == Len(lines)
               m == Len(b)
           IN  /\ n \in Nat /\ m \in Nat /\ DOMAIN b = 1 .. m
               /\ NextStart(lines, m) = n + 1
               /\ \A p \in 1 .. m : /\ b[p] \in 1 .. n /\ IsHeading(lines[b[p]])
                                    /\ NextStart(lines, p - 1) = b[p]
                                    /\ b[p] < NextStart(lines, p)
               /\ \A p \in 0 .. m : /\ NextStart(lines, p) \in 1 .. n + 1
                                    /\ \A i \in 1 .. NextStart(lines, p) - 1 :
                                          (p > 0 /\ i <= b[p]) \/ ~IsHeading(lines[i])
<1> DEFINE b == Boundaries(lines)
           n == Len(lines)
           m == Len(b)
           H == {i \in DOMAIN lines : IsHeading(lines[i])}
           id == [i \in DOMAIN lines |-> i]
           N(p) == NextStart(lines, p)
<1>1. n \in Nat /\ DOMAIN lines = 1 .. n
  BY LenProperties
<1>2. id \in Seq(Nat) /\ Len(id) = n /\ \A i \in 1 .. n : id[i] = i
  <2>1. id = [i \in 1 .. n |-> id[i]] /\ \A i \in 1 .. n : id[i] = i /\ i \in Nat
    BY <1>1
  <2> HIDE DEF id
  <2> QED
    BY <1>1, <2>1, TypedSequence
<1>3. b = Select(id, H)
  BY DEF Boundaries
<1>4. H \in SUBSET (1 .. n) /\ \A i \in 1 .. n : i \in H <=> IsHeading(lines[i])
  BY <1>1
<1> HIDE DEF H, id, b
<1>5. b \in Seq(Nat) /\ m \in Nat /\ DOMAIN b = 1 .. m
  BY <1>2, <1>3, SelectProperties, LenProperties
<1>6. ToSet(b) = H
  <2>1. ToSet(b) = {id[i] : i \in H \intersect (1 .. n)}
    BY <1>2, <1>3, SelectProperties
  <2> QED
    BY <1>2, <1>4, <2>1, ZenonT(30)
<1>7. Rising(b)
  <2>1. Rising(id)
    BY <1>2 DEF Rising
  <2> QED
    BY <1>2, <1>3, <2>1, RisingSelect
<1>8. \A p : N(p) = IF p < m THEN b[p + 1] ELSE n + 1
  BY DEF NextStart, b
<1> HIDE DEF N, m, n
<1>9. \A p \in 1 .. m : b[p] \in 1 .. n /\ IsHeading(lines[b[p]])
  <2>1. \A p \in 1 .. m : b[p] \in H
    BY <1>5, <1>6 DEF ToSet
  <2> QED
    BY <1>4, <2>1
<1>10. N(m) = n + 1
  BY <1>5, <1>8
<1>11. \A p \in 1 .. m : N(p - 1) = b[p]
  <2> SUFFICES ASSUME NEW p \in 1 .. m
               PROVE  N(p - 1) = b[p]
    OBVIOUS
  <2>1. p - 1 < m /\ p - 1 + 1 = p
    BY <1>5
  <2>2. N(p - 1) = b[p - 1 + 1]
    BY <1>8, <2>1
  <2> QED
    BY <2>1, <2>2
<1>12. \A p \in 1 .. m : b[p] < N(p)
  <2> SUFFICES ASSUME NEW p \in 1 .. m
               PROVE  b[p] < N(p)
    OBVIOUS
  <2>1. CASE p < m
    <3>1. p + 1 \in 1 .. m /\ p < p + 1
      BY <1>5, <2>1
    <3>2. b[p] < b[p + 1]
      BY <1>7, <3>1 DEF Rising, m
    <3> QED
      BY <1>8, <2>1, <3>2
  <2>2. CASE ~(p < m)
    <3>1. N(p) = n + 1 /\ b[p] \in 1 .. n
      BY <1>8, <1>9, <2>2
    <3> QED
      BY <1>1, <3>1
  <2> QED
    BY <2>1, <2>2
<1>13. \A p \in 0 .. m : N(p) \in 1 .. n + 1
  <2> SUFFICES ASSUME NEW p \in 0 .. m
               PROVE  N(p) \in 1 .. n + 1
    OBVIOUS
  <2>1. CASE p < m
    <3>1. p + 1 \in 1 .. m
      BY <1>5, <2>1
    <3>2. b[p + 1] \in 1 .. n
      BY <1>9, <3>1
    <3> QED
      BY <1>1, <1>8, <2>1, <3>2
  <2>2. CASE ~(p < m)
    BY <1>1, <1>8, <2>2
  <2> QED
    BY <2>1, <2>2
<1>14. \A p \in 0 .. m : \A i \in 1 .. N(p) - 1 : (p > 0 /\ i <= b[p]) \/ ~IsHeading(lines[i])
  <2> SUFFICES ASSUME NEW p \in 0 .. m, NEW i \in 1 .. N(p) - 1, IsHeading(lines[i])
               PROVE  p > 0 /\ i <= b[p]
    OBVIOUS
  <2>1. i \in 1 .. n /\ i < N(p)
    BY <1>1, <1>13
  <2>2. i \in ToSet(b)
    BY <1>4, <1>6, <2>1
  <2>3. PICK q \in 1 .. m : i = b[q]
    BY <1>5, <2>2 DEF ToSet
  <2>4. q <= p
    <3> SUFFICES ASSUME p < q
                 PROVE  FALSE
      BY <1>5
    <3>1. p < m /\ p + 1 \in 1 .. m /\ (p + 1 = q \/ p + 1 < q)
      BY <1>5
    <3>2. N(p) = b[p + 1] /\ b[p + 1] \in 1 .. n
      BY <1>8, <1>9, <3>1
    <3>3. p + 1 < q => b[p + 1] < b[q]
      BY <1>7, <3>1 DEF Rising, m
    <3> QED
      BY <1>1, <2>1, <2>3, <3>1, <3>2, <3>3
  <2>5. p > 0 /\ p \in 1 .. m
    BY <1>5, <2>4
  <2>6. q = p \/ q < p
    BY <1>5, <2>4
  <2>7. q < p => b[q] < b[p]
    BY <1>7, <2>5 DEF Rising, m
  <2>8. b[p] \in 1 .. n /\ b[q] \in 1 .. n
    BY <1>9, <2>5
  <2> QED
    BY <1>1, <2>3, <2>5, <2>6, <2>7, <2>8
<1> QED
  BY <1>1, <1>5, <1>9, <1>10, <1>11, <1>12, <1>13, <1>14 DEF b, n, m, N

-----------------------------------------------------------------------------
(* The sections, read in order.                                            *)

Heading(t) == [canonical |-> t, kind |-> "heading", long |-> FALSE]

\* A line as the sections tell it: a heading by its type.
Mark(line) == IF IsHeading(line) THEN Heading(HeadingType(line)) ELSE line
Marked(s) == [i \in DOMAIN s |-> Mark(s[i])]

Marks == DocumentLines \union {Mark(line) : line \in DocumentLines}

LEMMA MarkedProperties ==
    ASSUME NEW s \in Seq(DocumentLines)
    PROVE  /\ Marked(s) \in Seq(Marks) /\ Len(Marked(s)) = Len(s)
           /\ \A i \in 1 .. Len(s) : Marked(s)[i] = Mark(s[i])
<1> DEFINE n == Len(s)
           m == Marked(s)
<1>1. n \in Nat /\ DOMAIN s = 1 .. n /\ \A i \in 1 .. n : s[i] \in DocumentLines
  BY LenProperties, ElementOfSeq
<1>2. m = [i \in 1 .. n |-> m[i]] /\ \A i \in 1 .. n : m[i] = Mark(s[i])
  BY <1>1 DEF Marked
<1>3. \A i \in 1 .. n : m[i] \in Marks
  BY <1>1, <1>2 DEF Marks
<1> HIDE DEF m, n
<1>4. m \in Seq(Marks) /\ Len(m) = n
  BY <1>1, <1>2, <1>3, TypedSequence
<1> QED
  BY <1>2, <1>4 DEF m, n

LEMMA MarkedConcat ==
    ASSUME NEW s \in Seq(DocumentLines), NEW t \in Seq(DocumentLines)
    PROVE  Marked(s \o t) = Marked(s) \o Marked(t)
<1> DEFINE c == s \o t
           ms == Marked(s)
           mt == Marked(t)
           mc == Marked(c)
<1>1. /\ c \in Seq(DocumentLines) /\ Len(c) = Len(s) + Len(t)
      /\ Len(s) \in Nat /\ Len(t) \in Nat
      /\ \A i \in 1 .. Len(c) : c[i] = IF i <= Len(s) THEN s[i] ELSE t[i - Len(s)]
  BY ConcatProperties, LenProperties
<1> HIDE DEF c
<1>2. /\ ms \in Seq(Marks) /\ Len(ms) = Len(s) /\ \A i \in 1 .. Len(s) : ms[i] = Mark(s[i])
      /\ mt \in Seq(Marks) /\ Len(mt) = Len(t) /\ \A i \in 1 .. Len(t) : mt[i] = Mark(t[i])
      /\ mc \in Seq(Marks) /\ Len(mc) = Len(c) /\ \A i \in 1 .. Len(c) : mc[i] = Mark(c[i])
  BY <1>1, MarkedProperties
<1> HIDE DEF ms, mt, mc
<1>3. /\ ms \o mt \in Seq(Marks) /\ Len(ms \o mt) = Len(ms) + Len(mt)
      /\ \A i \in 1 .. Len(ms) + Len(mt) :
            (ms \o mt)[i] = IF i <= Len(ms) THEN ms[i] ELSE mt[i - Len(ms)]
  <2>1. ms \in Seq(Marks) /\ mt \in Seq(Marks)
    BY <1>2
  <2> QED
    BY <2>1, ConcatProperties
<1>4. \A i \in 1 .. Len(c) : mc[i] = (ms \o mt)[i]
  <2> SUFFICES ASSUME NEW i \in 1 .. Len(c)
               PROVE  mc[i] = (ms \o mt)[i]
    OBVIOUS
  <2>1. CASE i <= Len(s)
    <3>1. i \in 1 .. Len(s)
      BY <1>1, <2>1
    <3> QED
      BY <1>1, <1>2, <1>3, <2>1, <3>1
  <2>2. CASE ~(i <= Len(s))
    <3>1. i - Len(s) \in 1 .. Len(t)
      BY <1>1, <2>2
    <3> QED
      BY <1>1, <1>2, <1>3, <2>2, <3>1
  <2> QED
    BY <2>1, <2>2
<1>5. Len(mc) = Len(ms \o mt)
  BY <1>1, <1>2, <1>3
<1>6. mc = ms \o mt
  BY <1>1, <1>2, <1>3, <1>4, <1>5, SeqEqual
<1> QED
  BY <1>6 DEF c, ms, mt, mc

LEMMA MarkedPlain ==
    ASSUME NEW s \in Seq(DocumentLines), \A i \in 1 .. Len(s) : ~IsHeading(s[i])
    PROVE  Marked(s) = s
<1>1. Len(s) \in Nat /\ DOMAIN s = 1 .. Len(s)
  BY LenProperties
<1>2. \A i \in DOMAIN s : Mark(s[i]) = s[i]
  BY <1>1 DEF Mark
<1>3. s = [i \in DOMAIN s |-> s[i]]
  OBVIOUS
<1> QED
  BY <1>2, <1>3 DEF Marked

LEMMA HeadingsHaveText ==
    ASSUME NEW line \in DocumentLines, IsHeading(line)
    PROVE  IsText(line) /\ HeadingType(line) # "HEADER"
<1>1. ~IsHeading(BlankLine)
  <2>1. \A t \in DOMAIN HeadingAliases : "" \notin HeadingAliases[t]
    <3>1. DOMAIN HeadingAliases =
             {"SUMMARY", "EDUCATION", "SKILLS", "EXPERIENCE", "INTERNSHIPS", "PROJECTS",
              "CERTIFICATIONS", "ACHIEVEMENTS"}
      BY DEF HeadingAliases
    <3>2. "" \notin HeadingAliases["SUMMARY"]
      BY DEF HeadingAliases
    <3>3. "" \notin HeadingAliases["EDUCATION"]
      BY DEF HeadingAliases
    <3>4. "" \notin HeadingAliases["SKILLS"]
      BY DEF HeadingAliases
    <3>5. "" \notin HeadingAliases["EXPERIENCE"]
      BY DEF HeadingAliases
    <3>6. "" \notin HeadingAliases["INTERNSHIPS"]
      BY DEF HeadingAliases
    <3>7. "" \notin HeadingAliases["PROJECTS"]
      BY DEF HeadingAliases
    <3>8. "" \notin HeadingAliases["CERTIFICATIONS"]
      BY DEF HeadingAliases
    <3>9. "" \notin HeadingAliases["ACHIEVEMENTS"]
      BY DEF HeadingAliases
    <3> QED
      BY <3>1, <3>2, <3>3, <3>4, <3>5, <3>6, <3>7, <3>8, <3>9
  <2>2. BlankLine.canonical = ""
    BY DEF BlankLine
  <2> QED
    BY <2>1, <2>2 DEF IsHeading, HeadingTypes
<1>2. HeadingType(line) \in DOMAIN HeadingAliases
  <2>1. HeadingTypes(line) # {}
    BY DEF IsHeading
  <2>2. HeadingType(line) \in HeadingTypes(line)
    BY <2>1 DEF HeadingType
  <2> QED
    BY <2>2 DEF HeadingTypes
<1>3. "HEADER" \notin DOMAIN HeadingAliases
  BY DEF HeadingAliases
<1> QED
  BY <1>1, <1>2, <1>3, LinesAssumption DEF DocumentLines

\* What of a section is text, its heading first.
Piece(section) ==
    (IF section.section_type = "HEADER" THEN <<>> ELSE <<Heading(section.section_type)>>)
    \o TextOf(section.content)

\* The lines from the heading of a section to the next one.
LEMMA HeadedPiece ==
    ASSUME NEW lines \in Seq(DocumentLines), NEW p \in 1 .. Len(Boundaries(lines))
    PROVE  LET b    == Boundaries(lines)
               part == SubSeq(lines, b[p], NextStart(lines, p) - 1)
           IN  /\ Piece(HeadedSection(lines, p)) = Marked(TextOf(part))
               /\ Piece(HeadedSection(lines, p)) \in Seq(Marks)
               /\ part \in Seq(DocumentLines)
<1> DEFINE b == Boundaries(lines)
           n == Len(lines)
           N == NextStart(lines, p)
           h == lines[b[p]]
           rest == SubSeq(lines, b[p] + 1, N - 1)
           part == SubSeq(lines, b[p], N - 1)
<1>1. /\ n \in Nat /\ b[p] \in 1 .. n /\ IsHeading(h) /\ b[p] < N /\ N \in 1 .. n + 1
      /\ \A i \in b[p] + 1 .. N - 1 : ~IsHeading(lines[i])
  <2>1. /\ n \in Nat /\ b[p] \in 1 .. n /\ IsHeading(h) /\ b[p] < N /\ p \in 0 .. Len(b)
    BY Cuts
  <2>2. N \in 1 .. n + 1 /\ \A i \in 1 .. N - 1 : (p > 0 /\ i <= b[p]) \/ ~IsHeading(lines[i])
    BY <2>1, Cuts
  <2>3. \A i \in b[p] + 1 .. N - 1 : i \in 1 .. N - 1 /\ ~(i <= b[p])
    BY <2>1, <2>2
  <2> QED
    BY <2>1, <2>2, <2>3
<1> HIDE DEF b, n, N
<1>2. h \in DocumentLines /\ IsText(h) /\ HeadingType(h) # "HEADER"
  <2>1. h \in DocumentLines
    BY <1>1, ElementOfSeq DEF n
  <2> QED
    BY <1>1, <2>1, HeadingsHaveText
<1>3. /\ rest \in Seq(DocumentLines) /\ part \in Seq(DocumentLines)
      /\ \A i \in 1 .. Len(rest) : ~IsHeading(rest[i])
      /\ part = <<h>> \o rest /\ <<h>> \in Seq(DocumentLines)
  <2>1. /\ rest \in Seq(DocumentLines) /\ Len(rest) = N - 1 - b[p]
        /\ \A i \in 1 .. N - 1 - b[p] : rest[i] = lines[b[p] + i]
    BY <1>1, SMTT(30) DEF n
  <2>2. /\ part \in Seq(DocumentLines) /\ Len(part) = N - b[p]
        /\ \A i \in 1 .. N - b[p] : part[i] = lines[b[p] + i - 1]
    BY <1>1 DEF n
  <2>3. <<h>> \in Seq(DocumentLines) /\ Len(<<h>>) = 1 /\ <<h>>[1] = h
    BY <1>2
  <2> HIDE DEF rest, part, h
  <2>4. /\ <<h>> \o rest \in Seq(DocumentLines) /\ Len(<<h>> \o rest) = 1 + Len(rest)
        /\ \A i \in 1 .. 1 + Len(rest) :
              (<<h>> \o rest)[i] = IF i <= 1 THEN <<h>>[i] ELSE rest[i - 1]
    BY <2>1, <2>3, ConcatProperties
  <2>5. \A i \in 1 .. N - b[p] : part[i] = (<<h>> \o rest)[i]
    <3> SUFFICES ASSUME NEW i \in 1 .. N - b[p]
                 PROVE  part[i] = (<<h>> \o rest)[i]
      OBVIOUS
    <3>1. CASE i = 1
      <4>1. 1 \in 1 .. 1 + Len(rest) /\ b[p] + 1 - 1 = b[p]
        BY <1>1, <2>1, <3>1
      <4> QED
        BY <2>2, <2>3, <2>4, <3>1, <4>1 DEF h
    <3>2. CASE i # 1
      <4>1. i \in 1 .. 1 + Len(rest) /\ ~(i <= 1) /\ i - 1 \in 1 .. N - 1 - b[p]
            /\ b[p] + (i - 1) = b[p] + i - 1
        BY <1>1, <2>1, <3>2, SMTT(30)
      <4> QED
        BY <2>1, <2>2, <2>4, <4>1
    <3> QED
      BY <3>1, <3>2
  <2>6. Len(part) = Len(<<h>> \o rest)
    BY <1>1, <2>1, <2>2, <2>4
  <2>7. part = <<h>> \o rest
    BY <2>2, <2>4, <2>5, <2>6, SeqEqual
  <2>8. ASSUME NEW i \in 1 .. Len(rest)
        PROVE  ~IsHeading(rest[i])
    <3>1. i \in 1 .. N - 1 - b[p] /\ b[p] + i \in b[p] + 1 .. N - 1
      BY <1>1, <2>1
    <3> QED
      BY <1>1, <2>1, <3>1
  <2> QED
    BY <2>1, <2>2, <2>3, <2>7, <2>8
<1> HIDE DEF h, rest, part
<1>4. TextOf(part) = <<h>> \o TextOf(rest) /\ TextOf(rest) \in Seq(DocumentLines)
  <2>1. TextOf(Append(<<>>, h)) = IF IsText(h) THEN Append(TextOf(<<>>), h) ELSE TextOf(<<>>)
    <3>1. <<>> \in Seq(DocumentLines)
      OBVIOUS
    <3> QED
      BY <1>2, <3>1, TextOfAppend
  <2>2. Append(<<>>, h) = <<h>>
    OBVIOUS
  <2>3. TextOf(<<h>>) = <<h>>
    BY <1>2, <2>1, <2>2, TextOfNone
  <2>4. TextOf(<<h>> \o rest) = TextOf(<<h>>) \o TextOf(rest)
    BY <1>3, TextOfConcat
  <2>5. TextOf(rest) \in Seq(DocumentLines)
    BY <1>3, SelectProperties DEF TextOf
  <2> QED
    BY <1>3, <2>3, <2>4, <2>5
<1>5. Marked(TextOf(rest)) = TextOf(rest)
  <2>1. \A i \in 1 .. Len(TextOf(rest)) : ~IsHeading(TextOf(rest)[i])
    <3> SUFFICES ASSUME NEW i \in 1 .. Len(TextOf(rest))
                 PROVE  ~IsHeading(TextOf(rest)[i])
      OBVIOUS
    <3>1. PICK k \in 1 .. Len(rest) : TextOf(rest)[i] = rest[k]
      BY <1>3, TextOfFrom
    <3> QED
      BY <1>3, <3>1
  <2> QED
    BY <1>4, <2>1, MarkedPlain
<1>6. Marked(<<h>>) = <<Heading(HeadingType(h))>>
  <2>1. Mark(h) = Heading(HeadingType(h))
    BY <1>1 DEF Mark, h
  <2> QED
    BY <2>1 DEF Marked
<1>7. Marked(TextOf(part)) = <<Heading(HeadingType(h))>> \o TextOf(rest)
  BY <1>3, <1>4, <1>5, <1>6, MarkedConcat
<1>8. Piece(HeadedSection(lines, p)) = <<Heading(HeadingType(h))>> \o TextOf(rest)
  <2>1. /\ HeadedSection(lines, p).section_type = HeadingType(h)
        /\ HeadedSection(lines, p).content = Stripped(rest)
    BY DEF HeadedSection, b, h, rest, N
  <2>2. TextOf(Stripped(rest)) = TextOf(rest)
    BY <1>3, StrippedKeeps
  <2> QED
    BY <1>2, <2>1, <2>2 DEF Piece
<1>9. Marked(TextOf(part)) \in Seq(Marks)
  <2>1. TextOf(part) \in Seq(DocumentLines)
    BY <1>3, SelectProperties DEF TextOf
  <2> QED
    BY <2>1, MarkedProperties
<1> QED
  BY <1>3, <1>7, <1>8, <1>9 DEF b, N, part

\* The part before the first heading.
LEMMA HeaderPiece ==
    ASSUME NEW lines \in Seq(DocumentLines)
    PROVE  LET part == SubSeq(lines, 1, NextStart(lines, 0) - 1)
           IN  /\ Piece(HeaderSection(lines)) = Marked(TextOf(part))
               /\ Piece(HeaderSection(lines)) \in Seq(Marks)
               /\ part \in Seq(DocumentLines) /\ Len(part) = NextStart(lines, 0) - 1
               /\ HeaderSection(lines).content = Stripped(part)
<1> DEFINE n == Len(lines)
           N == NextStart(lines, 0)
           part == SubSeq(lines, 1, N - 1)
<1>1. n \in Nat /\ N \in 1 .. n + 1 /\ \A i \in 1 .. N - 1 : ~IsHeading(lines[i])
  <2>1. n \in Nat /\ Len(Boundaries(lines)) \in Nat
    BY Cuts
  <2>2. 0 \in 0 .. Len(Boundaries(lines)) /\ ~(0 > 0)
    BY <2>1
  <2> QED
    BY <2>1, <2>2, Cuts
<1> HIDE DEF N
<1>2. part \in Seq(DocumentLines) /\ Len(part) = N - 1 /\ \A i \in 1 .. N - 1 : part[i] = lines[i]
  BY <1>1
<1> HIDE DEF n, part
<1>3. HeaderSection(lines).content = Stripped(part) /\ HeaderSection(lines).section_type = "HEADER"
  BY DEF HeaderSection, N, part
<1>4. TextOf(part) \in Seq(DocumentLines)
  BY <1>2, SelectProperties DEF TextOf
<1>5. Piece(HeaderSection(lines)) = TextOf(part)
  <2>1. TextOf(Stripped(part)) = TextOf(part)
    BY <1>2, StrippedKeeps
  <2>2. <<>> \o TextOf(part) = TextOf(part)
    BY <1>4
  <2> QED
    BY <1>3, <2>1, <2>2 DEF Piece
<1>6. Marked(TextOf(part)) = TextOf(part)
  <2>1. \A i \in 1 .. Len(TextOf(part)) : ~IsHeading(TextOf(part)[i])
    <3> SUFFICES ASSUME NEW i \in 1 .. Len(TextOf(part))
                 PROVE  ~IsHeading(TextOf(part)[i])
      OBVIOUS
    <3>1. PICK k \in 1 .. Len(part) : TextOf(part)[i] = part[k]
      BY <1>2, TextOfFrom
    <3> QED
      BY <1>1, <1>2, <3>1
  <2> QED
    BY <1>4, <2>1, MarkedPlain
<1>7. Marked(TextOf(part)) \in Seq(Marks)
  BY <1>4, MarkedProperties
<1> QED
  BY <1>2, <1>3, <1>5, <1>6, <1>7 DEF N, part

\* The sections in order: the header when it has content, then one per heading.
LEMMA SectionsAre ==
    ASSUME NEW lines \in Seq(DocumentLines)
    PROVE  LET s == Sections(lines)
               k == IF HeaderSection(lines).content = <<>> THEN 0 ELSE 1
               m == Len(Boundaries(lines))
           IN  /\ s = [i \in 1 .. k + m |-> s[i]] /\ DOMAIN s = 1 .. k + m /\ Len(s) = k + m
               /\ k = 1 => s[1] = HeaderSection(lines)
               /\ \A p \in 1 .. m : s[k + p] = HeadedSection(lines, p)
<1> DEFINE b == Boundaries(lines)
           m == Len(b)
           k == IF HeaderSection(lines).content = <<>> THEN 0 ELSE 1
           first == IF HeaderSection(lines).content = <<>> THEN <<>> ELSE <<HeaderSection(lines)>>
           rest == [p \in DOMAIN b |-> HeadedSection(lines, p)]
           Y == {HeaderSection(lines)} \union {HeadedSection(lines, p) : p \in 1 .. m}
<1>1. m \in Nat /\ DOMAIN b = 1 .. m
  BY Cuts
<1>2. Sections(lines) = first \o rest
  BY DEF Sections
<1>3. /\ first \in Seq(Y) /\ Len(first) = k /\ k \in 0 .. 1
      /\ k = 1 => first[1] = HeaderSection(lines)
  <2> DEFINE header == HeaderSection(lines)
  <2>1. header \in Y
    OBVIOUS
  <2> HIDE DEF Y, header
  <2>2. <<header>> \in Seq(Y) /\ <<>> \in Seq(Y)
    BY <2>1
  <2>3. CASE header.content = <<>>
    BY <2>2, <2>3 DEF header
  <2>4. CASE header.content # <<>>
    BY <2>2, <2>4 DEF header
  <2> QED
    BY <2>3, <2>4
<1>4. rest \in Seq(Y) /\ Len(rest) = m /\ \A p \in 1 .. m : rest[p] = HeadedSection(lines, p)
  <2>1. rest = [p \in 1 .. m |-> rest[p]] /\ \A p \in 1 .. m : rest[p] = HeadedSection(lines, p)
    BY <1>1
  <2>2. \A p \in 1 .. m : rest[p] \in Y
    BY <2>1
  <2> HIDE DEF rest, Y, m
  <2> QED
    BY <1>1, <2>1, <2>2, TypedSequence
<1> HIDE DEF first, rest, Y, k, m
<1> DEFINE c == first \o rest
<1>5. /\ c \in Seq(Y) /\ Len(c) = k + m
      /\ \A i \in 1 .. k + m : c[i] = IF i <= k THEN first[i] ELSE rest[i - k]
  <2>1. /\ c \in Seq(Y) /\ Len(c) = Len(first) + Len(rest)
        /\ \A i \in 1 .. Len(first) + Len(rest) :
              c[i] = IF i <= Len(first) THEN first[i] ELSE rest[i - Len(first)]
    BY <1>3, <1>4, ConcatProperties
  <2> QED
    BY <1>3, <1>4, <2>1
<1> HIDE DEF c
<1>6. DOMAIN c = 1 .. k + m /\ c = [i \in 1 .. k + m |-> c[i]]
  BY <1>5, LenProperties
<1>7. k = 1 => c[1] = HeaderSection(lines)
  <2>1. k = 1 => 1 \in 1 .. k + m /\ 1 <= k
    BY <1>1
  <2> QED
    BY <1>3, <1>5, <2>1
<1>8. \A p \in 1 .. m : c[k + p] = HeadedSection(lines, p)
  <2> SUFFICES ASSUME NEW p \in 1 .. m
               PROVE  c[k + p] = HeadedSection(lines, p)
    OBVIOUS
  <2> DEFINE j == k + p
  <2>1. j \in 1 .. k + m /\ ~(j <= k) /\ j - k = p
    BY <1>1, <1>3
  <2> HIDE DEF j
  <2>2. c[j] = rest[j - k]
    BY <1>5, <2>1
  <2> QED
    BY <1>4, <2>1, <2>2 DEF j
<1> QED
  BY <1>2, <1>5, <1>6, <1>7, <1>8 DEF c, k, m, b

LEMMA OneMore ==
    ASSUME NEW X, NEW s \in Seq(X), NEW i \in 1 .. Len(s)
    PROVE  /\ SubSeq(s, 1, i - 1) \in Seq(X) /\ s[i] \in X
           /\ SubSeq(s, 1, i) = Append(SubSeq(s, 1, i - 1), s[i])
<1>1. Len(s) \in Nat /\ s[i] \in X
  BY LenProperties, ElementOfSeq
<1> QED
  BY <1>1

\* Read in order, the sections are the lines with text.
LEMMA SectionsAreText ==
    ASSUME NEW lines \in Seq(DocumentLines)
    PROVE  Joined([i \in DOMAIN Sections(lines) |-> Piece(Sections(lines)[i])]) =
              Marked(TextOf(lines))
<1> DEFINE s == Sections(lines)
           b == Boundaries(lines)
           m == Len(b)
           n == Len(lines)
           k == IF HeaderSection(lines).content = <<>> THEN 0 ELSE 1
           N(p) == NextStart(lines, p)
           to(p) == SubSeq(lines, 1, N(p) - 1)
           from(p) == SubSeq(lines, b[p], N(p) - 1)
           pieces == [i \in DOMAIN s |-> Piece(s[i])]
           S == Seq(Marks)
           P == {p \in 0 .. m : Joined(SubSeq(pieces, 1, k + p)) = Marked(TextOf(to(p)))}
<1>1. /\ m \in Nat /\ n \in Nat /\ N(m) = n + 1
      /\ \A p \in 1 .. m : b[p] \in 1 .. n /\ N(p - 1) = b[p] /\ b[p] < N(p)
      /\ \A p \in 0 .. m : N(p) \in 1 .. n + 1
  BY Cuts
<1>2. k \in 0 .. 1
  OBVIOUS
<1>3. /\ DOMAIN s = 1 .. k + m
      /\ k = 1 => s[1] = HeaderSection(lines)
      /\ \A p \in 1 .. m : s[k + p] = HeadedSection(lines, p)
  BY SectionsAre
<1>4. /\ Piece(HeaderSection(lines)) = Marked(TextOf(to(0)))
      /\ Piece(HeaderSection(lines)) \in S
      /\ to(0) \in Seq(DocumentLines)
      /\ HeaderSection(lines).content = Stripped(to(0))
  BY HeaderPiece
<1>5. \A p \in 1 .. m : /\ Piece(HeadedSection(lines, p)) = Marked(TextOf(from(p)))
                        /\ Piece(HeadedSection(lines, p)) \in S
                        /\ from(p) \in Seq(DocumentLines)
  BY HeadedPiece
<1>6. k = 0 => HeaderSection(lines).content = <<>>
  OBVIOUS
<1> HIDE DEF s, b, n, m, k, N, to, from, S
<1>7. /\ pieces = [i \in 1 .. k + m |-> pieces[i]]
      /\ k = 1 => pieces[1] = Piece(HeaderSection(lines))
      /\ \A p \in 1 .. m : pieces[k + p] = Piece(HeadedSection(lines, p))
  <2>1. /\ k = 1 => 1 \in 1 .. k + m
        /\ \A p \in 1 .. m : k + p \in 1 .. k + m
    BY <1>1, <1>2
  <2> QED
    BY <1>3, <2>1
<1> HIDE DEF pieces
<1>8. pieces \in Seq(S) /\ Len(pieces) = k + m
  <2>1. ASSUME NEW i \in 1 .. k + m
        PROVE  pieces[i] \in S
    <3>1. CASE i <= k
      <4>1. k = 1 /\ i = 1
        BY <1>2, <3>1
      <4> QED
        BY <1>4, <1>7, <4>1
    <3>2. CASE ~(i <= k)
      <4>1. i - k \in 1 .. m /\ k + (i - k) = i
        BY <1>1, <1>2, <3>2
      <4>2. pieces[k + (i - k)] = Piece(HeadedSection(lines, i - k))
        BY <1>7, <4>1
      <4> QED
        BY <1>5, <4>1, <4>2
    <3> QED
      BY <3>1, <3>2
  <2>2. k + m \in Nat
    BY <1>1, <1>2
  <2> QED
    BY <1>7, <2>1, <2>2, TypedSequence
<1>9. 0 \in P
  <2>1. 0 \in 0 .. m /\ k + 0 = k
    BY <1>1, <1>2
  <2>2. CASE k = 0
    <3>1. SubSeq(pieces, 1, 0) = <<>>
      BY <1>8
    <3>2. TextOf(to(0)) = <<>>
      <4>1. TextOf(Stripped(to(0))) = TextOf(to(0))
        BY <1>4, StrippedKeeps
      <4> QED
        BY <1>4, <1>6, <2>2, <4>1, TextOfNone
    <3>3. Marked(<<>>) = <<>>
      BY DEF Marked
    <3> QED
      BY <2>1, <2>2, <3>1, <3>2, <3>3, JoinedNone
  <2>3. CASE k = 1
    <3> DEFINE piece == Piece(HeaderSection(lines))
    <3>1. pieces[1] = piece /\ piece \in S
      BY <1>4, <1>7, <2>3
    <3> HIDE DEF piece
    <3>2. SubSeq(pieces, 1, 1) = Append(<<>>, piece)
      <4>1. 1 \in 1 .. Len(pieces)
        BY <1>1, <1>8, <2>3
      <4>2. SubSeq(pieces, 1, 1) = Append(SubSeq(pieces, 1, 1 - 1), pieces[1])
        BY <1>8, <4>1, OneMore
      <4>3. SubSeq(pieces, 1, 1 - 1) = <<>>
        BY <1>8
      <4> QED
        BY <3>1, <4>2, <4>3
    <3>3. Joined(Append(<<>>, piece)) = <<>> \o piece
      <4>1. <<>> \in Seq(Seq(Marks)) /\ piece \in Seq(Marks)
        BY <3>1 DEF S
      <4> QED
        BY <4>1, JoinedAppend, JoinedNone
    <3>4. <<>> \o piece = piece
      BY <3>1 DEF S
    <3> QED
      BY <1>4, <2>1, <2>3, <3>2, <3>3, <3>4 DEF piece
  <2> QED
    BY <1>2, <2>2, <2>3
<1>10. ASSUME NEW p \in 1 .. m, p - 1 \in P
       PROVE  p \in P
  <2> DEFINE i == k + p
             before == SubSeq(pieces, 1, i - 1)
  <2>1. i \in 1 .. k + m /\ i - 1 = k + (p - 1) /\ p \in 0 .. m
    BY <1>1, <1>2
  <2>2. pieces[i] = Piece(HeadedSection(lines, p))
    BY <1>7
  <2> HIDE DEF i
  <2>3. before \in Seq(S) /\ pieces[i] \in S /\ SubSeq(pieces, 1, i) = Append(before, pieces[i])
    BY <1>8, <2>1, OneMore
  <2>4. Joined(before) = Marked(TextOf(to(p - 1)))
    BY <1>10, <2>1
  <2> HIDE DEF before
  <2>5. Joined(SubSeq(pieces, 1, i)) = Joined(before) \o pieces[i]
    <3>1. Joined(Append(before, pieces[i])) = Joined(before) \o pieces[i]
      BY <2>3, JoinedAppend DEF S
    <3> QED
      BY <2>3, <3>1
  <2>6. to(p) = to(p - 1) \o from(p) /\ to(p - 1) \in Seq(DocumentLines)
    <3>1. N(p - 1) = b[p] /\ b[p] \in 1 .. n /\ b[p] < N(p) /\ N(p) \in 1 .. n + 1
      BY <1>1, <2>1
    <3> DEFINE x == b[p]
               y == N(p)
               u == SubSeq(lines, 1, x - 1)
               v == SubSeq(lines, x, y - 1)
               w == SubSeq(lines, 1, y - 1)
    <3>2. x \in 1 .. n /\ y \in 1 .. n + 1 /\ x < y /\ Len(lines) = n
      BY <3>1 DEF n
    <3>3. to(p - 1) = u /\ from(p) = v /\ to(p) = w
      BY <3>1 DEF to, from
    <3> HIDE DEF x, y
    <3>4. /\ u \in Seq(DocumentLines) /\ Len(u) = x - 1
          /\ \A j \in 1 .. x - 1 : u[j] = lines[j]
      BY <1>1, <3>2
    <3>5. /\ v \in Seq(DocumentLines) /\ Len(v) = y - x
          /\ \A j \in 1 .. y - x : v[j] = lines[x + j - 1]
      BY <1>1, <3>2
    <3>6. /\ w \in Seq(DocumentLines) /\ Len(w) = y - 1
          /\ \A j \in 1 .. y - 1 : w[j] = lines[j]
      BY <1>1, <3>2
    <3> HIDE DEF u, v, w
    <3>7. /\ u \o v \in Seq(DocumentLines) /\ Len(u \o v) = Len(u) + Len(v)
          /\ \A j \in 1 .. Len(u) + Len(v) :
                (u \o v)[j] = IF j <= Len(u) THEN u[j] ELSE v[j - Len(u)]
      BY <3>4, <3>5, ConcatProperties
    <3>8. \A j \in 1 .. Len(w) : w[j] = (u \o v)[j]
      <4> SUFFICES ASSUME NEW j \in 1 .. Len(w)
                   PROVE  w[j] = (u \o v)[j]
        OBVIOUS
      <4>1. j \in 1 .. y - 1 /\ j \in 1 .. Len(u) + Len(v)
        BY <1>1, <3>2, <3>4, <3>5, <3>6
      <4>2. CASE j <= Len(u)
        <5>1. j \in 1 .. x - 1
          BY <3>2, <3>4, <4>1, <4>2
        <5> QED
          BY <3>4, <3>6, <3>7, <4>1, <4>2, <5>1
      <4>3. CASE ~(j <= Len(u))
        <5>1. j - Len(u) \in 1 .. y - x /\ x + (j - Len(u)) - 1 = j
          BY <1>1, <3>2, <3>4, <4>1, <4>3
        <5>2. v[j - Len(u)] = lines[x + (j - Len(u)) - 1]
          BY <3>5, <5>1
        <5> QED
          BY <3>6, <3>7, <4>1, <4>3, <5>1, <5>2
      <4> QED
        BY <4>2, <4>3
    <3>9. Len(w) = Len(u \o v)
      BY <1>1, <3>2, <3>4, <3>5, <3>6, <3>7
    <3>10. w = u \o v
      BY <3>6, <3>7, <3>8, <3>9, SeqEqual
    <3> QED
      BY <3>3, <3>4, <3>10
  <2>7. TextOf(to(p)) = TextOf(to(p - 1)) \o TextOf(from(p))
    BY <1>5, <2>6, TextOfConcat
  <2>8. TextOf(to(p - 1)) \in Seq(DocumentLines) /\ TextOf(from(p)) \in Seq(DocumentLines)
    BY <1>5, <2>6, SelectProperties DEF TextOf
  <2>9. Marked(TextOf(to(p))) = Marked(TextOf(to(p - 1))) \o Marked(TextOf(from(p)))
    BY <2>7, <2>8, MarkedConcat
  <2>10. Joined(SubSeq(pieces, 1, i)) = Marked(TextOf(to(p)))
    BY <1>5, <2>2, <2>4, <2>5, <2>9
  <2> QED
    BY <2>1, <2>10 DEF i
<1>11. m \in P
  <2>1. m \in 0 .. m
    BY <1>1
  <2> HIDE DEF P
  <2> QED
    BY <1>1, <1>9, <1>10, <2>1, Everywhere
<1>12. SubSeq(pieces, 1, k + m) = pieces
  BY <1>8
<1>13. to(m) = lines
  <2>1. N(m) - 1 = n
    BY <1>1
  <2>2. SubSeq(lines, 1, n) = lines
    BY DEF n
  <2> QED
    BY <2>1, <2>2 DEF to
<1> QED
  BY <1>11, <1>12, <1>13 DEF pieces, s

\* The line spans of the sections follow each other, from the first line to the
\* last, and none is shorter than its content.
LEMMA SpansCover ==
    ASSUME NEW lines \in Seq(DocumentLines), lines # <<>> => IsText(lines[1])
    PROVE  LET s == Sections(lines)
               n == Len(lines)
           IN  /\ Len(s) \in Nat
               /\ s # <<>> => s[1].start_line = 0 /\ s[Len(s)].end_line = n - 1
               /\ \A i \in 1 .. Len(s) - 1 : s[i].end_line + 1 = s[i + 1].start_line
               /\ \A i \in DOMAIN s : Len(s[i].content) <= s[i].end_line - s[i].start_line + 1
<1> DEFINE s == Sections(lines)
           b == Boundaries(lines)
           m == Len(b)
           n == Len(lines)
           header == HeaderSection(lines)
           k == IF header.content = <<>> THEN 0 ELSE 1
           N(p) == NextStart(lines, p)
           end(i) == s[i].end_line
           start(i) == s[i].start_line
           size(i) == Len(s[i].content)
<1>1. /\ m \in Nat /\ n \in Nat /\ N(m) = n + 1
      /\ \A p \in 1 .. m : b[p] \in 1 .. n /\ N(p - 1) = b[p] /\ b[p] < N(p)
      /\ \A p \in 0 .. m : N(p) \in 1 .. n + 1
  BY Cuts
<1>2. k \in 0 .. 1 /\ (k = 0 => header.content = <<>>) /\ (k = 1 => header.content # <<>>)
  OBVIOUS
<1>3. /\ s = [i \in 1 .. k + m |-> s[i]] /\ DOMAIN s = 1 .. k + m /\ Len(s) = k + m
      /\ k = 1 => s[1] = header
      /\ \A p \in 1 .. m : s[k + p] = HeadedSection(lines, p)
  BY SectionsAre
<1>4. /\ header.start_line = 0
      /\ header.end_line = IF N(0) > 1 THEN N(0) - 2 ELSE 0
      /\ header.content = Stripped(SubSeq(lines, 1, N(0) - 1))
  BY DEF HeaderSection
<1>5. \A p \in 1 .. m : /\ HeadedSection(lines, p).start_line = b[p] - 1
                        /\ HeadedSection(lines, p).end_line = N(p) - 2
                        /\ HeadedSection(lines, p).content =
                              Stripped(SubSeq(lines, b[p] + 1, N(p) - 1))
  BY DEF HeadedSection
<1>6. lines # <<>> => IsText(lines[1])
  OBVIOUS
<1> HIDE DEF s, b, m, n, header, k, N
\* Without a header there is nothing before the first heading.
<1>7. k = 0 => N(0) = 1
  <2> SUFFICES ASSUME k = 0, N(0) # 1
               PROVE  FALSE
    OBVIOUS
  <2> DEFINE part == SubSeq(lines, 1, N(0) - 1)
  <2>1. 0 \in 0 .. m
    BY <1>1
  <2>2. N(0) \in 2 .. n + 1
    BY <1>1, <2>1
  <2>3. part \in Seq(DocumentLines) /\ Len(part) = N(0) - 1 /\ 1 \in 1 .. Len(part)
        /\ part[1] = lines[1] /\ lines # <<>>
    BY <1>1, <2>2 DEF n
  <2>4. Stripped(part) = <<>>
    BY <1>2, <1>4
  <2> HIDE DEF part
  <2>5. TextOf(part) = <<>>
    BY <2>3, <2>4, StrippedKeeps, TextOfNone
  <2>6. ~IsText(part[1])
    BY <2>3, <2>5, NoTextOf
  <2> QED
    BY <1>6, <2>3, <2>6
\* With one, there is.
<1>8. k = 1 => N(0) > 1
  <2> SUFFICES ASSUME k = 1, ~(N(0) > 1)
               PROVE  FALSE
    OBVIOUS
  <2>1. 0 \in 0 .. m
    BY <1>1
  <2>2. N(0) - 1 = 0
    BY <1>1, <2>1
  <2>3. SubSeq(lines, 1, 0) = <<>>
    OBVIOUS
  <2>4. Stripped(<<>>) = <<>>
    BY SelectNone DEF Stripped
  <2> QED
    BY <1>2, <1>4, <2>2, <2>3, <2>4
<1>9. \A p \in 0 .. m : p >= 1 \/ k = 1 => end(k + p) = N(p) - 2
  <2> SUFFICES ASSUME NEW p \in 0 .. m, p >= 1 \/ k = 1
               PROVE  end(k + p) = N(p) - 2
    OBVIOUS
  <2>1. CASE p >= 1
    <3>1. p \in 1 .. m
      BY <1>1, <2>1
    <3> QED
      BY <1>3, <1>5, <3>1
  <2>2. CASE p = 0
    <3>1. k + p = 1 /\ k = 1
      BY <2>2
    <3> QED
      BY <1>3, <1>4, <1>8, <2>2, <3>1
  <2> QED
    BY <1>1, <2>1, <2>2
<1>10. \A p \in 1 .. m : start(k + p) = N(p - 1) - 1
  BY <1>1, <1>3, <1>5
<1>11. s # <<>> => start(1) = 0 /\ end(Len(s)) = n - 1
  <2> SUFFICES ASSUME s # <<>>
               PROVE  start(1) = 0 /\ end(Len(s)) = n - 1
    OBVIOUS
  <2>1. k + m >= 1
    <3> SUFFICES ASSUME ~(k + m >= 1)
                 PROVE  FALSE
      OBVIOUS
    <3>1. 1 .. k + m = {}
      BY <1>1, <1>2
    <3>2. s = [i \in {} |-> s[i]]
      BY <1>3, <3>1
    <3> QED
      BY <3>2
  <2>2. start(1) = 0
    <3>1. CASE k = 1
      BY <1>3, <1>4, <3>1
    <3>2. CASE k = 0
      <4>1. 1 \in 1 .. m /\ k + 1 = 1
        BY <1>1, <2>1, <3>2
      <4>2. start(k + 1) = N(1 - 1) - 1
        BY <1>10, <4>1
      <4>3. 1 - 1 = 0
        OBVIOUS
      <4> QED
        BY <1>7, <3>2, <4>1, <4>2, <4>3
    <3> QED
      BY <1>2, <3>1, <3>2
  <2>3. end(k + m) = N(m) - 2
    <3>1. m \in 0 .. m /\ (m >= 1 \/ k = 1)
      BY <1>1, <1>2, <2>1
    <3> QED
      BY <1>9, <3>1
  <2>4. N(m) - 2 = n - 1
    BY <1>1
  <2> QED
    BY <1>3, <2>2, <2>3, <2>4
<1>12. \A i \in 1 .. Len(s) - 1 : end(i) + 1 = start(i + 1)
  <2> SUFFICES ASSUME NEW i \in 1 .. Len(s) - 1
               PROVE  end(i) + 1 = start(i + 1)
    OBVIOUS
  <2> DEFINE p == i - k
  <2>1. /\ p \in 0 .. m /\ (p >= 1 \/ k = 1) /\ k + p = i
        /\ p + 1 \in 1 .. m /\ k + (p + 1) = i + 1 /\ p + 1 - 1 = p
    BY <1>1, <1>2, <1>3, SMTT(30)
  <2> HIDE DEF p
  <2>2. end(k + p) = N(p) - 2
    BY <1>9, <2>1
  <2> DEFINE q == p + 1
  <2>3. start(k + q) = N(q - 1) - 1
    <3>1. q \in 1 .. m
      BY <2>1
    <3> HIDE DEF q
    <3> QED
      BY <1>10, <3>1
  <2>4. N(p) \in Int
    BY <1>1, <2>1
  <2> QED
    BY <2>1, <2>2, <2>3, <2>4
<1>13. \A i \in DOMAIN s : size(i) <= end(i) - start(i) + 1
  <2> SUFFICES ASSUME NEW i \in 1 .. k + m
               PROVE  size(i) <= end(i) - start(i) + 1
    BY <1>3
  <2>1. CASE i <= k
    <3> DEFINE part == SubSeq(lines, 1, N(0) - 1)
    <3>1. k = 1 /\ i = 1 /\ 0 \in 0 .. m
      BY <1>1, <1>2, <2>1
    <3>2. N(0) \in 2 .. n + 1
      BY <1>1, <1>8, <3>1
    <3>3. part \in Seq(DocumentLines) /\ Len(part) = N(0) - 1
      BY <1>1, <3>2 DEF n
    <3>4. s[1] = header /\ header.content = Stripped(part)
      BY <1>3, <1>4, <3>1
    <3> HIDE DEF part
    <3>5. Len(Stripped(part)) \in 0 .. N(0) - 1
      BY <3>3, StrippedKeeps
    <3>6. size(1) \in 0 .. N(0) - 1 /\ end(1) = N(0) - 2 /\ start(1) = 0
      BY <1>4, <3>2, <3>4, <3>5
    <3> QED
      BY <3>1, <3>2, <3>6
  <2>2. CASE ~(i <= k)
    <3> DEFINE p == i - k
               part == SubSeq(lines, b[p] + 1, N(p) - 1)
    <3>1. p \in 1 .. m /\ p \in 0 .. m /\ k + p = i
      BY <1>1, <1>2, <2>2
    <3> HIDE DEF p
    <3>2. b[p] \in 1 .. n /\ N(p) \in 1 .. n + 1 /\ b[p] < N(p)
      BY <1>1, <3>1
    <3>3. part \in Seq(DocumentLines) /\ Len(part) = N(p) - 1 - b[p]
      BY <1>1, <3>2 DEF n
    <3>4. s[i] = HeadedSection(lines, p)
      BY <1>3, <3>1
    <3>5. /\ start(i) = b[p] - 1 /\ end(i) = N(p) - 2
          /\ s[i].content = Stripped(part)
      BY <1>5, <3>1, <3>4
    <3> HIDE DEF part
    <3>6. size(i) \in 0 .. N(p) - 1 - b[p]
      <4>1. Len(Stripped(part)) \in 0 .. Len(part)
        BY <3>3, StrippedKeeps
      <4> QED
        BY <3>3, <3>5, <4>1
    <3> QED
      BY <1>1, <3>2, <3>5, <3>6
  <2> QED
    BY <2>1, <2>2
<1>14. Len(s) \in Nat
  BY <1>1, <1>2, <1>3
<1> QED
  BY <1>11, <1>12, <1>13, <1>14 DEF s, n

\* The types reported missing are the reportable ones no section has.
LEMMA MissingAre ==
    ASSUME NEW sections
    PROVE  \A t \in ToSet(ReportableTypes) :
              t \in {sections[i].section_type : i \in DOMAIN sections} <=>
                 t \notin ToSet(Missing(sections))
<1> DEFINE R == ReportableTypes
           D == Detected(sections)
           reported == {i \in DOMAIN SectionTypes :
                           SectionTypes[i] \notin {"HEADER", "INTERNSHIPS"}}
           P == {i \in DOMAIN R : R[i] \notin D}
           X == {SectionTypes[i] : i \in 1 .. 9}
<1>1. SectionTypes \in Seq(X)
  <2>1. SectionTypes = [i \in 1 .. 9 |-> SectionTypes[i]]
    BY DEF SectionTypes
  <2>2. 9 \in Nat /\ \A i \in 1 .. 9 : SectionTypes[i] \in X
    OBVIOUS
  <2> HIDE DEF X
  <2> QED
    BY <2>1, <2>2, TypedSequence
<1>2. R = Select(SectionTypes, reported)
  BY DEF ReportableTypes
<1> HIDE DEF R, reported, X
<1>3. /\ R \in Seq(X)
      /\ ToSet(R) = {SectionTypes[i] : i \in reported \intersect (1 .. Len(SectionTypes))}
  BY <1>1, <1>2, SelectProperties
<1>4. "HEADER" \notin ToSet(R)
  BY <1>3 DEF reported
<1>5. DOMAIN R = 1 .. Len(R)
  BY <1>3, LenProperties
<1>6. Missing(sections) = Select(R, P)
  BY DEF Missing, R
<1> HIDE DEF P
<1>7. ToSet(Missing(sections)) = {R[i] : i \in P \intersect (1 .. Len(R))}
  BY <1>3, <1>6, SelectProperties
<1>8. \A t \in ToSet(R) : t \in ToSet(Missing(sections)) <=> t \notin D
  <2>1. ToSet(R) = {R[i] : i \in DOMAIN R}
    BY DEF ToSet
  <2> QED
    BY <1>5, <1>7, <2>1 DEF P
<1>9. \A t \in ToSet(R) :
         t \in D <=> t \in {sections[i].section_type : i \in DOMAIN sections}
  BY <1>4 DEF Detected
<1> QED
  BY <1>8, <1>9 DEF R

-----------------------------------------------------------------------------
(* What is stored is what the pages hold.                                  *)

\* The row made of a document.
Row(ps) ==
    LET lines == Normalized(Joined(Spaced(ps)))
    IN  [status   |-> "EXTRACTED",
         sections |-> Sections(lines),
         lines    |-> Len(lines),
         missing  |-> Missing(Sections(lines))]

\* The document is final once it has been processed.
IntakeInv ==
    /\ pages \in Seq(Seq(Lines))
    /\ intake # NoIntake /\ intake.status = "EXTRACTED" => intake = Row(pages)

LEMMA RowIsBuilt == BuildExtractionRow = Row(pages)
  BY DEF BuildExtractionRow, Row, RawText, Spaced

LEMMA RowKeepsLines ==
    ASSUME IntakeInv
    PROVE  NoLineLost
<1> SUFFICES ASSUME intake # NoIntake, intake.status = "EXTRACTED"
             PROVE  NoLineLost
  BY DEF NoLineLost
<1> DEFINE lines == Normalized(Joined(Spaced(pages)))
           s == Sections(lines)
           written == TextOf(Joined(pages))
<1>1. pages \in Seq(Seq(Lines)) /\ intake = Row(pages)
  BY DEF IntakeInv
<1>2. intake.sections = s /\ intake.lines = Len(lines) /\ intake.missing = Missing(s)
  BY <1>1 DEF Row
<1>3. /\ lines \in Seq(DocumentLines) /\ TextOf(lines) = written
      /\ lines # <<>> => IsText(lines[1])
  <2> DEFINE raw == Joined(Spaced(pages))
  <2>1. raw \in Seq(DocumentLines) /\ TextOf(raw) = written
    BY <1>1, PagesKeepText
  <2> HIDE DEF raw
  <2>2. /\ Normalized(raw) \in Seq(DocumentLines)
        /\ TextOf(Normalized(raw)) = TextOf(raw)
        /\ Normalized(raw) # <<>> => IsText(Normalized(raw)[1])
    BY <2>1, NormalizedKeeps
  <2> QED
    BY <2>1, <2>2 DEF raw
<1> HIDE DEF lines
<1>4. Joined([i \in DOMAIN s |-> Piece(s[i])]) = Marked(written)
  BY <1>3, SectionsAreText
<1>5. /\ s # <<>> => s[1].start_line = 0 /\ s[Len(s)].end_line = Len(lines) - 1
      /\ \A i \in 1 .. Len(s) - 1 : s[i].end_line + 1 = s[i + 1].start_line
      /\ \A i \in DOMAIN s : Len(s[i].content) <= s[i].end_line - s[i].start_line + 1
  BY <1>3, SpansCover
<1>6. \A t \in ToSet(ReportableTypes) :
         t \in {s[i].section_type : i \in DOMAIN s} <=> t \notin ToSet(Missing(s))
  BY MissingAre
<1> HIDE DEF s, written
<1> DEFINE heading(t) == [canonical |-> t, kind |-> "heading", long |-> FALSE]
<1>7. Marked(written) =
         [i \in DOMAIN written |->
             IF IsHeading(written[i]) THEN heading(HeadingType(written[i])) ELSE written[i]]
  BY DEF Marked, Mark, Heading
<1>8. [i \in DOMAIN s |-> Piece(s[i])] =
         [i \in DOMAIN s |->
             (IF s[i].section_type = "HEADER" THEN <<>> ELSE <<heading(s[i].section_type)>>)
             \o TextOf(s[i].content)]
  BY DEF Piece, Heading
<1> QED
  BY <1>2, <1>4, <1>5, <1>6, <1>7, <1>8, ZenonT(30) DEF NoLineLost, written

LEMMA IntakeInitially ==
    ASSUME IntakeInit
    PROVE  IntakeInv
<1>1. <<>> \in Seq(Seq(Lines))
  OBVIOUS
<1> QED
  BY <1>1 DEF IntakeInit, IntakeInv

LEMMA IntakeStep ==
    ASSUME IntakeInv, IntakeNext
    PROVE  IntakeInv'
<1>1. pages \in Seq(Seq(Lines))
  BY DEF IntakeInv
<1>2. CASE AddPage
  <2>1. Append(pages, <<>>) \in Seq(Seq(Lines))
    <3>1. <<>> \in Seq(Lines)
      OBVIOUS
    <3> QED
      BY <1>1, <3>1, AppendProperties
  <2> QED
    BY <1>2, <2>1 DEF AddPage, IntakeInv
<1>3. CASE \E line \in Lines : AddLine(line)
  <2>1. PICK line \in Lines : AddLine(line)
    BY <1>3
  <2> DEFINE n == Len(pages)
             S == Seq(Lines)
             page == Append(pages[n], line)
             new == [pages EXCEPT ![n] = page]
  <2>2. pages' = new /\ intake = NoIntake /\ intake' = intake /\ pages # <<>>
    BY <2>1 DEF AddLine
  <2>3. n \in Nat /\ n >= 1 /\ DOMAIN pages = 1 .. n /\ \A i \in 1 .. n : pages[i] \in S
    BY <1>1, <2>2, LenProperties, ElementOfSeq, EmptySeq
  <2>4. page \in S
    <3>1. n \in 1 .. n
      BY <2>3
    <3> QED
      BY <2>3, <3>1, AppendProperties
  <2> HIDE DEF n, S, page
  <2>5. new = [i \in 1 .. n |-> new[i]] /\ \A i \in 1 .. n : new[i] \in S
    BY <2>3, <2>4
  <2> HIDE DEF new
  <2>6. new \in Seq(S)
    BY <2>3, <2>5, TypedSequence
  <2> QED
    BY <2>2, <2>6 DEF IntakeInv, S
<1>4. CASE \E file \in Files : ProcessUpload(file)
  <2>1. PICK file \in Files : ProcessUpload(file)
    BY <1>4
  <2>2. /\ pages' = pages
        /\ \/ intake' = [status |-> "REJECTED", reason |-> Rejection(file)]
           \/ intake' = [status |-> "FAILED", reason |-> "NO_TEXT_LAYER"]
           \/ intake' = Row(pages)
    BY <2>1, RowIsBuilt DEF ProcessUpload
  <2>3. intake' # NoIntake /\ intake'.status = "EXTRACTED" => intake' = Row(pages)
    BY <2>2
  <2> QED
    BY <1>1, <2>2, <2>3 DEF IntakeInv
<1> QED
  BY <1>2, <1>3, <1>4 DEF IntakeNext

LEMMA IntakeUnchanged ==
    ASSUME IntakeInv, UNCHANGED <<pages, intake>>
    PROVE  IntakeInv'
  BY DEF IntakeInv

(***************************************************************************)
(* Whatever the lines, on whatever pages: the sections stored of a resume, *)
(* read in order with their headings, are the lines with text of its pages;*)
(* their line spans follow each other from the first line to the last; and *)
(* a reportable type is either the type of a section or reported missing.  *)
(***************************************************************************)
THEOREM NothingIsLost == ComputationsSpec => []NoLineLost
<1>1. ComputationsInit => IntakeInv
  BY IntakeInitially DEF ComputationsInit
<1>2. IntakeInv /\ [ComputationsNext]_computed => IntakeInv'
  <2> SUFFICES ASSUME IntakeInv, [ComputationsNext]_computed
               PROVE  IntakeInv'
    OBVIOUS
  <2>1. IntakeNext \/ UNCHANGED <<pages, intake>>
    BY DEF ComputationsNext, computed
  <2> QED
    BY <2>1, IntakeStep, IntakeUnchanged
<1>3. IntakeInv => NoLineLost
  BY RowKeepsLines
<1> QED
  BY <1>1, <1>2, <1>3, PTL DEF ComputationsSpec

-----------------------------------------------------------------------------
(* How often a character occurs in a text.                                 *)

LEMMA OccurrencesNone ==
    ASSUME NEW ch
    PROVE  Occurrences(<<>>, ch) = 0
<1>1. Len(<<>>) = 0
  OBVIOUS
<1> QED
  BY <1>1, SelectNone DEF Occurrences

LEMMA OccurrencesAppend ==
    ASSUME NEW X, NEW s \in Seq(X), NEW x \in X, NEW ch
    PROVE  /\ Occurrences(s, ch) \in Nat
           /\ Occurrences(Append(s, x), ch) = Occurrences(s, ch) + (IF x = ch THEN 1 ELSE 0)
<1> DEFINE n == Len(s)
           a == Append(s, x)
           P == {j \in DOMAIN a : a[j] = ch}
           Q == {j \in DOMAIN s : s[j] = ch}
<1>1. /\ n \in Nat /\ DOMAIN s = 1 .. n /\ DOMAIN a = 1 .. n + 1 /\ a[n + 1] = x
      /\ \A i \in 1 .. n : a[i] = s[i]
  BY AppendProperties, LenProperties
<1>2. Occurrences(a, ch) = Len(Select(a, P)) /\ Occurrences(s, ch) = Len(Select(s, Q))
  BY DEF Occurrences
<1> HIDE DEF a
<1>3. \A i \in 1 .. n : i \in P <=> i \in Q
  <2>1. \A i \in 1 .. n : i \in 1 .. n + 1
    BY <1>1
  <2> QED
    BY <1>1, <2>1
<1>4. n + 1 \in P <=> x = ch
  <2>1. n + 1 \in 1 .. n + 1
    BY <1>1
  <2> QED
    BY <1>1, <2>1
<1> HIDE DEF P, Q
<1>5. Select(a, P) = IF n + 1 \in P THEN Append(Select(s, Q), x) ELSE Select(s, Q)
  BY <1>3, SelectAppend DEF a
<1>6. Select(s, Q) \in Seq(X) /\ Len(Select(s, Q)) \in Nat
  BY SelectProperties, LenProperties
<1>7. Len(Append(Select(s, Q), x)) = Len(Select(s, Q)) + 1
  BY <1>6, AppendProperties
<1> QED
  BY <1>2, <1>4, <1>5, <1>6, <1>7 DEF a

LEMMA OccurrencesConcat ==
    ASSUME NEW X, NEW s \in Seq(X), NEW t \in Seq(X), NEW ch
    PROVE  /\ Occurrences(s, ch) \in Nat
           /\ Occurrences(s \o t, ch) = Occurrences(s, ch) + Occurrences(t, ch)
<1> DEFINE Occ(r) == Occurrences(r, ch)
           T == {r \in Seq(X) : Occ(r) \in Nat /\ Occ(s \o r) = Occ(s) + Occ(r)}
           U == {r \in Seq(X) : Occ(r) \in Nat}
<1>1. s \in U
  <2>1. <<>> \in U
    <3>1. <<>> \in Seq(X)
      OBVIOUS
    <3> QED
      BY <3>1, OccurrencesNone
  <2>2. ASSUME NEW r \in Seq(X), NEW x \in X, r \in U
        PROVE  Append(r, x) \in U
    BY OccurrencesAppend
  <2> HIDE DEF U
  <2> QED
    BY <2>1, <2>2, EverySequence
<1>2. <<>> \in T
  <2>1. s \o <<>> = s /\ <<>> \in Seq(X)
    OBVIOUS
  <2> QED
    BY <1>1, <2>1, OccurrencesNone
<1>3. ASSUME NEW r \in Seq(X), NEW x \in X, r \in T
      PROVE  Append(r, x) \in T
  <2>1. s \o Append(r, x) = Append(s \o r, x) /\ s \o r \in Seq(X) /\ Append(r, x) \in Seq(X)
    OBVIOUS
  <2>2. Occ(Append(s \o r, x)) = Occ(s \o r) + (IF x = ch THEN 1 ELSE 0)
    <3> DEFINE sr == s \o r
    <3>1. sr \in Seq(X)
      BY <2>1
    <3> HIDE DEF sr
    <3>2. Occ(Append(sr, x)) = Occ(sr) + (IF x = ch THEN 1 ELSE 0)
      BY <3>1, OccurrencesAppend
    <3> QED
      BY <3>2 DEF sr
  <2>2a. Occ(Append(r, x)) = Occ(r) + (IF x = ch THEN 1 ELSE 0)
    BY OccurrencesAppend
  <2>3. Occ(r) \in Nat /\ Occ(s) \in Nat /\ Occ(s \o r) = Occ(s) + Occ(r)
    BY <1>1, <1>3
  <2> HIDE DEF Occ
  <2>4. Occ(Append(r, x)) \in Nat /\ Occ(s \o Append(r, x)) = Occ(s) + Occ(Append(r, x))
    BY <2>1, <2>2, <2>2a, <2>3
  <2> QED
    BY <2>1, <2>4
<1>4. t \in T
  <2> HIDE DEF T
  <2> QED
    BY <1>2, <1>3, EverySequence
<1> QED
  BY <1>1, <1>4

\* In a text put together from parts, it occurs as often as in all of them.
LEMMA OccurrencesJoined ==
    ASSUME NEW X, NEW parts \in Seq(Seq(X)), NEW ch
    PROVE  \E o : /\ o[0] = 0
                  /\ \A k \in 1 .. Len(parts) : o[k] = o[k - 1] + Occurrences(parts[k], ch)
                  /\ \A k \in 1 .. Len(parts) : Occurrences(parts[k], ch) \in Nat
                  /\ Occurrences(Joined(parts), ch) = o[Len(parts)]
<1> DEFINE n == Len(parts)
<1>1. n \in Nat /\ \A k \in 1 .. n : parts[k] \in Seq(X) /\ k - 1 \in 0 .. n /\ k \in 0 .. n
  BY LenProperties, ElementOfSeq
<1>2. PICK u : Joins(u, n, parts) /\ (\A k \in 0 .. n : u[k] \in Seq(X)) /\ Joined(parts) = u[n]
  BY JoinedIs
<1> HIDE DEF n
<1> DEFINE o == [k \in 0 .. n |-> Occurrences(u[k], ch)]
<1>3. \A k \in 0 .. n : o[k] = Occurrences(u[k], ch)
  OBVIOUS
<1> HIDE DEF o
<1>4. 0 \in 0 .. n /\ n \in 0 .. n
  BY <1>1
<1>5. o[0] = 0
  BY <1>2, <1>3, <1>4, OccurrencesNone DEF Joins
<1>6. ASSUME NEW k \in 1 .. n
      PROVE  o[k] = o[k - 1] + Occurrences(parts[k], ch) /\ Occurrences(parts[k], ch) \in Nat
  <2>1. u[k] = u[k - 1] \o parts[k] /\ u[k - 1] \in Seq(X) /\ parts[k] \in Seq(X)
    BY <1>1, <1>2 DEF Joins
  <2>2. Occurrences(u[k - 1] \o parts[k], ch) =
           Occurrences(u[k - 1], ch) + Occurrences(parts[k], ch)
    BY <2>1, OccurrencesConcat
  <2>3. o[k] = Occurrences(u[k], ch) /\ o[k - 1] = Occurrences(u[k - 1], ch)
    BY <1>1, <1>3
  <2>4. Occurrences(parts[k], ch) \in Nat
    BY <2>1, OccurrencesConcat
  <2> QED
    BY <2>1, <2>2, <2>3, <2>4
<1>7. Occurrences(Joined(parts), ch) = o[n]
  BY <1>2, <1>3, <1>4
<1> QED
  BY <1>5, <1>6, <1>7 DEF n

-----------------------------------------------------------------------------
(* What TeX makes of a source.                                             *)

Tokens ==
    Characters \union {" "} \union Specials \union DOMAIN TexMeaning \union Separators
    \union Commands

Pages == [text : Seq(Tokens), depth : Int, sound : BOOLEAN]

EmptyPage == [text |-> <<>>, depth |-> 0, sound |-> TRUE]

\* A token by what it does: the character it typesets, the groups it opens.
Ink(token) ==
    IF token \in Specials \union Commands THEN <<>>
    ELSE IF token \in DOMAIN TexMeaning THEN <<TexMeaning[token]>> ELSE <<token>>
Opened(token) == IF token = "{" THEN 1 ELSE IF token = "}" THEN 0 - 1 ELSE 0
Fits(token, depth) == token \in Specials => token = "{" \/ (token = "}" /\ depth > 0)

LEMMA MeaningIsSpecial ==
    ASSUME NEW word \in DOMAIN TexMeaning
    PROVE  TexMeaning[word] \in Specials /\ word \notin Specials /\ word \notin Commands
  BY DEF TexMeaning, Specials, Commands

LEMMA PutIs ==
    ASSUME NEW page \in Pages, NEW token \in Tokens
    PROVE  /\ Put(page, token) = [text  |-> page.text \o Ink(token),
                                  depth |-> page.depth + Opened(token),
                                  sound |-> page.sound /\ Fits(token, page.depth)]
           /\ Put(page, token) \in Pages /\ Ink(token) \in Seq(Tokens)
<1>1. /\ page = [text |-> page.text, depth |-> page.depth, sound |-> page.sound]
      /\ page.text \in Seq(Tokens) /\ page.depth \in Int /\ page.sound \in BOOLEAN
  BY DEF Pages
<1>2. page.text \o <<>> = page.text /\ page.depth + 0 = page.depth
  BY <1>1
<1>3. \A x \in Tokens : page.text \o <<x>> = Append(page.text, x) /\ <<x>> \in Seq(Tokens)
  <2> SUFFICES ASSUME NEW x \in Tokens
               PROVE  page.text \o <<x>> = Append(page.text, x) /\ <<x>> \in Seq(Tokens)
    OBVIOUS
  <2> HIDE DEF Tokens
  <2> QED
    BY <1>1
<1>4. /\ "{" \in Specials /\ "}" \in Specials
      /\ \A x \in Specials : x \notin DOMAIN TexMeaning /\ x \notin Commands
      /\ \A x \in Commands : x \notin DOMAIN TexMeaning /\ x \notin Specials
  BY MeaningIsSpecial DEF Specials, Commands
<1>5. Put(page, token) = [text  |-> page.text \o Ink(token),
                          depth |-> page.depth + Opened(token),
                          sound |-> page.sound /\ Fits(token, page.depth)]
      /\ Ink(token) \in Seq(Tokens)
  <2>0. <<>> \in Seq(Tokens)
    OBVIOUS
  <2>1. CASE token = "{"
    <3>1. Put(page, token) = [page EXCEPT !.depth = @ + 1]
      BY <1>4, <2>1 DEF Put
    <3>2. Ink(token) = <<>> /\ Opened(token) = 1 /\ Fits(token, page.depth)
      BY <1>4, <2>1 DEF Ink, Opened, Fits
    <3> QED
      BY <1>1, <1>2, <2>0, <3>1, <3>2
  <2>2. CASE token = "}"
    <3>1. Put(page, token) = [page EXCEPT !.depth = @ - 1, !.sound = @ /\ page.depth > 0]
      BY <1>4, <2>2 DEF Put
    <3>2. Ink(token) = <<>> /\ Opened(token) = 0 - 1 /\ (Fits(token, page.depth) <=> page.depth > 0)
      BY <1>4, <2>2 DEF Ink, Opened, Fits
    <3>3. page.depth - 1 = page.depth + (0 - 1)
      BY <1>1
    <3> QED
      BY <1>1, <1>2, <2>0, <3>1, <3>2, <3>3
  <2>3. CASE token \in Specials \ {"{", "}"}
    <3>1. Put(page, token) = [page EXCEPT !.sound = FALSE]
      BY <1>4, <2>3 DEF Put
    <3>2. Ink(token) = <<>> /\ Opened(token) = 0 /\ ~Fits(token, page.depth)
      BY <2>3 DEF Ink, Opened, Fits
    <3> QED
      BY <1>1, <1>2, <2>0, <3>1, <3>2
  <2>4a. CASE token \in Commands
    <3>1. Put(page, token) = page
      BY <1>4, <2>4a DEF Put
    <3>2. Ink(token) = <<>> /\ Opened(token) = 0 /\ Fits(token, page.depth)
      BY <1>4, <2>4a DEF Ink, Opened, Fits
    <3> QED
      BY <1>1, <1>2, <2>0, <3>1, <3>2
  <2>4. CASE token \notin Specials /\ token \in DOMAIN TexMeaning
    <3>1. Put(page, token) = [page EXCEPT !.text = Append(@, TexMeaning[token])]
      BY <1>4, <2>4 DEF Put
    <3>2. Ink(token) = <<TexMeaning[token]>> /\ Opened(token) = 0 /\ Fits(token, page.depth)
      BY <1>4, <2>4 DEF Ink, Opened, Fits
    <3>3. TexMeaning[token] \in Tokens
      BY <2>4, MeaningIsSpecial DEF Tokens
    <3> QED
      BY <1>1, <1>2, <1>3, <3>1, <3>2, <3>3
  <2>5. CASE token \notin Specials \union Commands /\ token \notin DOMAIN TexMeaning
    <3>1. Put(page, token) = [page EXCEPT !.text = Append(@, token)]
      BY <1>4, <2>5 DEF Put
    <3>2. Ink(token) = <<token>> /\ Opened(token) = 0 /\ Fits(token, page.depth)
      BY <1>4, <2>5 DEF Ink, Opened, Fits
    <3> QED
      BY <1>1, <1>2, <1>3, <3>1, <3>2
  <2> QED
    BY <2>1, <2>2, <2>3, <2>4, <2>4a, <2>5
<1>6. page.text \o Ink(token) \in Seq(Tokens)
  <2> HIDE DEF Tokens
  <2> QED
    BY <1>1, <1>5
<1>7. page.depth + Opened(token) \in Int
  <2>1. Opened(token) \in Int
    BY DEF Opened
  <2> QED
    BY <1>1, <2>1
<1> QED
  BY <1>1, <1>5, <1>6, <1>7 DEF Pages

LEMMA TypesetChosen ==
    ASSUME NEW tokens
    PROVE  Typeset(tokens) =
              (CHOOSE page : page =
                 [i \in 0 .. Len(tokens) |->
                    IF i = 0 THEN [text |-> <<>>, depth |-> 0, sound |-> TRUE]
                    ELSE Put(page[i - 1], tokens[i])])[Len(tokens)]
  BY DEF Typeset

\* u[k] is the page after the first k tokens.
Types(u, n, tokens) ==
    /\ u[0] = EmptyPage
    /\ \A k \in 1 .. n : u[k] = Put(u[k - 1], tokens[k])

LEMMA TypesetIs ==
    ASSUME NEW tokens \in Seq(Tokens)
    PROVE  \E u : /\ Types(u, Len(tokens), tokens)
                  /\ \A k \in 0 .. Len(tokens) : u[k] \in Pages
                  /\ Typeset(tokens) = u[Len(tokens)]
<1> DEFINE n == Len(tokens)
           step == [x \in (1 .. n) \X Pages |-> Put(x[2], tokens[x[1]])]
           Chosen(f) == f = [i \in 0 .. n |-> IF i = 0 THEN EmptyPage
                                              ELSE Put(f[i - 1], tokens[i])]
<1>1. n \in Nat /\ \A i \in 1 .. n : tokens[i] \in Tokens
  BY LenProperties, ElementOfSeq
<1>2. ASSUME NEW k \in 1 .. n, NEW page \in Pages
      PROVE  Put(page, tokens[k]) \in Pages
  BY <1>1, PutIs
<1>3. step \in [(1 .. n) \X Pages -> Pages]
  <2>1. \A x \in (1 .. n) \X Pages : Put(x[2], tokens[x[1]]) \in Pages
    BY <1>2
  <2> QED
    BY <2>1
<1>4. ASSUME NEW k \in 1 .. n, NEW page \in Pages
      PROVE  step[<<k, page>>] = Put(page, tokens[k])
  OBVIOUS
<1> HIDE DEF step
<1>5. EmptyPage \in Pages
  <2>1. <<>> \in Seq(Tokens)
    OBVIOUS
  <2> QED
    BY <2>1 DEF EmptyPage, Pages
<1>6. PICK f : Iterates(f, n, EmptyPage, step) /\ \A k \in 0 .. n : f[k] \in Pages
  <2> HIDE DEF n
  <2> QED
    BY <1>1, <1>3, <1>5, RecursionExists
<1>7. Chosen(f)
  <2>1. ASSUME NEW i \in 0 .. n, i # 0
        PROVE  step[<<i, f[i - 1]>>] = Put(f[i - 1], tokens[i])
    <3>1. i \in 1 .. n /\ i - 1 \in 0 .. n
      BY <1>1, <2>1
    <3> QED
      BY <1>4, <1>6, <3>1
  <2> QED
    BY <1>6, <2>1 DEF Iterates
<1> DEFINE u == CHOOSE g : Chosen(g)
<1>8. Chosen(u)
  <2> HIDE DEF Chosen
  <2> QED
    BY <1>7
<1>9. Typeset(tokens) = u[n]
  BY TypesetChosen DEF EmptyPage
<1> HIDE DEF u
<1>10. u[0] = EmptyPage /\ \A k \in 1 .. n : u[k] = Put(u[k - 1], tokens[k])
  <2>1. 0 \in 0 .. n /\ \A k \in 1 .. n : k \in 0 .. n /\ k # 0
    BY <1>1
  <2> QED
    BY <1>8, <2>1
<1>11. \A k \in 0 .. n : u[k] \in Pages
  <2> DEFINE P == {k \in 0 .. n : u[k] \in Pages}
  <2>1. 0 \in P
    BY <1>1, <1>5, <1>10
  <2>2. \A k \in 1 .. n : k - 1 \in P => k \in P
    <3> SUFFICES ASSUME NEW k \in 1 .. n, u[k - 1] \in Pages
                 PROVE  k \in 0 .. n /\ u[k] \in Pages
      OBVIOUS
    <3>1. k \in 0 .. n
      BY <1>1
    <3> QED
      BY <1>2, <1>10, <3>1
  <2>3. \A k \in 0 .. n : k \in P
    <3> HIDE DEF P
    <3> QED
      BY <1>1, <2>1, <2>2, Everywhere
  <2> QED
    BY <2>3
<1> QED
  BY <1>9, <1>10, <1>11 DEF Types

LEMMA TypesetNone == Typeset(<<>>) = EmptyPage
<1>1. <<>> \in Seq(Tokens) /\ Len(<<>>) = 0
  OBVIOUS
<1>2. PICK u : Types(u, 0, <<>>) /\ Typeset(<<>>) = u[0]
  BY <1>1, TypesetIs
<1> QED
  BY <1>2 DEF Types

LEMMA TypesetAppend ==
    ASSUME NEW s \in Seq(Tokens), NEW x \in Tokens
    PROVE  Typeset(s) \in Pages /\ Typeset(Append(s, x)) = Put(Typeset(s), x)
<1> DEFINE n == Len(s)
           a == Append(s, x)
           m == n + 1
<1>1. /\ n \in Nat /\ a \in Seq(Tokens) /\ Len(a) = m /\ a[m] = x
      /\ \A i \in 1 .. n : a[i] = s[i]
  BY AppendProperties, LenProperties
<1> HIDE DEF a
<1>2. PICK u : Types(u, m, a) /\ Typeset(a) = u[m]
  BY <1>1, TypesetIs
<1>3. PICK v : Types(v, n, s) /\ Typeset(s) = v[n] /\ \A k \in 0 .. n : v[k] \in Pages
  BY TypesetIs
<1> HIDE DEF n
<1>4. \A k \in 0 .. n : u[k] = v[k]
  <2> DEFINE Same == {k \in 0 .. n : u[k] = v[k]}
  <2>1. 0 \in Same
    BY <1>1, <1>2, <1>3 DEF Types
  <2>2. \A k \in 1 .. n : k - 1 \in Same => k \in Same
    <3>1. \A k \in 1 .. n : k \in 0 .. n /\ k \in 1 .. m
      BY <1>1
    <3> QED
      BY <1>1, <1>2, <1>3, <3>1 DEF Types
  <2>3. \A k \in 0 .. n : k \in Same
    <3> HIDE DEF Same
    <3> QED
      BY <1>1, <2>1, <2>2, Everywhere
  <2> QED
    BY <2>3
<1>5. m \in 1 .. m /\ m - 1 = n /\ n \in 0 .. n
  BY <1>1
<1> HIDE DEF m
<1>6. u[m] = Put(u[m - 1], a[m])
  BY <1>2, <1>5 DEF Types
<1> QED
  BY <1>1, <1>2, <1>3, <1>4, <1>5, <1>6 DEF a

LEMMA TypesetPage ==
    ASSUME NEW s \in Seq(Tokens)
    PROVE  /\ Typeset(s) \in Pages
           /\ Typeset(s) = [text  |-> Typeset(s).text, depth |-> Typeset(s).depth,
                            sound |-> Typeset(s).sound]
<1>1. " " \in Tokens
  BY DEF Tokens
<1>2. Typeset(s) \in Pages
  BY <1>1, TypesetAppend
<1> QED
  BY <1>2 DEF Pages

LEMMA Associative ==
    ASSUME NEW a \in Seq(Tokens), NEW b \in Seq(Tokens), NEW c \in Seq(Tokens)
    PROVE  a \o (b \o c) = (a \o b) \o c
<1> HIDE DEF Tokens
<1> QED
  OBVIOUS

\* A source after another adds its text to it, and fits if it does by itself.
LEMMA TypesetConcat ==
    ASSUME NEW s \in Seq(Tokens), NEW t \in Seq(Tokens), Typeset(s).depth >= 0, Typeset(s).sound
    PROVE  /\ Typeset(s \o t).text = Typeset(s).text \o Typeset(t).text
           /\ Typeset(s \o t).depth = Typeset(s).depth + Typeset(t).depth
           /\ Typeset(t).sound => Typeset(s \o t).sound
<1> DEFINE p == Typeset(s)
           Good(r) == LET q == Typeset(r)
                          pq == Typeset(s \o r)
                      IN  /\ pq.text = p.text \o q.text
                          /\ pq.depth = p.depth + q.depth
                          /\ q.sound => pq.sound
           T == {r \in Seq(Tokens) : Good(r)}
<1>1. p \in Pages /\ p.text \in Seq(Tokens) /\ p.depth \in Int
  BY TypesetPage DEF Pages
<1>2. <<>> \in T
  <2>1. s \o <<>> = s /\ <<>> \in Seq(Tokens)
    OBVIOUS
  <2>2. Typeset(<<>>).text = <<>> /\ Typeset(<<>>).depth = 0
    BY TypesetNone DEF EmptyPage
  <2>3. p.text \o <<>> = p.text /\ p.depth + 0 = p.depth
    BY <1>1
  <2> QED
    BY <2>1, <2>2, <2>3
<1>3. ASSUME NEW r \in Seq(Tokens), NEW x \in Tokens, Good(r)
      PROVE  Append(r, x) \in Seq(Tokens) /\ Good(Append(r, x))
  <2> DEFINE q == Typeset(r)
             pq == Typeset(s \o r)
  <2>1. s \o Append(r, x) = Append(s \o r, x) /\ s \o r \in Seq(Tokens)
        /\ Append(r, x) \in Seq(Tokens)
    OBVIOUS
  <2>2. q \in Pages /\ Typeset(Append(r, x)) = Put(q, x)
    BY TypesetAppend
  <2>3. pq \in Pages /\ Typeset(s \o Append(r, x)) = Put(pq, x)
    <3> DEFINE sr == s \o r
    <3>1. sr \in Seq(Tokens)
      BY <2>1
    <3> HIDE DEF sr
    <3>2. Typeset(sr) \in Pages /\ Typeset(Append(sr, x)) = Put(Typeset(sr), x)
      BY <3>1, TypesetAppend
    <3> QED
      BY <2>1, <3>2 DEF sr
  <2>4. /\ Put(q, x).text = q.text \o Ink(x) /\ Put(q, x).depth = q.depth + Opened(x)
        /\ Put(q, x).sound = (q.sound /\ Fits(x, q.depth)) /\ Ink(x) \in Seq(Tokens)
    BY <2>2, PutIs
  <2>5. /\ Put(pq, x).text = pq.text \o Ink(x) /\ Put(pq, x).depth = pq.depth + Opened(x)
        /\ Put(pq, x).sound = (pq.sound /\ Fits(x, pq.depth))
    BY <2>3, PutIs
  <2>6. /\ pq.text = p.text \o q.text /\ pq.depth = p.depth + q.depth
        /\ q.sound => pq.sound
    BY <1>3
  <2>7. q.text \in Seq(Tokens) /\ q.depth \in Int /\ Opened(x) \in Int
    BY <2>2 DEF Pages, Opened
  <2>8. p.depth >= 0
    OBVIOUS
  <2> HIDE DEF p, q, pq
  <2>9. Put(pq, x).text = p.text \o Put(q, x).text
    <3>1. (p.text \o q.text) \o Ink(x) = p.text \o (q.text \o Ink(x))
      <4> DEFINE a == p.text
                 b == q.text
                 c == Ink(x)
      <4>1. a \in Seq(Tokens) /\ b \in Seq(Tokens) /\ c \in Seq(Tokens)
        BY <1>1, <2>4, <2>7
      <4> HIDE DEF a, b, c
      <4>2. (a \o b) \o c = a \o (b \o c)
        BY <4>1
      <4> QED
        BY <4>2 DEF a, b, c
    <3> QED
      BY <2>4, <2>5, <2>6, <3>1
  <2>10. Put(pq, x).depth = p.depth + Put(q, x).depth
    BY <1>1, <2>4, <2>5, <2>6, <2>7
  <2>11. Fits(x, q.depth) => Fits(x, pq.depth)
    <3>1. \A a, b \in Int : a >= 0 /\ b > 0 => a + b > 0
      OBVIOUS
    <3>2. q.depth > 0 => pq.depth > 0
      BY <1>1, <2>6, <2>7, <2>8, <3>1
    <3> QED
      BY <3>2 DEF Fits
  <2>12. Put(q, x).sound => Put(pq, x).sound
    BY <2>4, <2>5, <2>6, <2>11
  <2> QED
    BY <2>1, <2>2, <2>3, <2>9, <2>10, <2>12 DEF p
<1> HIDE DEF Good
<1>4. \A r \in Seq(Tokens), x \in Tokens : r \in T => Append(r, x) \in T
  BY <1>3
<1>5. t \in T
  <2> HIDE DEF T
  <2> QED
    BY <1>2, <1>4, EverySequence
<1> QED
  BY <1>5 DEF Good

-----------------------------------------------------------------------------
(* A source that typesets a character k times, or as often as a text has   *)
(* it.                                                                     *)

Prints(tokens, ch, k) ==
    /\ tokens \in Seq(Tokens) /\ k \in Nat
    /\ Typeset(tokens).depth = 0 /\ Typeset(tokens).sound
    /\ Occurrences(Typeset(tokens).text, ch) = k

CountsAs(tokens, text, ch) ==
    text \in Seq(Tokens) /\ Prints(tokens, ch, Occurrences(text, ch))

LEMMA PrintsNone ==
    ASSUME NEW ch
    PROVE  Prints(<<>>, ch, 0)
<1>1. <<>> \in Seq(Tokens)
  OBVIOUS
<1> QED
  BY <1>1, TypesetNone, OccurrencesNone DEF Prints, EmptyPage

LEMMA PrintsConcat ==
    ASSUME NEW ch, NEW s, NEW k, NEW t, NEW l, Prints(s, ch, k), Prints(t, ch, l)
    PROVE  Prints(s \o t, ch, k + l)
<1>1. /\ s \in Seq(Tokens) /\ t \in Seq(Tokens) /\ k \in Nat /\ l \in Nat
      /\ Typeset(s).depth = 0 /\ Typeset(s).sound /\ Typeset(t).depth = 0 /\ Typeset(t).sound
      /\ Occurrences(Typeset(s).text, ch) = k /\ Occurrences(Typeset(t).text, ch) = l
  BY DEF Prints
<1>2. s \o t \in Seq(Tokens) /\ k + l \in Nat
  <2>1. k + l \in Nat
    BY <1>1
  <2> QED
    BY <1>1, <2>1, ConcatProperties
<1>3. /\ Typeset(s \o t).text = Typeset(s).text \o Typeset(t).text
      /\ Typeset(s \o t).depth = 0 /\ Typeset(s \o t).sound
  <2>1. /\ Typeset(s \o t).text = Typeset(s).text \o Typeset(t).text
        /\ Typeset(s \o t).depth = Typeset(s).depth + Typeset(t).depth
        /\ Typeset(t).sound => Typeset(s \o t).sound
    <3>1. Typeset(s).depth >= 0
      BY <1>1
    <3> QED
      BY <1>1, <3>1, TypesetConcat
  <2> QED
    BY <1>1, <2>1
<1>4. Typeset(s).text \in Seq(Tokens) /\ Typeset(t).text \in Seq(Tokens)
  BY <1>1, TypesetPage DEF Pages
<1>5. Occurrences(Typeset(s).text \o Typeset(t).text, ch) =
         Occurrences(Typeset(s).text, ch) + Occurrences(Typeset(t).text, ch)
  <2> DEFINE a == Typeset(s).text
             b == Typeset(t).text
  <2>1. a \in Seq(Tokens) /\ b \in Seq(Tokens)
    BY <1>4
  <2> HIDE DEF a, b
  <2>2. Occurrences(a \o b, ch) = Occurrences(a, ch) + Occurrences(b, ch)
    BY <2>1, OccurrencesConcat
  <2> QED
    BY <2>2 DEF a, b
<1> QED
  BY <1>1, <1>2, <1>3, <1>5 DEF Prints

LEMMA CountsConcat ==
    ASSUME NEW ch, NEW s, NEW x, NEW t, NEW y, CountsAs(s, x, ch), CountsAs(t, y, ch)
    PROVE  CountsAs(s \o t, x \o y, ch)
<1>1. x \in Seq(Tokens) /\ y \in Seq(Tokens)
  BY DEF CountsAs
<1>2. x \o y \in Seq(Tokens)
  BY <1>1, ConcatProperties
<1>3. Occurrences(x \o y, ch) = Occurrences(x, ch) + Occurrences(y, ch)
  BY <1>1, OccurrencesConcat
<1>4. Prints(s \o t, ch, Occurrences(x, ch) + Occurrences(y, ch))
  BY PrintsConcat DEF CountsAs
<1> QED
  BY <1>2, <1>3, <1>4 DEF CountsAs

\* A group typesets what is in it.
LEMMA TypesetGrouped ==
    ASSUME NEW s \in Seq(Tokens), Typeset(s).depth = 0, Typeset(s).sound
    PROVE  /\ Grouped(s) \in Seq(Tokens)
           /\ Typeset(Grouped(s)) = [text |-> Typeset(s).text, depth |-> 0, sound |-> TRUE]
<1> DEFINE open == Append(<<>>, "{")
           os == open \o s
           all == Append(os, "}")
<1>1. s \in Seq(Tokens) /\ Typeset(s).depth = 0 /\ Typeset(s).sound
  OBVIOUS
<1>2. "{" \in Tokens /\ "}" \in Tokens /\ "{" \in Specials /\ "}" \in Specials
  BY DEF Tokens, Specials
<1>3. /\ Ink("{") = <<>> /\ Ink("}") = <<>> /\ Opened("{") = 1 /\ Opened("}") = 0 - 1
      /\ Fits("{", 0) /\ Fits("}", 1)
  <2>1. Ink("{") = <<>> /\ Ink("}") = <<>>
    BY <1>2 DEF Ink
  <2>2. Opened("{") = 1 /\ Opened("}") = 0 - 1
    BY DEF Opened
  <2>3. Fits("{", 0)
    BY DEF Fits
  <2>4. 1 > 0
    OBVIOUS
  <2>5. Fits("}", 1)
    BY <2>4 DEF Fits
  <2> QED
    BY <2>1, <2>2, <2>3, <2>5
<1>4. open \in Seq(Tokens) /\ os \in Seq(Tokens) /\ all \in Seq(Tokens)
  <2>1. <<>> \in Seq(Tokens)
    OBVIOUS
  <2>2. open \in Seq(Tokens)
    BY <1>2, <2>1, AppendProperties
  <2> HIDE DEF open
  <2>3. os \in Seq(Tokens)
    BY <1>1, <2>2, ConcatProperties
  <2> HIDE DEF os
  <2>4. all \in Seq(Tokens)
    BY <1>2, <2>3, AppendProperties
  <2> QED
    BY <2>2, <2>3, <2>4
<1>5. Typeset(open) = [text |-> <<>>, depth |-> 1, sound |-> TRUE]
  <2>1. <<>> \in Seq(Tokens)
    OBVIOUS
  <2>2. EmptyPage \in Pages
    BY <2>1 DEF EmptyPage, Pages
  <2>3. Typeset(open) = Put(EmptyPage, "{")
    BY <1>2, <2>1, TypesetAppend, TypesetNone
  <2>4. Put(EmptyPage, "{") = [text  |-> EmptyPage.text \o Ink("{"),
                               depth |-> EmptyPage.depth + Opened("{"),
                               sound |-> EmptyPage.sound /\ Fits("{", EmptyPage.depth)]
    BY <1>2, <2>2, PutIs
  <2>5. EmptyPage.text = <<>> /\ EmptyPage.depth = 0 /\ EmptyPage.sound = TRUE
    BY DEF EmptyPage
  <2>6. EmptyPage.text \o Ink("{") = <<>>
    <3>1. <<>> \o <<>> = <<>>
      OBVIOUS
    <3> QED
      BY <1>3, <2>5, <3>1
  <2>7. EmptyPage.depth + Opened("{") = 1
    <3>1. 0 + 1 = 1
      OBVIOUS
    <3> QED
      BY <1>3, <2>5, <3>1
  <2>8. (EmptyPage.sound /\ Fits("{", EmptyPage.depth)) = TRUE
    BY <1>3, <2>5
  <2> QED
    BY <2>3, <2>4, <2>6, <2>7, <2>8
<1>6. Typeset(s).text \in Seq(Tokens)
  BY <1>1, TypesetPage DEF Pages
<1> HIDE DEF open, os
<1>7. /\ Typeset(os).text = Typeset(s).text /\ Typeset(os).depth = 1
      /\ Typeset(os).sound = TRUE /\ Typeset(os) \in Pages
  <2>1. Typeset(open).depth >= 0 /\ Typeset(open).sound
    BY <1>5
  <2>2. /\ Typeset(open \o s).text = Typeset(open).text \o Typeset(s).text
        /\ Typeset(open \o s).depth = Typeset(open).depth + Typeset(s).depth
        /\ Typeset(s).sound => Typeset(open \o s).sound
    BY <1>1, <1>4, <2>1, TypesetConcat
  <2>3. <<>> \o Typeset(s).text = Typeset(s).text
    <3> DEFINE a == Typeset(s).text
    <3>1. a \in Seq(Tokens)
      BY <1>6
    <3> HIDE DEF a
    <3>2. <<>> \o a = a
      BY <3>1
    <3> QED
      BY <3>2 DEF a
  <2>4. Typeset(os) \in Pages
    BY <1>4, TypesetPage
  <2>5. Typeset(os).sound \in BOOLEAN
    BY <2>4 DEF Pages
  <2> QED
    BY <1>1, <1>5, <2>2, <2>3, <2>4, <2>5 DEF os
<1>8. Typeset(all) = [text |-> Typeset(s).text, depth |-> 0, sound |-> TRUE]
  <2>1. Typeset(all) = Put(Typeset(os), "}")
    BY <1>2, <1>4, TypesetAppend
  <2>2. Put(Typeset(os), "}") = [text  |-> Typeset(os).text \o Ink("}"),
                                 depth |-> Typeset(os).depth + Opened("}"),
                                 sound |-> Typeset(os).sound /\ Fits("}", Typeset(os).depth)]
    BY <1>2, <1>7, PutIs
  <2>3. Typeset(s).text \o <<>> = Typeset(s).text
    <3> DEFINE a == Typeset(s).text
    <3>1. a \in Seq(Tokens)
      BY <1>6
    <3> HIDE DEF a
    <3>2. a \o <<>> = a
      BY <3>1
    <3> QED
      BY <3>2 DEF a
  <2>4. Typeset(os).text \o Ink("}") = Typeset(s).text
    BY <1>3, <1>7, <2>3
  <2>5. Typeset(os).depth + Opened("}") = 0
    <3>1. 1 + (0 - 1) = 0
      OBVIOUS
    <3> QED
      BY <1>3, <1>7, <3>1
  <2>6. Typeset(os).sound /\ Fits("}", Typeset(os).depth)
    BY <1>3, <1>7
  <2>7. (Typeset(os).sound /\ Fits("}", Typeset(os).depth)) = TRUE
    BY <2>6
  <2> QED
    BY <2>1, <2>2, <2>4, <2>5, <2>7
<1>9. Grouped(s) = all
  <2>1. <<"{">> = Append(<<>>, "{")
    OBVIOUS
  <2>2. \A r \in Seq(Tokens) : r \o <<"}">> = Append(r, "}")
    <3> SUFFICES ASSUME NEW r \in Seq(Tokens)
                 PROVE  r \o <<"}">> = Append(r, "}")
      OBVIOUS
    <3> DEFINE x == "}"
    <3>1. x \in Tokens
      BY <1>2
    <3> HIDE DEF x
    <3>2. r \o <<x>> = Append(r, x)
      BY <3>1
    <3> QED
      BY <3>2 DEF x
  <2> QED
    BY <1>4, <2>1, <2>2 DEF Grouped, open, os
<1> QED
  BY <1>4, <1>8, <1>9

LEMMA PrintsGrouped ==
    ASSUME NEW ch, NEW s, NEW k, Prints(s, ch, k)
    PROVE  Prints(Grouped(s), ch, k)
<1>1. /\ s \in Seq(Tokens) /\ Typeset(s).depth = 0 /\ Typeset(s).sound
      /\ Occurrences(Typeset(s).text, ch) = k /\ k \in Nat
  BY DEF Prints
<1>2. /\ Grouped(s) \in Seq(Tokens)
      /\ Typeset(Grouped(s)) = [text |-> Typeset(s).text, depth |-> 0, sound |-> TRUE]
  BY <1>1, TypesetGrouped
<1> QED
  BY <1>1, <1>2 DEF Prints

\* A token that opens or closes nothing.
LEMMA PlainToken ==
    ASSUME NEW token \in Tokens, token \notin Specials
    PROVE  Typeset(<<token>>) = [text |-> Ink(token), depth |-> 0, sound |-> TRUE]
<1>1. <<>> \in Seq(Tokens) /\ Append(<<>>, token) = <<token>>
  OBVIOUS
<1>2. EmptyPage \in Pages
  BY <1>1 DEF EmptyPage, Pages
<1>3. Typeset(Append(<<>>, token)) = Put(EmptyPage, token)
  BY <1>1, TypesetAppend, TypesetNone
<1>4. Put(EmptyPage, token) = [text  |-> EmptyPage.text \o Ink(token),
                               depth |-> EmptyPage.depth + Opened(token),
                               sound |-> EmptyPage.sound /\ Fits(token, EmptyPage.depth)]
  BY <1>2, PutIs
<1>5. EmptyPage.text = <<>> /\ EmptyPage.depth = 0 /\ EmptyPage.sound = TRUE
  BY DEF EmptyPage
<1>6. "{" \in Specials /\ "}" \in Specials
  BY DEF Specials
<1>7. Opened(token) = 0 /\ Fits(token, 0)
  BY <1>6 DEF Opened, Fits
<1>8. (EmptyPage.sound /\ Fits(token, EmptyPage.depth)) = TRUE
  BY <1>5, <1>7
<1>9. EmptyPage.text \o Ink(token) = Ink(token) /\ EmptyPage.depth + Opened(token) = 0
  <2>1. Ink(token) \in Seq(Tokens)
    BY <1>2, PutIs
  <2>2. <<>> \o Ink(token) = Ink(token)
    <3> DEFINE a == Ink(token)
    <3>1. a \in Seq(Tokens)
      BY <2>1
    <3> HIDE DEF a
    <3>2. <<>> \o a = a
      BY <3>1
    <3> QED
      BY <3>2 DEF a
  <2> QED
    BY <1>5, <1>7, <2>2
<1> QED
  BY <1>1, <1>3, <1>4, <1>8, <1>9

LEMMA PrintsSeparator ==
    ASSUME NEW ch, ch \notin Separators, NEW token \in Separators
    PROVE  Prints(<<token>>, ch, 0)
<1>1. token \in Tokens
  BY DEF Tokens
<1>2. token \notin Specials /\ token \notin DOMAIN TexMeaning /\ token \notin Commands
  BY DEF Separators, Specials, TexMeaning, Commands
<1>3. Typeset(<<token>>) = [text |-> <<token>>, depth |-> 0, sound |-> TRUE]
  <2>1. Ink(token) = <<token>>
    BY <1>2 DEF Ink
  <2> QED
    BY <1>1, <1>2, <2>1, PlainToken
<1>4. <<>> \in Seq(Tokens) /\ <<token>> \in Seq(Tokens) /\ Append(<<>>, token) = <<token>>
  <2> HIDE DEF Tokens
  <2> QED
    BY <1>1
<1>5. Occurrences(Append(<<>>, token), ch) = Occurrences(<<>>, ch) + 0
  <2>1. token # ch
    OBVIOUS
  <2> QED
    BY <1>1, <1>4, <2>1, OccurrencesAppend, ZenonT(30)
<1> QED
  BY <1>3, <1>4, <1>5, OccurrencesNone DEF Prints

LEMMA PrintsCommand ==
    ASSUME NEW ch, NEW token \in Commands
    PROVE  Prints(<<token>>, ch, 0)
<1>1. token \in Tokens /\ token \notin Specials
  BY DEF Tokens, Commands, Specials
<1>2. Typeset(<<token>>) = [text |-> <<>>, depth |-> 0, sound |-> TRUE]
  <2>1. Ink(token) = <<>>
    BY DEF Ink
  <2> QED
    BY <1>1, <2>1, PlainToken
<1>3. <<token>> \in Seq(Tokens)
  <2> HIDE DEF Tokens
  <2> QED
    BY <1>1
<1> QED
  BY <1>2, <1>3, OccurrencesNone DEF Prints

LEMMA CountsJoined ==
    ASSUME NEW ch, NEW parts \in Seq(Seq(Tokens)), NEW texts \in Seq(Seq(Tokens)),
           Len(parts) = Len(texts), \A i \in 1 .. Len(parts) : CountsAs(parts[i], texts[i], ch)
    PROVE  CountsAs(Joined(parts), Joined(texts), ch)
<1> DEFINE n == Len(parts)
<1>1. n \in Nat
  BY LenProperties
<1>2. PICK u : Joins(u, n, parts) /\ Joined(parts) = u[n]
  BY JoinedIs
<1>3. PICK v : Joins(v, n, texts) /\ Joined(texts) = v[n]
  BY JoinedIs
<1> DEFINE P == {k \in 0 .. n : CountsAs(u[k], v[k], ch)}
<1>4. 0 \in P
  <2>1. 0 \in 0 .. n
    BY <1>1
  <2>2. <<>> \in Seq(Tokens)
    OBVIOUS
  <2> QED
    BY <1>2, <1>3, <2>1, <2>2, PrintsNone, OccurrencesNone DEF Joins, CountsAs
<1>5. \A k \in 1 .. n : k - 1 \in P => k \in P
  <2> SUFFICES ASSUME NEW k \in 1 .. n, CountsAs(u[k - 1], v[k - 1], ch)
               PROVE  k \in 0 .. n /\ CountsAs(u[k], v[k], ch)
    OBVIOUS
  <2>1. k \in 0 .. n
    BY <1>1
  <2>2. u[k] = u[k - 1] \o parts[k] /\ v[k] = v[k - 1] \o texts[k]
    BY <1>2, <1>3 DEF Joins
  <2>3. CountsAs(parts[k], texts[k], ch)
    OBVIOUS
  <2>4. CountsAs(u[k - 1] \o parts[k], v[k - 1] \o texts[k], ch)
    BY <2>3, CountsConcat
  <2> QED
    BY <2>1, <2>2, <2>4
<1>6. n \in P
  <2>1. n \in 0 .. n
    BY <1>1
  <2> HIDE DEF P, n
  <2> QED
    BY <1>1, <1>4, <1>5, <2>1, Everywhere
<1> QED
  BY <1>2, <1>3, <1>6

-----------------------------------------------------------------------------
(* The escaping boundary.                                                  *)

Shown == Characters \union {" "}

LEMMA NormalIsShown ==
    ASSUME NEW text \in Seq(Characters)
    PROVE  NormalizeForLatex(text) \in Seq(Shown)
<1> DEFINE visible == Select(text, {i \in DOMAIN text : text[i] # "control"})
           inline == [i \in DOMAIN visible |-> IF visible[i] = "break" THEN " " ELSE visible[i]]
           some == {i \in DOMAIN inline : inline[i] = " " => i = 1 \/ inline[i - 1] # " "}
           single == Select(inline, some)
           solid == {i \in DOMAIN single : single[i] \notin Blanks}
           kept == {i \in DOMAIN single : \E j, k \in solid : j <= i /\ i <= k}
<1>1. NormalizeForLatex(text) = Select(single, kept)
  BY DEF NormalizeForLatex
<1>2. visible \in Seq(Characters)
  BY SelectProperties
<1> HIDE DEF visible
<1>3. inline \in Seq(Shown)
  <2>1. Len(visible) \in Nat /\ DOMAIN visible = 1 .. Len(visible)
    BY <1>2, LenProperties
  <2>2. inline = [i \in 1 .. Len(visible) |-> inline[i]]
    BY <2>1
  <2>3. \A i \in 1 .. Len(visible) : inline[i] \in Shown
    <3>1. \A i \in 1 .. Len(visible) : visible[i] \in Characters
      BY <1>2, ElementOfSeq
    <3> QED
      BY <2>1, <3>1 DEF Shown
  <2> HIDE DEF inline
  <2> QED
    BY <2>1, <2>2, <2>3, TypedSequence
<1> HIDE DEF inline, some
<1>4. single \in Seq(Shown)
  BY <1>3, SelectProperties
<1> HIDE DEF single, kept
<1> QED
  BY <1>1, <1>4, SelectProperties

\* What a character is escaped to.
Escaped(ch) == IF ch \in Specials THEN LatexSpecialMap[ch] ELSE <<ch>>

LEMMA InARow ==
    ASSUME NEW X, NEW a \in X, NEW b \in X, NEW c \in X
    PROVE  /\ <<a>> \o <<>> = <<a>> /\ <<b>> \o <<c>> = <<b, c>>
           /\ <<a>> \o <<b, c>> = <<a, b, c>>
<1>1. /\ <<a>> \in Seq(X) /\ <<b>> \in Seq(X) /\ <<a, b>> \in Seq(X) /\ <<b, c>> \in Seq(X)
  OBVIOUS
<1>2. <<a>> \o <<>> = <<a>>
  BY <1>1
<1>3. <<b, c>> = Append(<<b>>, c) /\ <<a, b>> = Append(<<a>>, b) /\ <<a, b, c>> = Append(<<a, b>>, c)
  OBVIOUS
<1>4. \A s, t \in Seq(X), x \in X : s \o <<x>> = Append(s, x) /\ s \o Append(t, x) = Append(s \o t, x)
  OBVIOUS
<1>5. <<b>> \o <<c>> = <<b, c>> /\ <<a>> \o <<b>> = <<a, b>>
  BY <1>1, <1>3, <1>4
<1>6. <<a>> \o Append(<<b>>, c) = Append(<<a>> \o <<b>>, c)
  BY <1>1, <1>4
<1> QED
  BY <1>2, <1>3, <1>5, <1>6

\* TeX makes the character of it.
LEMMA EscapedIs ==
    ASSUME NEW ch \in Shown
    PROVE  /\ Escaped(ch) \in Seq(Tokens)
           /\ Typeset(Escaped(ch)) = [text |-> <<ch>>, depth |-> 0, sound |-> TRUE]
<1>1. CASE ch \notin Specials
  <2>1. ch \in Tokens /\ ch \notin DOMAIN TexMeaning /\ ch \notin Commands
    BY CharactersAssumption DEF Shown, Tokens, TexMeaning, Commands
  <2>2. <<ch>> \in Seq(Tokens)
    <3> HIDE DEF Tokens
    <3> QED
      BY <2>1
  <2>3. Ink(ch) = <<ch>> /\ Escaped(ch) = <<ch>>
    BY <1>1, <2>1 DEF Ink, Escaped
  <2> QED
    BY <1>1, <2>1, <2>2, <2>3, PlainToken
<1>2. CASE ch \in Specials
  <2>1. PICK word \in DOMAIN TexMeaning :
           /\ TexMeaning[word] = ch
           /\ Escaped(ch) = <<word>> \/ Escaped(ch) = <<word, "{", "}">>
    <3> DEFINE Means(word) == /\ word \in DOMAIN TexMeaning /\ TexMeaning[word] = ch
                              /\ Escaped(ch) = <<word>> \/ Escaped(ch) = <<word, "{", "}">>
    <3>1. CASE ch = "\\"
      <4>1. Means("\\textbackslash")
        BY <1>2, <3>1 DEF Escaped, LatexSpecialMap, TexMeaning
      <4> QED
        BY <4>1
    <3>2. CASE ch = "&"
      <4>1. Means("\\&")
        BY <1>2, <3>2 DEF Escaped, LatexSpecialMap, TexMeaning
      <4> QED
        BY <4>1
    <3>3. CASE ch = "%"
      <4>1. Means("\\%")
        BY <1>2, <3>3 DEF Escaped, LatexSpecialMap, TexMeaning
      <4> QED
        BY <4>1
    <3>4. CASE ch = "$"
      <4>1. Means("\\$")
        BY <1>2, <3>4 DEF Escaped, LatexSpecialMap, TexMeaning
      <4> QED
        BY <4>1
    <3>5. CASE ch = "#"
      <4>1. Means("\\#")
        BY <1>2, <3>5 DEF Escaped, LatexSpecialMap, TexMeaning
      <4> QED
        BY <4>1
    <3>6. CASE ch = "_"
      <4>1. Means("\\_")
        BY <1>2, <3>6 DEF Escaped, LatexSpecialMap, TexMeaning
      <4> QED
        BY <4>1
    <3>7. CASE ch = "{"
      <4>1. Means("\\{")
        BY <1>2, <3>7 DEF Escaped, LatexSpecialMap, TexMeaning
      <4> QED
        BY <4>1
    <3>8. CASE ch = "}"
      <4>1. Means("\\}")
        BY <1>2, <3>8 DEF Escaped, LatexSpecialMap, TexMeaning
      <4> QED
        BY <4>1
    <3>9. CASE ch = "~"
      <4>1. Means("\\textasciitilde")
        BY <1>2, <3>9 DEF Escaped, LatexSpecialMap, TexMeaning
      <4> QED
        BY <4>1
    <3>10. CASE ch = "^"
      <4>1. Means("\\textasciicircum")
        BY <1>2, <3>10 DEF Escaped, LatexSpecialMap, TexMeaning
      <4> QED
        BY <4>1
    <3> QED
      BY <1>2, <3>1, <3>2, <3>3, <3>4, <3>5, <3>6, <3>7, <3>8, <3>9, <3>10 DEF Specials
  <2>2. word \in Tokens /\ word \notin Specials /\ Ink(word) = <<ch>>
    BY <2>1, MeaningIsSpecial DEF Tokens, Ink
  <2>3. Typeset(<<word>>) = [text |-> <<ch>>, depth |-> 0, sound |-> TRUE]
    BY <2>2, PlainToken
  <2>4. <<word>> \in Seq(Tokens) /\ <<>> \in Seq(Tokens)
    <3> HIDE DEF Tokens
    <3> QED
      BY <2>2
  <2>5. CASE Escaped(ch) = <<word>>
    BY <2>3, <2>4, <2>5
  <2>6. CASE Escaped(ch) = <<word, "{", "}">>
    <3> DEFINE one == <<word>>
               two == Grouped(<<>>)
    <3>0. "{" \in Tokens /\ "}" \in Tokens
      BY DEF Tokens, Specials
    <3>1. /\ two \in Seq(Tokens)
          /\ Typeset(two) = [text |-> <<>>, depth |-> 0, sound |-> TRUE]
      <4> DEFINE none == <<>>
      <4>1. /\ Typeset(none).text = none /\ Typeset(none).depth = 0 /\ Typeset(none).sound
            /\ none \in Seq(Tokens)
        BY <2>4, TypesetNone DEF EmptyPage
      <4> HIDE DEF none
      <4>2. /\ Grouped(none) \in Seq(Tokens)
            /\ Typeset(Grouped(none)) = [text |-> none, depth |-> 0, sound |-> TRUE]
        BY <4>1, TypesetGrouped
      <4> QED
        BY <4>2 DEF none
    <3>2. Escaped(ch) = one \o two
      <4>1. two = <<"{", "}">>
        <5>1. <<"{">> \o <<>> = <<"{">> /\ <<"{">> \o <<"}">> = <<"{", "}">>
          BY <3>0, InARow
        <5> QED
          BY <5>1 DEF Grouped
      <4>2. <<word>> \o <<"{", "}">> = <<word, "{", "}">>
        BY <2>2, <3>0, InARow, ZenonT(30)
      <4> QED
        BY <2>6, <4>1, <4>2
    <3>3. <<ch>> \o <<>> = <<ch>>
      OBVIOUS
    <3> HIDE DEF one, two
    <3>4. one \in Seq(Tokens) /\ Typeset(one) = [text |-> <<ch>>, depth |-> 0, sound |-> TRUE]
      BY <2>3, <2>4 DEF one
    <3>5. one \o two \in Seq(Tokens)
      BY <3>1, <3>4, ConcatProperties
    <3>6. /\ Typeset(one \o two).text = Typeset(one).text \o Typeset(two).text
          /\ Typeset(one \o two).depth = Typeset(one).depth + Typeset(two).depth
          /\ Typeset(two).sound => Typeset(one \o two).sound
      <4>1. Typeset(one).depth >= 0 /\ Typeset(one).sound
        BY <3>4
      <4> QED
        BY <3>1, <3>4, <4>1, TypesetConcat
    <3>7. Typeset(one \o two) \in Pages
      BY <3>5, TypesetPage
    <3>8. /\ Typeset(one \o two).text = <<ch>> /\ Typeset(one \o two).depth = 0
          /\ Typeset(one \o two).sound
      BY <3>1, <3>3, <3>4, <3>6
    <3> DEFINE all == one \o two
    <3>9. Typeset(all) = [text |-> <<ch>>, depth |-> 0, sound |-> TRUE]
      <4> HIDE DEF all
      <4> QED
        BY <3>7, <3>8 DEF Pages, all
    <3> QED
      BY <3>2, <3>5, <3>9
  <2> QED
    BY <2>1, <2>5, <2>6
<1> QED
  BY <1>1, <1>2

\* A sequence that goes on from another by one item.
LEMMA Continued ==
    ASSUME NEW S, NEW n, NEW f \in Seq(S), Len(f) = n, NEW g \in Seq(S), Len(g) = n + 1,
           \A i \in 1 .. n : g[i] = f[i]
    PROVE  g = Append(f, g[n + 1])
<1> DEFINE m == n + 1
           y == g[m]
           a == Append(f, y)
<1>1. n \in Nat /\ m \in Nat /\ m \in 1 .. m /\ Len(g) = m
  BY LenProperties
<1>2. \A i \in 1 .. m : i \in 1 .. n \/ i = m
  BY <1>1
<1>3. y \in S
  <2> HIDE DEF m
  <2> QED
    BY <1>1, ElementOfSeq
<1> HIDE DEF y
<1>4. a \in Seq(S) /\ Len(a) = m /\ a[m] = y /\ \A i \in 1 .. n : a[i] = f[i]
  BY <1>3, AppendProperties
<1> HIDE DEF a
<1>5. \A i \in 1 .. m : g[i] = a[i]
  BY <1>2, <1>4 DEF y
<1> HIDE DEF m
<1>6. g = a
  BY <1>1, <1>4, <1>5, SeqEqual
<1> QED
  BY <1>6 DEF a, y, m

LEMMA EscapeAppend ==
    ASSUME NEW s \in Seq(Shown), NEW ch \in Shown
    PROVE  /\ EscapeLatex(s) \in Seq(Tokens)
           /\ EscapeLatex(Append(s, ch)) = EscapeLatex(s) \o Escaped(ch)
<1> DEFINE S == Seq(Tokens)
           Pieces(t) == [i \in DOMAIN t |-> IF t[i] \in Specials THEN LatexSpecialMap[t[i]]
                                            ELSE <<t[i]>>]
           n == Len(s)
           a == Append(s, ch)
           f == Pieces(s)
           g == Pieces(a)
<1>1. EscapeLatex(s) = Joined(f) /\ EscapeLatex(a) = Joined(g)
  BY DEF EscapeLatex, Substituted
<1>2. /\ n \in Nat /\ DOMAIN s = 1 .. n /\ DOMAIN a = 1 .. n + 1 /\ a[n + 1] = ch
      /\ \A i \in 1 .. n : a[i] = s[i] /\ s[i] \in Shown
  BY AppendProperties, LenProperties, ElementOfSeq
<1> HIDE DEF a, n
<1>3. /\ f = [i \in 1 .. n |-> f[i]] /\ \A i \in 1 .. n : f[i] = Escaped(s[i])
  BY <1>2 DEF Escaped
<1>4. g = [i \in 1 .. n + 1 |-> g[i]] /\ \A i \in 1 .. n + 1 : g[i] = Escaped(a[i])
  BY <1>2 DEF Escaped
<1> HIDE DEF f, g
<1>5. \A i \in 1 .. n : f[i] \in S
  BY <1>2, <1>3, EscapedIs
<1> HIDE DEF S
<1>6. f \in Seq(S) /\ Len(f) = n
  BY <1>2, <1>3, <1>5, TypedSequence
<1>7. g = Append(f, Escaped(ch))
  <2>1. Escaped(ch) \in S
    BY EscapedIs DEF S
  <2>2. g[n + 1] = Escaped(ch)
    <3>1. n + 1 \in 1 .. n + 1
      BY <1>2
    <3> QED
      BY <1>2, <1>4, <3>1
  <2>3. \A i \in 1 .. n : g[i] = f[i]
    <3>1. \A i \in 1 .. n : i \in 1 .. n + 1
      BY <1>2
    <3> QED
      BY <1>2, <1>3, <1>4, <3>1
  <2>4. g \in Seq(S) /\ Len(g) = n + 1
    <3>1. n + 1 \in Nat /\ \A i \in 1 .. n + 1 : g[i] \in S
      <4>1. \A i \in 1 .. n + 1 : i \in 1 .. n \/ i = n + 1
        BY <1>2
      <4> QED
        BY <1>2, <1>5, <2>1, <2>2, <2>3, <4>1
    <3> QED
      BY <1>4, <3>1, TypedSequence
  <2>5. g = Append(f, g[n + 1])
    BY <1>6, <2>3, <2>4, Continued
  <2> QED
    BY <2>2, <2>5
<1>8. Joined(f) \in Seq(Tokens) /\ Joined(Append(f, Escaped(ch))) = Joined(f) \o Escaped(ch)
  BY <1>6, EscapedIs, JoinedAppend DEF S
<1> QED
  BY <1>1, <1>7, <1>8 DEF a

\* A text without control characters comes out of TeX as it went in.
LEMMA EscapePrints ==
    ASSUME NEW text \in Seq(Shown)
    PROVE  /\ EscapeLatex(text) \in Seq(Tokens)
           /\ Typeset(EscapeLatex(text)) = [text |-> text, depth |-> 0, sound |-> TRUE]
<1> DEFINE T == {t \in Seq(Shown) :
                    Typeset(EscapeLatex(t)) = [text |-> t, depth |-> 0, sound |-> TRUE]}
<1>1. <<>> \in T
  <2>1. <<>> \in Seq(Shown)
    OBVIOUS
  <2>2. EscapeLatex(<<>>) = <<>>
    <3> DEFINE f == [i \in DOMAIN <<>> |-> IF <<>>[i] \in Specials THEN LatexSpecialMap[<<>>[i]]
                                           ELSE <<(<<>>[i])>>]
    <3>1. EscapeLatex(<<>>) = Joined(f)
      BY DEF EscapeLatex, Substituted
    <3>2. f = <<>>
      OBVIOUS
    <3> QED
      BY <3>1, <3>2, JoinedNone
  <2> QED
    BY <2>1, <2>2, TypesetNone DEF EmptyPage
<1>2. \A t \in Seq(Shown), ch \in Shown : t \in T => Append(t, ch) \in T
  <2> SUFFICES ASSUME NEW t \in Seq(Shown), NEW ch \in Shown, t \in T
               PROVE  Append(t, ch) \in T
    OBVIOUS
  <2> DEFINE s == EscapeLatex(t)
             e == Escaped(ch)
             all == s \o e
  <2>1. /\ s \in Seq(Tokens) /\ e \in Seq(Tokens) /\ EscapeLatex(Append(t, ch)) = all
    BY EscapeAppend, EscapedIs
  <2>2. /\ Typeset(s) = [text |-> t, depth |-> 0, sound |-> TRUE]
        /\ Typeset(e) = [text |-> <<ch>>, depth |-> 0, sound |-> TRUE]
    BY EscapedIs
  <2>3. Append(t, ch) \in Seq(Shown) /\ Append(t, ch) = t \o <<ch>>
    <3> HIDE DEF Shown
    <3> QED
      OBVIOUS
  <2> HIDE DEF s, e
  <2>4. /\ Typeset(all).text = t \o <<ch>> /\ Typeset(all).depth = 0 /\ Typeset(all).sound
    <3>1. Typeset(s).depth >= 0 /\ Typeset(s).sound
      BY <2>2
    <3>2. /\ Typeset(all).text = Typeset(s).text \o Typeset(e).text
          /\ Typeset(all).depth = Typeset(s).depth + Typeset(e).depth
          /\ Typeset(e).sound => Typeset(all).sound
      BY <2>1, <3>1, TypesetConcat
    <3>3. 0 + 0 = 0
      OBVIOUS
    <3> HIDE DEF all
    <3> QED
      BY <2>2, <3>2, <3>3
  <2>5. Typeset(all) \in Pages
    <3>1. all \in Seq(Tokens)
      BY <2>1, ConcatProperties
    <3> HIDE DEF all
    <3> QED
      BY <3>1, TypesetPage
  <2> HIDE DEF all
  <2>6. Typeset(all) = [text |-> Append(t, ch), depth |-> 0, sound |-> TRUE]
    <3> DEFINE a == Append(t, ch)
    <3>1. Typeset(all).text = a
      BY <2>3, <2>4
    <3> HIDE DEF a
    <3>2. Typeset(all) = [text |-> a, depth |-> 0, sound |-> TRUE]
      BY <2>4, <2>5, <3>1 DEF Pages
    <3> QED
      BY <3>2 DEF a
  <2> QED
    BY <2>1, <2>3, <2>6
<1>3. text \in T
  <2> HIDE DEF T
  <2> QED
    BY <1>1, <1>2, EverySequence
<1>4. EscapeLatex(text) \in Seq(Tokens)
  <2>1. " " \in Shown
    BY DEF Shown
  <2> QED
    BY <2>1, EscapeAppend
<1> QED
  BY <1>3, <1>4

LEMMA ShownIsToken ==
    ASSUME NEW text \in Seq(Shown)
    PROVE  text \in Seq(Tokens)
<1>1. \A x \in Shown : x \in Tokens
  BY DEF Shown, Tokens
<1>2. Len(text) \in Nat /\ text = [i \in 1 .. Len(text) |-> text[i]]
      /\ \A i \in 1 .. Len(text) : text[i] \in Tokens
  <2> HIDE DEF Shown, Tokens
  <2> QED
    BY <1>1, LenProperties, ElementOfSeq
<1> QED
  BY <1>2, TypedSequence

\* Every text comes out of the escaping as its normal form.
LEMMA EscIs ==
    ASSUME NEW text \in Seq(Characters)
    PROVE  /\ Typeset(Esc(text)) =
                 [text |-> NormalizeForLatex(text), depth |-> 0, sound |-> TRUE]
           /\ \A ch : CountsAs(Esc(text), NormalizeForLatex(text), ch)
<1> DEFINE x == NormalizeForLatex(text)
<1>1. x \in Seq(Shown)
  BY NormalIsShown
<1>2. Esc(text) = EscapeLatex(x)
  BY DEF Esc
<1> HIDE DEF x
<1>3. x \in Seq(Tokens)
  BY <1>1, ShownIsToken
<1>4. /\ EscapeLatex(x) \in Seq(Tokens)
      /\ Typeset(EscapeLatex(x)) = [text |-> x, depth |-> 0, sound |-> TRUE]
  BY <1>1, EscapePrints
<1>5. \A ch : CountsAs(EscapeLatex(x), x, ch)
  <2> SUFFICES ASSUME NEW ch PROVE CountsAs(EscapeLatex(x), x, ch)
    OBVIOUS
  <2>1. Occurrences(x, ch) \in Nat
    BY <1>3, OccurrencesConcat
  <2> QED
    BY <1>3, <1>4, <2>1 DEF CountsAs, Prints
<1> QED
  BY <1>2, <1>4, <1>5 DEF x

-----------------------------------------------------------------------------
(* TextLists put together with separators, and lists of bullets.               *)

TextLists == Seq(Seq(Characters))

NormalAll(texts) == [i \in DOMAIN texts |-> NormalizeForLatex(texts[i])]

LEMMA NormalAllIs ==
    ASSUME NEW texts \in TextLists
    PROVE  /\ Len(texts) \in Nat /\ DOMAIN texts = 1 .. Len(texts)
           /\ \A i \in 1 .. Len(texts) : texts[i] \in Seq(Characters)
           /\ NormalAll(texts) \in Seq(Seq(Tokens)) /\ Len(NormalAll(texts)) = Len(texts)
           /\ \A i \in 1 .. Len(texts) : NormalAll(texts)[i] = NormalizeForLatex(texts[i])
           /\ Joined(NormalAll(texts)) \in Seq(Tokens)
<1> DEFINE n == Len(texts)
           f == NormalAll(texts)
           S == Seq(Tokens)
<1>1. n \in Nat /\ DOMAIN texts = 1 .. n /\ \A i \in 1 .. n : texts[i] \in Seq(Characters)
  <2> DEFINE C == Seq(Characters)
  <2>1. texts \in Seq(C)
    BY DEF TextLists
  <2> HIDE DEF C
  <2>2. n \in Nat /\ DOMAIN texts = 1 .. n /\ \A i \in 1 .. n : texts[i] \in C
    BY <2>1, LenProperties, ElementOfSeq
  <2> QED
    BY <2>2 DEF C
<1> HIDE DEF n
<1>2. f = [i \in 1 .. n |-> f[i]] /\ \A i \in 1 .. n : f[i] = NormalizeForLatex(texts[i])
  BY <1>1 DEF NormalAll
<1> HIDE DEF f
<1>3. \A i \in 1 .. n : f[i] \in S
  BY <1>1, <1>2, NormalIsShown, ShownIsToken
<1> HIDE DEF S
<1>4. f \in Seq(S) /\ Len(f) = n
  BY <1>1, <1>2, <1>3, TypedSequence
<1>5. Joined(f) \in Seq(Tokens)
  <2>1. <<>> \in Seq(Tokens)
    OBVIOUS
  <2> QED
    BY <1>4, <2>1, JoinedAppend DEF S
<1> QED
  BY <1>1, <1>2, <1>4, <1>5 DEF f, n, S

LEMMA NormalNone == NormalizeForLatex(<<>>) = <<>>
<1> DEFINE visible == Select(<<>>, {i \in DOMAIN <<>> : <<>>[i] # "control"})
           inline == [i \in DOMAIN visible |-> IF visible[i] = "break" THEN " " ELSE visible[i]]
           some == {i \in DOMAIN inline : inline[i] = " " => i = 1 \/ inline[i - 1] # " "}
           single == Select(inline, some)
           solid == {i \in DOMAIN single : single[i] \notin Blanks}
           kept == {i \in DOMAIN single : \E j, k \in solid : j <= i /\ i <= k}
<1>1. NormalizeForLatex(<<>>) = Select(single, kept)
  BY DEF NormalizeForLatex
<1>2. visible = <<>>
  BY SelectNone
<1> HIDE DEF visible
<1>3. inline = <<>>
  BY <1>2
<1> HIDE DEF inline, some
<1>4. single = <<>>
  BY <1>3, SelectNone
<1> HIDE DEF single, kept
<1> QED
  BY <1>1, <1>4, SelectNone

LEMMA NormalAllAppend ==
    ASSUME NEW ts \in TextLists, NEW text \in Seq(Characters)
    PROVE  /\ Append(ts, text) \in TextLists
           /\ Joined(NormalAll(Append(ts, text))) =
                 Joined(NormalAll(ts)) \o NormalizeForLatex(text)
<1> DEFINE C == Seq(Characters)
           S == Seq(Tokens)
           n == Len(ts)
           a == Append(ts, text)
           f == NormalAll(ts)
           g == NormalAll(a)
           y == NormalizeForLatex(text)
<1>0. ts \in Seq(C) /\ text \in C
  BY DEF TextLists
<1>1. n \in Nat /\ f \in Seq(S) /\ Len(f) = n /\ \A i \in 1 .. n : f[i] = NormalizeForLatex(ts[i])
  BY NormalAllIs
<1> HIDE DEF C, f
<1>2. a \in Seq(C) /\ Len(a) = n + 1 /\ a[n + 1] = text /\ \A i \in 1 .. n : a[i] = ts[i]
  BY <1>0, AppendProperties
<1>3. a \in TextLists
  BY <1>2 DEF C, TextLists
<1> HIDE DEF a, n
<1>4. g = [i \in 1 .. n + 1 |-> g[i]] /\ \A i \in 1 .. n + 1 : g[i] = NormalizeForLatex(a[i])
  <2>1. DOMAIN a = 1 .. n + 1
    BY <1>2, <1>3, NormalAllIs
  <2> QED
    BY <2>1 DEF NormalAll
<1> HIDE DEF g
<1>5. y \in S
  BY NormalIsShown, ShownIsToken
<1>5a. NormalizeForLatex(text) = y
  OBVIOUS
<1> HIDE DEF S, y
<1>6. g = Append(f, y)
  <2>1. g[n + 1] = y
    <3>1. n + 1 \in 1 .. n + 1
      BY <1>1
    <3> QED
      BY <1>2, <1>4, <1>5a, <3>1
  <2>2. \A i \in 1 .. n : g[i] = f[i]
    <3>1. \A i \in 1 .. n : i \in 1 .. n + 1
      BY <1>1
    <3> QED
      BY <1>1, <1>2, <1>4, <3>1
  <2>3. g \in Seq(S) /\ Len(g) = n + 1
    <3>1. n + 1 \in Nat /\ \A i \in 1 .. n + 1 : g[i] \in S
      <4>1. \A i \in 1 .. n + 1 : i \in 1 .. n \/ i = n + 1
        BY <1>1
      <4>2. \A i \in 1 .. n : f[i] \in S
        BY <1>1, ElementOfSeq
      <4> QED
        BY <1>1, <1>5, <2>1, <2>2, <4>1, <4>2
    <3> QED
      BY <1>4, <3>1, TypedSequence
  <2>4. g = Append(f, g[n + 1])
    BY <1>1, <2>2, <2>3, Continued
  <2> QED
    BY <2>1, <2>4
<1>7. Joined(Append(f, y)) = Joined(f) \o y
  BY <1>1, <1>5, JoinedAppend DEF S
<1> QED
  BY <1>3, <1>6, <1>7 DEF a, f, g, y

\* An empty text adds nothing.
LEMMA PresentIs ==
    ASSUME NEW texts \in TextLists
    PROVE  /\ Present(texts) \in TextLists
           /\ Joined(NormalAll(Present(texts))) = Joined(NormalAll(texts))
<1> DEFINE C == Seq(Characters)
           Good(ts) == Present(ts) \in TextLists
                          /\ Joined(NormalAll(Present(ts))) = Joined(NormalAll(ts))
           T == {ts \in Seq(C) : Good(ts)}
<1>1. <<>> \in T
  <2>1. <<>> \in Seq(C) /\ <<>> \in TextLists
    BY DEF TextLists
  <2>2. Present(<<>>) = <<>>
    BY SelectNone DEF Present
  <2> QED
    BY <2>1, <2>2
<1>2. \A ts \in Seq(C), text \in C : ts \in T => Append(ts, text) \in T
  <2> SUFFICES ASSUME NEW ts \in Seq(C), NEW text \in C, Good(ts)
               PROVE  Append(ts, text) \in Seq(C) /\ Good(Append(ts, text))
    OBVIOUS
  <2> DEFINE n == Len(ts)
             a == Append(ts, text)
             P == {i \in DOMAIN a : a[i] # <<>>}
             Q == {i \in DOMAIN ts : ts[i] # <<>>}
             p == Present(ts)
  <2>0. ts \in TextLists /\ text \in Seq(Characters)
    BY DEF TextLists
  <2> HIDE DEF C
  <2>1. /\ n \in Nat /\ DOMAIN ts = 1 .. n /\ DOMAIN a = 1 .. n + 1 /\ a[n + 1] = text
        /\ \A i \in 1 .. n : a[i] = ts[i]
    BY AppendProperties, LenProperties
  <2>2. Present(a) = Select(a, P) /\ p = Select(ts, Q)
    BY DEF Present
  <2>3. a \in TextLists
    BY <2>0, NormalAllAppend
  <2>4. a \in Seq(C)
    BY AppendProperties
  <2> HIDE DEF a
  <2>5. \A i \in 1 .. n : i \in P <=> i \in Q
    <3>1. \A i \in 1 .. n : i \in 1 .. n + 1
      BY <2>1
    <3> QED
      BY <2>1, <3>1
  <2>6. n + 1 \in P <=> text # <<>>
    <3>1. n + 1 \in 1 .. n + 1
      BY <2>1
    <3> QED
      BY <2>1, <3>1
  <2> HIDE DEF P, Q
  <2>7. Select(a, P) = IF n + 1 \in P THEN Append(Select(ts, Q), text) ELSE Select(ts, Q)
    BY <2>5, SelectAppend DEF a
  <2>8. p \in TextLists /\ Joined(NormalAll(p)) = Joined(NormalAll(ts))
    OBVIOUS
  <2> HIDE DEF p
  <2>9. Joined(NormalAll(a)) = Joined(NormalAll(ts)) \o NormalizeForLatex(text)
    BY <2>0, NormalAllAppend DEF a
  <2>10. CASE text # <<>>
    <3>1. Present(a) = Append(p, text)
      BY <2>2, <2>6, <2>7, <2>10
    <3>2. Append(p, text) \in TextLists
          /\ Joined(NormalAll(Append(p, text))) = Joined(NormalAll(p)) \o NormalizeForLatex(text)
      BY <2>0, <2>8, NormalAllAppend
    <3> HIDE DEF n
    <3> QED
      BY <2>4, <2>8, <2>9, <3>1, <3>2 DEF a
  <2>11. CASE text = <<>>
    <3>1. Present(a) = p
      BY <2>2, <2>6, <2>7, <2>11
    <3>2. Joined(NormalAll(ts)) \o <<>> = Joined(NormalAll(ts))
      <4> DEFINE j == Joined(NormalAll(ts))
      <4>1. j \in Seq(Tokens)
        BY <2>0, NormalAllIs
      <4> HIDE DEF j
      <4>2. j \o <<>> = j
        BY <4>1
      <4> QED
        BY <4>2 DEF j
    <3>3. Joined(NormalAll(a)) = Joined(NormalAll(ts))
      BY <2>9, <2>11, <3>2, NormalNone
    <3> QED
      BY <2>4, <2>8, <3>1, <3>3 DEF a
  <2> QED
    BY <2>10, <2>11
<1>3. texts \in Seq(C)
  BY DEF TextLists
<1>4. texts \in T
  <2> HIDE DEF T, C
  <2> QED
    BY <1>1, <1>2, <1>3, EverySequence
<1> QED
  BY <1>4

\* Pieces that each print one of the texts, after something that prints nothing.
LEMMA PiecesPrint ==
    ASSUME NEW ch, NEW ts \in TextLists, NEW pieces,
           pieces = [i \in DOMAIN ts |-> pieces[i]],
           \A i \in DOMAIN ts : \E before : /\ Prints(before, ch, 0)
                                           /\ pieces[i] = before \o Esc(ts[i])
    PROVE  CountsAs(Joined(pieces), Joined(NormalAll(ts)), ch)
<1> DEFINE n == Len(ts)
           f == NormalAll(ts)
           S == Seq(Tokens)
<1>1. /\ n \in Nat /\ DOMAIN ts = 1 .. n /\ f \in Seq(S) /\ Len(f) = n
      /\ \A i \in 1 .. n : ts[i] \in Seq(Characters) /\ f[i] = NormalizeForLatex(ts[i])
  BY NormalAllIs
<1> HIDE DEF n, f
<1>2. \A i \in 1 .. n : CountsAs(pieces[i], f[i], ch)
  <2> SUFFICES ASSUME NEW i \in 1 .. n PROVE CountsAs(pieces[i], f[i], ch)
    OBVIOUS
  <2> DEFINE e == Esc(ts[i])
             k == Occurrences(f[i], ch)
  <2>1. CountsAs(e, f[i], ch)
    BY <1>1, EscIs
  <2>2. f[i] \in Seq(Tokens) /\ Prints(e, ch, k) /\ k \in Nat /\ 0 + k = k
    BY <2>1 DEF CountsAs, Prints
  <2>3. PICK before : Prints(before, ch, 0) /\ pieces[i] = before \o e
    BY <1>1
  <2> HIDE DEF e, k
  <2>4. Prints(before \o e, ch, 0 + k)
    BY <2>2, <2>3, PrintsConcat
  <2> QED
    BY <2>2, <2>3, <2>4 DEF CountsAs, k
<1>3. \A i \in 1 .. n : pieces[i] \in S
  BY <1>2 DEF CountsAs, Prints
<1>4. pieces = [i \in 1 .. n |-> pieces[i]]
  BY <1>1
<1> HIDE DEF S
<1>5. pieces \in Seq(S) /\ Len(pieces) = n
  BY <1>1, <1>3, <1>4, TypedSequence
<1> QED
  BY <1>1, <1>2, <1>5, CountsJoined DEF S, f

LEMMA JoinPresentPrints ==
    ASSUME NEW ch, NEW texts \in TextLists, NEW separator \in Separators, ch \notin Separators
    PROVE  CountsAs(JoinPresent(texts, separator), Joined(NormalAll(texts)), ch)
<1> DEFINE ts == Present(texts)
           pieces == [i \in DOMAIN ts |-> (IF i = 1 THEN <<>> ELSE <<separator>>) \o Esc(ts[i])]
<1>1. ts \in TextLists /\ Joined(NormalAll(ts)) = Joined(NormalAll(texts))
  BY PresentIs
<1>2. JoinPresent(texts, separator) = Joined(pieces)
  BY DEF JoinPresent
<1> HIDE DEF ts
<1>3. /\ pieces = [i \in DOMAIN ts |-> pieces[i]]
      /\ \A i \in DOMAIN ts : \E before : /\ Prints(before, ch, 0)
                                         /\ pieces[i] = before \o Esc(ts[i])
  <2> SUFFICES ASSUME NEW i \in DOMAIN ts
               PROVE  \E before : Prints(before, ch, 0) /\ pieces[i] = before \o Esc(ts[i])
    OBVIOUS
  <2> DEFINE first == IF i = 1 THEN <<>> ELSE <<separator>>
  <2>1. Prints(first, ch, 0)
    BY PrintsNone, PrintsSeparator
  <2>2. pieces[i] = first \o Esc(ts[i])
    OBVIOUS
  <2> HIDE DEF first, pieces
  <2> QED
    BY <2>1, <2>2
<1> HIDE DEF pieces
<1>4. CountsAs(Joined(pieces), Joined(NormalAll(ts)), ch)
  BY <1>1, <1>3, PiecesPrint
<1> QED
  BY <1>1, <1>2, <1>4

Items(bullets) == [i \in DOMAIN bullets |-> <<"item">> \o bullets[i]]

LEMMA BulletsPrint ==
    ASSUME NEW ch, NEW texts \in TextLists
    PROVE  CountsAs(Joined(Items(EscAll(texts))), Joined(NormalAll(texts)), ch)
<1> DEFINE ts == Present(texts)
           escaped == EscAll(texts)
           pieces == Items(escaped)
           mark == <<"item">>
<1>1. ts \in TextLists /\ Joined(NormalAll(ts)) = Joined(NormalAll(texts))
  BY PresentIs
<1>2. escaped = [i \in DOMAIN ts |-> Esc(ts[i])]
  BY DEF EscAll
<1>3. Prints(mark, ch, 0)
  BY PrintsCommand DEF Commands
<1> HIDE DEF ts, escaped
<1>4. pieces = [i \in DOMAIN ts |-> mark \o Esc(ts[i])]
  <2>1. DOMAIN escaped = DOMAIN ts /\ \A i \in DOMAIN ts : escaped[i] = Esc(ts[i])
    BY <1>2
  <2> QED
    BY <2>1 DEF Items
<1> HIDE DEF pieces, mark
<1>5. /\ pieces = [i \in DOMAIN ts |-> pieces[i]]
      /\ \A i \in DOMAIN ts : \E before : /\ Prints(before, ch, 0)
                                         /\ pieces[i] = before \o Esc(ts[i])
  BY <1>3, <1>4
<1>6. CountsAs(Joined(pieces), Joined(NormalAll(ts)), ch)
  BY <1>1, <1>5, PiecesPrint
<1> QED
  BY <1>1, <1>6 DEF pieces, escaped

\* A bullet before others.
LEMMA JoinedFirst ==
    ASSUME NEW part \in Seq(Tokens), NEW parts \in Seq(Seq(Tokens))
    PROVE  /\ Joined(parts) \in Seq(Tokens)
           /\ Joined(<<part>> \o parts) = part \o Joined(parts)
<1> DEFINE S == Seq(Tokens)
           one == <<part>>
           Good(r) == Joined(one \o r) = part \o Joined(r)
           T == {r \in Seq(S) : Good(r)}
<1>1. part \in S /\ one \in Seq(S) /\ \A r \in Seq(S) : Joined(r) \in S
  <2>1. \A r \in Seq(S) : Joined(r) \in S
    BY JoinedAppend
  <2> HIDE DEF S
  <2> QED
    BY <2>1 DEF S
<1>2. <<>> \in T
  <2>1. <<>> \in Seq(S) /\ one \o <<>> = Append(<<>>, part)
    <3> HIDE DEF S
    <3> QED
      BY <1>1
  <2>2. Joined(Append(<<>>, part)) = Joined(<<>>) \o part
    BY <2>1, JoinedAppend
  <2>3. <<>> \o part = part /\ part \o <<>> = part
    <3> HIDE DEF Tokens
    <3> QED
      OBVIOUS
  <2> QED
    BY <2>1, <2>2, <2>3, JoinedNone
<1>3. \A r \in Seq(S), x \in S : r \in T => Append(r, x) \in T
  <2> SUFFICES ASSUME NEW r \in Seq(S), NEW x \in S, Good(r)
               PROVE  Append(r, x) \in Seq(S) /\ Good(Append(r, x))
    OBVIOUS
  <2> DEFINE j == Joined(r)
  <2>1. /\ one \o Append(r, x) = Append(one \o r, x) /\ one \o r \in Seq(S)
        /\ Append(r, x) \in Seq(S)
    <3> HIDE DEF S, one
    <3> QED
      BY <1>1
  <2>2. Joined(Append(one \o r, x)) = Joined(one \o r) \o x /\ Joined(Append(r, x)) = j \o x
    <3> HIDE DEF one
    <3> QED
      BY <2>1, JoinedAppend
  <2>3. (part \o j) \o x = part \o (j \o x)
    <3>1. j \in Seq(Tokens) /\ x \in Seq(Tokens)
      BY <1>1
    <3> HIDE DEF j
    <3> QED
      BY <3>1, Associative
  <2> HIDE DEF one
  <2> QED
    BY <2>1, <2>2, <2>3
<1>4. parts \in T
  <2> HIDE DEF S, T
  <2>1. parts \in Seq(S)
    BY DEF S
  <2> QED
    BY <1>2, <1>3, <2>1, EverySequence
<1> QED
  BY <1>1, <1>4

LEMMA ItemsFirst ==
    ASSUME NEW first \in Seq(Tokens), NEW rest \in Seq(Seq(Tokens))
    PROVE  /\ Items(rest) \in Seq(Seq(Tokens))
           /\ Joined(Items(<<first>> \o rest)) = (<<"item">> \o first) \o Joined(Items(rest))
<1> DEFINE S == Seq(Tokens)
           n == Len(rest)
           mark == <<"item">>
           one == <<first>>
           marked == mark \o first
           all == one \o rest
           f == Items(rest)
           g == Items(all)
           h == <<marked>> \o f
<1>1. marked \in S /\ \A s \in S : mark \o s \in S
  <2>1. mark \in Seq(Tokens)
    <3> HIDE DEF mark
    <3> QED
      BY PrintsCommand DEF Prints, Commands, mark
  <2> HIDE DEF mark
  <2> QED
    BY <2>1, ConcatProperties
<1>2. /\ rest \in Seq(S) /\ n \in Nat /\ DOMAIN rest = 1 .. n /\ \A i \in 1 .. n : rest[i] \in S
      /\ one \in Seq(S) /\ Len(one) = 1 /\ one[1] = first
  <2>1. rest \in Seq(S) /\ first \in S
    OBVIOUS
  <2> HIDE DEF S
  <2> QED
    BY <2>1, LenProperties, ElementOfSeq
<1>3. /\ all \in Seq(S) /\ Len(all) = n + 1 /\ DOMAIN all = 1 .. n + 1 /\ all[1] = first
      /\ \A i \in 1 .. n : all[i + 1] = rest[i]
  <2> HIDE DEF S, one, n
  <2>0. /\ all \in Seq(S) /\ Len(all) = Len(one) + Len(rest)
        /\ \A i \in 1 .. Len(one) + Len(rest) :
              all[i] = IF i <= Len(one) THEN one[i] ELSE rest[i - Len(one)]
    BY <1>2, ConcatProperties
  <2>1. /\ all \in Seq(S) /\ Len(all) = 1 + n
        /\ \A i \in 1 .. 1 + n : all[i] = IF i <= 1 THEN one[i] ELSE rest[i - 1]
    <3> HIDE DEF all
    <3>1. Len(rest) = n
      BY DEF n
    <3> QED
      BY <1>2, <2>0, <3>1
  <2>2. 1 \in 1 .. 1 + n /\ \A i \in 1 .. n : i + 1 \in 1 .. 1 + n /\ ~(i + 1 <= 1) /\ i + 1 - 1 = i
    BY <1>2
  <2> HIDE DEF all
  <2>3. DOMAIN all = 1 .. Len(all)
    BY <2>1, LenProperties
  <2> QED
    BY <1>2, <2>1, <2>2, <2>3
<1> HIDE DEF S, mark, one, n, all
<1>4. /\ f = [i \in 1 .. n |-> f[i]] /\ \A i \in 1 .. n : f[i] = mark \o rest[i]
      /\ g = [i \in 1 .. n + 1 |-> g[i]] /\ \A i \in 1 .. n + 1 : g[i] = mark \o all[i]
  BY <1>2, <1>3 DEF Items, mark
<1> HIDE DEF f, g
<1>5. f \in Seq(S) /\ Len(f) = n
  <2>1. \A i \in 1 .. n : f[i] \in S
    BY <1>1, <1>2, <1>4
  <2> QED
    BY <1>2, <1>4, <2>1, TypedSequence
<1>6. /\ h \in Seq(S) /\ Len(h) = n + 1 /\ h[1] = marked
      /\ \A i \in 1 .. n : h[i + 1] = f[i]
  <2> DEFINE m == <<marked>>
  <2>1. m \in Seq(S) /\ Len(m) = 1 /\ m[1] = marked
    <3> HIDE DEF marked
    <3> QED
      BY <1>1
  <2> HIDE DEF m, marked
  <2>0. /\ m \o f \in Seq(S) /\ Len(m \o f) = Len(m) + Len(f)
        /\ \A i \in 1 .. Len(m) + Len(f) :
              (m \o f)[i] = IF i <= Len(m) THEN m[i] ELSE f[i - Len(m)]
    BY <1>5, <2>1, ConcatProperties
  <2>2. m \o f \in Seq(S) /\ Len(m \o f) = 1 + n
        /\ \A i \in 1 .. 1 + n : (m \o f)[i] = IF i <= 1 THEN m[i] ELSE f[i - 1]
    BY <1>5, <2>0, <2>1
  <2>3. 1 \in 1 .. 1 + n /\ \A i \in 1 .. n : i + 1 \in 1 .. 1 + n /\ ~(i + 1 <= 1) /\ i + 1 - 1 = i
    BY <1>2
  <2>4. 1 + n = n + 1
    BY <1>2
  <2> QED
    BY <2>1, <2>2, <2>3, <2>4 DEF m
<1> HIDE DEF h
<1>7. \A i \in 1 .. n + 1 : g[i] = h[i]
  <2> SUFFICES ASSUME NEW i \in 1 .. n + 1 PROVE g[i] = h[i]
    OBVIOUS
  <2>1. CASE i = 1
    BY <1>3, <1>4, <1>6, <2>1 DEF marked
  <2>2. CASE i # 1
    <3>1. PICK k \in 1 .. n : i = k + 1
      <4>1. i - 1 \in 1 .. n /\ i = (i - 1) + 1
        BY <1>2, <2>2
      <4> QED
        BY <4>1
    <3>2. g[i] = mark \o all[k + 1]
      BY <1>4, <3>1
    <3>3. all[k + 1] = rest[k]
      BY <1>3
    <3>4. h[k + 1] = mark \o rest[k]
      BY <1>4, <1>6
    <3> QED
      BY <3>1, <3>2, <3>3, <3>4
  <2> QED
    BY <2>1, <2>2
<1>8. g = h
  <2>1. g \in Seq(S) /\ Len(g) = n + 1
    <3>1. n + 1 \in Nat
      BY <1>2
    <3>2. \A i \in 1 .. n + 1 : all[i] \in S
      BY <1>3, ElementOfSeq
    <3>3. \A i \in 1 .. n + 1 : g[i] \in S
      BY <1>1, <1>4, <3>2
    <3> QED
      BY <1>4, <3>1, <3>3, TypedSequence
  <2> QED
    BY <1>6, <1>7, <2>1, SeqEqual
<1>9. Joined(<<marked>> \o f) = marked \o Joined(f)
  <2> HIDE DEF marked
  <2> QED
    BY <1>1, <1>5, JoinedFirst DEF S
<1> QED
  BY <1>5, <1>8, <1>9 DEF S, f, g, h, all, one, mark

-----------------------------------------------------------------------------
(* How often texts show a character.                                       *)

Shows(text, ch) == Occurrences(NormalizeForLatex(text), ch)

TextTotal(texts, ch) == Occurrences(Joined(NormalAll(texts)), ch)

LEMMA ShowsIs ==
    ASSUME NEW text \in Seq(Characters), NEW ch
    PROVE  Shows(text, ch) \in Nat /\ Prints(Esc(text), ch, Shows(text, ch))
  BY EscIs DEF CountsAs, Prints, Shows

LEMMA TotalNone ==
    ASSUME NEW ch
    PROVE  <<>> \in TextLists /\ TextTotal(<<>>, ch) = 0
<1>1. <<>> \in TextLists
  BY DEF TextLists
<1>2. NormalAll(<<>>) = <<>>
  BY DEF NormalAll
<1> QED
  BY <1>1, <1>2, JoinedNone, OccurrencesNone DEF TextTotal

LEMMA TotalAppend ==
    ASSUME NEW ts \in TextLists, NEW text \in Seq(Characters), NEW ch
    PROVE  /\ Append(ts, text) \in TextLists /\ TextTotal(ts, ch) \in Nat
           /\ TextTotal(Append(ts, text), ch) = TextTotal(ts, ch) + Shows(text, ch)
<1> DEFINE j == Joined(NormalAll(ts))
           x == NormalizeForLatex(text)
<1>1. Append(ts, text) \in TextLists /\ Joined(NormalAll(Append(ts, text))) = j \o x
  BY NormalAllAppend
<1>2. j \in Seq(Tokens) /\ x \in Seq(Tokens)
  BY NormalAllIs, NormalIsShown, ShownIsToken
<1>3. TextTotal(Append(ts, text), ch) = Occurrences(j \o x, ch)
  BY <1>1 DEF TextTotal
<1> HIDE DEF j, x
<1>4. /\ Occurrences(j, ch) \in Nat
      /\ Occurrences(j \o x, ch) = Occurrences(j, ch) + Occurrences(x, ch)
  BY <1>2, OccurrencesConcat
<1> QED
  BY <1>1, <1>3, <1>4 DEF TextTotal, Shows, j, x

LEMMA TotalOfOne ==
    ASSUME NEW a \in Seq(Characters), NEW ch
    PROVE  <<a>> \in TextLists /\ TextTotal(<<a>>, ch) = Shows(a, ch)
<1>1. <<a>> = Append(<<>>, a)
  OBVIOUS
<1>2. Shows(a, ch) \in Nat
  BY ShowsIs
<1>3. Append(<<>>, a) \in TextLists /\ TextTotal(Append(<<>>, a), ch) = 0 + Shows(a, ch)
  BY TotalNone, TotalAppend
<1> QED
  BY <1>1, <1>2, <1>3

LEMMA TotalOfTwo ==
    ASSUME NEW a \in Seq(Characters), NEW b \in Seq(Characters), NEW ch
    PROVE  <<a, b>> \in TextLists /\ TextTotal(<<a, b>>, ch) = Shows(a, ch) + Shows(b, ch)
<1> DEFINE one == <<a>>
           all == <<a, b>>
<1>1. all = Append(one, b)
  OBVIOUS
<1>2. one \in TextLists /\ TextTotal(one, ch) = Shows(a, ch)
  BY TotalOfOne
<1> HIDE DEF one, all
<1>3. all \in TextLists /\ TextTotal(all, ch) = Shows(a, ch) + Shows(b, ch)
  BY <1>1, <1>2, TotalAppend
<1> QED
  BY <1>3 DEF all

LEMMA TotalOfThree ==
    ASSUME NEW a \in Seq(Characters), NEW b \in Seq(Characters), NEW c \in Seq(Characters), NEW ch
    PROVE  /\ <<a, b, c>> \in TextLists
           /\ TextTotal(<<a, b, c>>, ch) = Shows(a, ch) + Shows(b, ch) + Shows(c, ch)
<1> DEFINE two == <<a, b>>
           all == <<a, b, c>>
<1>1. all = Append(two, c)
  OBVIOUS
<1>2. two \in TextLists /\ TextTotal(two, ch) = Shows(a, ch) + Shows(b, ch)
  BY TotalOfTwo
<1> HIDE DEF two, all
<1>3. all \in TextLists
      /\ TextTotal(all, ch) = Shows(a, ch) + Shows(b, ch) + Shows(c, ch)
  BY <1>1, <1>2, TotalAppend
<1> QED
  BY <1>3 DEF all

LEMMA TotalOfSix ==
    ASSUME NEW a \in Seq(Characters), NEW b \in Seq(Characters), NEW c \in Seq(Characters),
           NEW d \in Seq(Characters), NEW e \in Seq(Characters), NEW f \in Seq(Characters), NEW ch
    PROVE  /\ <<a, b, c, d, e, f>> \in TextLists
           /\ TextTotal(<<a, b, c, d, e, f>>, ch) =
                 Shows(a, ch) + Shows(b, ch) + Shows(c, ch) + Shows(d, ch) + Shows(e, ch)
                 + Shows(f, ch)
<1> DEFINE three == <<a, b, c>>
           four == Append(three, d)
           five == Append(four, e)
           six == Append(five, f)
<1>1. <<a, b, c, d, e, f>> = six
  OBVIOUS
<1>2. three \in TextLists /\ TextTotal(three, ch) = Shows(a, ch) + Shows(b, ch) + Shows(c, ch)
  BY TotalOfThree
<1> HIDE DEF three
<1>3. four \in TextLists /\ TextTotal(four, ch) = TextTotal(three, ch) + Shows(d, ch)
  BY <1>2, TotalAppend
<1> HIDE DEF four
<1>4. five \in TextLists /\ TextTotal(five, ch) = TextTotal(four, ch) + Shows(e, ch)
  BY <1>3, TotalAppend
<1> HIDE DEF five
<1>5. six \in TextLists /\ TextTotal(six, ch) = TextTotal(five, ch) + Shows(f, ch)
  BY <1>4, TotalAppend
<1> QED
  BY <1>1, <1>2, <1>3, <1>4, <1>5

LEMMA JoinPresentIs ==
    ASSUME NEW ch, ch \notin Separators, NEW texts \in TextLists, NEW separator \in Separators
    PROVE  Prints(JoinPresent(texts, separator), ch, TextTotal(texts, ch))
  BY JoinPresentPrints DEF CountsAs, TextTotal

LEMMA BulletsAre ==
    ASSUME NEW ch, NEW texts \in TextLists
    PROVE  Prints(Joined(Items(EscAll(texts))), ch, TextTotal(texts, ch))
<1>1. CountsAs(Joined(Items(EscAll(texts))), Joined(NormalAll(texts)), ch)
  BY BulletsPrint
<1> QED
  BY <1>1 DEF CountsAs, TextTotal

LEMMA EscAllIs ==
    ASSUME NEW texts \in TextLists
    PROVE  EscAll(texts) \in Seq(Seq(Tokens))
<1> DEFINE ts == Present(texts)
           n == Len(ts)
           f == EscAll(texts)
           S == Seq(Tokens)
<1>1. n \in Nat /\ DOMAIN ts = 1 .. n /\ \A i \in 1 .. n : ts[i] \in Seq(Characters)
  BY PresentIs, NormalAllIs
<1> HIDE DEF ts, n
<1>2. f = [i \in 1 .. n |-> f[i]] /\ \A i \in 1 .. n : f[i] = Esc(ts[i])
  BY <1>1 DEF EscAll, ts
<1> HIDE DEF f
<1>3. \A i \in 1 .. n : f[i] \in S
  BY <1>1, <1>2, EscIs DEF CountsAs, Prints
<1> HIDE DEF S
<1> QED
  BY <1>1, <1>2, <1>3, TypedSequence DEF S, f

-----------------------------------------------------------------------------
(* The text of an entry, field by field.                                   *)

EntryIs(t, entry) ==
    /\ DOMAIN entry = ToSet(EntryFields(t))
    /\ \A f \in DOMAIN entry :
          entry[f] \in IF f \in ListFields THEN TextLists ELSE Seq(Characters)

Weight(entry, f, ch) == Occurrences(FieldText(entry, f), ch)

LEMMA FieldIs ==
    ASSUME NEW t, NEW entry, EntryIs(t, entry), NEW f \in DOMAIN entry, NEW ch
    PROVE  /\ FieldText(entry, f) \in Seq(Tokens) /\ Weight(entry, f, ch) \in Nat
           /\ f \in Unprinted(entry) => Weight(entry, f, ch) = 0
           /\ f \notin Unprinted(entry) =>
                 Weight(entry, f, ch) =
                    IF f \in ListFields THEN TextTotal(entry[f], ch) ELSE Shows(entry[f], ch)
<1> DEFINE ts == TextsOf(entry, f)
<1>1. ts \in TextLists
      /\ TextTotal(ts, ch) =
            IF f \in ListFields THEN TextTotal(entry[f], ch) ELSE Shows(entry[f], ch)
  <2>1. CASE f \in ListFields
    <3>1. ts = entry[f]
      BY <2>1 DEF TextsOf
    <3>2. entry[f] \in TextLists
      BY <2>1 DEF EntryIs
    <3> QED
      BY <2>1, <3>1, <3>2
  <2>2. CASE f \notin ListFields
    <3>1. ts = <<entry[f]>>
      BY <2>2 DEF TextsOf
    <3>2. entry[f] \in Seq(Characters)
      BY <2>2 DEF EntryIs
    <3> DEFINE x == entry[f]
    <3> HIDE DEF x
    <3>3. <<x>> \in TextLists /\ TextTotal(<<x>>, ch) = Shows(x, ch)
      BY <3>2, TotalOfOne DEF x
    <3> QED
      BY <2>2, <3>1, <3>3 DEF x
  <2> QED
    BY <2>1, <2>2
<1>2. FieldText(entry, f) = IF f \in Unprinted(entry) THEN <<>> ELSE Joined(NormalAll(ts))
  BY DEF FieldText, NormalAll
<1> HIDE DEF ts
<1>3. Joined(NormalAll(ts)) \in Seq(Tokens) /\ TextTotal(ts, ch) \in Nat
  <2>1. <<>> \in Seq(Characters)
    OBVIOUS
  <2> QED
    BY <1>1, <2>1, NormalAllIs, TotalAppend
<1>4. <<>> \in Seq(Tokens)
  OBVIOUS
<1>5. CASE f \in Unprinted(entry)
  BY <1>2, <1>4, <1>5, OccurrencesNone DEF Weight
<1>6. CASE f \notin Unprinted(entry)
  <2>1. Weight(entry, f, ch) = TextTotal(ts, ch)
    BY <1>2, <1>6 DEF Weight, TextTotal
  <2> QED
    BY <1>1, <1>2, <1>3, <1>6, <2>1
<1> QED
  BY <1>5, <1>6

\* o[k] is the count of its first k fields.
FieldSums(o, t, entry, ch, n) ==
    /\ o[0] = 0
    /\ \A k \in 1 .. n : o[k] = o[k - 1] + Weight(entry, EntryFields(t)[k], ch)
    /\ Occurrences(EntryText(t, entry), ch) = o[n]

LEMMA EntryTextIs ==
    ASSUME NEW t, NEW entry, EntryIs(t, entry), NEW ch, NEW n \in Nat,
           DOMAIN EntryFields(t) = 1 .. n
    PROVE  /\ EntryText(t, entry) \in Seq(Tokens)
           /\ \E o : FieldSums(o, t, entry, ch, n)
<1> DEFINE fs == EntryFields(t)
           parts == [k \in DOMAIN fs |-> FieldText(entry, fs[k])]
           S == Seq(Tokens)
<1>1. EntryText(t, entry) = Joined(parts)
  BY DEF EntryText
<1>2. \A k \in 1 .. n : fs[k] \in DOMAIN entry
  BY DEF EntryIs, ToSet
<1> HIDE DEF fs
<1>3. parts = [k \in 1 .. n |-> parts[k]] /\ \A k \in 1 .. n : parts[k] = FieldText(entry, fs[k])
  BY DEF fs
<1> HIDE DEF parts
<1>4. \A k \in 1 .. n : parts[k] \in S
  BY <1>2, <1>3, FieldIs
<1> HIDE DEF S
<1>5. parts \in Seq(S) /\ Len(parts) = n
  BY <1>3, <1>4, TypedSequence
<1>6. Joined(parts) \in Seq(Tokens)
  <2>1. <<>> \in Seq(Tokens)
    OBVIOUS
  <2> QED
    BY <1>5, <2>1, JoinedAppend DEF S
<1>7. PICK o : /\ o[0] = 0
               /\ \A k \in 1 .. Len(parts) : o[k] = o[k - 1] + Occurrences(parts[k], ch)
               /\ \A k \in 1 .. Len(parts) : Occurrences(parts[k], ch) \in Nat
               /\ Occurrences(Joined(parts), ch) = o[Len(parts)]
  BY <1>5, OccurrencesJoined DEF S
<1>8. \A k \in 1 .. n : Occurrences(parts[k], ch) = Weight(entry, fs[k], ch)
  BY <1>3 DEF Weight
<1>9. FieldSums(o, t, entry, ch, n)
  BY <1>1, <1>5, <1>7, <1>8 DEF FieldSums, fs
<1> QED
  BY <1>1, <1>6, <1>9

-----------------------------------------------------------------------------
(* Every entry prints its text, type by type.                              *)

LEMMA PrintsLine ==
    ASSUME NEW ch, NEW s, NEW k, NEW t, NEW l, Prints(s, ch, k), Prints(t, ch, l)
    PROVE  Prints(EntryLine(s, t), ch, k + l)
<1> DEFINE gs == Grouped(s)
           gt == Grouped(t)
           end == <<"newline">>
<1>1. Prints(gs, ch, k) /\ Prints(gt, ch, l) /\ Prints(end, ch, 0)
  BY PrintsGrouped, PrintsCommand DEF Commands
<1>2. EntryLine(s, t) = gs \o gt \o end
  BY DEF EntryLine
<1> HIDE DEF gs, gt, end
<1>3. Prints(gs \o gt, ch, k + l)
  BY <1>1, PrintsConcat
<1>4. Prints(gs \o gt \o end, ch, (k + l) + 0)
  BY <1>1, <1>3, PrintsConcat
<1>5. (k + l) + 0 = k + l
  BY <1>3 DEF Prints
<1> QED
  BY <1>2, <1>4, <1>5

\* A command after something, or before it.
LEMMA PrintsEnded ==
    ASSUME NEW ch, NEW s, NEW k, Prints(s, ch, k), NEW token \in Commands
    PROVE  Prints(s \o <<token>>, ch, k) /\ Prints(<<token>> \o s, ch, k)
<1>1. Prints(<<token>>, ch, 0)
  BY PrintsCommand
<1>2. Prints(s \o <<token>>, ch, k + 0) /\ Prints(<<token>> \o s, ch, 0 + k)
  BY <1>1, PrintsConcat
<1>3. k + 0 = k /\ 0 + k = k
  BY DEF Prints
<1> QED
  BY <1>2, <1>3

\* The lines of a block entry.
LEMMA PrintedEntryIs ==
    ASSUME NEW ch, NEW e, NEW a, NEW b, NEW c, NEW d, NEW g, NEW h,
           Prints(e.primary, ch, a), Prints(e.dates, ch, b), Prints(e.secondary, ch, c),
           Prints(e.location, ch, d), Prints(e.description, ch, g),
           Prints(Joined(Items(e.bullets)), ch, h)
    PROVE  Prints(PrintedEntry(e), ch,
                  a + b + (IF e.secondary = <<>> THEN 0 ELSE c + d) + g + h)
<1> DEFINE blank == <<"other">>
           m == IF e.secondary = <<>> THEN 0 ELSE c + d
           p1 == EntryLine(e.primary, e.dates)
           p2 == IF e.secondary = <<>> THEN blank ELSE EntryLine(e.secondary, e.location)
           p3 == IF e.description = <<>> THEN blank ELSE e.description \o <<"newline">>
           p5 == Joined(Items(e.bullets))
<1>1. PrintedEntry(e) = p1 \o p2 \o p3 \o blank \o p5
  BY DEF PrintedEntry, Items
<1>2. Prints(p1, ch, a + b)
  BY PrintsLine
<1>3. Prints(blank, ch, 0)
  BY PrintsCommand DEF Commands
<1>4. Prints(p2, ch, m)
  <2>1. Prints(EntryLine(e.secondary, e.location), ch, c + d)
    BY PrintsLine
  <2> QED
    BY <1>3, <2>1
<1>5. Prints(p3, ch, g)
  <2>1. CASE e.description = <<>>
    <3>1. g = 0
      BY <2>1, PrintsNone DEF Prints
    <3> QED
      BY <1>3, <2>1, <3>1
  <2>2. CASE e.description # <<>>
    BY <2>2, PrintsEnded DEF Commands
  <2> QED
    BY <2>1, <2>2
<1>6. Prints(p5, ch, h)
  OBVIOUS
<1> HIDE DEF p1, p2, p3, p5, m, blank
<1>7. Prints(p1 \o p2, ch, a + b + m)
  BY <1>2, <1>4, PrintsConcat
<1>8. Prints(p1 \o p2 \o p3, ch, a + b + m + g)
  BY <1>5, <1>7, PrintsConcat
<1>9. Prints(p1 \o p2 \o p3 \o blank, ch, (a + b + m + g) + 0)
  BY <1>3, <1>8, PrintsConcat
<1>10. Prints(p1 \o p2 \o p3 \o blank \o p5, ch, ((a + b + m + g) + 0) + h)
  BY <1>6, <1>9, PrintsConcat
<1>11. (a + b + m + g) + 0 = a + b + m + g
  BY <1>8 DEF Prints
<1> QED
  BY <1>1, <1>10, <1>11 DEF m

LEMMA PrintsFullLine ==
    ASSUME NEW ch, NEW s, NEW k, Prints(s, ch, k)
    PROVE  Prints(FullLine(s), ch, k)
<1> DEFINE before == <<"other">>
           after == <<"newline">>
<1>1. Prints(before \o s, ch, k)
  BY PrintsEnded DEF Commands
<1>2. FullLine(s) = (before \o s) \o after
  BY DEF FullLine
<1> HIDE DEF before
<1>3. Prints((before \o s) \o after, ch, k)
  BY <1>1, PrintsEnded DEF Commands
<1> QED
  BY <1>2, <1>3

LEMMA SummaryPrints ==
    ASSUME NEW entry, EntryIs("SUMMARY", entry), NEW ch, ch \notin Separators
    PROVE  CountsAs(Printed("SUMMARY", entry), EntryText("SUMMARY", entry), ch)
<1> DEFINE fs == EntryFields("SUMMARY")
           w(f) == Weight(entry, f, ch)
<1>1. fs =
         <<"text">>
  BY DEF EntryFields
<1>2. DOMAIN fs = 1 .. 1
      /\ fs[1] = "text"
  BY <1>1
<1> HIDE DEF fs
<1>3. DOMAIN entry =
         {"text"}
  <2>1. DOMAIN entry = {fs[k] : k \in 1 .. 1}
    BY <1>2 DEF EntryIs, ToSet, fs
  <2> QED
    BY <1>2, <2>1
<1>4. /\ \A f \in DOMAIN entry \ {} : f \notin ListFields /\ entry[f] \in Seq(Characters)
  BY <1>3 DEF EntryIs, ListFields
<1>5. /\ w("text") = Shows(entry["text"], ch)
  <2>1. \A f \in DOMAIN entry : f \notin Unprinted(entry)
    BY <1>3 DEF Unprinted
  <2>2. w("text") = Shows(entry["text"], ch)
    BY <1>3, <1>4, <2>1, FieldIs
  <2> QED
    BY <2>2
<1>6. \A f \in DOMAIN entry : w(f) \in Nat
  BY FieldIs
<1> DEFINE text == EntryText("SUMMARY", entry)
<1>7. /\ text \in Seq(Tokens)
      /\ Occurrences(text, ch) =
            w("text")
  <2>1. text \in Seq(Tokens) /\ \E o : FieldSums(o, "SUMMARY", entry, ch, 1)
    BY <1>2, EntryTextIs DEF fs
  <2>2. PICK o : FieldSums(o, "SUMMARY", entry, ch, 1)
    BY <2>1
  <2> HIDE DEF text, w
  <2>3. /\ o[0] = 0 /\ Occurrences(text, ch) = o[1]
        /\ \A k \in 1 .. 1 : o[k] = o[k - 1] + w(fs[k])
    BY <2>2 DEF FieldSums, fs, text, w
  <2>4. o[1] = o[0] + w("text")
    BY <1>2, <2>3
  <2> QED
    BY <1>3, <1>6, <2>1, <2>3, <2>4
<1> HIDE DEF text, w
<1>8. Printed("SUMMARY", entry) = <<"other">> \o Esc(entry["text"])
  BY DEF Printed
<1>9. Prints(<<"other">> \o Esc(entry["text"]), ch, Shows(entry["text"], ch))
  BY <1>3, <1>4, ShowsIs, PrintsEnded DEF Commands
<1> QED
  BY <1>5, <1>7, <1>8, <1>9 DEF CountsAs, text

LEMMA AchievementPrints ==
    ASSUME NEW entry, EntryIs("ACHIEVEMENTS", entry), NEW ch, ch \notin Separators
    PROVE  CountsAs(Printed("ACHIEVEMENTS", entry), EntryText("ACHIEVEMENTS", entry), ch)
<1> DEFINE fs == EntryFields("ACHIEVEMENTS")
           w(f) == Weight(entry, f, ch)
<1>1. fs =
         <<"text", "date">>
  BY DEF EntryFields
<1>2. DOMAIN fs = 1 .. 2
      /\ fs[1] = "text" /\ fs[2] = "date"
  BY <1>1
<1> HIDE DEF fs
<1>3. DOMAIN entry =
         {"text", "date"}
  <2>1. DOMAIN entry = {fs[k] : k \in 1 .. 2}
    BY <1>2 DEF EntryIs, ToSet, fs
  <2> QED
    BY <1>2, <2>1
<1>4. /\ \A f \in DOMAIN entry \ {} : f \notin ListFields /\ entry[f] \in Seq(Characters)
  BY <1>3 DEF EntryIs, ListFields
<1>5. /\ w("text") = Shows(entry["text"], ch)
      /\ w("date") = Shows(entry["date"], ch)
  <2>1. \A f \in DOMAIN entry : f \notin Unprinted(entry)
    BY <1>3 DEF Unprinted
  <2>2. w("text") = Shows(entry["text"], ch)
    BY <1>3, <1>4, <2>1, FieldIs
  <2>3. w("date") = Shows(entry["date"], ch)
    BY <1>3, <1>4, <2>1, FieldIs
  <2> QED
    BY <2>2, <2>3
<1>6. \A f \in DOMAIN entry : w(f) \in Nat
  BY FieldIs
<1> DEFINE text == EntryText("ACHIEVEMENTS", entry)
<1>7. /\ text \in Seq(Tokens)
      /\ Occurrences(text, ch) =
            w("text") + w("date")
  <2>1. text \in Seq(Tokens) /\ \E o : FieldSums(o, "ACHIEVEMENTS", entry, ch, 2)
    BY <1>2, EntryTextIs DEF fs
  <2>2. PICK o : FieldSums(o, "ACHIEVEMENTS", entry, ch, 2)
    BY <2>1
  <2> HIDE DEF text, w
  <2>3. /\ o[0] = 0 /\ Occurrences(text, ch) = o[2]
        /\ \A k \in 1 .. 2 : o[k] = o[k - 1] + w(fs[k])
    BY <2>2 DEF FieldSums, fs, text, w
  <2>4. o[1] = o[0] + w("text")
    BY <1>2, <2>3
  <2>5. o[2] = o[1] + w("date")
    BY <1>2, <2>3
  <2> QED
    BY <1>3, <1>6, <2>1, <2>3, <2>4, <2>5
<1> HIDE DEF text, w
<1> DEFINE parts == <<entry["text"], entry["date"]>>
           k == TextTotal(parts, ch)
<1>8. Printed("ACHIEVEMENTS", entry) = <<"item">> \o JoinPresent(parts, "--")
  BY DEF Printed
<1>9. parts \in TextLists /\ k = Shows(entry["text"], ch) + Shows(entry["date"], ch)
  BY <1>3, <1>4, TotalOfTwo
<1> HIDE DEF parts
<1>10. Prints(<<"item">> \o JoinPresent(parts, "--"), ch, k)
  <2>1. "--" \in Separators
    BY DEF Separators
  <2>2. Prints(JoinPresent(parts, "--"), ch, k)
    BY <1>9, <2>1, JoinPresentIs
  <2> QED
    BY <2>2, PrintsEnded DEF Commands
<1> HIDE DEF k
<1>11. Occurrences(text, ch) = k
  BY <1>5, <1>7, <1>9
<1> QED
  BY <1>7, <1>8, <1>10, <1>11 DEF CountsAs, text

LEMMA CertificationPrints ==
    ASSUME NEW entry, EntryIs("CERTIFICATIONS", entry), NEW ch, ch \notin Separators
    PROVE  CountsAs(Printed("CERTIFICATIONS", entry), EntryText("CERTIFICATIONS", entry), ch)
<1> DEFINE fs == EntryFields("CERTIFICATIONS")
           w(f) == Weight(entry, f, ch)
<1>1. fs =
         <<"name", "issuer", "date", "credential_url">>
  BY DEF EntryFields
<1>2. DOMAIN fs = 1 .. 4
      /\ fs[1] = "name" /\ fs[2] = "issuer" /\ fs[3] = "date" /\ fs[4] = "credential_url"
  BY <1>1
<1> HIDE DEF fs
<1>3. DOMAIN entry =
         {"name", "issuer", "date", "credential_url"}
  <2>1. DOMAIN entry = {fs[k] : k \in 1 .. 4}
    BY <1>2 DEF EntryIs, ToSet, fs
  <2> QED
    BY <1>2, <2>1
<1>4. /\ \A f \in DOMAIN entry \ {} : f \notin ListFields /\ entry[f] \in Seq(Characters)
  BY <1>3 DEF EntryIs, ListFields
<1>5. /\ w("name") = Shows(entry["name"], ch)
      /\ w("issuer") = Shows(entry["issuer"], ch)
      /\ w("date") = Shows(entry["date"], ch)
      /\ w("credential_url") = 0
  <2>1. /\ \A f \in DOMAIN entry \ {"credential_url"} : f \notin Unprinted(entry)
        /\ "credential_url" \in Unprinted(entry)
    BY <1>3 DEF Unprinted
  <2>2. w("name") = Shows(entry["name"], ch)
    BY <1>3, <1>4, <2>1, FieldIs
  <2>3. w("issuer") = Shows(entry["issuer"], ch)
    BY <1>3, <1>4, <2>1, FieldIs
  <2>4. w("date") = Shows(entry["date"], ch)
    BY <1>3, <1>4, <2>1, FieldIs
  <2>5. w("credential_url") = 0
    BY <1>3, <1>4, <2>1, FieldIs
  <2> QED
    BY <2>2, <2>3, <2>4, <2>5
<1>6. \A f \in DOMAIN entry : w(f) \in Nat
  BY FieldIs
<1> DEFINE text == EntryText("CERTIFICATIONS", entry)
<1>7. /\ text \in Seq(Tokens)
      /\ Occurrences(text, ch) =
            w("name") + w("issuer") + w("date") + w("credential_url")
  <2>1. text \in Seq(Tokens) /\ \E o : FieldSums(o, "CERTIFICATIONS", entry, ch, 4)
    BY <1>2, EntryTextIs DEF fs
  <2>2. PICK o : FieldSums(o, "CERTIFICATIONS", entry, ch, 4)
    BY <2>1
  <2> HIDE DEF text, w
  <2>3. /\ o[0] = 0 /\ Occurrences(text, ch) = o[4]
        /\ \A k \in 1 .. 4 : o[k] = o[k - 1] + w(fs[k])
    BY <2>2 DEF FieldSums, fs, text, w
  <2>4. o[1] = o[0] + w("name")
    BY <1>2, <2>3
  <2>5. o[2] = o[1] + w("issuer")
    BY <1>2, <2>3
  <2>6. o[3] = o[2] + w("date")
    BY <1>2, <2>3
  <2>7. o[4] = o[3] + w("credential_url")
    BY <1>2, <2>3
  <2> QED
    BY <1>3, <1>6, <2>1, <2>3, <2>4, <2>5, <2>6, <2>7
<1> HIDE DEF text, w
<1> DEFINE parts == <<entry["name"], entry["issuer"], entry["date"]>>
           k == TextTotal(parts, ch)
<1>8. Printed("CERTIFICATIONS", entry) = FullLine(JoinPresent(parts, "--"))
  BY DEF Printed
<1>9. /\ parts \in TextLists
      /\ k = Shows(entry["name"], ch) + Shows(entry["issuer"], ch) + Shows(entry["date"], ch)
  BY <1>3, <1>4, TotalOfThree
<1> HIDE DEF parts
<1>10. Prints(FullLine(JoinPresent(parts, "--")), ch, k)
  <2>1. "--" \in Separators
    BY DEF Separators
  <2>2. Prints(JoinPresent(parts, "--"), ch, k)
    BY <1>9, <2>1, JoinPresentIs
  <2> QED
    BY <2>2, PrintsFullLine
<1> HIDE DEF k
<1>11. Occurrences(text, ch) = k
  <2>1. w("name") + w("issuer") + w("date") + 0 = w("name") + w("issuer") + w("date")
    BY <1>3, <1>6
  <2> QED
    BY <1>5, <1>7, <1>9, <2>1
<1> QED
  BY <1>7, <1>8, <1>10, <1>11 DEF CountsAs, text

LEMMA SkillsPrint ==
    ASSUME NEW entry, EntryIs("SKILLS", entry), NEW ch, ch \notin Separators
    PROVE  CountsAs(Printed("SKILLS", entry), EntryText("SKILLS", entry), ch)
<1> DEFINE fs == EntryFields("SKILLS")
           w(f) == Weight(entry, f, ch)
<1>1. fs =
         <<"name", "skills">>
  BY DEF EntryFields
<1>2. DOMAIN fs = 1 .. 2
      /\ fs[1] = "name" /\ fs[2] = "skills"
  BY <1>1
<1> HIDE DEF fs
<1>3. DOMAIN entry =
         {"name", "skills"}
  <2>1. DOMAIN entry = {fs[k] : k \in 1 .. 2}
    BY <1>2 DEF EntryIs, ToSet, fs
  <2> QED
    BY <1>2, <2>1
<1>4. /\ \A f \in DOMAIN entry \ {"skills"} : f \notin ListFields /\ entry[f] \in Seq(Characters)
      /\ "skills" \in ListFields /\ entry["skills"] \in TextLists
  BY <1>3 DEF EntryIs, ListFields
<1>5. /\ w("name") = Shows(entry["name"], ch)
      /\ w("skills") = TextTotal(entry["skills"], ch)
  <2>1. \A f \in DOMAIN entry : f \notin Unprinted(entry)
    BY <1>3 DEF Unprinted
  <2>2. w("name") = Shows(entry["name"], ch)
    BY <1>3, <1>4, <2>1, FieldIs
  <2>3. w("skills") = TextTotal(entry["skills"], ch)
    BY <1>3, <1>4, <2>1, FieldIs
  <2> QED
    BY <2>2, <2>3
<1>6. \A f \in DOMAIN entry : w(f) \in Nat
  BY FieldIs
<1> DEFINE text == EntryText("SKILLS", entry)
<1>7. /\ text \in Seq(Tokens)
      /\ Occurrences(text, ch) =
            w("name") + w("skills")
  <2>1. text \in Seq(Tokens) /\ \E o : FieldSums(o, "SKILLS", entry, ch, 2)
    BY <1>2, EntryTextIs DEF fs
  <2>2. PICK o : FieldSums(o, "SKILLS", entry, ch, 2)
    BY <2>1
  <2> HIDE DEF text, w
  <2>3. /\ o[0] = 0 /\ Occurrences(text, ch) = o[2]
        /\ \A k \in 1 .. 2 : o[k] = o[k - 1] + w(fs[k])
    BY <2>2 DEF FieldSums, fs, text, w
  <2>4. o[1] = o[0] + w("name")
    BY <1>2, <2>3
  <2>5. o[2] = o[1] + w("skills")
    BY <1>2, <2>3
  <2> QED
    BY <1>3, <1>6, <2>1, <2>3, <2>4, <2>5
<1> HIDE DEF text, w
<1> DEFINE line == Esc(entry["name"])
           skills == JoinPresent(entry["skills"], ",")
           colon == <<":">>
<1>8. Printed("SKILLS", entry) = FullLine(Grouped(line \o colon) \o skills)
  BY DEF Printed
<1>9. Prints(line, ch, w("name"))
  BY <1>3, <1>4, <1>5, ShowsIs
<1>10. Prints(colon, ch, 0)
  BY PrintsSeparator DEF Separators
<1>11. Prints(skills, ch, w("skills"))
  <2>1. "," \in Separators
    BY DEF Separators
  <2> QED
    BY <1>4, <1>5, <2>1, JoinPresentIs
<1> HIDE DEF line, skills, colon
<1>12. Prints(FullLine(Grouped(line \o colon) \o skills), ch, w("name") + 0 + w("skills"))
  <2>1. Prints(line \o colon, ch, w("name") + 0)
    BY <1>9, <1>10, PrintsConcat
  <2>2. Prints(Grouped(line \o colon), ch, w("name") + 0)
    BY <2>1, PrintsGrouped
  <2>3. Prints(Grouped(line \o colon) \o skills, ch, w("name") + 0 + w("skills"))
    BY <1>11, <2>2, PrintsConcat
  <2> QED
    BY <2>3, PrintsFullLine
<1>13. Occurrences(text, ch) = w("name") + 0 + w("skills")
  BY <1>3, <1>6, <1>7
<1> QED
  BY <1>7, <1>8, <1>12, <1>13 DEF CountsAs, text

LEMMA PersonalInfoPrints ==
    ASSUME NEW entry, EntryIs("PERSONAL_INFO", entry), NEW ch, ch \notin Separators
    PROVE  CountsAs(Printed("PERSONAL_INFO", entry), EntryText("PERSONAL_INFO", entry), ch)
<1> DEFINE fs == EntryFields("PERSONAL_INFO")
           w(f) == Weight(entry, f, ch)
<1>1. fs =
         <<"full_name", "email", "phone", "location", "linkedin_url", "github_url",
            "website_url">>
  BY DEF EntryFields
<1>2. DOMAIN fs = 1 .. 7
      /\ fs[1] = "full_name" /\ fs[2] = "email" /\ fs[3] = "phone" /\ fs[4] = "location" /\
         fs[5] = "linkedin_url" /\ fs[6] = "github_url" /\ fs[7] = "website_url"
  BY <1>1
<1> HIDE DEF fs
<1>3. DOMAIN entry =
         {"full_name", "email", "phone", "location", "linkedin_url", "github_url",
          "website_url"}
  <2>1. DOMAIN entry = {fs[k] : k \in 1 .. 7}
    BY <1>2 DEF EntryIs, ToSet, fs
  <2> QED
    BY <1>2, <2>1
<1>4. /\ \A f \in DOMAIN entry \ {} : f \notin ListFields /\ entry[f] \in Seq(Characters)
  BY <1>3 DEF EntryIs, ListFields
<1>5. /\ w("full_name") = Shows(entry["full_name"], ch)
      /\ w("email") = Shows(entry["email"], ch)
      /\ w("phone") = Shows(entry["phone"], ch)
      /\ w("location") = Shows(entry["location"], ch)
      /\ w("linkedin_url") = Shows(entry["linkedin_url"], ch)
      /\ w("github_url") = Shows(entry["github_url"], ch)
      /\ w("website_url") = Shows(entry["website_url"], ch)
  <2>1. \A f \in DOMAIN entry : f \notin Unprinted(entry)
    BY <1>3 DEF Unprinted
  <2>2. w("full_name") = Shows(entry["full_name"], ch)
    BY <1>3, <1>4, <2>1, FieldIs
  <2>3. w("email") = Shows(entry["email"], ch)
    BY <1>3, <1>4, <2>1, FieldIs
  <2>4. w("phone") = Shows(entry["phone"], ch)
    BY <1>3, <1>4, <2>1, FieldIs
  <2>5. w("location") = Shows(entry["location"], ch)
    BY <1>3, <1>4, <2>1, FieldIs
  <2>6. w("linkedin_url") = Shows(entry["linkedin_url"], ch)
    BY <1>3, <1>4, <2>1, FieldIs
  <2>7. w("github_url") = Shows(entry["github_url"], ch)
    BY <1>3, <1>4, <2>1, FieldIs
  <2>8. w("website_url") = Shows(entry["website_url"], ch)
    BY <1>3, <1>4, <2>1, FieldIs
  <2> QED
    BY <2>2, <2>3, <2>4, <2>5, <2>6, <2>7, <2>8
<1>6. \A f \in DOMAIN entry : w(f) \in Nat
  BY FieldIs
<1> DEFINE text == EntryText("PERSONAL_INFO", entry)
<1>7. /\ text \in Seq(Tokens)
      /\ Occurrences(text, ch) =
            w("full_name") + w("email") + w("phone") + w("location") + w("linkedin_url") +
            w("github_url") + w("website_url")
  <2>1. text \in Seq(Tokens) /\ \E o : FieldSums(o, "PERSONAL_INFO", entry, ch, 7)
    BY <1>2, EntryTextIs DEF fs
  <2>2. PICK o : FieldSums(o, "PERSONAL_INFO", entry, ch, 7)
    BY <2>1
  <2> HIDE DEF text, w
  <2>3. /\ o[0] = 0 /\ Occurrences(text, ch) = o[7]
        /\ \A k \in 1 .. 7 : o[k] = o[k - 1] + w(fs[k])
    BY <2>2 DEF FieldSums, fs, text, w
  <2>4. o[1] = o[0] + w("full_name")
    BY <1>2, <2>3
  <2>5. o[2] = o[1] + w("email")
    BY <1>2, <2>3
  <2>6. o[3] = o[2] + w("phone")
    BY <1>2, <2>3
  <2>7. o[4] = o[3] + w("location")
    BY <1>2, <2>3
  <2>8. o[5] = o[4] + w("linkedin_url")
    BY <1>2, <2>3
  <2>9. o[6] = o[5] + w("github_url")
    BY <1>2, <2>3
  <2>10. o[7] = o[6] + w("website_url")
    BY <1>2, <2>3
  <2> QED
    BY <1>3, <1>6, <2>1, <2>3, <2>4, <2>5, <2>6, <2>7, <2>8, <2>9, <2>10
<1> HIDE DEF text, w
<1> DEFINE parts == <<entry["email"], entry["phone"], entry["location"], entry["linkedin_url"],
                       entry["github_url"], entry["website_url"]>>
           k == TextTotal(parts, ch)
           name == Grouped(Esc(entry["full_name"]))
           contact == JoinPresent(parts, "|")
<1>8. Printed("PERSONAL_INFO", entry) = name \o <<"other">> \o contact
  BY DEF Printed, PersonalInfo
<1>9. /\ parts \in TextLists
      /\ k = w("email") + w("phone") + w("location") + w("linkedin_url") + w("github_url")
             + w("website_url")
  <2> DEFINE a == entry["email"]
             b == entry["phone"]
             c == entry["location"]
             d == entry["linkedin_url"]
             g == entry["github_url"]
             h == entry["website_url"]
  <2>1. /\ a \in Seq(Characters) /\ b \in Seq(Characters) /\ c \in Seq(Characters)
        /\ d \in Seq(Characters) /\ g \in Seq(Characters) /\ h \in Seq(Characters)
    BY <1>3, <1>4
  <2>2. /\ w("email") = Shows(a, ch) /\ w("phone") = Shows(b, ch)
        /\ w("location") = Shows(c, ch) /\ w("linkedin_url") = Shows(d, ch)
        /\ w("github_url") = Shows(g, ch) /\ w("website_url") = Shows(h, ch)
    BY <1>5
  <2> HIDE DEF a, b, c, d, g, h
  <2>3. /\ <<a, b, c, d, g, h>> \in TextLists
        /\ TextTotal(<<a, b, c, d, g, h>>, ch) =
              Shows(a, ch) + Shows(b, ch) + Shows(c, ch) + Shows(d, ch) + Shows(g, ch)
              + Shows(h, ch)
    BY <2>1, TotalOfSix
  <2>4. parts = <<a, b, c, d, g, h>>
    BY DEF a, b, c, d, g, h
  <2> QED
    BY <2>2, <2>3, <2>4
<1> HIDE DEF parts
<1>10. Prints(contact, ch, k)
  <2>1. "|" \in Separators
    BY DEF Separators
  <2> QED
    BY <1>9, <2>1, JoinPresentIs
<1>11. Prints(name, ch, w("full_name"))
  BY <1>3, <1>4, <1>5, ShowsIs, PrintsGrouped
<1> HIDE DEF k, name, contact
<1>12. Prints(name \o <<"other">> \o contact, ch, w("full_name") + k)
  <2>1. Prints(name \o <<"other">>, ch, w("full_name"))
    BY <1>11, PrintsEnded DEF Commands
  <2> QED
    BY <1>10, <2>1, PrintsConcat
<1>13. Occurrences(text, ch) = w("full_name") + k
  BY <1>3, <1>6, <1>7, <1>9, SMTT(30)
<1> QED
  BY <1>7, <1>8, <1>12, <1>13 DEF CountsAs, text

LEMMA JobPrints ==
    ASSUME NEW t \in {"EXPERIENCE", "INTERNSHIPS"}, NEW entry, EntryIs(t, entry),
           NEW ch, ch \notin Separators
    PROVE  CountsAs(Printed(t, entry), EntryText(t, entry), ch)
<1> DEFINE fs == EntryFields(t)
           w(f) == Weight(entry, f, ch)
<1>1. fs =
         <<"company", "title", "location", "start_date", "end_date", "bullets">>
  BY DEF EntryFields
<1>2. DOMAIN fs = 1 .. 6
      /\ fs[1] = "company" /\ fs[2] = "title" /\ fs[3] = "location" /\
         fs[4] = "start_date" /\ fs[5] = "end_date" /\ fs[6] = "bullets"
  BY <1>1
<1> HIDE DEF fs
<1>3. DOMAIN entry =
         {"company", "title", "location", "start_date", "end_date", "bullets"}
  <2>1. DOMAIN entry = {fs[k] : k \in 1 .. 6}
    BY <1>2 DEF EntryIs, ToSet, fs
  <2> QED
    BY <1>2, <2>1
<1>4. /\ \A f \in DOMAIN entry \ {"bullets"} : f \notin ListFields /\ entry[f] \in Seq(Characters)
      /\ "bullets" \in ListFields /\ entry["bullets"] \in TextLists
  BY <1>3 DEF EntryIs, ListFields
<1>5. /\ w("company") = Shows(entry["company"], ch)
      /\ w("title") = Shows(entry["title"], ch)
      /\ w("location") = IF Esc(entry["company"]) = <<>> THEN 0 ELSE Shows(entry["location"], ch)
      /\ w("start_date") = Shows(entry["start_date"], ch)
      /\ w("end_date") = Shows(entry["end_date"], ch)
      /\ w("bullets") = TextTotal(entry["bullets"], ch)
  <2>1. /\ \A f \in DOMAIN entry \ {"location"} : f \notin Unprinted(entry)
        /\ "location" \in Unprinted(entry) <=> Esc(entry["company"]) = <<>>
    BY <1>3 DEF Unprinted
  <2>2. w("company") = Shows(entry["company"], ch)
    BY <1>3, <1>4, <2>1, FieldIs
  <2>3. w("title") = Shows(entry["title"], ch)
    BY <1>3, <1>4, <2>1, FieldIs
  <2>4. w("location") = IF Esc(entry["company"]) = <<>> THEN 0 ELSE Shows(entry["location"], ch)
    BY <1>3, <1>4, <2>1, FieldIs
  <2>5. w("start_date") = Shows(entry["start_date"], ch)
    BY <1>3, <1>4, <2>1, FieldIs
  <2>6. w("end_date") = Shows(entry["end_date"], ch)
    BY <1>3, <1>4, <2>1, FieldIs
  <2>7. w("bullets") = TextTotal(entry["bullets"], ch)
    BY <1>3, <1>4, <2>1, FieldIs
  <2> QED
    BY <2>2, <2>3, <2>4, <2>5, <2>6, <2>7
<1>6. \A f \in DOMAIN entry : w(f) \in Nat
  BY FieldIs
<1> DEFINE text == EntryText(t, entry)
<1>7. /\ text \in Seq(Tokens)
      /\ Occurrences(text, ch) =
            w("company") + w("title") + w("location") + w("start_date") + w("end_date") +
            w("bullets")
  <2>1. text \in Seq(Tokens) /\ \E o : FieldSums(o, t, entry, ch, 6)
    BY <1>2, EntryTextIs DEF fs
  <2>2. PICK o : FieldSums(o, t, entry, ch, 6)
    BY <2>1
  <2> HIDE DEF text, w
  <2>3. /\ o[0] = 0 /\ Occurrences(text, ch) = o[6]
        /\ \A k \in 1 .. 6 : o[k] = o[k - 1] + w(fs[k])
    BY <2>2 DEF FieldSums, fs, text, w
  <2>4. o[1] = o[0] + w("company")
    BY <1>2, <2>3
  <2>5. o[2] = o[1] + w("title")
    BY <1>2, <2>3
  <2>6. o[3] = o[2] + w("location")
    BY <1>2, <2>3
  <2>7. o[4] = o[3] + w("start_date")
    BY <1>2, <2>3
  <2>8. o[5] = o[4] + w("end_date")
    BY <1>2, <2>3
  <2>9. o[6] = o[5] + w("bullets")
    BY <1>2, <2>3
  <2> QED
    BY <1>3, <1>6, <2>1, <2>3, <2>4, <2>5, <2>6, <2>7, <2>8, <2>9
<1> HIDE DEF text, w
<1> DEFINE e == ExperienceEntry(entry)
<1>8. Printed(t, entry) = PrintedEntry(e)
  BY DEF Printed, BlockEntry
<1>9. /\ e.primary = Esc(entry["title"]) /\ e.secondary = Esc(entry["company"])
      /\ e.location = Esc(entry["location"]) /\ e.description = <<>>
      /\ e.dates = JoinPresent(<<entry["start_date"], entry["end_date"]>>, "--")
      /\ e.bullets = EscAll(entry["bullets"])
  BY DEF ExperienceEntry
<1> HIDE DEF e
<1>10. /\ Prints(e.primary, ch, w("title")) /\ Prints(e.secondary, ch, w("company"))
       /\ Prints(e.location, ch, Shows(entry["location"], ch)) /\ Prints(e.description, ch, 0)
  BY <1>3, <1>4, <1>5, <1>9, ShowsIs, PrintsNone
<1>11. Prints(e.dates, ch, w("start_date") + w("end_date"))
  <2>1. "--" \in Separators
    BY DEF Separators
  <2>2. <<entry["start_date"], entry["end_date"]>> \in TextLists
        /\ TextTotal(<<entry["start_date"], entry["end_date"]>>, ch) =
              Shows(entry["start_date"], ch) + Shows(entry["end_date"], ch)
    BY <1>3, <1>4, TotalOfTwo
  <2> QED
    BY <1>5, <1>9, <2>1, <2>2, JoinPresentIs
<1>12. Prints(Joined(Items(e.bullets)), ch, w("bullets"))
  BY <1>4, <1>5, <1>9, BulletsAre
<1> DEFINE l == Shows(entry["location"], ch)
           m == IF e.secondary = <<>> THEN 0 ELSE w("company") + l
           all == w("title") + (w("start_date") + w("end_date")) + m + 0 + w("bullets")
<1>13. Prints(PrintedEntry(e), ch, all)
  BY <1>10, <1>11, <1>12, PrintedEntryIs
<1>14. m = w("company") + w("location")
  <2>1. CASE e.secondary = <<>>
    <3>1. w("company") = 0
      BY <1>10, <2>1, PrintsNone DEF Prints
    <3>2. w("location") = 0
      BY <1>5, <1>9, <2>1
    <3> QED
      BY <2>1, <3>1, <3>2
  <2>2. CASE e.secondary # <<>>
    BY <1>5, <1>9, <2>2
  <2> QED
    BY <2>1, <2>2
<1> HIDE DEF m
<1>15. Occurrences(text, ch) = all
  BY <1>3, <1>6, <1>7, <1>14
<1> QED
  BY <1>7, <1>8, <1>13, <1>15 DEF CountsAs, text

LEMMA ProjectPrints ==
    ASSUME NEW entry, EntryIs("PROJECTS", entry), NEW ch, ch \notin Separators
    PROVE  CountsAs(Printed("PROJECTS", entry), EntryText("PROJECTS", entry), ch)
<1> DEFINE fs == EntryFields("PROJECTS")
           w(f) == Weight(entry, f, ch)
<1>1. fs =
         <<"name", "description", "technologies", "url", "bullets">>
  BY DEF EntryFields
<1>2. DOMAIN fs = 1 .. 5
      /\ fs[1] = "name" /\ fs[2] = "description" /\ fs[3] = "technologies" /\
         fs[4] = "url" /\ fs[5] = "bullets"
  BY <1>1
<1> HIDE DEF fs
<1>3. DOMAIN entry =
         {"name", "description", "technologies", "url", "bullets"}
  <2>1. DOMAIN entry = {fs[k] : k \in 1 .. 5}
    BY <1>2 DEF EntryIs, ToSet, fs
  <2> QED
    BY <1>2, <2>1
<1>4. /\ \A f \in DOMAIN entry \ {"technologies", "bullets"} :
            f \notin ListFields /\ entry[f] \in Seq(Characters)
      /\ "technologies" \in ListFields /\ entry["technologies"] \in TextLists
      /\ "bullets" \in ListFields /\ entry["bullets"] \in TextLists
  BY <1>3 DEF EntryIs, ListFields
<1>5. /\ w("name") = Shows(entry["name"], ch)
      /\ w("description") = Shows(entry["description"], ch)
      /\ w("technologies") = TextTotal(entry["technologies"], ch)
      /\ w("url") =
            IF JoinPresent(entry["technologies"], ",") = <<>> THEN 0 ELSE Shows(entry["url"], ch)
      /\ w("bullets") = TextTotal(entry["bullets"], ch)
  <2>1. /\ \A f \in DOMAIN entry \ {"url"} : f \notin Unprinted(entry)
        /\ "url" \in Unprinted(entry) <=> JoinPresent(entry["technologies"], ",") = <<>>
    BY <1>3 DEF Unprinted
  <2>2. w("name") = Shows(entry["name"], ch)
    BY <1>3, <1>4, <2>1, FieldIs
  <2>3. w("description") = Shows(entry["description"], ch)
    BY <1>3, <1>4, <2>1, FieldIs
  <2>4. w("technologies") = TextTotal(entry["technologies"], ch)
    BY <1>3, <1>4, <2>1, FieldIs
  <2>5. w("url") =
           IF JoinPresent(entry["technologies"], ",") = <<>> THEN 0 ELSE Shows(entry["url"], ch)
    BY <1>3, <1>4, <2>1, FieldIs
  <2>6. w("bullets") = TextTotal(entry["bullets"], ch)
    BY <1>3, <1>4, <2>1, FieldIs
  <2> QED
    BY <2>2, <2>3, <2>4, <2>5, <2>6
<1>6. \A f \in DOMAIN entry : w(f) \in Nat
  BY FieldIs
<1> DEFINE text == EntryText("PROJECTS", entry)
<1>7. /\ text \in Seq(Tokens)
      /\ Occurrences(text, ch) =
            w("name") + w("description") + w("technologies") + w("url") + w("bullets")
  <2>1. text \in Seq(Tokens) /\ \E o : FieldSums(o, "PROJECTS", entry, ch, 5)
    BY <1>2, EntryTextIs DEF fs
  <2>2. PICK o : FieldSums(o, "PROJECTS", entry, ch, 5)
    BY <2>1
  <2> HIDE DEF text, w
  <2>3. /\ o[0] = 0 /\ Occurrences(text, ch) = o[5]
        /\ \A k \in 1 .. 5 : o[k] = o[k - 1] + w(fs[k])
    BY <2>2 DEF FieldSums, fs, text, w
  <2>4. o[1] = o[0] + w("name")
    BY <1>2, <2>3
  <2>5. o[2] = o[1] + w("description")
    BY <1>2, <2>3
  <2>6. o[3] = o[2] + w("technologies")
    BY <1>2, <2>3
  <2>7. o[4] = o[3] + w("url")
    BY <1>2, <2>3
  <2>8. o[5] = o[4] + w("bullets")
    BY <1>2, <2>3
  <2> QED
    BY <1>3, <1>6, <2>1, <2>3, <2>4, <2>5, <2>6, <2>7, <2>8
<1> HIDE DEF text, w
<1> DEFINE e == ProjectEntry(entry)
<1>8. Printed("PROJECTS", entry) = PrintedEntry(e)
  BY DEF Printed, BlockEntry
<1>9. /\ e.primary = Esc(entry["name"]) /\ e.secondary = JoinPresent(entry["technologies"], ",")
      /\ e.location = Esc(entry["url"]) /\ e.description = Esc(entry["description"])
      /\ e.dates = <<>> /\ e.bullets = EscAll(entry["bullets"])
  BY DEF ProjectEntry
<1> HIDE DEF e
<1>10. /\ Prints(e.primary, ch, w("name")) /\ Prints(e.dates, ch, 0)
       /\ Prints(e.location, ch, Shows(entry["url"], ch))
       /\ Prints(e.description, ch, w("description"))
  BY <1>3, <1>4, <1>5, <1>9, ShowsIs, PrintsNone
<1>11. Prints(e.secondary, ch, w("technologies"))
  <2>1. "," \in Separators
    BY DEF Separators
  <2> QED
    BY <1>4, <1>5, <1>9, <2>1, JoinPresentIs
<1>12. Prints(Joined(Items(e.bullets)), ch, w("bullets"))
  BY <1>4, <1>5, <1>9, BulletsAre
<1> DEFINE l == Shows(entry["url"], ch)
           m == IF e.secondary = <<>> THEN 0 ELSE w("technologies") + l
           all == w("name") + 0 + m + w("description") + w("bullets")
<1>13. Prints(PrintedEntry(e), ch, all)
  BY <1>10, <1>11, <1>12, PrintedEntryIs
<1>14. m = w("technologies") + w("url")
  <2>1. CASE e.secondary = <<>>
    <3>1. w("technologies") = 0
      BY <1>11, <2>1, PrintsNone DEF Prints
    <3>2. w("url") = 0
      BY <1>5, <1>9, <2>1
    <3> QED
      BY <2>1, <3>1, <3>2
  <2>2. CASE e.secondary # <<>>
    BY <1>5, <1>9, <2>2
  <2> QED
    BY <2>1, <2>2
<1> HIDE DEF m
<1>15. Occurrences(text, ch) = all
  BY <1>3, <1>6, <1>7, <1>14
<1> QED
  BY <1>7, <1>8, <1>13, <1>15 DEF CountsAs, text

LEMMA EducationPrints ==
    ASSUME NEW entry, EntryIs("EDUCATION", entry), NEW ch, ch \notin Separators
    PROVE  CountsAs(Printed("EDUCATION", entry), EntryText("EDUCATION", entry), ch)
<1> DEFINE fs == EntryFields("EDUCATION")
           w(f) == Weight(entry, f, ch)
<1>1. fs =
         <<"institution", "degree", "field_of_study", "location", "start_date", "end_date",
            "gpa", "highlights">>
  BY DEF EntryFields
<1>2. DOMAIN fs = 1 .. 8
      /\ fs[1] = "institution" /\ fs[2] = "degree" /\ fs[3] = "field_of_study" /\
         fs[4] = "location" /\ fs[5] = "start_date" /\ fs[6] = "end_date" /\ fs[7] = "gpa" /\
         fs[8] = "highlights"
  BY <1>1
<1> HIDE DEF fs
<1>3. DOMAIN entry =
         {"institution", "degree", "field_of_study", "location", "start_date", "end_date",
          "gpa", "highlights"}
  <2>1. DOMAIN entry = {fs[k] : k \in 1 .. 8}
    BY <1>2 DEF EntryIs, ToSet, fs
  <2> QED
    BY <1>2, <2>1
<1>4. /\ \A f \in DOMAIN entry \ {"highlights"} :
            f \notin ListFields /\ entry[f] \in Seq(Characters)
      /\ "highlights" \in ListFields /\ entry["highlights"] \in TextLists
  BY <1>3 DEF EntryIs, ListFields
<1>5. /\ w("institution") = Shows(entry["institution"], ch)
      /\ w("degree") = Shows(entry["degree"], ch)
      /\ w("field_of_study") = Shows(entry["field_of_study"], ch)
      /\ w("location") = Shows(entry["location"], ch)
      /\ w("start_date") = Shows(entry["start_date"], ch)
      /\ w("end_date") = Shows(entry["end_date"], ch)
      /\ w("gpa") = Shows(entry["gpa"], ch)
      /\ w("highlights") = TextTotal(entry["highlights"], ch)
  <2>1. \A f \in DOMAIN entry : f \notin Unprinted(entry)
    BY <1>3 DEF Unprinted
  <2>2. w("institution") = Shows(entry["institution"], ch)
    BY <1>3, <1>4, <2>1, FieldIs
  <2>3. w("degree") = Shows(entry["degree"], ch)
    BY <1>3, <1>4, <2>1, FieldIs
  <2>4. w("field_of_study") = Shows(entry["field_of_study"], ch)
    BY <1>3, <1>4, <2>1, FieldIs
  <2>5. w("location") = Shows(entry["location"], ch)
    BY <1>3, <1>4, <2>1, FieldIs
  <2>6. w("start_date") = Shows(entry["start_date"], ch)
    BY <1>3, <1>4, <2>1, FieldIs
  <2>7. w("end_date") = Shows(entry["end_date"], ch)
    BY <1>3, <1>4, <2>1, FieldIs
  <2>8. w("gpa") = Shows(entry["gpa"], ch)
    BY <1>3, <1>4, <2>1, FieldIs
  <2>9. w("highlights") = TextTotal(entry["highlights"], ch)
    BY <1>3, <1>4, <2>1, FieldIs
  <2> QED
    BY <2>2, <2>3, <2>4, <2>5, <2>6, <2>7, <2>8, <2>9
<1>6. \A f \in DOMAIN entry : w(f) \in Nat
  BY FieldIs
<1> DEFINE text == EntryText("EDUCATION", entry)
<1>7. /\ text \in Seq(Tokens)
      /\ Occurrences(text, ch) =
            w("institution") + w("degree") + w("field_of_study") + w("location") +
            w("start_date") + w("end_date") + w("gpa") + w("highlights")
  <2>1. text \in Seq(Tokens) /\ \E o : FieldSums(o, "EDUCATION", entry, ch, 8)
    BY <1>2, EntryTextIs DEF fs
  <2>2. PICK o : FieldSums(o, "EDUCATION", entry, ch, 8)
    BY <2>1
  <2> HIDE DEF text, w
  <2>3. /\ o[0] = 0 /\ Occurrences(text, ch) = o[8]
        /\ \A k \in 1 .. 8 : o[k] = o[k - 1] + w(fs[k])
    BY <2>2 DEF FieldSums, fs, text, w
  <2>4. o[1] = o[0] + w("institution")
    BY <1>2, <2>3
  <2>5. o[2] = o[1] + w("degree")
    BY <1>2, <2>3
  <2>6. o[3] = o[2] + w("field_of_study")
    BY <1>2, <2>3
  <2>7. o[4] = o[3] + w("location")
    BY <1>2, <2>3
  <2>8. o[5] = o[4] + w("start_date")
    BY <1>2, <2>3
  <2>9. o[6] = o[5] + w("end_date")
    BY <1>2, <2>3
  <2>10. o[7] = o[6] + w("gpa")
    BY <1>2, <2>3
  <2>11. o[8] = o[7] + w("highlights")
    BY <1>2, <2>3
  <2> QED
    BY <1>3, <1>6, <2>1, <2>3, <2>4, <2>5, <2>6, <2>7, <2>8, <2>9, <2>10, <2>11
<1> HIDE DEF text, w
<1> DEFINE e == EducationEntry(entry)
<1>8. Printed("EDUCATION", entry) = PrintedEntry(e)
  BY DEF Printed, BlockEntry
<1>9. /\ e.primary = JoinPresent(<<entry["degree"], entry["field_of_study"]>>, ",")
      /\ e.secondary = JoinPresent(<<entry["institution"], entry["location"]>>, ",")
      /\ e.location = <<>> /\ e.description = <<>>
      /\ e.dates = JoinPresent(<<entry["start_date"], entry["end_date"]>>, "--")
      /\ e.bullets = (IF entry["gpa"] = <<>> THEN <<>>
                      ELSE << <<"GPA:">> \o Esc(entry["gpa"]) >>)
                     \o EscAll(entry["highlights"])
  BY DEF EducationEntry
<1> HIDE DEF e
<1>10. Prints(e.location, ch, 0) /\ Prints(e.description, ch, 0)
  BY <1>9, PrintsNone
<1>11. Prints(e.primary, ch, w("degree") + w("field_of_study"))
  <2>1. "," \in Separators
    BY DEF Separators
  <2>2. <<entry["degree"], entry["field_of_study"]>> \in TextLists
        /\ TextTotal(<<entry["degree"], entry["field_of_study"]>>, ch) =
              Shows(entry["degree"], ch) + Shows(entry["field_of_study"], ch)
    BY <1>3, <1>4, TotalOfTwo
  <2> QED
    BY <1>5, <1>9, <2>1, <2>2, JoinPresentIs
<1>12. Prints(e.secondary, ch, w("institution") + w("location"))
  <2>1. "," \in Separators
    BY DEF Separators
  <2>2. <<entry["institution"], entry["location"]>> \in TextLists
        /\ TextTotal(<<entry["institution"], entry["location"]>>, ch) =
              Shows(entry["institution"], ch) + Shows(entry["location"], ch)
    BY <1>3, <1>4, TotalOfTwo
  <2> QED
    BY <1>5, <1>9, <2>1, <2>2, JoinPresentIs
<1>13. Prints(e.dates, ch, w("start_date") + w("end_date"))
  <2>1. "--" \in Separators
    BY DEF Separators
  <2>2. <<entry["start_date"], entry["end_date"]>> \in TextLists
        /\ TextTotal(<<entry["start_date"], entry["end_date"]>>, ch) =
              Shows(entry["start_date"], ch) + Shows(entry["end_date"], ch)
    BY <1>3, <1>4, TotalOfTwo
  <2> QED
    BY <1>5, <1>9, <2>1, <2>2, JoinPresentIs
<1>14. Prints(Joined(Items(e.bullets)), ch, w("gpa") + w("highlights"))
  <2> DEFINE gpa == Esc(entry["gpa"])
             label == <<"GPA:">>
             hs == EscAll(entry["highlights"])
  <2>1. Prints(gpa, ch, w("gpa"))
    BY <1>3, <1>4, <1>5, ShowsIs
  <2>2. hs \in Seq(Seq(Tokens)) /\ Prints(Joined(Items(hs)), ch, w("highlights"))
    BY <1>4, <1>5, BulletsAre, EscAllIs
  <2>3. Prints(label, ch, 0)
    BY PrintsSeparator DEF Separators
  <2>4. e.bullets = (IF entry["gpa"] = <<>> THEN <<>> ELSE <<label \o gpa>>) \o hs
    BY <1>9
  <2>5. w("gpa") \in Nat /\ (entry["gpa"] = <<>> => w("gpa") = 0)
    <3>1. entry["gpa"] = <<>> => w("gpa") = 0
      BY <1>5, NormalNone, OccurrencesNone DEF Shows
    <3> QED
      BY <1>3, <1>6, <3>1
  <2> HIDE DEF gpa, label, hs
  <2>6. CASE entry["gpa"] = <<>>
    <3>1. <<>> \o hs = hs
      <4> DEFINE S == Seq(Tokens)
      <4>1. hs \in Seq(S)
        BY <2>2
      <4> HIDE DEF S
      <4> QED
        BY <4>1
    <3>2. 0 + w("highlights") = w("highlights")
      BY <2>2 DEF Prints
    <3> QED
      BY <2>2, <2>4, <2>5, <2>6, <3>1, <3>2
  <2>7. CASE entry["gpa"] # <<>>
    <3> DEFINE first == label \o gpa
               mark == <<"item">>
    <3>1. Prints(first, ch, w("gpa"))
      <4>1. Prints(first, ch, 0 + w("gpa"))
        BY <2>1, <2>3, PrintsConcat
      <4> QED
        BY <2>5, <4>1
    <3>2. e.bullets = <<first>> \o hs
      BY <2>4, <2>7
    <3> HIDE DEF first
    <3>3. Joined(Items(<<first>> \o hs)) = (mark \o first) \o Joined(Items(hs))
      BY <2>2, <3>1, ItemsFirst DEF Prints
    <3>4. Prints(mark \o first, ch, w("gpa"))
      BY <3>1, PrintsEnded DEF Commands
    <3> HIDE DEF mark
    <3>5. Prints((mark \o first) \o Joined(Items(hs)), ch, w("gpa") + w("highlights"))
      BY <2>2, <3>4, PrintsConcat
    <3> QED
      BY <3>2, <3>3, <3>5
  <2> QED
    BY <2>6, <2>7
<1> DEFINE m == IF e.secondary = <<>> THEN 0 ELSE (w("institution") + w("location")) + 0
           all == (w("degree") + w("field_of_study")) + (w("start_date") + w("end_date")) + m + 0
                  + (w("gpa") + w("highlights"))
<1>15. Prints(PrintedEntry(e), ch, all)
  BY <1>10, <1>11, <1>12, <1>13, <1>14, PrintedEntryIs
<1>16. m = w("institution") + w("location")
  <2>1. CASE e.secondary = <<>>
    BY <1>12, <2>1, PrintsNone DEF Prints
  <2>2. CASE e.secondary # <<>>
    <3>1. w("institution") \in Nat /\ w("location") \in Nat
      BY <1>3, <1>6
    <3> QED
      BY <2>2, <3>1
  <2> QED
    BY <2>1, <2>2
<1> HIDE DEF m
<1>17. Occurrences(text, ch) = all
  <2>1. /\ w("institution") \in Nat /\ w("degree") \in Nat /\ w("field_of_study") \in Nat
        /\ w("location") \in Nat /\ w("start_date") \in Nat /\ w("end_date") \in Nat
        /\ w("gpa") \in Nat /\ w("highlights") \in Nat
    BY <1>3, <1>6
  <2> DEFINE a == w("institution")
             b == w("degree")
             c == w("field_of_study")
             d == w("location")
             f == w("start_date")
             g == w("end_date")
             h == w("gpa")
             k == w("highlights")
  <2>2. Occurrences(text, ch) = a + b + c + d + f + g + h + k
    BY <1>7
  <2>3. all = (b + c) + (f + g) + (a + d) + 0 + (h + k)
    BY <1>16
  <2>4. /\ a \in Nat /\ b \in Nat /\ c \in Nat /\ d \in Nat
        /\ f \in Nat /\ g \in Nat /\ h \in Nat /\ k \in Nat
    BY <2>1
  <2> HIDE DEF all, a, b, c, d, f, g, h, k
  <2> QED
    BY <2>2, <2>3, <2>4
<1> QED
  BY <1>7, <1>8, <1>15, <1>17 DEF CountsAs, text

-----------------------------------------------------------------------------
(* From the entries to the sections to the document.                       *)

PrintedTypes == ToSet(SectionSortOrder)

LEMMA TypesAre ==
    PrintedTypes = {"PERSONAL_INFO", "SUMMARY", "EDUCATION", "SKILLS", "EXPERIENCE",
                    "INTERNSHIPS", "PROJECTS", "CERTIFICATIONS", "ACHIEVEMENTS"}
<1> DEFINE s == SectionSortOrder
<1>1. /\ DOMAIN s = 1 .. 9 /\ s[1] = "PERSONAL_INFO" /\ s[2] = "SUMMARY" /\ s[3] = "EDUCATION"
      /\ s[4] = "SKILLS" /\ s[5] = "EXPERIENCE" /\ s[6] = "INTERNSHIPS" /\ s[7] = "PROJECTS"
      /\ s[8] = "CERTIFICATIONS" /\ s[9] = "ACHIEVEMENTS"
  BY DEF SectionSortOrder
<1> HIDE DEF s
<1>2. PrintedTypes = {s[i] : i \in 1 .. 9}
  BY <1>1 DEF PrintedTypes, ToSet, s
<1> QED
  BY <1>1, <1>2

LEMMA EntryPrints ==
    ASSUME NEW t \in PrintedTypes, NEW entry, EntryIs(t, entry), NEW ch, ch \notin Separators
    PROVE  CountsAs(Printed(t, entry), EntryText(t, entry), ch)
<1>1. CASE t = "PERSONAL_INFO"
  BY <1>1, PersonalInfoPrints
<1>2. CASE t = "SUMMARY"
  BY <1>2, SummaryPrints
<1>3. CASE t = "EDUCATION"
  BY <1>3, EducationPrints
<1>4. CASE t = "SKILLS"
  BY <1>4, SkillsPrint
<1>5. CASE t \in {"EXPERIENCE", "INTERNSHIPS"}
  BY <1>5, JobPrints
<1>6. CASE t = "PROJECTS"
  BY <1>6, ProjectPrints
<1>7. CASE t = "CERTIFICATIONS"
  BY <1>7, CertificationPrints
<1>8. CASE t = "ACHIEVEMENTS"
  BY <1>8, AchievementPrints
<1> QED
  BY <1>1, <1>2, <1>3, <1>4, <1>5, <1>6, <1>7, <1>8, TypesAre

SavedIs ==
    /\ DOMAIN saved \subseteq PrintedTypes
    /\ \A t \in DOMAIN saved : ValidContent(t, saved[t])

LEMMA EntriesAre ==
    ASSUME SavedIs, NEW t \in DOMAIN saved
    PROVE  /\ t \in PrintedTypes /\ Len(saved[t]) \in Nat /\ DOMAIN saved[t] = 1 .. Len(saved[t])
           /\ \A i \in DOMAIN saved[t] : EntryIs(t, saved[t][i])
<1>1. t \in PrintedTypes /\ ValidContent(t, saved[t])
  BY DEF SavedIs
<1>2. Len(saved[t]) \in Nat /\ DOMAIN saved[t] = 1 .. Len(saved[t])
  BY <1>1 DEF ValidContent
<1>3. \A i \in DOMAIN saved[t] : EntryIs(t, saved[t][i])
  BY <1>1 DEF ValidContent, EntryIs, TextLists
<1> QED
  BY <1>1, <1>2, <1>3

LEMMA SectionPrints ==
    ASSUME SavedIs, NEW t \in PrintedTypes, NEW ch, ch \notin Separators
    PROVE  CountsAs(PrintedSection(t), SectionText(t, saved), ch)
<1>1. CASE t \notin DOMAIN saved
  <2>1. PrintedSection(t) = <<>> /\ SectionText(t, saved) = <<>>
    BY <1>1 DEF PrintedSection, SectionText
  <2>2. <<>> \in Seq(Tokens)
    OBVIOUS
  <2> QED
    BY <2>1, <2>2, PrintsNone, OccurrencesNone DEF CountsAs
<1>2. CASE t \in DOMAIN saved
  <2> DEFINE content == saved[t]
             n == Len(content)
             parts == [i \in DOMAIN content |-> Printed(t, content[i])]
             texts == [i \in DOMAIN content |-> EntryText(t, content[i])]
             S == Seq(Tokens)
  <2>1. PrintedSection(t) = <<"other">> \o Joined(parts) /\ SectionText(t, saved) = Joined(texts)
    BY <1>2 DEF PrintedSection, SectionText
  <2>2. n \in Nat /\ DOMAIN content = 1 .. n /\ \A i \in 1 .. n : EntryIs(t, content[i])
    BY <1>2, EntriesAre
  <2> HIDE DEF content, n
  <2>3. \A i \in 1 .. n : CountsAs(Printed(t, content[i]), EntryText(t, content[i]), ch)
    BY <2>2, EntryPrints
  <2>4. /\ parts = [i \in 1 .. n |-> parts[i]] /\ texts = [i \in 1 .. n |-> texts[i]]
        /\ \A i \in 1 .. n : CountsAs(parts[i], texts[i], ch)
    BY <2>2, <2>3
  <2> HIDE DEF parts, texts
  <2>5. \A i \in 1 .. n : parts[i] \in S /\ texts[i] \in S
    BY <2>4 DEF CountsAs, Prints
  <2> HIDE DEF S
  <2>6. parts \in Seq(S) /\ texts \in Seq(S) /\ Len(parts) = n /\ Len(texts) = n
    BY <2>2, <2>4, <2>5, TypedSequence
  <2>7. CountsAs(Joined(parts), Joined(texts), ch)
    BY <2>4, <2>6, CountsJoined DEF S
  <2>8. CountsAs(<<"other">> \o Joined(parts), Joined(texts), ch)
    BY <2>7, PrintsEnded DEF CountsAs, Commands
  <2> QED
    BY <2>1, <2>8
<1> QED
  BY <1>1, <1>2

LEMMA FourInARow ==
    ASSUME NEW X, NEW a \in X, NEW b \in X, NEW c \in X, NEW d \in X
    PROVE  Append(Append(Append(Append(<<>>, a), b), c), d) = <<a, b, c, d>>
<1>1. <<a>> = Append(<<>>, a)
  OBVIOUS
<1>2. <<a, b>> = Append(<<a>>, b)
  OBVIOUS
<1>3. <<a, b, c>> = Append(<<a, b>>, c)
  OBVIOUS
<1>4. <<a, b, c, d>> = Append(<<a, b, c>>, d)
  OBVIOUS
<1> DEFINE one == <<a>>
           two == <<a, b>>
           three == <<a, b, c>>
           four == <<a, b, c, d>>
<1>5. one = Append(<<>>, a) /\ two = Append(one, b) /\ three = Append(two, c)
      /\ four = Append(three, d)
  BY <1>1, <1>2, <1>3, <1>4
<1> HIDE DEF one, two, three, four
<1>6. Append(Append(Append(Append(<<>>, a), b), c), d) = four
  BY <1>5
<1> QED
  BY <1>6 DEF four

\* The entry blocks, in the order of the template.
LEMMA BlocksAre == EntryBlocks = <<"EXPERIENCE", "INTERNSHIPS", "PROJECTS", "EDUCATION">>
<1> DEFINE s == DefaultSectionOrder
           B == {"EXPERIENCE", "INTERNSHIPS", "PROJECTS", "EDUCATION"}
           P == {i \in DOMAIN s : s[i] \in B}
           X == {s[i] : i \in DOMAIN s}
<1>1. EntryBlocks = Select(s, P)
  BY DEF EntryBlocks
<1>2. /\ Len(s) = 8 /\ DOMAIN s = 1 .. 8 /\ s[1] = "SUMMARY" /\ s[2] = "EXPERIENCE"
      /\ s[3] = "INTERNSHIPS" /\ s[4] = "PROJECTS" /\ s[5] = "EDUCATION" /\ s[6] = "SKILLS"
      /\ s[7] = "CERTIFICATIONS" /\ s[8] = "ACHIEVEMENTS"
  BY DEF DefaultSectionOrder
<1>3. s = [i \in 1 .. 8 |-> s[i]]
  BY DEF DefaultSectionOrder
<1> HIDE DEF s
<1>4. /\ 1 \notin P /\ 2 \in P /\ 3 \in P /\ 4 \in P /\ 5 \in P
      /\ 6 \notin P /\ 7 \notin P /\ 8 \notin P
  BY <1>2
<1>5. s \in Seq(X)
  <2>1. \A i \in 1 .. 8 : s[i] \in X
    BY <1>2
  <2> HIDE DEF X
  <2> QED
    BY <1>3, <2>1, TypedSequence
<1> HIDE DEF P, X
<1>6. PICK u : Selects(u, 8, s, P) /\ Select(s, P) = u[8]
  BY <1>2, <1>5, SelectIs
<1>7. u[0] = <<>> /\ \A k \in 1 .. 8 : u[k] = IF k \in P THEN Append(u[k - 1], s[k]) ELSE u[k - 1]
  BY <1>6 DEF Selects
<1>8. u[1] = <<>>
  BY <1>4, <1>7
<1>9. u[2] = Append(u[1], "EXPERIENCE")
  BY <1>2, <1>4, <1>7
<1>10. u[3] = Append(u[2], "INTERNSHIPS")
  BY <1>2, <1>4, <1>7
<1>11. u[4] = Append(u[3], "PROJECTS")
  BY <1>2, <1>4, <1>7
<1>12. u[5] = Append(u[4], "EDUCATION")
  BY <1>2, <1>4, <1>7
<1>13. u[6] = u[5]
  BY <1>4, <1>7
<1>14. u[7] = u[6]
  BY <1>4, <1>7
<1>15. u[8] = u[7]
  BY <1>4, <1>7
<1>16. Append(Append(Append(Append(<<>>, "EXPERIENCE"), "INTERNSHIPS"), "PROJECTS"), "EDUCATION") =
          <<"EXPERIENCE", "INTERNSHIPS", "PROJECTS", "EDUCATION">>
  <2> DEFINE a == "EXPERIENCE"
             b == "INTERNSHIPS"
             c == "PROJECTS"
             d == "EDUCATION"
             Y == {a, b, c, d}
  <2>1. a \in Y /\ b \in Y /\ c \in Y /\ d \in Y
    OBVIOUS
  <2> HIDE DEF a, b, c, d, Y
  <2>2. Append(Append(Append(Append(<<>>, a), b), c), d) = <<a, b, c, d>>
    BY <2>1, FourInARow
  <2> QED
    BY <2>2 DEF a, b, c, d
<1> QED
  BY <1>1, <1>6, <1>8, <1>9, <1>10, <1>11, <1>12, <1>13, <1>14, <1>15, <1>16

Size(t, ch) == Occurrences(SectionText(t, saved), ch)

LEMMA SizeIs ==
    ASSUME SavedIs, NEW t \in PrintedTypes, NEW ch, ch \notin Separators
    PROVE  /\ SectionText(t, saved) \in Seq(Tokens)
           /\ Size(t, ch) \in Nat /\ Prints(PrintedSection(t), ch, Size(t, ch))
  BY SectionPrints DEF CountsAs, Prints, Size

LEMMA BlocksPrint ==
    ASSUME SavedIs, NEW ch, ch \notin Separators
    PROVE  Prints(Joined([b \in DOMAIN EntryBlocks |-> PrintedSection(EntryBlocks[b])]), ch,
                  Size("EXPERIENCE", ch) + Size("INTERNSHIPS", ch) + Size("PROJECTS", ch)
                  + Size("EDUCATION", ch))
<1> DEFINE e == EntryBlocks
           parts == [b \in DOMAIN e |-> PrintedSection(e[b])]
           texts == [b \in DOMAIN e |-> SectionText(e[b], saved)]
           S == Seq(Tokens)
           z(t) == Size(t, ch)
<1>1. DOMAIN e = 1 .. 4 /\ e[1] = "EXPERIENCE" /\ e[2] = "INTERNSHIPS" /\ e[3] = "PROJECTS"
      /\ e[4] = "EDUCATION"
  BY BlocksAre
<1> HIDE DEF e
<1>2. \A b \in 1 .. 4 : e[b] \in PrintedTypes
  <2>1. \A b \in 1 .. 4 : b = 1 \/ b = 2 \/ b = 3 \/ b = 4
    OBVIOUS
  <2> QED
    BY <1>1, <2>1, TypesAre
<1>3. /\ parts = [b \in 1 .. 4 |-> parts[b]] /\ texts = [b \in 1 .. 4 |-> texts[b]]
      /\ \A b \in 1 .. 4 : CountsAs(parts[b], texts[b], ch) /\ Occurrences(texts[b], ch) = z(e[b])
  BY <1>1, <1>2, SectionPrints DEF Size
<1> HIDE DEF parts, texts, z
<1>4. \A b \in 1 .. 4 : parts[b] \in S /\ texts[b] \in S
  BY <1>3 DEF CountsAs, Prints
<1> HIDE DEF S
<1>5. parts \in Seq(S) /\ texts \in Seq(S) /\ Len(parts) = 4 /\ Len(texts) = 4
  BY <1>3, <1>4, TypedSequence
<1>6. CountsAs(Joined(parts), Joined(texts), ch)
  BY <1>3, <1>5, CountsJoined DEF S
<1>7. Occurrences(Joined(texts), ch) =
         z("EXPERIENCE") + z("INTERNSHIPS") + z("PROJECTS") + z("EDUCATION")
  <2>1. PICK o : /\ o[0] = 0
                 /\ \A k \in 1 .. Len(texts) : o[k] = o[k - 1] + Occurrences(texts[k], ch)
                 /\ Occurrences(Joined(texts), ch) = o[Len(texts)]
    BY <1>5, OccurrencesJoined DEF S
  <2>2. \A k \in 1 .. 4 : o[k] = o[k - 1] + z(e[k])
    BY <1>3, <1>5, <2>1
  <2>3. o[1] = o[0] + z("EXPERIENCE")
    BY <1>1, <2>2
  <2>4. o[2] = o[1] + z("INTERNSHIPS")
    BY <1>1, <2>2
  <2>5. o[3] = o[2] + z("PROJECTS")
    BY <1>1, <2>2
  <2>6. o[4] = o[3] + z("EDUCATION")
    BY <1>1, <2>2
  <2>7. z("EXPERIENCE") \in Nat
    BY TypesAre, SizeIs DEF z
  <2> QED
    BY <1>5, <2>1, <2>3, <2>4, <2>5, <2>6, <2>7
<1> QED
  BY <1>6, <1>7 DEF CountsAs, z, parts, e

LEMMA SavedTextIs ==
    ASSUME SavedIs, NEW ch, ch \notin Separators
    PROVE  /\ SavedText(saved) \in Seq(Tokens)
           /\ Occurrences(SavedText(saved), ch) =
                 Size("PERSONAL_INFO", ch) + Size("SUMMARY", ch) + Size("EDUCATION", ch)
                 + Size("SKILLS", ch) + Size("EXPERIENCE", ch) + Size("INTERNSHIPS", ch)
                 + Size("PROJECTS", ch) + Size("CERTIFICATIONS", ch) + Size("ACHIEVEMENTS", ch)
<1> DEFINE s == SectionSortOrder
           texts == [k \in DOMAIN s |-> SectionText(s[k], saved)]
           S == Seq(Tokens)
           z(t) == Size(t, ch)
<1>1. SavedText(saved) = Joined(texts)
  BY DEF SavedText
<1>2. /\ DOMAIN s = 1 .. 9 /\ s[1] = "PERSONAL_INFO" /\ s[2] = "SUMMARY" /\ s[3] = "EDUCATION"
      /\ s[4] = "SKILLS" /\ s[5] = "EXPERIENCE" /\ s[6] = "INTERNSHIPS" /\ s[7] = "PROJECTS"
      /\ s[8] = "CERTIFICATIONS" /\ s[9] = "ACHIEVEMENTS"
  BY DEF SectionSortOrder
<1>3. \A k \in 1 .. 9 : s[k] \in PrintedTypes
  BY <1>2 DEF PrintedTypes, ToSet
<1> HIDE DEF s
<1>4. /\ texts = [k \in 1 .. 9 |-> texts[k]]
      /\ \A k \in 1 .. 9 : texts[k] \in S /\ Occurrences(texts[k], ch) = z(s[k])
  BY <1>2, <1>3, SizeIs DEF Size
<1> HIDE DEF texts, S
<1>5. texts \in Seq(S) /\ Len(texts) = 9
  BY <1>4, TypedSequence
<1>6. Joined(texts) \in Seq(Tokens)
  <2>1. <<>> \in Seq(Tokens)
    OBVIOUS
  <2> QED
    BY <1>5, <2>1, JoinedAppend DEF S
<1>7. PICK o : /\ o[0] = 0
               /\ \A k \in 1 .. Len(texts) : o[k] = o[k - 1] + Occurrences(texts[k], ch)
               /\ Occurrences(Joined(texts), ch) = o[Len(texts)]
  BY <1>5, OccurrencesJoined DEF S
<1> HIDE DEF z
<1>8. \A k \in 1 .. 9 : o[k] = o[k - 1] + z(s[k])
  BY <1>4, <1>5, <1>7
<1>9. o[1] = o[0] + z("PERSONAL_INFO")
  BY <1>2, <1>8
<1>10. o[2] = o[1] + z("SUMMARY")
  BY <1>2, <1>8
<1>11. o[3] = o[2] + z("EDUCATION")
  BY <1>2, <1>8
<1>12. o[4] = o[3] + z("SKILLS")
  BY <1>2, <1>8
<1>13. o[5] = o[4] + z("EXPERIENCE")
  BY <1>2, <1>8
<1>14. o[6] = o[5] + z("INTERNSHIPS")
  BY <1>2, <1>8
<1>15. o[7] = o[6] + z("PROJECTS")
  BY <1>2, <1>8
<1>16. o[8] = o[7] + z("CERTIFICATIONS")
  BY <1>2, <1>8
<1>17. o[9] = o[8] + z("ACHIEVEMENTS")
  BY <1>2, <1>8
<1>18. z("PERSONAL_INFO") \in Nat
  BY TypesAre, SizeIs DEF z
<1>19. Occurrences(Joined(texts), ch) =
          z("PERSONAL_INFO") + z("SUMMARY") + z("EDUCATION") + z("SKILLS") + z("EXPERIENCE")
          + z("INTERNSHIPS") + z("PROJECTS") + z("CERTIFICATIONS") + z("ACHIEVEMENTS")
  BY <1>5, <1>7, <1>9, <1>10, <1>11, <1>12, <1>13, <1>14, <1>15, <1>16, <1>17, <1>18
<1> QED
  BY <1>1, <1>6, <1>19 DEF z

LEMMA RenderedPrints ==
    ASSUME SavedIs, NEW ch, ch \notin Separators
    PROVE  CountsAs(RenderLatex, SavedText(saved), ch)
<1> DEFINE p(t) == PrintedSection(t)
           z(t) == Size(t, ch)
           blocks == Joined([b \in DOMAIN EntryBlocks |-> PrintedSection(EntryBlocks[b])])
           size == z("EXPERIENCE") + z("INTERNSHIPS") + z("PROJECTS") + z("EDUCATION")
           all == z("PERSONAL_INFO") + z("SUMMARY") + size + z("SKILLS") + z("CERTIFICATIONS")
                  + z("ACHIEVEMENTS")
<1>1. RenderLatex = p("PERSONAL_INFO") \o p("SUMMARY") \o blocks \o p("SKILLS")
                    \o p("CERTIFICATIONS") \o p("ACHIEVEMENTS")
  BY DEF RenderLatex
<1>2. Prints(blocks, ch, size)
  BY BlocksPrint
<1>3. \A t \in PrintedTypes : Prints(p(t), ch, z(t)) /\ z(t) \in Nat
  BY SizeIs
<1> HIDE DEF p, z, blocks, size
<1>4. Prints(p("PERSONAL_INFO") \o p("SUMMARY"), ch, z("PERSONAL_INFO") + z("SUMMARY"))
  BY <1>3, TypesAre, PrintsConcat
<1>5. Prints(p("PERSONAL_INFO") \o p("SUMMARY") \o blocks, ch,
             z("PERSONAL_INFO") + z("SUMMARY") + size)
  BY <1>2, <1>4, PrintsConcat
<1>6. Prints(p("PERSONAL_INFO") \o p("SUMMARY") \o blocks \o p("SKILLS"), ch,
             z("PERSONAL_INFO") + z("SUMMARY") + size + z("SKILLS"))
  BY <1>3, <1>5, TypesAre, PrintsConcat
<1>7. Prints(p("PERSONAL_INFO") \o p("SUMMARY") \o blocks \o p("SKILLS") \o p("CERTIFICATIONS"), ch,
             z("PERSONAL_INFO") + z("SUMMARY") + size + z("SKILLS") + z("CERTIFICATIONS"))
  BY <1>3, <1>6, TypesAre, PrintsConcat
<1>8. Prints(RenderLatex, ch, all)
  BY <1>1, <1>3, <1>7, TypesAre, PrintsConcat
<1>9. Occurrences(SavedText(saved), ch) = all
  <2>1. Occurrences(SavedText(saved), ch) =
           z("PERSONAL_INFO") + z("SUMMARY") + z("EDUCATION") + z("SKILLS") + z("EXPERIENCE")
           + z("INTERNSHIPS") + z("PROJECTS") + z("CERTIFICATIONS") + z("ACHIEVEMENTS")
    BY SavedTextIs DEF z
  <2> DEFINE a == z("PERSONAL_INFO")
             b == z("SUMMARY")
             c == z("EDUCATION")
             d == z("SKILLS")
             f == z("EXPERIENCE")
             g == z("INTERNSHIPS")
             h == z("PROJECTS")
             i == z("CERTIFICATIONS")
             k == z("ACHIEVEMENTS")
  <2>2. /\ a \in Nat /\ b \in Nat /\ c \in Nat /\ d \in Nat /\ f \in Nat /\ g \in Nat
        /\ h \in Nat /\ i \in Nat /\ k \in Nat
    BY <1>3, TypesAre
  <2>3. all = a + b + (f + g + h + c) + d + i + k
    BY DEF size
  <2>4. Occurrences(SavedText(saved), ch) = a + b + c + d + f + g + h + i + k
    BY <2>1
  <2> HIDE DEF all, a, b, c, d, f, g, h, i, k
  <2> QED
    BY <2>2, <2>3, <2>4
<1>10. SavedText(saved) \in Seq(Tokens)
  BY SavedTextIs
<1> QED
  BY <1>8, <1>9, <1>10 DEF CountsAs

-----------------------------------------------------------------------------
(* No command of the template reads on into what follows it.               *)

Clash(x, y) == (x = "newline" /\ y \in {"*", "["}) \/ (x = "item" /\ y = "[")

Calm(tokens) ==
    /\ tokens \in Seq(Tokens)
    /\ \A i \in 1 .. Len(tokens) - 1 : ~Clash(tokens[i], tokens[i + 1])

\* Whatever it follows.
Led(tokens) == Calm(tokens) /\ ~Starts(tokens, {"*", "["})

Quiet == Tokens \ {"newline", "item"}

LEMMA SelectAll ==
    ASSUME NEW X, NEW s \in Seq(X)
    PROVE  Select(s, DOMAIN s) = s
<1> DEFINE T == {t \in Seq(X) : Select(t, DOMAIN t) = t}
<1>1. <<>> \in T
  BY SelectNone
<1>2. \A t \in Seq(X), x \in X : t \in T => Append(t, x) \in T
  <2> SUFFICES ASSUME NEW t \in Seq(X), NEW x \in X, Select(t, DOMAIN t) = t
               PROVE  Append(t, x) \in Seq(X) /\ Select(Append(t, x), DOMAIN Append(t, x)) = Append(t, x)
    OBVIOUS
  <2> DEFINE n == Len(t)
             Q == DOMAIN t
             P == DOMAIN Append(t, x)
  <2>1. n \in Nat /\ Q = 1 .. n /\ P = 1 .. n + 1 /\ Append(t, x) \in Seq(X)
    BY AppendProperties, LenProperties
  <2> HIDE DEF P, Q
  <2>2. (\A i \in 1 .. n : i \in P <=> i \in Q) /\ n + 1 \in P
    BY <2>1
  <2>3. Select(Append(t, x), P) = IF n + 1 \in P THEN Append(Select(t, Q), x) ELSE Select(t, Q)
    BY <2>2, SelectAppend
  <2>4. Select(t, Q) = t
    BY DEF Q
  <2> QED
    BY <2>1, <2>2, <2>3, <2>4 DEF P
<1> HIDE DEF T
<1>3. s \in T
  BY <1>1, <1>2, EverySequence
<1> QED
  BY <1>3 DEF T

\* Nothing of it is swallowed, or taken for an argument.
LEMMA CalmPage ==
    ASSUME NEW tokens, Calm(tokens)
    PROVE  Page(tokens) = Typeset(tokens)
<1>1. tokens \in Seq(Tokens) /\ Len(tokens) \in Nat
  BY LenProperties DEF Calm
<1>2. ASSUME NEW i \in 2 .. Len(tokens)
      PROVE  ~Clash(tokens[i - 1], tokens[i])
  <2>1. i - 1 \in 1 .. Len(tokens) - 1 /\ (i - 1) + 1 = i
    BY <1>1
  <2>2. ~Clash(tokens[i - 1], tokens[(i - 1) + 1])
    BY <2>1 DEF Calm
  <2> QED
    BY <2>1, <2>2
<1>3. Swallowed(tokens) = {}
  BY <1>2 DEF Swallowed, Clash
<1>4. Arguments(tokens) = {}
  BY <1>2, <1>3 DEF Arguments, Clash
<1>5. Select(tokens, DOMAIN tokens \ {}) = tokens
  <2>1. DOMAIN tokens \ {} = DOMAIN tokens
    OBVIOUS
  <2> QED
    BY <1>1, <2>1, SelectAll
<1> DEFINE page == Typeset(tokens)
<1>6. page \in Pages
  BY <1>1, TypesetPage
<1>7. Page(tokens) = [page EXCEPT !.sound = page.sound /\ TRUE]
  BY <1>3, <1>4, <1>5 DEF Page
<1> HIDE DEF page
<1>8. (page.sound /\ TRUE) = page.sound
  BY <1>6 DEF Pages
<1>9. [page EXCEPT !.sound = page.sound] = page
  BY <1>6 DEF Pages
<1> QED
  BY <1>7, <1>8, <1>9 DEF page

LEMMA CalmConcat ==
    ASSUME NEW s, NEW t, Calm(s), Led(t)
    PROVE  Calm(s \o t)
<1> DEFINE n == Len(s)
           m == Len(t)
           a == s \o t
<1>1. s \in Seq(Tokens) /\ t \in Seq(Tokens) /\ n \in Nat /\ m \in Nat
  BY LenProperties DEF Calm, Led
<1>2. /\ a \in Seq(Tokens) /\ Len(a) = n + m
      /\ \A i \in 1 .. n + m : a[i] = IF i <= n THEN s[i] ELSE t[i - n]
  BY <1>1, ConcatProperties
<1>3. t = <<>> \/ t[1] \notin {"*", "["}
  BY DEF Led, Starts
<1>4. m = 0 <=> t = <<>>
  BY <1>1, EmptySeq
<1>5. /\ \A i \in 1 .. n - 1 : ~Clash(s[i], s[i + 1])
      /\ \A i \in 1 .. m - 1 : ~Clash(t[i], t[i + 1])
  BY DEF Calm, Led
<1> HIDE DEF a, n, m
<1>6. ASSUME NEW i \in 1 .. Len(a) - 1
      PROVE  ~Clash(a[i], a[i + 1])
  <2>1. i \in 1 .. n + m /\ i + 1 \in 1 .. n + m
    BY <1>1, <1>2
  <2>2. CASE i < n
    <3>1. i \in 1 .. n - 1 /\ a[i] = s[i] /\ a[i + 1] = s[i + 1]
      BY <1>1, <1>2, <2>1, <2>2
    <3> QED
      BY <1>5, <3>1
  <2>3. CASE i = n
    <3>1. a[i + 1] = t[1] /\ m # 0
      BY <1>1, <1>2, <2>1, <2>3
    <3> QED
      BY <1>3, <1>4, <3>1 DEF Clash
  <2>4. CASE i > n
    <3>1. i - n \in 1 .. m - 1 /\ a[i] = t[i - n] /\ a[i + 1] = t[(i - n) + 1]
      <4>1. i + 1 - n = (i - n) + 1 /\ i - n \in 1 .. m - 1
        BY <1>1, <2>1, <2>4
      <4> QED
        BY <1>1, <1>2, <2>1, <2>4, <4>1
    <3> QED
      BY <1>5, <3>1
  <2> QED
    BY <1>1, <2>2, <2>3, <2>4
<1> QED
  BY <1>2, <1>6 DEF Calm, a

\* What stands first in two sequences together.
LEMMA FirstIs ==
    ASSUME NEW s \in Seq(Tokens), NEW t \in Seq(Tokens)
    PROVE  IF s = <<>> THEN s \o t = t ELSE s \o t # <<>> /\ (s \o t)[1] = s[1]
<1> HIDE DEF Tokens
<1>1. CASE s = <<>>
  <2>1. <<>> \o t = t
    OBVIOUS
  <2> QED
    BY <1>1, <2>1
<1>2. CASE s # <<>>
  <2> DEFINE a == s \o t
             n == Len(s)
  <2>1. n \in Nat \ {0} /\ Len(t) \in Nat
    BY <1>2, LenProperties, EmptySeq
  <2>2. Len(a) = n + Len(t) /\ \A i \in 1 .. n + Len(t) : a[i] = IF i <= n THEN s[i] ELSE t[i - n]
    BY ConcatProperties
  <2> HIDE DEF a, n
  <2>3. Len(a) # 0 /\ a[1] = s[1]
    BY <2>1, <2>2
  <2>4. Len(<<>>) = 0
    OBVIOUS
  <2>5. a # <<>>
    BY <2>3, <2>4
  <2> QED
    BY <1>2, <2>3, <2>5 DEF a
<1> QED
  BY <1>1, <1>2

LEMMA LedConcat ==
    ASSUME NEW s, NEW t, Led(s), Led(t)
    PROVE  Led(s \o t)
<1>1. Calm(s \o t) /\ s \in Seq(Tokens) /\ t \in Seq(Tokens)
  BY CalmConcat DEF Led, Calm
<1>2. ~Starts(s \o t, {"*", "["})
  <2> DEFINE a == s \o t
  <2>1. IF s = <<>> THEN a = t ELSE a # <<>> /\ a[1] = s[1]
    BY <1>1, FirstIs
  <2> HIDE DEF a
  <2>2. ~Starts(a, {"*", "["})
    BY <2>1 DEF Led, Starts
  <2> QED
    BY <2>2 DEF a
<1> QED
  BY <1>1, <1>2 DEF Led

\* A token before something that it does not read on into.
LEMMA LedToken ==
    ASSUME NEW token \in Tokens \ {"*", "["}, NEW s, Calm(s), s = <<>> \/ ~Clash(token, s[1])
    PROVE  Led(<<token>> \o s)
<1> DEFINE one == <<token>>
           n == Len(s)
           a == one \o s
<1>1. s \in Seq(Tokens) /\ n \in Nat
  BY LenProperties DEF Calm
<1>2. one \in Seq(Tokens) /\ Len(one) = 1 /\ one[1] = token
  <2> HIDE DEF Tokens
  <2> QED
    OBVIOUS
<1>3. n = 0 <=> s = <<>>
  BY <1>1, EmptySeq
<1>4. \A i \in 1 .. n - 1 : ~Clash(s[i], s[i + 1])
  BY DEF Calm
<1> HIDE DEF one
<1>5. /\ a \in Seq(Tokens) /\ Len(a) = Len(one) + n
      /\ \A i \in 1 .. Len(one) + n : a[i] = IF i <= Len(one) THEN one[i] ELSE s[i - Len(one)]
  BY <1>1, <1>2, ConcatProperties
<1> HIDE DEF a, n
<1>6. /\ Len(a) = 1 + n /\ a[1] = token
      /\ \A i \in 2 .. 1 + n : a[i] = s[i - 1]
  <2>1. \A i \in 1 .. 1 + n : a[i] = IF i <= 1 THEN one[i] ELSE s[i - 1]
    BY <1>2, <1>5
  <2> QED
    BY <1>1, <1>2, <1>5, <2>1
<1>7. ASSUME NEW i \in 1 .. Len(a) - 1
      PROVE  ~Clash(a[i], a[i + 1])
  <2>1. i \in 1 .. n /\ i + 1 \in 2 .. 1 + n /\ i + 1 - 1 = i
    BY <1>1, <1>6
  <2>2. a[i + 1] = s[i]
    BY <1>6, <2>1
  <2>3. CASE i = 1
    BY <1>1, <1>3, <1>6, <2>1, <2>2, <2>3
  <2>4. CASE i # 1
    <3>1. i - 1 \in 1 .. n - 1 /\ (i - 1) + 1 = i /\ i \in 2 .. 1 + n
      BY <1>1, <2>1, <2>4
    <3>2. ~Clash(s[i - 1], s[(i - 1) + 1])
      BY <1>4, <3>1
    <3>3. a[i] = s[i - 1]
      BY <1>6, <3>1
    <3> QED
      BY <2>2, <3>1, <3>2, <3>3
  <2> QED
    BY <2>3, <2>4
<1>8. ~Starts(a, {"*", "["})
  BY <1>6 DEF Starts
<1> QED
  BY <1>5, <1>7, <1>8 DEF Led, Calm, a, one

LEMMA LedAlone ==
    ASSUME NEW token \in Tokens \ {"*", "["}
    PROVE  Led(<<token>>)
<1> DEFINE none == <<>>
<1>1. <<token>> \o none = <<token>>
  OBVIOUS
<1>2. Calm(none)
  <2>1. none \in Seq(Tokens) /\ Len(none) = 0
    <3> HIDE DEF Tokens
    <3> QED
      OBVIOUS
  <2> QED
    BY <2>1 DEF Calm
<1>3. Led(<<token>> \o none)
  BY <1>2, LedToken
<1> QED
  BY <1>1, <1>3

LEMMA LedNone == Led(<<>>)
<1> DEFINE none == <<>>
<1>1. none \in Seq(Tokens) /\ Len(none) = 0
  <2> HIDE DEF Tokens
  <2> QED
    OBVIOUS
<1> QED
  BY <1>1 DEF Led, Calm, Starts

LEMMA LedJoined ==
    ASSUME NEW n \in Nat, NEW parts, parts = [i \in 1 .. n |-> parts[i]],
           \A i \in 1 .. n : Led(parts[i])
    PROVE  Led(Joined(parts))
<1> DEFINE S == Seq(Tokens)
<1>1. \A i \in 1 .. n : parts[i] \in S
  BY DEF Led, Calm
<1> HIDE DEF S
<1>2. parts \in Seq(S) /\ Len(parts) = n
  BY <1>1, TypedSequence
<1>3. PICK u : Joins(u, n, parts) /\ Joined(parts) = u[n]
  BY <1>2, JoinedIs DEF S
<1> DEFINE P == {k \in 0 .. n : Led(u[k])}
<1>4. 0 \in P
  BY <1>3, LedNone DEF Joins
<1>5. \A k \in 1 .. n : k - 1 \in P => k \in P
  <2> SUFFICES ASSUME NEW k \in 1 .. n, Led(u[k - 1])
               PROVE  k \in 0 .. n /\ Led(u[k])
    OBVIOUS
  <2>1. u[k] = u[k - 1] \o parts[k] /\ Led(parts[k])
    BY <1>3 DEF Joins
  <2>2. Led(u[k - 1] \o parts[k])
    BY <2>1, LedConcat
  <2> QED
    BY <2>1, <2>2
<1>6. n \in P
  <2> HIDE DEF P
  <2> QED
    BY <1>4, <1>5, Everywhere
<1> QED
  BY <1>3, <1>6

LEMMA QuietIs ==
    ASSUME NEW s \in Seq(Quiet)
    PROVE  s \in Seq(Tokens) /\ Calm(s) /\ (~Starts(s, {"*", "["}) => Led(s))
<1>1. /\ Len(s) \in Nat /\ s = [i \in 1 .. Len(s) |-> s[i]]
      /\ \A i \in 1 .. Len(s) : s[i] \in Quiet
  <2> HIDE DEF Quiet
  <2> QED
    BY LenProperties, ElementOfSeq
<1>2. \A i \in 1 .. Len(s) : s[i] \in Tokens /\ s[i] \notin {"newline", "item"}
  BY <1>1 DEF Quiet
<1>3. s \in Seq(Tokens)
  <2> HIDE DEF Tokens
  <2> QED
    BY <1>1, <1>2, TypedSequence
<1>4. \A i \in 1 .. Len(s) - 1 : ~Clash(s[i], s[i + 1])
  BY <1>1, <1>2 DEF Clash
<1> QED
  BY <1>3, <1>4 DEF Calm, Led

\* A token that reads on into nothing, before a text.
LEMMA LedText ==
    ASSUME NEW token \in Quiet \ {"*", "["}, NEW s \in Seq(Quiet)
    PROVE  Led(<<token>> \o s)
  BY QuietIs, LedToken DEF Clash, Quiet

LEMMA QuietOnes == {"other", "{", "}"} \union Separators \subseteq Quiet
  BY DEF Quiet, Tokens, Commands, Specials, Separators

LEMMA EscQuiet ==
    ASSUME NEW text \in Seq(Characters)
    PROVE  Esc(text) \in Seq(Quiet)
<1> DEFINE x == NormalizeForLatex(text)
           n == Len(x)
           S == Seq(Quiet)
           f == [i \in DOMAIN x |-> IF x[i] \in Specials THEN LatexSpecialMap[x[i]] ELSE <<x[i]>>]
<1>1. x \in Seq(Shown)
  BY NormalIsShown
<1>2. Esc(text) = Joined(f)
  BY DEF Esc, EscapeLatex, Substituted
<1> HIDE DEF x
<1>3. n \in Nat /\ DOMAIN x = 1 .. n /\ \A i \in 1 .. n : x[i] \in Shown
  BY <1>1, LenProperties, ElementOfSeq
<1> HIDE DEF n
<1>4. f = [i \in 1 .. n |-> f[i]] /\ \A i \in 1 .. n : f[i] = Escaped(x[i])
  BY <1>3 DEF Escaped
<1> HIDE DEF f
<1>5. ASSUME NEW ch \in Shown
      PROVE  Escaped(ch) \in S
  <2>1. CASE ch \notin Specials
    <3>1. ch \in Quiet
      BY CharactersAssumption DEF Quiet, Shown, Tokens, Commands
    <3>2. <<ch>> \in Seq(Quiet)
      <4> HIDE DEF Quiet
      <4> QED
        BY <3>1
    <3> QED
      BY <2>1, <3>2 DEF Escaped
  <2>2. CASE ch \in Specials
    <3> DEFINE W == DOMAIN TexMeaning
    <3>1. \E word \in W : LatexSpecialMap[ch] \in {<<word>>, <<word, "{", "}">>}
      BY <2>2 DEF LatexSpecialMap, TexMeaning, Specials
    <3>2. W \subseteq Quiet /\ "{" \in Quiet /\ "}" \in Quiet
      BY DEF Quiet, Tokens, TexMeaning, Specials
    <3> HIDE DEF W
    <3>3. \A word \in W : <<word>> \in Seq(Quiet) /\ <<word, "{", "}">> \in Seq(Quiet)
      <4> DEFINE l == "{"
                 r == "}"
      <4>1. l \in Quiet /\ r \in Quiet /\ W \subseteq Quiet
        BY <3>2
      <4> HIDE DEF Quiet, l, r
      <4>2. \A word \in W : <<word>> \in Seq(Quiet) /\ <<word, l, r>> \in Seq(Quiet)
        BY <4>1
      <4> QED
        BY <4>2 DEF l, r
    <3> QED
      BY <2>2, <3>1, <3>3 DEF Escaped
  <2> QED
    BY <2>1, <2>2
<1>6. \A i \in 1 .. n : f[i] \in S
  BY <1>3, <1>4, <1>5
<1> HIDE DEF S
<1>7. f \in Seq(S)
  BY <1>3, <1>4, <1>6, TypedSequence
<1>8. Joined(f) \in Seq(Quiet)
  <2>1. <<>> \in Seq(Quiet)
    OBVIOUS
  <2> QED
    BY <1>7, <2>1, JoinedAppend DEF S
<1> QED
  BY <1>2, <1>8

LEMMA JoinPresentQuiet ==
    ASSUME NEW texts \in TextLists, NEW separator \in Separators
    PROVE  JoinPresent(texts, separator) \in Seq(Quiet)
<1> DEFINE ts == Present(texts)
           n == Len(ts)
           S == Seq(Quiet)
           f == [i \in DOMAIN ts |-> (IF i = 1 THEN <<>> ELSE <<separator>>) \o Esc(ts[i])]
<1>1. ts \in TextLists
  BY PresentIs
<1>2. JoinPresent(texts, separator) = Joined(f)
  BY DEF JoinPresent
<1> HIDE DEF ts
<1>3. n \in Nat /\ DOMAIN ts = 1 .. n /\ \A i \in 1 .. n : ts[i] \in Seq(Characters)
  BY <1>1, NormalAllIs
<1> HIDE DEF n
<1>4. f = [i \in 1 .. n |-> f[i]]
  BY <1>3
<1>5. ASSUME NEW i \in 1 .. n
      PROVE  f[i] \in S
  <2> DEFINE first == IF i = 1 THEN <<>> ELSE <<separator>>
             e == Esc(ts[i])
  <2>1. first \in S
    <3>1. separator \in Quiet
      BY QuietOnes
    <3> HIDE DEF Quiet
    <3> QED
      BY <3>1
  <2>2. e \in S
    BY <1>3, EscQuiet
  <2>3. f[i] = first \o e
    BY <1>3
  <2> HIDE DEF first, e, f
  <2> QED
    BY <2>1, <2>2, <2>3, ConcatProperties
<1> HIDE DEF S, f
<1>6. f \in Seq(S)
  BY <1>3, <1>4, <1>5, TypedSequence
<1>7. Joined(f) \in Seq(Quiet)
  <2>1. <<>> \in Seq(Quiet)
    OBVIOUS
  <2> QED
    BY <1>6, <2>1, JoinedAppend DEF S
<1> QED
  BY <1>2, <1>7

LEMMA GroupedLed ==
    ASSUME NEW s \in Seq(Quiet)
    PROVE  Grouped(s) \in Seq(Quiet) /\ Led(Grouped(s))
<1> DEFINE open == <<"{">>
           close == <<"}">>
           all == open \o s \o close
<1>1. open \in Seq(Quiet) /\ close \in Seq(Quiet)
  <2> DEFINE l == "{"
             r == "}"
  <2>1. l \in Quiet /\ r \in Quiet
    BY QuietOnes
  <2> HIDE DEF Quiet, l, r
  <2>2. <<l>> \in Seq(Quiet) /\ <<r>> \in Seq(Quiet)
    BY <2>1
  <2> QED
    BY <2>2 DEF l, r
<1>2. Led(open \o s) /\ Led(close)
  BY LedText, LedAlone, QuietOnes DEF Quiet
<1> HIDE DEF open, close
<1>3. all \in Seq(Quiet)
  <2>1. open \o s \in Seq(Quiet)
    BY <1>1, ConcatProperties
  <2> QED
    BY <1>1, <2>1, ConcatProperties
<1>4. Led(all)
  BY <1>2, LedConcat
<1> QED
  BY <1>3, <1>4 DEF Grouped, all, open, close

LEMMA CommandsLed == Led(<<"other">>) /\ Led(<<"newline">>)
<1>1. "other" \in Tokens \ {"*", "["} /\ "newline" \in Tokens \ {"*", "["}
  BY DEF Tokens, Commands
<1> QED
  BY <1>1, LedAlone

LEMMA LinesLed ==
    ASSUME NEW s \in Seq(Quiet), NEW t \in Seq(Quiet)
    PROVE  /\ Led(EntryLine(s, t)) /\ Led(FullLine(s)) /\ Led(<<"other">> \o s)
<1> DEFINE gs == Grouped(s)
           gt == Grouped(t)
           end == <<"newline">>
           first == <<"other">> \o s
<1>1. Led(gs) /\ Led(gt) /\ Led(end)
  BY GroupedLed, CommandsLed
<1>2. Led(first)
  BY LedText, QuietOnes
<1>3. EntryLine(s, t) = gs \o gt \o end /\ FullLine(s) = first \o end
  BY DEF EntryLine, FullLine
<1> HIDE DEF gs, gt, end, first
<1>4. Led(gs \o gt)
  BY <1>1, LedConcat
<1>5. Led(gs \o gt \o end) /\ Led(first \o end)
  BY <1>1, <1>2, <1>4, LedConcat
<1> QED
  BY <1>2, <1>3, <1>5 DEF first

\* What a bullet may be.
Bullet == {s \in Seq(Quiet) : ~Starts(s, {"["})}

LEMMA ItemsLed ==
    ASSUME NEW bullets \in Seq(Bullet)
    PROVE  Led(Joined(Items(bullets)))
<1> DEFINE n == Len(bullets)
           f == Items(bullets)
<1>1. n \in Nat /\ DOMAIN bullets = 1 .. n /\ \A i \in 1 .. n : bullets[i] \in Bullet
  <2> HIDE DEF Bullet
  <2> QED
    BY LenProperties, ElementOfSeq
<1> HIDE DEF n
<1>2. f = [i \in 1 .. n |-> f[i]] /\ \A i \in 1 .. n : f[i] = <<"item">> \o bullets[i]
  BY <1>1 DEF Items
<1> HIDE DEF f
<1>3. \A i \in 1 .. n : Led(f[i])
  <2> SUFFICES ASSUME NEW i \in 1 .. n PROVE Led(f[i])
    OBVIOUS
  <2> DEFINE b == bullets[i]
  <2>1. b \in Seq(Quiet) /\ ~Starts(b, {"["})
    BY <1>1 DEF Bullet
  <2> HIDE DEF b
  <2>2. b = <<>> \/ ~Clash("item", b[1])
    BY <2>1 DEF Starts, Clash
  <2>3. "item" \in Tokens \ {"*", "["}
    BY DEF Tokens, Commands
  <2>4. Led(<<"item">> \o b)
    BY <2>1, <2>2, <2>3, QuietIs, LedToken
  <2> QED
    BY <1>2, <2>4 DEF b
<1> QED
  BY <1>1, <1>2, <1>3, LedJoined DEF f

LEMMA EscAllBullets ==
    ASSUME NEW texts \in TextLists,
           \A i \in DOMAIN texts : ~Starts(Esc(texts[i]), {"["})
    PROVE  EscAll(texts) \in Seq(Bullet)
<1> DEFINE C == Seq(Characters)
           P == {i \in DOMAIN texts : texts[i] # <<>>}
           ts == Present(texts)
           n == Len(ts)
           f == EscAll(texts)
<1>1. ts = Select(texts, P) /\ texts \in Seq(C)
  BY DEF Present, TextLists
<1>2. /\ n \in Nat /\ DOMAIN ts = 1 .. n
      /\ DOMAIN texts = 1 .. Len(texts) /\ \A i \in 1 .. Len(texts) : texts[i] \in Seq(Characters)
  BY PresentIs, NormalAllIs
<1>3. ToSet(ts) = {texts[i] : i \in P \intersect (1 .. Len(texts))}
  <2> HIDE DEF C, P, ts
  <2> QED
    BY <1>1, SelectProperties
<1> HIDE DEF ts, n, P, C
<1>4. \A k \in 1 .. n : \E i \in DOMAIN texts : ts[k] = texts[i]
  BY <1>2, <1>3 DEF ToSet
<1>5. f = [k \in 1 .. n |-> f[k]] /\ \A k \in 1 .. n : f[k] = Esc(ts[k])
  BY <1>2 DEF EscAll, ts
<1> HIDE DEF f
<1>6. \A k \in 1 .. n : f[k] \in Bullet
  BY <1>2, <1>4, <1>5, EscQuiet DEF Bullet
<1> HIDE DEF Bullet
<1> QED
  BY <1>2, <1>5, <1>6, TypedSequence DEF f

LEMMA FieldNames ==
    /\ ToSet(EntryFields("PERSONAL_INFO")) =
          {"full_name", "email", "phone", "location", "linkedin_url",
           "github_url", "website_url"}
    /\ ToSet(EntryFields("SUMMARY")) = {"text"}
    /\ ToSet(EntryFields("EDUCATION")) =
          {"institution", "degree", "field_of_study", "location", "start_date",
           "end_date", "gpa", "highlights"}
    /\ ToSet(EntryFields("SKILLS")) = {"name", "skills"}
    /\ ToSet(EntryFields("EXPERIENCE")) =
          {"company", "title", "location", "start_date", "end_date", "bullets"}
    /\ ToSet(EntryFields("INTERNSHIPS")) =
          {"company", "title", "location", "start_date", "end_date", "bullets"}
    /\ ToSet(EntryFields("PROJECTS")) =
          {"name", "description", "technologies", "url", "bullets"}
    /\ ToSet(EntryFields("CERTIFICATIONS")) =
          {"name", "issuer", "date", "credential_url"}
    /\ ToSet(EntryFields("ACHIEVEMENTS")) = {"text", "date"}
<1>1. ToSet(EntryFields("PERSONAL_INFO")) =
        {"full_name", "email", "phone", "location", "linkedin_url", "github_url",
         "website_url"}
  <2> DEFINE fs == EntryFields("PERSONAL_INFO")
  <2>1. /\ DOMAIN fs = 1 .. 7
        /\ fs[1] = "full_name" /\ fs[2] = "email" /\ fs[3] = "phone"
        /\ fs[4] = "location" /\ fs[5] = "linkedin_url" /\ fs[6] = "github_url"
        /\ fs[7] = "website_url"
    BY DEF EntryFields
  <2>2. ToSet(fs) = {fs[k] : k \in 1 .. 7}
    BY <2>1 DEF ToSet
  <2> HIDE DEF fs
  <2>3. ToSet(fs) =
           {"full_name", "email", "phone", "location", "linkedin_url",
            "github_url", "website_url"}
    BY <2>1, <2>2
  <2> QED
    BY <2>3 DEF fs
<1>2. ToSet(EntryFields("SUMMARY")) =
        {"text"}
  <2> DEFINE fs == EntryFields("SUMMARY")
  <2>1. /\ DOMAIN fs = 1 .. 1
        /\ fs[1] = "text"
    BY DEF EntryFields
  <2>2. ToSet(fs) = {fs[k] : k \in 1 .. 1}
    BY <2>1 DEF ToSet
  <2> HIDE DEF fs
  <2>3. ToSet(fs) = {"text"}
    BY <2>1, <2>2
  <2> QED
    BY <2>3 DEF fs
<1>3. ToSet(EntryFields("EDUCATION")) =
        {"institution", "degree", "field_of_study", "location", "start_date",
         "end_date", "gpa", "highlights"}
  <2> DEFINE fs == EntryFields("EDUCATION")
  <2>1. /\ DOMAIN fs = 1 .. 8
        /\ fs[1] = "institution" /\ fs[2] = "degree" /\ fs[3] = "field_of_study"
        /\ fs[4] = "location" /\ fs[5] = "start_date" /\ fs[6] = "end_date"
        /\ fs[7] = "gpa" /\ fs[8] = "highlights"
    BY DEF EntryFields
  <2>2. ToSet(fs) = {fs[k] : k \in 1 .. 8}
    BY <2>1 DEF ToSet
  <2> HIDE DEF fs
  <2>3. ToSet(fs) =
           {"institution", "degree", "field_of_study", "location", "start_date",
            "end_date", "gpa", "highlights"}
    BY <2>1, <2>2
  <2> QED
    BY <2>3 DEF fs
<1>4. ToSet(EntryFields("SKILLS")) =
        {"name", "skills"}
  <2> DEFINE fs == EntryFields("SKILLS")
  <2>1. /\ DOMAIN fs = 1 .. 2
        /\ fs[1] = "name" /\ fs[2] = "skills"
    BY DEF EntryFields
  <2>2. ToSet(fs) = {fs[k] : k \in 1 .. 2}
    BY <2>1 DEF ToSet
  <2> HIDE DEF fs
  <2>3. ToSet(fs) = {"name", "skills"}
    BY <2>1, <2>2
  <2> QED
    BY <2>3 DEF fs
<1>5. ToSet(EntryFields("EXPERIENCE")) =
        {"company", "title", "location", "start_date", "end_date", "bullets"}
  <2> DEFINE fs == EntryFields("EXPERIENCE")
  <2>1. /\ DOMAIN fs = 1 .. 6
        /\ fs[1] = "company" /\ fs[2] = "title" /\ fs[3] = "location"
        /\ fs[4] = "start_date" /\ fs[5] = "end_date" /\ fs[6] = "bullets"
    BY DEF EntryFields
  <2>2. ToSet(fs) = {fs[k] : k \in 1 .. 6}
    BY <2>1 DEF ToSet
  <2> HIDE DEF fs
  <2>3. ToSet(fs) =
           {"company", "title", "location", "start_date", "end_date", "bullets"}
    BY <2>1, <2>2
  <2> QED
    BY <2>3 DEF fs
<1>6. ToSet(EntryFields("INTERNSHIPS")) =
        {"company", "title", "location", "start_date", "end_date", "bullets"}
  <2> DEFINE fs == EntryFields("INTERNSHIPS")
  <2>1. /\ DOMAIN fs = 1 .. 6
        /\ fs[1] = "company" /\ fs[2] = "title" /\ fs[3] = "location"
        /\ fs[4] = "start_date" /\ fs[5] = "end_date" /\ fs[6] = "bullets"
    BY DEF EntryFields
  <2>2. ToSet(fs) = {fs[k] : k \in 1 .. 6}
    BY <2>1 DEF ToSet
  <2> HIDE DEF fs
  <2>3. ToSet(fs) =
           {"company", "title", "location", "start_date", "end_date", "bullets"}
    BY <2>1, <2>2
  <2> QED
    BY <2>3 DEF fs
<1>7. ToSet(EntryFields("PROJECTS")) =
        {"name", "description", "technologies", "url", "bullets"}
  <2> DEFINE fs == EntryFields("PROJECTS")
  <2>1. /\ DOMAIN fs = 1 .. 5
        /\ fs[1] = "name" /\ fs[2] = "description" /\ fs[3] = "technologies"
        /\ fs[4] = "url" /\ fs[5] = "bullets"
    BY DEF EntryFields
  <2>2. ToSet(fs) = {fs[k] : k \in 1 .. 5}
    BY <2>1 DEF ToSet
  <2> HIDE DEF fs
  <2>3. ToSet(fs) = {"name", "description", "technologies", "url", "bullets"}
    BY <2>1, <2>2
  <2> QED
    BY <2>3 DEF fs
<1>8. ToSet(EntryFields("CERTIFICATIONS")) =
        {"name", "issuer", "date", "credential_url"}
  <2> DEFINE fs == EntryFields("CERTIFICATIONS")
  <2>1. /\ DOMAIN fs = 1 .. 4
        /\ fs[1] = "name" /\ fs[2] = "issuer" /\ fs[3] = "date"
        /\ fs[4] = "credential_url"
    BY DEF EntryFields
  <2>2. ToSet(fs) = {fs[k] : k \in 1 .. 4}
    BY <2>1 DEF ToSet
  <2> HIDE DEF fs
  <2>3. ToSet(fs) = {"name", "issuer", "date", "credential_url"}
    BY <2>1, <2>2
  <2> QED
    BY <2>3 DEF fs
<1>9. ToSet(EntryFields("ACHIEVEMENTS")) =
        {"text", "date"}
  <2> DEFINE fs == EntryFields("ACHIEVEMENTS")
  <2>1. /\ DOMAIN fs = 1 .. 2
        /\ fs[1] = "text" /\ fs[2] = "date"
    BY DEF EntryFields
  <2>2. ToSet(fs) = {fs[k] : k \in 1 .. 2}
    BY <2>1 DEF ToSet
  <2> HIDE DEF fs
  <2>3. ToSet(fs) = {"text", "date"}
    BY <2>1, <2>2
  <2> QED
    BY <2>3 DEF fs
<1> QED
  BY <1>1, <1>2, <1>3, <1>4, <1>5, <1>6, <1>7, <1>8, <1>9

LEMMA InLists ==
    ASSUME NEW a \in Seq(Characters), NEW b \in Seq(Characters), NEW c \in Seq(Characters),
           NEW d \in Seq(Characters), NEW e \in Seq(Characters), NEW f \in Seq(Characters)
    PROVE  /\ <<a, b>> \in TextLists /\ <<a, b, c>> \in TextLists
           /\ <<a, b, c, d, e, f>> \in TextLists
<1> DEFINE C == Seq(Characters)
<1>1. a \in C /\ b \in C /\ c \in C /\ d \in C /\ e \in C /\ f \in C
  OBVIOUS
<1> HIDE DEF C
<1>2. <<a, b>> \in Seq(C) /\ <<a, b, c>> \in Seq(C) /\ <<a, b, c, d, e, f>> \in Seq(C)
  BY <1>1
<1> QED
  BY <1>2 DEF TextLists, C

LEMMA PrintedEntryLed ==
    ASSUME NEW e, e.primary \in Seq(Quiet), e.secondary \in Seq(Quiet),
           e.location \in Seq(Quiet), e.dates \in Seq(Quiet), e.description \in Seq(Quiet),
           e.bullets \in Seq(Bullet),
           e.secondary = <<>> \/ ~Starts(e.description, {"*", "["})
    PROVE  Led(PrintedEntry(e))
<1> DEFINE blank == <<"other">>
           end == <<"newline">>
           d == e.description
           p1 == EntryLine(e.primary, e.dates)
           p2 == IF e.secondary = <<>> THEN blank ELSE EntryLine(e.secondary, e.location)
           p3 == IF d = <<>> THEN blank ELSE d \o end
           p5 == Joined(Items(e.bullets))
<1>1. PrintedEntry(e) = p1 \o p2 \o p3 \o blank \o p5
  BY DEF PrintedEntry, Items
<1>2. Led(p1) /\ Led(p2) /\ Led(p5) /\ Led(blank) /\ Led(end)
  BY LinesLed, ItemsLed, CommandsLed
<1>3. d \in Seq(Tokens) /\ blank \in Seq(Tokens) /\ end \in Seq(Tokens)
  BY <1>2, QuietIs DEF Led, Calm
<1>4. Led(p2 \o p3) /\ p3 \in Seq(Tokens)
  <2>1. CASE d = <<>>
    <3>1. Led(p3)
      BY <1>2, <2>1
    <3> HIDE DEF p2, p3
    <3> QED
      BY <1>2, <3>1, LedConcat DEF Led, Calm
  <2>2. CASE d # <<>> /\ e.secondary # <<>>
    <3>1. Led(d)
      BY <2>2, QuietIs
    <3>2. Led(d \o end)
      BY <1>2, <3>1, LedConcat
    <3>3. Led(p3)
      BY <2>2, <3>2
    <3> HIDE DEF p2, p3
    <3> QED
      BY <1>2, <3>3, LedConcat DEF Led, Calm
  <2>3. CASE d # <<>> /\ e.secondary = <<>>
    <3>1. Led(blank \o d)
      BY LinesLed
    <3>2. Led((blank \o d) \o end)
      BY <1>2, <3>1, LedConcat
    <3>3. blank \o (d \o end) = (blank \o d) \o end /\ d \o end \in Seq(Tokens)
      BY <1>3, Associative, ConcatProperties
    <3>4. p2 = blank /\ p3 = d \o end
      BY <2>3
    <3> QED
      BY <3>2, <3>3, <3>4
  <2> QED
    BY <2>1, <2>2, <2>3
<1>5. p1 \in Seq(Tokens) /\ p2 \in Seq(Tokens)
  BY <1>2 DEF Led, Calm
<1> HIDE DEF p1, p2, p3, p5, blank, end, d
<1>6. Led(p1 \o (p2 \o p3))
  BY <1>2, <1>4, LedConcat
<1>7. p1 \o (p2 \o p3) = (p1 \o p2) \o p3
  BY <1>4, <1>5, Associative
<1>8. Led(p1 \o p2 \o p3)
  BY <1>6, <1>7
<1>9. Led(p1 \o p2 \o p3 \o blank)
  BY <1>2, <1>8, LedConcat
<1>10. Led(p1 \o p2 \o p3 \o blank \o p5)
  BY <1>2, <1>9, LedConcat
<1> QED
  BY <1>1, <1>10

\* The bullets of an entry, when none of them is read into.
LEMMA BulletsLed ==
    ASSUME NEW t, NEW entry, EntryIs(t, entry), ~ReadInto(t, entry),
           NEW f \in {"bullets", "highlights"} \intersect DOMAIN entry
    PROVE  EscAll(entry[f]) \in Seq(Bullet)
<1>1. entry[f] \in TextLists
  BY DEF EntryIs, ListFields
<1>2. \A i \in DOMAIN entry[f] : ~Starts(Esc(entry[f][i]), {"["})
  BY DEF ReadInto
<1> QED
  BY <1>1, <1>2, EscAllBullets

LEMMA JobLed ==
    ASSUME NEW t \in {"EXPERIENCE", "INTERNSHIPS"}, NEW entry, EntryIs(t, entry),
           ~ReadInto(t, entry)
    PROVE  Led(Printed(t, entry))
<1>1. DOMAIN entry = {"company", "title", "location", "start_date", "end_date", "bullets"}
  BY FieldNames DEF EntryIs
<1>2. \A f \in DOMAIN entry \ {"bullets"} : entry[f] \in Seq(Characters)
  BY <1>1 DEF EntryIs, ListFields
<1>3. \A f \in DOMAIN entry \ {"bullets"} : Esc(entry[f]) \in Seq(Quiet)
  BY <1>2, EscQuiet
<1>4. EscAll(entry["bullets"]) \in Seq(Bullet)
  BY <1>1, BulletsLed
<1>5. JoinPresent(<<entry["start_date"], entry["end_date"]>>, "--") \in Seq(Quiet)
  <2>1. "--" \in Separators
    BY DEF Separators
  <2>2. <<entry["start_date"], entry["end_date"]>> \in TextLists
    <3> DEFINE a == entry["start_date"]
               b == entry["end_date"]
    <3>1. a \in Seq(Characters) /\ b \in Seq(Characters)
      BY <1>1, <1>2
    <3> HIDE DEF a, b
    <3>2. <<a, b>> \in TextLists
      BY <3>1, InLists
    <3> QED
      BY <3>2 DEF a, b
  <2> QED
    BY <2>1, <2>2, JoinPresentQuiet
<1> DEFINE e == ExperienceEntry(entry)
           none == <<>>
<1>6. /\ e.primary = Esc(entry["title"]) /\ e.secondary = Esc(entry["company"])
      /\ e.location = Esc(entry["location"]) /\ e.description = none
      /\ e.dates = JoinPresent(<<entry["start_date"], entry["end_date"]>>, "--")
      /\ e.bullets = EscAll(entry["bullets"])
  BY DEF ExperienceEntry
<1>7. none \in Seq(Quiet) /\ ~Starts(none, {"*", "["})
  BY DEF Starts
<1>8. Printed(t, entry) = PrintedEntry(e)
  BY DEF Printed, BlockEntry
<1> HIDE DEF e, none
<1>9. Led(PrintedEntry(e))
  BY <1>1, <1>3, <1>4, <1>5, <1>6, <1>7, PrintedEntryLed
<1> QED
  BY <1>8, <1>9

LEMMA ProjectLed ==
    ASSUME NEW entry, EntryIs("PROJECTS", entry), ~ReadInto("PROJECTS", entry)
    PROVE  Led(Printed("PROJECTS", entry))
<1>1. DOMAIN entry = {"name", "description", "technologies", "url", "bullets"}
  BY FieldNames DEF EntryIs
<1>2. /\ \A f \in DOMAIN entry \ {"technologies", "bullets"} : entry[f] \in Seq(Characters)
      /\ entry["technologies"] \in TextLists
  BY <1>1 DEF EntryIs, ListFields
<1>3. \A f \in DOMAIN entry \ {"technologies", "bullets"} : Esc(entry[f]) \in Seq(Quiet)
  BY <1>2, EscQuiet
<1>4. EscAll(entry["bullets"]) \in Seq(Bullet)
  BY <1>1, BulletsLed
<1>5. JoinPresent(entry["technologies"], ",") \in Seq(Quiet)
  <2>1. "," \in Separators
    BY DEF Separators
  <2> QED
    BY <1>2, <2>1, JoinPresentQuiet
<1>6. \/ JoinPresent(entry["technologies"], ",") = <<>>
      \/ ~Starts(Esc(entry["description"]), {"*", "["})
  BY DEF ReadInto
<1> DEFINE e == ProjectEntry(entry)
           none == <<>>
<1>7. /\ e.primary = Esc(entry["name"])
      /\ e.secondary = JoinPresent(entry["technologies"], ",")
      /\ e.location = Esc(entry["url"]) /\ e.description = Esc(entry["description"])
      /\ e.dates = none /\ e.bullets = EscAll(entry["bullets"])
  BY DEF ProjectEntry
<1>8. none \in Seq(Quiet)
  OBVIOUS
<1>9. Printed("PROJECTS", entry) = PrintedEntry(e)
  BY DEF Printed, BlockEntry
<1> HIDE DEF e, none
<1>10. Led(PrintedEntry(e))
  BY <1>1, <1>3, <1>4, <1>5, <1>6, <1>7, <1>8, PrintedEntryLed
<1> QED
  BY <1>9, <1>10

LEMMA EducationLed ==
    ASSUME NEW entry, EntryIs("EDUCATION", entry), ~ReadInto("EDUCATION", entry)
    PROVE  Led(Printed("EDUCATION", entry))
<1>1. DOMAIN entry = {"institution", "degree", "field_of_study", "location", "start_date",
                      "end_date", "gpa", "highlights"}
  BY FieldNames DEF EntryIs
<1>2. \A f \in DOMAIN entry \ {"highlights"} : entry[f] \in Seq(Characters)
  BY <1>1 DEF EntryIs, ListFields
<1> DEFINE none == <<>>
           first == <<"GPA:">> \o Esc(entry["gpa"])
           gpa == IF entry["gpa"] = <<>> THEN <<>> ELSE <<first>>
           primary == JoinPresent(<<entry["degree"], entry["field_of_study"]>>, ",")
           secondary == JoinPresent(<<entry["institution"], entry["location"]>>, ",")
           dates == JoinPresent(<<entry["start_date"], entry["end_date"]>>, "--")
           highlights == EscAll(entry["highlights"])
           e == EducationEntry(entry)
<1>3. primary \in Seq(Quiet) /\ secondary \in Seq(Quiet) /\ dates \in Seq(Quiet)
  <2>1. "," \in Separators /\ "--" \in Separators
    BY DEF Separators
  <2>2. /\ <<entry["degree"], entry["field_of_study"]>> \in TextLists
        /\ <<entry["institution"], entry["location"]>> \in TextLists
        /\ <<entry["start_date"], entry["end_date"]>> \in TextLists
    BY <1>1, <1>2, InLists
  <2> QED
    BY <2>1, <2>2, JoinPresentQuiet
<1>4. highlights \in Seq(Bullet)
  BY <1>1, BulletsLed
<1>5. first \in Bullet
  <2> DEFINE mark == <<"GPA:">>
             x == Esc(entry["gpa"])
  <2>1. x \in Seq(Quiet)
    BY <1>1, <1>2, EscQuiet
  <2>2. mark \in Seq(Quiet)
    <3>1. "GPA:" \in Quiet
      BY QuietOnes DEF Separators
    <3> HIDE DEF Quiet
    <3> QED
      BY <3>1
  <2>3. mark # <<>> /\ mark[1] = "GPA:"
    OBVIOUS
  <2> HIDE DEF mark, x
  <2>4. mark \o x \in Seq(Quiet)
    BY <2>1, <2>2, ConcatProperties
  <2>5. mark \o x # <<>> /\ (mark \o x)[1] = "GPA:"
    BY <2>1, <2>2, <2>3, QuietIs, FirstIs
  <2>6. mark \o x \in Bullet
    BY <2>4, <2>5 DEF Bullet, Starts
  <2> QED
    BY <2>6 DEF mark, x
<1>6. e.bullets = gpa \o highlights
  BY DEF EducationEntry
<1>7. gpa \o highlights \in Seq(Bullet)
  <2> HIDE DEF first, highlights, Bullet
  <2>1. gpa \in Seq(Bullet)
    BY <1>5
  <2> HIDE DEF gpa
  <2> QED
    BY <1>4, <2>1, ConcatProperties
<1>8. /\ e.primary = primary /\ e.secondary = secondary /\ e.location = none
      /\ e.description = none /\ e.dates = dates
  BY DEF EducationEntry
<1>9. none \in Seq(Quiet) /\ ~Starts(none, {"*", "["})
  BY DEF Starts
<1>10. Printed("EDUCATION", entry) = PrintedEntry(e)
  BY DEF Printed, BlockEntry
<1> HIDE DEF e, none, first, gpa, primary, secondary, dates, highlights
<1>11. Led(PrintedEntry(e))
  BY <1>3, <1>6, <1>7, <1>8, <1>9, PrintedEntryLed
<1> QED
  BY <1>10, <1>11

LEMMA PersonalInfoLed ==
    ASSUME NEW entry, EntryIs("PERSONAL_INFO", entry)
    PROVE  Led(Printed("PERSONAL_INFO", entry))
<1>1. DOMAIN entry = {"full_name", "email", "phone", "location", "linkedin_url",
                      "github_url", "website_url"}
  BY FieldNames DEF EntryIs
<1>2. \A f \in DOMAIN entry : entry[f] \in Seq(Characters)
  BY <1>1 DEF EntryIs, ListFields
<1> DEFINE name == Grouped(Esc(entry["full_name"]))
           blank == <<"other">>
           contacts ==
               JoinPresent(<<entry["email"], entry["phone"], entry["location"],
                             entry["linkedin_url"], entry["github_url"],
                             entry["website_url"]>>, "|")
<1>3. Led(name)
  BY <1>1, <1>2, EscQuiet, GroupedLed
<1>4. contacts \in Seq(Quiet)
  <2>1. "|" \in Separators
    BY DEF Separators
  <2>2. <<entry["email"], entry["phone"], entry["location"], entry["linkedin_url"],
          entry["github_url"], entry["website_url"]>> \in TextLists
    BY <1>1, <1>2, InLists
  <2> QED
    BY <2>1, <2>2, JoinPresentQuiet
<1>5. Printed("PERSONAL_INFO", entry) = (name \o blank) \o contacts
  BY DEF Printed, PersonalInfo
<1> HIDE DEF name, contacts
<1>6. Led(blank \o contacts) /\ Led(blank)
  BY <1>4, LinesLed, CommandsLed
<1> HIDE DEF blank
<1>7. Led(name \o (blank \o contacts))
  BY <1>3, <1>6, LedConcat
<1>8. name \o (blank \o contacts) = (name \o blank) \o contacts
  BY <1>3, <1>4, <1>6, QuietIs, Associative DEF Led, Calm
<1> QED
  BY <1>5, <1>7, <1>8

\* The entries of one line.
LEMMA LineEntriesLed ==
    ASSUME NEW t \in {"SUMMARY", "SKILLS", "CERTIFICATIONS", "ACHIEVEMENTS"}, NEW entry,
           EntryIs(t, entry), ~ReadInto(t, entry)
    PROVE  Led(Printed(t, entry))
<1>0. DOMAIN entry = ToSet(EntryFields(t)) /\ "--" \in Separators /\ "," \in Separators
      /\ ":" \in Separators
  BY DEF EntryIs, Separators
<1>1. CASE t = "SUMMARY"
  <2>1. entry["text"] \in Seq(Characters)
    BY <1>0, <1>1, FieldNames DEF EntryIs, ListFields
  <2>2. Printed(t, entry) = <<"other">> \o Esc(entry["text"])
    BY <1>1 DEF Printed
  <2> QED
    BY <2>1, <2>2, EscQuiet, LinesLed
<1>2. CASE t = "SKILLS"
  <2> DEFINE x == Esc(entry["name"])
             colon == <<":">>
             group == Grouped(x \o colon)
             skills == JoinPresent(entry["skills"], ",")
  <2>1. entry["name"] \in Seq(Characters) /\ entry["skills"] \in TextLists
    BY <1>0, <1>2, FieldNames DEF EntryIs, ListFields
  <2>2. x \in Seq(Quiet) /\ skills \in Seq(Quiet)
    BY <1>0, <2>1, EscQuiet, JoinPresentQuiet
  <2>3. colon \in Seq(Quiet)
    <3>1. ":" \in Quiet
      BY <1>0, QuietOnes
    <3> HIDE DEF Quiet
    <3> QED
      BY <3>1
  <2>4. Printed(t, entry) = FullLine(group \o skills)
    BY <1>2 DEF Printed
  <2> HIDE DEF x, colon, skills
  <2>5. x \o colon \in Seq(Quiet)
    BY <2>2, <2>3, ConcatProperties
  <2>6. group \in Seq(Quiet)
    BY <2>5, GroupedLed
  <2> HIDE DEF group
  <2>7. group \o skills \in Seq(Quiet)
    BY <2>2, <2>6, ConcatProperties
  <2> QED
    BY <2>4, <2>7, LinesLed
<1>3. CASE t = "CERTIFICATIONS"
  <2>1. /\ entry["name"] \in Seq(Characters) /\ entry["issuer"] \in Seq(Characters)
        /\ entry["date"] \in Seq(Characters)
    BY <1>0, <1>3, FieldNames DEF EntryIs, ListFields
  <2>2. <<entry["name"], entry["issuer"], entry["date"]>> \in TextLists
    BY <2>1, InLists
  <2>3. JoinPresent(<<entry["name"], entry["issuer"], entry["date"]>>, "--") \in Seq(Quiet)
    BY <1>0, <2>2, JoinPresentQuiet
  <2>4. Printed(t, entry) =
           FullLine(JoinPresent(<<entry["name"], entry["issuer"], entry["date"]>>, "--"))
    BY <1>3 DEF Printed
  <2> QED
    BY <2>3, <2>4, LinesLed
<1>4. CASE t = "ACHIEVEMENTS"
  <2> DEFINE b == JoinPresent(<<entry["text"], entry["date"]>>, "--")
  <2>1. entry["text"] \in Seq(Characters) /\ entry["date"] \in Seq(Characters)
    BY <1>0, <1>4, FieldNames DEF EntryIs, ListFields
  <2>2. <<entry["text"], entry["date"]>> \in TextLists
    BY <2>1, InLists
  <2>3. b \in Seq(Quiet) /\ ~Starts(b, {"["})
    BY <1>0, <1>4, <2>2, JoinPresentQuiet DEF ReadInto
  <2>4. Printed(t, entry) = <<"item">> \o b
    BY <1>4 DEF Printed
  <2> HIDE DEF b
  <2>5. b = <<>> \/ ~Clash("item", b[1])
    BY <2>3 DEF Starts, Clash
  <2>6. "item" \in Tokens \ {"*", "["}
    BY DEF Tokens, Commands
  <2> QED
    BY <2>3, <2>4, <2>5, <2>6, QuietIs, LedToken
<1> QED
  BY <1>1, <1>2, <1>3, <1>4

LEMMA EntryLed ==
    ASSUME NEW t \in PrintedTypes, NEW entry, EntryIs(t, entry), ~ReadInto(t, entry)
    PROVE  Led(Printed(t, entry))
<1>1. CASE t = "PERSONAL_INFO"
  BY <1>1, PersonalInfoLed
<1>2. CASE t \in {"EXPERIENCE", "INTERNSHIPS"}
  BY <1>2, JobLed
<1>3. CASE t = "PROJECTS"
  BY <1>3, ProjectLed
<1>4. CASE t = "EDUCATION"
  BY <1>4, EducationLed
<1>5. CASE t \in {"SUMMARY", "SKILLS", "CERTIFICATIONS", "ACHIEVEMENTS"}
  BY <1>5, LineEntriesLed
<1> QED
  BY <1>1, <1>2, <1>3, <1>4, <1>5, TypesAre

\* No entry saved is read into.
NothingReadInto == \A t \in DOMAIN saved : \A i \in DOMAIN saved[t] : ~ReadInto(t, saved[t][i])

LEMMA SectionLed ==
    ASSUME SavedIs, NothingReadInto, NEW t \in PrintedTypes
    PROVE  Led(PrintedSection(t))
<1>1. CASE t \notin DOMAIN saved
  BY <1>1, LedNone DEF PrintedSection
<1>2. CASE t \in DOMAIN saved
  <2> DEFINE content == saved[t]
             n == Len(content)
             parts == [i \in DOMAIN content |-> Printed(t, content[i])]
             opening == <<"other">>
  <2>1. PrintedSection(t) = opening \o Joined(parts)
    BY <1>2 DEF PrintedSection
  <2>2. /\ n \in Nat /\ DOMAIN content = 1 .. n
        /\ \A i \in 1 .. n : EntryIs(t, content[i]) /\ ~ReadInto(t, content[i])
    BY <1>2, EntriesAre DEF NothingReadInto
  <2> HIDE DEF content, n
  <2>3. \A i \in 1 .. n : Led(Printed(t, content[i]))
    BY <2>2, EntryLed
  <2>4. parts = [i \in 1 .. n |-> parts[i]] /\ \A i \in 1 .. n : Led(parts[i])
    BY <2>2, <2>3
  <2> HIDE DEF parts
  <2>5. Led(Joined(parts)) /\ Led(opening)
    BY <2>2, <2>4, LedJoined, CommandsLed
  <2> HIDE DEF opening
  <2>6. Led(opening \o Joined(parts))
    BY <2>5, LedConcat
  <2> QED
    BY <2>1, <2>6
<1> QED
  BY <1>1, <1>2

LEMMA RenderedLed ==
    ASSUME SavedIs, NothingReadInto
    PROVE  Led(RenderLatex)
<1> DEFINE p(t) == PrintedSection(t)
           e == EntryBlocks
           parts == [b \in DOMAIN e |-> PrintedSection(e[b])]
           blocks == Joined(parts)
<1>1. RenderLatex = p("PERSONAL_INFO") \o p("SUMMARY") \o blocks \o p("SKILLS")
                    \o p("CERTIFICATIONS") \o p("ACHIEVEMENTS")
  BY DEF RenderLatex
<1>2. \A t \in PrintedTypes : Led(p(t))
  BY SectionLed
<1>3. Led(blocks)
  <2>1. DOMAIN e = 1 .. 4 /\ e[1] = "EXPERIENCE" /\ e[2] = "INTERNSHIPS" /\ e[3] = "PROJECTS"
        /\ e[4] = "EDUCATION"
    BY BlocksAre
  <2> HIDE DEF e
  <2>2. \A b \in 1 .. 4 : e[b] \in PrintedTypes
    <3>1. \A b \in 1 .. 4 : b = 1 \/ b = 2 \/ b = 3 \/ b = 4
      OBVIOUS
    <3> QED
      BY <2>1, <3>1, TypesAre
  <2>3. parts = [b \in 1 .. 4 |-> parts[b]] /\ \A b \in 1 .. 4 : Led(parts[b])
    BY <1>2, <2>1, <2>2
  <2> HIDE DEF parts
  <2> QED
    BY <2>3, LedJoined
<1> HIDE DEF p, blocks
<1>4. Led(p("PERSONAL_INFO") \o p("SUMMARY"))
  BY <1>2, TypesAre, LedConcat
<1>5. Led(p("PERSONAL_INFO") \o p("SUMMARY") \o blocks)
  BY <1>3, <1>4, LedConcat
<1>6. Led(p("PERSONAL_INFO") \o p("SUMMARY") \o blocks \o p("SKILLS"))
  BY <1>2, <1>5, TypesAre, LedConcat
<1>7. Led(p("PERSONAL_INFO") \o p("SUMMARY") \o blocks \o p("SKILLS") \o p("CERTIFICATIONS"))
  BY <1>2, <1>6, TypesAre, LedConcat
<1> QED
  BY <1>1, <1>2, <1>7, TypesAre, LedConcat

PrintingInv ==
    /\ SavedIs
    /\ source # NoSource => source.sections = saved /\ source.latex = RenderLatex

LEMMA PrintingKeepsTexts ==
    ASSUME PrintingInv
    PROVE  SavedReachesFont
<1> SUFFICES ASSUME source # NoSource
             PROVE  SavedReachesFont
  BY DEF SavedReachesFont
<1> DEFINE page == Page(RenderLatex)
           written == SavedText(saved)
<1>1. SavedIs /\ source.sections = saved /\ source.latex = RenderLatex
  BY DEF PrintingInv
<1>2. \A ch : ch \notin Separators => CountsAs(RenderLatex, written, ch)
  BY <1>1, RenderedPrints
<1>3. ASSUME NothingReadInto
      PROVE  page.sound /\ page.depth = 0 /\ EveryCharacterIsThere(page, written)
  <2>1. page = Typeset(RenderLatex)
    BY <1>1, <1>3, RenderedLed, CalmPage DEF Led
  <2>2. page.sound /\ page.depth = 0
    <3>1. " " \notin Separators
      BY DEF Separators
    <3> QED
      BY <1>2, <2>1, <3>1 DEF CountsAs, Prints
  <2>3. \A ch : ch \notin Separators => Occurrences(page.text, ch) = Occurrences(written, ch)
    BY <1>2, <2>1 DEF CountsAs, Prints
  <2> QED
    BY <2>2, <2>3 DEF EveryCharacterIsThere
<1>4. ASSUME NEW t \in DOMAIN saved, NEW e \in DOMAIN saved[t], NEW f \in ToSet(EntryFields(t)),
             NEW i \in DOMAIN TextsOf(saved[t][e], f)
      PROVE  Page(Esc(TextsOf(saved[t][e], f)[i])) =
                [text |-> NormalizeForLatex(TextsOf(saved[t][e], f)[i]),
                 depth |-> 0, sound |-> TRUE]
  <2> DEFINE entry == saved[t][e]
             ts == TextsOf(entry, f)
             text == ts[i]
  <2>1. EntryIs(t, entry)
    BY <1>1, EntriesAre
  <2> HIDE DEF entry
  <2>2. text \in Seq(Characters)
    <3>1. f \in DOMAIN entry /\ entry[f] \in IF f \in ListFields THEN TextLists ELSE Seq(Characters)
      BY <2>1 DEF EntryIs
    <3>2. i \in DOMAIN ts
      BY DEF entry
    <3>3. CASE f \in ListFields
      <4>1. ts = entry[f] /\ entry[f] \in TextLists
        BY <3>1, <3>3 DEF TextsOf
      <4> HIDE DEF ts
      <4> QED
        BY <3>2, <4>1, NormalAllIs
    <3>4. CASE f \notin ListFields
      <4>1. ts = <<entry[f]>> /\ entry[f] \in Seq(Characters)
        BY <3>1, <3>4 DEF TextsOf
      <4>2. i = 1
        BY <3>2, <4>1
      <4> QED
        BY <4>1, <4>2
    <3> QED
      BY <3>3, <3>4
  <2>3. Page(Esc(text)) = [text |-> NormalizeForLatex(text), depth |-> 0, sound |-> TRUE]
    <3> DEFINE x == text
    <3> HIDE DEF x
    <3>1. Page(Esc(x)) = Typeset(Esc(x))
      BY <2>2, EscQuiet, QuietIs, CalmPage DEF x
    <3>2. Typeset(Esc(x)) = [text |-> NormalizeForLatex(x), depth |-> 0, sound |-> TRUE]
      BY <2>2, EscIs DEF x
    <3> QED
      BY <3>1, <3>2 DEF x
  <2> QED
    BY <2>3 DEF entry
<1>5. EscapingIsFaithful(saved)
  BY <1>4 DEF EscapingIsFaithful
<1> QED
  BY <1>1, <1>3, <1>5 DEF SavedReachesFont, NothingReadInto

LEMMA PrintingInitially ==
    ASSUME PrintingInit
    PROVE  PrintingInv
  BY DEF PrintingInit, PrintingInv, SavedIs

LEMMA PrintingStep ==
    ASSUME PrintingInv, PrintingNext
    PROVE  PrintingInv'
<1>1. CASE \E section \in Saved : SaveSection(section[1], section[2])
  <2>1. PICK section \in Saved : SaveSection(section[1], section[2])
    BY <1>1
  <2> DEFINE t == section[1]
             content == section[2]
             new == [u \in DOMAIN saved \union {t} |-> IF u = t THEN content ELSE saved[u]]
  <2>2. /\ source = NoSource /\ source' = source /\ t \in PrintedTypes /\ ValidContent(t, content)
        /\ saved' = new
    BY <2>1 DEF SaveSection, PrintedTypes
  <2> HIDE DEF t, content
  <2>3. SavedIs
    BY DEF PrintingInv
  <2>4. SavedIs'
    <3>1. DOMAIN new = DOMAIN saved \union {t}
          /\ \A u \in DOMAIN new : new[u] = IF u = t THEN content ELSE saved[u]
      OBVIOUS
    <3> HIDE DEF new
    <3>2. DOMAIN new \subseteq PrintedTypes
      BY <2>2, <2>3, <3>1 DEF SavedIs
    <3>3. \A u \in DOMAIN new : ValidContent(u, new[u])
      BY <2>2, <2>3, <3>1 DEF SavedIs
    <3> QED
      BY <2>2, <3>2, <3>3 DEF SavedIs
  <2> QED
    BY <2>2, <2>4 DEF PrintingInv
<1>2. CASE Render
  <2>1. saved' = saved /\ source' = [sections |-> saved, latex |-> RenderLatex]
    BY <1>2 DEF Render
  <2>2. SavedIs' /\ RenderLatex' = RenderLatex
    <3>1. SavedIs
      BY DEF PrintingInv
    <3> QED
      BY <2>1, <3>1 DEF SavedIs, RenderLatex, PrintedSection
  <2> QED
    BY <2>1, <2>2 DEF PrintingInv
<1> QED
  BY <1>1, <1>2 DEF PrintingNext

LEMMA PrintingUnchanged ==
    ASSUME PrintingInv, UNCHANGED <<saved, source>>
    PROVE  PrintingInv'
<1>1. RenderLatex' = RenderLatex
  BY DEF RenderLatex, PrintedSection
<1> QED
  BY <1>1 DEF PrintingInv, SavedIs

(***************************************************************************)
(* Whatever is saved, in whatever characters: every text comes out of the  *)
(* escaping as its normal form; and unless a text starts with the bracket  *)
(* or the star that the command of the template before it reads on into,   *)
(* TeX meets no special character, no group and no argument but the        *)
(* template's own, and hands every character to the font as often as it    *)
(* was saved, but for the fields that are not to be seen.                  *)
(***************************************************************************)
THEOREM EveryCharacterReachesFont == ComputationsSpec => []SavedReachesFont
<1>1. ComputationsInit => PrintingInv
  BY PrintingInitially DEF ComputationsInit
<1>2. PrintingInv /\ [ComputationsNext]_computed => PrintingInv'
  <2> SUFFICES ASSUME PrintingInv, [ComputationsNext]_computed
               PROVE  PrintingInv'
    OBVIOUS
  <2>1. PrintingNext \/ UNCHANGED <<saved, source>>
    BY DEF ComputationsNext, computed
  <2> QED
    BY <2>1, PrintingStep, PrintingUnchanged
<1>3. PrintingInv => SavedReachesFont
  BY PrintingKeepsTexts
<1> QED
  BY <1>1, <1>2, <1>3, PTL DEF ComputationsSpec
=================================================================================
