------------------------- MODULE SegmentationProofs -------------------------
(***************************************************************************)
(* Theorems about Segmentation, for every set of pieces and messages of any     *)
(* length that a size_t can count.                                          *)
(***************************************************************************)
EXTENDS Segmentation, SequenceTheorems, FiniteSetTheorems, WellFoundedInduction, TLAPS

\* A set of natural numbers has a least element; Min finds it.
LEMMA MinProperties ==
    ASSUME NEW T, T \subseteq Nat, T # {}
    PROVE  Min(T) \in T /\ \A y \in T : Min(T) <= y
  <1> DEFINE Below(y) == 0..y
             Sets == {Below(y) : y \in T}
  <1>1. Sets \subseteq FiniteSubsetsOf(Nat)
    <2>1. \A y \in T : IsFiniteSet(Below(y))
      BY FS_Interval
    <2> QED
      BY <2>1 DEF FiniteSubsetsOf
  <1>2. IsWellFoundedOn(StrictSubsetOrdering(Nat), FiniteSubsetsOf(Nat))
    BY FS_StrictSubsetOrderingWellFounded
  <1>3. Sets # {}
    OBVIOUS
  <1>4. PICK X \in Sets : \A Y \in Sets : ~(<<Y, X>> \in StrictSubsetOrdering(Nat))
    <2> HIDE DEF Sets
    <2> QED
      BY <1>1, <1>2, <1>3, WFMin
  <1>5. PICK x \in T : X = Below(x)
    BY <1>4
  <1>6. ASSUME NEW y \in T PROVE x <= y
    <2>1. SUFFICES ASSUME y < x PROVE FALSE
      OBVIOUS
    <2>2. Below(y) \subseteq Below(x) /\ Below(y) # Below(x)
      BY <2>1
    <2>3. Below(y) \in SUBSET Nat /\ Below(x) \in SUBSET Nat
      OBVIOUS
    <2> HIDE DEF Below
    <2> QED
      BY <1>4, <1>5, <2>2, <2>3 DEF StrictSubsetOrdering
  <1> QED
    BY <1>6 DEF Min

\* A set of numbers up to n has a greatest one; Max finds it.
LEMMA MaxProperties ==
    ASSUME NEW n \in Nat, NEW T, T \subseteq 1..n, T # {}
    PROVE  Max(T) \in T /\ \A y \in T : Max(T) >= y
  <1> DEFINE D == {n - y : y \in T}
  <1>1. D \subseteq Nat
    OBVIOUS
  <1>0. D # {}
    OBVIOUS
  <1>2. PICK x \in T : Min(D) = n - x
    BY <1>0, <1>1, MinProperties
  <1>3. \A y \in T : n - x <= n - y
    BY <1>0, <1>1, <1>2, MinProperties
  <1>4. \A y \in T : x >= y
    BY <1>3
  <1> QED
    BY <1>2, <1>4 DEF Max

\* What push_llm_response takes away is white space, and no more of it is left.
LEMMA InkProperties ==
    ASSUME NEW s \in Seq(Byte), NEW a \in Nat, NEW b \in Nat, a < b, b <= Len(s)
    PROVE  /\ InkFrom(s, a, b) \in a..b
           /\ \A i \in a + 1..InkFrom(s, a, b) : s[i] = " "
           /\ InkFrom(s, a, b) < b => s[InkFrom(s, a, b) + 1] # " "
  <1> DEFINE F == {f \in a..b : f = b \/ s[f + 1] # " "}
  <1>0. F \subseteq Nat
    <2>1. a..b \subseteq Nat
      OBVIOUS
    <2> QED
      BY <2>1
  <1>1. b \in F
    <2>1. b \in a..b
      OBVIOUS
    <2> QED
      BY <2>1
  <1>2. Min(F) \in F /\ \A y \in F : Min(F) <= y
    <2> HIDE DEF F
    <2> QED
      BY <1>0, <1>1, MinProperties
  <1> DEFINE m == Min(F)
  <1>3. InkFrom(s, a, b) = m
    BY DEF InkFrom
  <1>4. m \in F /\ \A y \in F : m <= y
    BY <1>2
  <1> HIDE DEF m
  <1>5. m \in a..b
    BY <1>4
  <1>6. m = b \/ s[m + 1] # " "
    BY <1>4
  <1>7. ASSUME NEW i \in a + 1..m PROVE s[i] = " "
    <2>1. i \in Int /\ a + 1 <= i /\ i <= m
      BY <1>5
    <2>2. i - 1 \in a..b /\ i - 1 # b /\ ~(m <= i - 1) /\ i - 1 + 1 = i
      BY <1>5, <2>1
    <2>3. i - 1 \notin F
      BY <1>4, <2>2
    <2> QED
      BY <2>2, <2>3
  <1>8. m < b => m # b
    BY <1>5
  <1> HIDE DEF F
  <1> QED
    BY <1>3, <1>5, <1>6, <1>7, <1>8, Zenon

MarkEnds == {",", "m3"}

\* What find_last_segment finds in a text: the end of a mark, and no mark ends later.
LEMMA LastSegment ==
    ASSUME NEW s \in Seq(Byte), IsText(s)
    PROVE  LET p == find_last_segment(s)
           IN  /\ p # npos => p \in 1..Len(s) /\ s[p] \in MarkEnds
               /\ \A i \in 1..Len(s) : s[i] \in MarkEnds => p # npos /\ i <= p
  <1> DEFINE marks == {i \in DOMAIN s : is_segment(s[i]) # "NONE"}
             last == Max(marks)
  <1>0. Len(s) \in Nat /\ DOMAIN s = 1..Len(s)
    BY LenProperties
  <1>1. \A i \in DOMAIN s : i \in marks <=> s[i] \in {",", "m1"}
    BY DEF is_segment
  <1>2. marks \subseteq 1..Len(s)
    BY <1>0
  <1>3. \A i \in 1..Len(s) : s[i] = "m1" => i + 2 \in 1..Len(s) /\ s[i + 1] = "m2" /\ s[i + 2] = "m3"
    BY <1>0 DEF IsText, Together
  <1>4. \A i \in 1..Len(s) : s[i] = "m3" => i - 2 \in 1..Len(s) /\ s[i - 2] = "m1"
    BY <1>0 DEF IsText, Together
  <1>5. CASE marks = {}
    <2>1. find_last_segment(s) = npos
      BY <1>5 DEF find_last_segment
    <2>2. \A i \in 1..Len(s) : s[i] \notin MarkEnds
      BY <1>0, <1>1, <1>4, <1>5 DEF MarkEnds
    <2> QED
      BY <2>1, <2>2
  <1>6. CASE marks # {}
    <2>1. last \in marks /\ \A i \in marks : last >= i
      <3> HIDE DEF marks
      <3> QED
        BY <1>0, <1>2, <1>6, MaxProperties
    <2> HIDE DEF last
    <2>2. find_last_segment(s) = IF s[last] = "m1" THEN last + 2 ELSE last
      BY <1>6 DEF find_last_segment, is_segment, last
    <2>3. last \in 1..Len(s) /\ s[last] \in {",", "m1"}
      BY <1>0, <1>1, <2>1
    <2>0. last \in Int /\ (find_last_segment(s) = last \/ find_last_segment(s) = last + 2)
      <3>1. last \in Int
        <4>1. 1..Len(s) \subseteq Int
          BY <1>0
        <4> QED
          BY <2>3, <4>1
      <3> QED
        BY <2>2, <3>1
    <2>4. find_last_segment(s) \in 1..Len(s) /\ s[find_last_segment(s)] \in MarkEnds
      BY <1>3, <2>2, <2>3 DEF MarkEnds
    <2>5. ASSUME NEW i \in 1..Len(s), s[i] \in MarkEnds PROVE i <= find_last_segment(s)
      <3>1. CASE s[i] = ","
        <4>1. i \in marks
          BY <1>0, <1>1, <3>1
        <4> QED
          BY <2>0, <2>1, <4>1
      <3>2. CASE s[i] = "m3"
        <4>1. i - 2 \in marks /\ last >= i - 2
          BY <1>0, <1>1, <1>4, <2>1, <3>2
        <4>2. last # i /\ last # i - 1
          <5>1. s[i - 1] = "m2"
            BY <3>2 DEF IsText, Together
          <5> QED
            BY <2>3, <3>2, <5>1
        <4>3. CASE last = i - 2
          BY <1>4, <2>2, <3>2, <4>3
        <4>4. CASE last > i
          BY <2>0, <4>4
        <4> QED
          BY <2>0, <4>1, <4>2, <4>3, <4>4
      <3> QED
        BY <2>5, <3>1, <3>2 DEF MarkEnds
    <2>6. find_last_segment(s) # npos
      BY <2>4 DEF npos
    <2> QED
      BY <2>4, <2>5, <2>6
  <1> QED
    BY <1>5, <1>6

-----------------------------------------------------------------------------
(* What a queue of sentences covers of a text *)

Sentences == Seq(Nat \X Nat)

\* The sentences q are the first n bytes of s, but for white space.
Covers(q, s, n) ==
    /\ \A k \in 1..Len(q) :
         /\ q[k][1] < q[k][2] /\ q[k][2] <= n
         /\ \A l \in 1..Len(q) : k < l => q[k][2] <= q[l][1]
    /\ \A i \in 1..n :
         s[i] = " " \/ \E k \in 1..Len(q) : i > q[k][1] /\ i <= q[k][2]

\* The first n sentences end with their mark, and none is cut inside a character.
Closed(q, s, n) ==
    \A k \in 1..Len(q) :
      /\ IsBegin(s[q[k][1] + 1]) /\ IsEnd(s[q[k][2]])
      /\ k <= n => s[q[k][2]] \in MarkEnds

\* In a text, what stands behind the end of a character begins one.
LEMMA BeginBehindEnd ==
    ASSUME NEW s \in Seq(Byte), IsText(s), NEW i \in 0..Len(s) - 1,
           i = 0 \/ IsEnd(s[i])
    PROVE  IsBegin(s[i + 1])
  <1>1. Len(s) \in Nat /\ i + 1 \in 1..Len(s)
    BY LenProperties
  <1>2. s[i + 1] \in Byte
    BY <1>1, ElementOfSeq
  <1>3. s[i + 1] \in {"z2", "z3", "m2", "m3"} => i + 1 - 1 >= 1 /\ s[i + 1 - 1] \in {"z1", "z2", "m1", "m2"}
    BY <1>1 DEF IsText, Together
  <1>4. i + 1 - 1 = i /\ (i >= 1 => i # 0)
    OBVIOUS
  <1>5. s[i + 1] \notin {"z2", "z3", "m2", "m3"}
    BY <1>3, <1>4 DEF IsEnd
  <1> QED
    BY <1>2, <1>5 DEF Byte, IsBegin

\* The last byte of a text ends a character.
LEMMA TextEnds ==
    ASSUME NEW s \in Seq(Byte), IsText(s), Len(s) > 0
    PROVE  IsEnd(s[Len(s)])
  <1>1. Len(s) \in Nat /\ Len(s) \in 1..Len(s) /\ ~(Len(s) + 1 <= Len(s))
    BY LenProperties
  <1>2. s[Len(s)] \in Byte
    BY <1>1, ElementOfSeq
  <1>3. s[Len(s)] \notin {"z1", "z2", "m1", "m2"}
    BY <1>1 DEF IsText, Together
  <1> QED
    BY <1>2, <1>3 DEF Byte, IsEnd

\* push_llm_response extends what is covered to the end of the sentence.
LEMMA PushCovers ==
    ASSUME NEW s \in Seq(Byte), NEW q \in Sentences, NEW a \in Nat, NEW b \in Nat,
           a < b, b <= Len(s), Covers(q, s, a)
    PROVE  /\ push_llm_response(q, s, a, b) \in Sentences
           /\ Covers(push_llm_response(q, s, a, b), s, b)
  <1> DEFINE from == InkFrom(s, a, b)
             r == push_llm_response(q, s, a, b)
  <1>1. from \in a..b /\ \A i \in a + 1..from : s[i] = " "
    BY InkProperties
  <1> HIDE DEF from
  <1>2. from \in Nat /\ a <= from /\ from <= b
    <2>1. \A f \in a..b : f \in Nat /\ a <= f /\ f <= b
      OBVIOUS
    <2> QED
      BY <1>1, <2>1
  <1>3. \A i \in 1..b : i \in 1..a \/ i \in a + 1..from \/ (i > from /\ i <= b)
    BY <1>2
  <1>4. Len(q) \in Nat /\ \A k \in 1..Len(q) : q[k] \in Nat \X Nat
    BY LenProperties, ElementOfSeq DEF Sentences
  <1>5. \A k \in 1..Len(q) : q[k][1] \in Nat /\ q[k][2] \in Nat
    BY <1>4
  <1>6. \A k \in 1..Len(q) : q[k][2] <= a /\ q[k][2] <= b /\ q[k][2] <= from
    <2>1. \A k \in 1..Len(q) : q[k][2] <= a
      BY DEF Covers
    <2> QED
      BY <1>2, <1>5, <2>1
  <1>7. CASE from < b
    <2>1. r = Append(q, <<from, b>>)
      BY <1>7 DEF push_llm_response, from
    <2>2. <<from, b>> \in Nat \X Nat
      BY <1>2
    <2>3. /\ r \in Sentences /\ Len(r) = Len(q) + 1
          /\ \A k \in 1..Len(q) : r[k] = q[k]
          /\ r[Len(q) + 1] = <<from, b>>
      BY <2>1, <2>2, AppendProperties DEF Sentences
    <2> HIDE DEF r
    <2>4. \A k \in 1..Len(r) : k \in 1..Len(q) \/ k = Len(q) + 1
      BY <1>4, <2>3
    <2>5. 1..Len(q) \subseteq 1..Len(r) /\ Len(q) + 1 \in 1..Len(r)
      BY <1>4, <2>3
    <2>6. r[Len(q) + 1][1] = from /\ r[Len(q) + 1][2] = b
      BY <2>3
    <2>7. ASSUME NEW k \in 1..Len(r)
          PROVE  /\ r[k][1] < r[k][2] /\ r[k][2] <= b
                 /\ \A l \in 1..Len(r) : k < l => r[k][2] <= r[l][1]
      <3>1. CASE k \in 1..Len(q)
        <4>1. r[k][1] < r[k][2] /\ r[k][2] <= b
          BY <1>6, <2>3, <3>1 DEF Covers
        <4>2. ASSUME NEW l \in 1..Len(r), k < l PROVE r[k][2] <= r[l][1]
          <5>1. CASE l \in 1..Len(q)
            BY <2>3, <3>1, <4>2, <5>1 DEF Covers
          <5>2. CASE l = Len(q) + 1
            BY <1>6, <2>3, <2>6, <3>1, <5>2
          <5> QED
            BY <2>4, <5>1, <5>2
        <4> QED
          BY <4>1, <4>2
      <3>2. CASE k = Len(q) + 1
        <4>1. \A l \in 1..Len(r) : ~(k < l)
          BY <1>4, <2>3, <3>2
        <4> QED
          BY <1>2, <1>7, <2>6, <3>2, <4>1
      <3> QED
        BY <2>4, <3>1, <3>2
    <2>8. ASSUME NEW i \in 1..b
          PROVE  s[i] = " " \/ \E k \in 1..Len(r) : i > r[k][1] /\ i <= r[k][2]
      <3>1. CASE i \in 1..a
        BY <2>3, <2>5, <3>1 DEF Covers
      <3>2. CASE i \in a + 1..from
        BY <1>1, <3>2
      <3>3. CASE i > from /\ i <= b
        BY <2>5, <2>6, <3>3
      <3> QED
        BY <1>3, <3>1, <3>2, <3>3
    <2> QED
      BY <2>3, <2>7, <2>8 DEF Covers, r
  <1>8. CASE ~(from < b)
    <2>1. r = q
      BY <1>8 DEF push_llm_response, from
    <2>2. from = b
      BY <1>2, <1>8
    <2>3. \A i \in 1..b : i \in 1..a \/ i \in a + 1..from
      BY <1>3, <2>2, <1>2
    <2>4. Covers(q, s, b)
      BY <1>1, <1>6, <2>3 DEF Covers
    <2> QED
      BY <2>1, <2>4
  <1> QED
    BY <1>7, <1>8

\* A sentence from one end of a character to another is not cut inside one.
LEMMA PushCloses ==
    ASSUME NEW s \in Seq(Byte), IsText(s), NEW q \in Sentences, NEW a \in Nat, NEW b \in Nat,
           a < b, b <= Len(s), a = 0 \/ IsEnd(s[a]), IsEnd(s[b]), NEW n \in Nat,
           n <= Len(q), Closed(q, s, n)
    PROVE  /\ Closed(push_llm_response(q, s, a, b), s, n)
           /\ n = Len(q) /\ s[b] \in MarkEnds =>
                Closed(push_llm_response(q, s, a, b), s, Len(push_llm_response(q, s, a, b)))
           /\ Len(push_llm_response(q, s, a, b)) \in {Len(q), Len(q) + 1}
  <1> DEFINE from == InkFrom(s, a, b)
             r == push_llm_response(q, s, a, b)
  <1>1. from \in a..b /\ \A i \in a + 1..from : s[i] = " "
    BY InkProperties
  <1>2. Len(q) \in Nat /\ Len(s) \in Nat
    BY LenProperties DEF Sentences
  <1> HIDE DEF from
  <1>3. from \in Nat /\ a <= from /\ from <= b
    <2>1. \A f \in a..b : f \in Nat /\ a <= f /\ f <= b
      OBVIOUS
    <2> QED
      BY <1>1, <2>1
  <1>4. CASE from < b
    <2>1. r = Append(q, <<from, b>>)
      BY <1>4 DEF push_llm_response, from
    <2>2. <<from, b>> \in Nat \X Nat
      BY <1>3
    <2>3. /\ Len(r) = Len(q) + 1
          /\ \A k \in 1..Len(q) : r[k] = q[k]
          /\ r[Len(q) + 1] = <<from, b>>
      BY <2>1, <2>2, AppendProperties DEF Sentences
    <2> HIDE DEF r
    <2>4. \A k \in 1..Len(r) : k \in 1..Len(q) \/ k = Len(q) + 1
      BY <1>2, <2>3
    <2>5. IsBegin(s[from + 1])
      <3>1. from \in 0..Len(s) - 1
        BY <1>2, <1>3, <1>4
      <3>2. from = 0 \/ IsEnd(s[from])
        <4>1. CASE from = a
          BY <4>1
        <4>2. CASE from # a
          <5>1. from \in a + 1..from
            BY <1>3, <4>2
          <5> QED
            BY <1>1, <5>1 DEF IsEnd
        <4> QED
          BY <4>1, <4>2
      <3> QED
        BY <3>1, <3>2, BeginBehindEnd
    <2>6. r[Len(q) + 1][1] = from /\ r[Len(q) + 1][2] = b
      BY <2>3
    <2>7. \A k \in 1..Len(r) : IsBegin(s[r[k][1] + 1]) /\ IsEnd(s[r[k][2]])
      BY <2>3, <2>4, <2>5, <2>6 DEF Closed
    <2>8. \A k \in 1..Len(r) : k <= n => s[r[k][2]] \in MarkEnds
      <3>1. \A k \in 1..Len(r) : k <= n => k \in 1..Len(q)
        BY <1>2
      <3> QED
        BY <2>3, <3>1 DEF Closed
    <2>9. n = Len(q) /\ s[b] \in MarkEnds => \A k \in 1..Len(r) : s[r[k][2]] \in MarkEnds
      <3>1. \A k \in 1..Len(q) : k <= Len(q)
        BY <1>2
      <3> QED
        BY <2>3, <2>4, <2>6, <3>1 DEF Closed
    <2> QED
      BY <2>3, <2>7, <2>8, <2>9 DEF Closed, r
  <1>5. CASE ~(from < b)
    <2>1. r = q
      BY <1>5 DEF push_llm_response, from
    <2> QED
      BY <2>1
  <1> QED
    BY <1>4, <1>5

-----------------------------------------------------------------------------
(* A message grows *)

\* A piece behind a message leaves what was there.
LEMMA Grown ==
    ASSUME NEW s \in Seq(Byte), NEW t \in Seq(Byte)
    PROVE  /\ s \o t \in Seq(Byte) /\ Len(s \o t) = Len(s) + Len(t)
           /\ Len(s) \in Nat /\ Len(t) \in Nat
           /\ \A i \in 1..Len(s) : (s \o t)[i] = s[i]
           /\ \A i \in 1..Len(t) : (s \o t)[Len(s) + i] = t[i]
  <1>1. Len(s) \in Nat /\ Len(t) \in Nat
    BY LenProperties
  <1>2. s \o t \in Seq(Byte) /\ Len(s \o t) = Len(s) + Len(t)
        /\ \A i \in 1..Len(s) + Len(t) :
             (s \o t)[i] = IF i <= Len(s) THEN s[i] ELSE t[i - Len(s)]
    BY ConcatProperties
  <1>3. \A i \in 1..Len(s) : i \in 1..Len(s) + Len(t) /\ i <= Len(s)
    BY <1>1
  <1>4. \A i \in 1..Len(t) : /\ Len(s) + i \in 1..Len(s) + Len(t)
                             /\ ~(Len(s) + i <= Len(s)) /\ Len(s) + i - Len(s) = i
    BY <1>1
  <1> QED
    BY <1>1, <1>2, <1>3, <1>4

LEMMA GrownTogether ==
    ASSUME NEW s \in Seq(Byte), NEW t \in Seq(Byte), NEW x, NEW y,
           Together(s, x, y), Together(t, x, y)
    PROVE  Together(s \o t, x, y)
  <1> DEFINE u == s \o t
  <1>1. /\ Len(u) = Len(s) + Len(t) /\ Len(s) \in Nat /\ Len(t) \in Nat
        /\ \A i \in 1..Len(s) : u[i] = s[i]
        /\ \A i \in 1..Len(t) : u[Len(s) + i] = t[i]
    BY Grown
  <1> HIDE DEF u
  <1>2. ASSUME NEW i \in 1..Len(u)
        PROVE  /\ u[i] = x => i + 1 <= Len(u) /\ u[i + 1] = y
               /\ u[i] = y => i - 1 >= 1 /\ u[i - 1] = x
    <2>1. CASE i \in 1..Len(s)
      <3>1. u[i] = s[i] /\ i \in Int
        BY <1>1, <2>1
      <3>2. ASSUME s[i] = x PROVE i + 1 <= Len(u) /\ u[i + 1] = y
        <4>1. i + 1 <= Len(s) /\ s[i + 1] = y
          BY <2>1, <3>2 DEF Together
        <4>2. i + 1 \in 1..Len(s) /\ i + 1 <= Len(u)
          BY <1>1, <2>1, <4>1
        <4> QED
          BY <1>1, <4>1, <4>2
      <3>3. ASSUME s[i] = y PROVE i - 1 >= 1 /\ u[i - 1] = x
        <4>1. i - 1 >= 1 /\ s[i - 1] = x
          BY <2>1, <3>3 DEF Together
        <4>2. i - 1 \in 1..Len(s)
          BY <1>1, <2>1, <4>1
        <4> QED
          BY <1>1, <4>1, <4>2
      <3> QED
        BY <3>1, <3>2, <3>3
    <2>2. CASE i \notin 1..Len(s)
      <3>1. PICK j \in 1..Len(t) : i = Len(s) + j
        <4>1. i - Len(s) \in 1..Len(t) /\ i = Len(s) + (i - Len(s))
          BY <1>1, <2>2
        <4> QED
          BY <4>1
      <3>2. u[i] = t[j] /\ j \in Int
        BY <1>1, <3>1
      <3>3. ASSUME t[j] = x PROVE i + 1 <= Len(u) /\ u[i + 1] = y
        <4>1. j + 1 <= Len(t) /\ t[j + 1] = y
          BY <3>3 DEF Together
        <4>2. j + 1 \in 1..Len(t) /\ i + 1 = Len(s) + (j + 1) /\ i + 1 <= Len(u)
          BY <1>1, <3>1, <4>1
        <4> QED
          BY <1>1, <4>1, <4>2
      <3>4. ASSUME t[j] = y PROVE i - 1 >= 1 /\ u[i - 1] = x
        <4>1. j - 1 >= 1 /\ t[j - 1] = x
          BY <3>4 DEF Together
        <4>2. j - 1 \in 1..Len(t) /\ i - 1 = Len(s) + (j - 1) /\ i - 1 >= 1
          BY <1>1, <3>1, <4>1
        <4> QED
          BY <1>1, <4>1, <4>2
      <3> QED
        BY <3>2, <3>3, <3>4
    <2> QED
      BY <2>1, <2>2
  <1> QED
    BY <1>2 DEF Together, u

LEMMA GrownText ==
    ASSUME NEW s \in Seq(Byte), NEW t \in Seq(Byte), IsText(s), IsText(t)
    PROVE  IsText(s \o t)
  BY GrownTogether DEF IsText

\* What was covered and closed stays so.
LEMMA GrownSentences ==
    ASSUME NEW s \in Seq(Byte), NEW t \in Seq(Byte), NEW q \in Sentences,
           NEW a \in 0..Len(s), Covers(q, s, a), Closed(q, s, Len(q))
    PROVE  Covers(q, s \o t, a) /\ Closed(q, s \o t, Len(q))
  <1> DEFINE u == s \o t
  <1>1. Len(s) \in Nat /\ \A i \in 1..Len(s) : u[i] = s[i]
    BY Grown
  <1> HIDE DEF u
  <1>2. a \in Nat /\ a <= Len(s)
    BY <1>1
  <1>3. \A k \in 1..Len(q) : q[k][1] \in Nat /\ q[k][2] \in Nat
    <2>1. \A k \in 1..Len(q) : q[k] \in Nat \X Nat
      BY ElementOfSeq DEF Sentences
    <2> QED
      BY <2>1
  <1>4. \A k \in 1..Len(q) : q[k][1] < q[k][2] /\ q[k][2] <= a
    BY DEF Covers
  <1>5. ASSUME NEW k \in 1..Len(q)
        PROVE  q[k][1] + 1 \in 1..Len(s) /\ q[k][2] \in 1..Len(s)
    BY <1>1, <1>2, <1>3, <1>4
  <1>6. \A i \in 1..a : u[i] = s[i]
    BY <1>1, <1>2
  <1>7. Covers(q, u, a)
    BY <1>6 DEF Covers
  <1>8. Closed(q, u, Len(q))
    BY <1>1, <1>5 DEF Closed
  <1> QED
    BY <1>7, <1>8 DEF u

-----------------------------------------------------------------------------
(* The invariant *)

\* Up to pos, where a sentence ended, the message has been pushed; at the end, all.
Inv ==
    /\ message \in Seq(Byte) /\ IsText(message)
    /\ Len(message) <= MaxBytes
    /\ pos \in 0..Len(message)
    /\ pos # 0 => message[pos] \in MarkEnds
    /\ llm_response_ \in Sentences
    /\ Covers(llm_response_, message, HandedOver)
    /\ \/ Closed(llm_response_, message, Len(llm_response_))
       \/ /\ pc = "done"
          /\ \E n \in Nat : n + 1 = Len(llm_response_) /\ Closed(llm_response_, message, n)
    /\ pc = "answering" => Closed(llm_response_, message, Len(llm_response_))

LEMMA InvInit == Init => Inv
  <1> SUFFICES ASSUME Init PROVE Inv
    OBVIOUS
  <1>1. <<>> \in Seq(Byte) /\ <<>> \in Sentences /\ Len(<<>>) = 0
    BY EmptySeq DEF Sentences
  <1>2. 1..0 = {} /\ 0 \in 0..0 /\ 0 <= MaxBytes
    BY SegmentationAssumption
  <1>3. IsText(<<>>)
    BY <1>1, <1>2 DEF IsText, Together
  <1>4. Covers(<<>>, <<>>, 0) /\ Closed(<<>>, <<>>, Len(<<>>))
    BY <1>1, <1>2 DEF Covers, Closed
  <1>5. message = <<>> /\ pos = 0 /\ llm_response_ = <<>> /\ pc = "answering" /\ HandedOver = 0
    BY DEF Init, HandedOver
  <1> QED
    BY <1>1, <1>2, <1>3, <1>4, <1>5 DEF Inv

\* More than 6 bytes behind pos, in size_t: the mark found is a later one.
LEMMA CutIsLater ==
    ASSUME NEW a \in Nat, NEW b \in Nat, a <= b, (b - a) % SizeMax > 6
    PROVE  a < b
  <1>1. SizeMax \in Nat \ {0}
    BY SegmentationAssumption
  <1>2. 0 % SizeMax = 0
    BY <1>1
  <1>3. a # b
    <2>1. SUFFICES ASSUME a = b PROVE FALSE
      OBVIOUS
    <2>2. b - a = 0
      BY <2>1
    <2> QED
      BY <1>2, <2>2
  <1> QED
    BY <1>3

LEMMA InvTakes == ASSUME Inv, NEW piece \in Pieces, Takes(piece) PROVE Inv'
  <1> DEFINE m == message \o piece
             p == find_last_segment(m)
             q == llm_response_
  <1>1. piece \in Seq(Byte) /\ IsText(piece)
    BY SegmentationAssumption
  <1>2. message' = m /\ pc = "answering" /\ pc' = "answering"
    BY DEF Takes
  <1>3. m \in Seq(Byte) /\ Len(m) = Len(message) + Len(piece)
        /\ Len(message) \in Nat /\ Len(piece) \in Nat
        /\ \A i \in 1..Len(message) : m[i] = message[i]
    BY <1>1, Grown DEF Inv
  <1>4. IsText(m) /\ Len(m) <= MaxBytes
    BY <1>1, <1>3, GrownText DEF Inv, Takes
  <1>5. HandedOver = pos /\ HandedOver' = pos'
    BY <1>2 DEF HandedOver
  <1>6. Covers(q, m, pos) /\ Closed(q, m, Len(q))
    BY <1>1, <1>2, <1>5, GrownSentences DEF Inv
  <1>7. pos \in 0..Len(message) /\ pos \in Nat /\ pos \in 0..Len(m) /\ (pos # 0 => pos \in 1..Len(message))
    BY <1>3 DEF Inv
  <1>8. pos # 0 => m[pos] \in MarkEnds
    BY <1>3, <1>7 DEF Inv
  <1>9. q \in Sentences
    BY DEF Inv
  <1> HIDE DEF m
  <1>10. CASE p # npos /\ (p - pos) % SizeMax > 6
    <2>1. llm_response_' = push_llm_response(q, m, pos, p) /\ pos' = p
      BY <1>2, <1>10 DEF Takes, NextSentence, m
    <2>2. p \in 1..Len(m) /\ m[p] \in MarkEnds /\ (pos # 0 => pos <= p)
      <3>1. pos # 0 => pos \in 1..Len(m)
        BY <1>3, <1>7
      <3> QED
        BY <1>3, <1>4, <1>8, <1>10, <3>1, LastSegment
    <2> HIDE DEF p
    <2>3. p \in Nat /\ p <= Len(m) /\ pos <= p /\ p \in 0..Len(m) /\ p # 0
      <3>1. Len(m) \in Nat
        BY <1>3
      <3> QED
        BY <1>7, <2>2, <3>1
    <2>4. pos < p
      BY <1>7, <1>10, <2>3, CutIsLater
    <2>5. IsEnd(m[p]) /\ (pos = 0 \/ IsEnd(m[pos]))
      BY <1>8, <2>2 DEF MarkEnds, IsEnd
    <2>6. Len(q) \in Nat /\ Len(q) <= Len(q)
      BY <1>9, LenProperties DEF Sentences
    <2>7. push_llm_response(q, m, pos, p) \in Sentences
          /\ Covers(push_llm_response(q, m, pos, p), m, p)
      BY <1>3, <1>6, <1>7, <1>9, <2>3, <2>4, PushCovers
    <2>8. Closed(push_llm_response(q, m, pos, p), m, Len(push_llm_response(q, m, pos, p)))
      BY <1>3, <1>4, <1>6, <1>7, <1>9, <2>2, <2>3, <2>4, <2>5, <2>6, PushCloses
    <2> QED
      BY <1>2, <1>3, <1>4, <1>5, <2>1, <2>2, <2>3, <2>7, <2>8 DEF Inv
  <1>11. CASE ~(p # npos /\ (p - pos) % SizeMax > 6)
    <2>1. llm_response_' = q /\ pos' = pos
      BY <1>2, <1>11 DEF Takes, m
    <2> QED
      BY <1>2, <1>3, <1>4, <1>5, <1>6, <1>7, <1>8, <1>9, <2>1 DEF Inv
  <1> QED
    BY <1>10, <1>11

LEMMA InvFinishes == ASSUME Inv, Finishes PROVE Inv'
  <1> DEFINE q == llm_response_
             r == push_llm_response(q, message, pos, Len(message))
  <1>1. pc' = "done" /\ message' = message /\ pos' = pos /\ HandedOver = pos
        /\ HandedOver' = Len(message)
    BY DEF Finishes, HandedOver
  <1>2. Len(message) \in Nat /\ Len(q) \in Nat
    BY LenProperties DEF Inv, Sentences
  <1>3. Covers(q, message, pos) /\ Closed(q, message, Len(q)) /\ q \in Sentences
        /\ message \in Seq(Byte) /\ IsText(message) /\ pos \in 0..Len(message)
        /\ (pos # 0 => message[pos] \in MarkEnds) /\ Len(message) <= MaxBytes
    BY <1>1 DEF Inv, Finishes
  <1>4. pos \in Nat /\ pos <= Len(message)
    BY <1>2, <1>3
  <1>5. CASE pos < Len(message)
    <2>1. llm_response_' = r
      BY <1>5 DEF Finishes
    <2>2. r \in Sentences /\ Covers(r, message, Len(message))
      BY <1>2, <1>3, <1>4, <1>5, PushCovers
    <2>3. IsEnd(message[Len(message)]) /\ (pos = 0 \/ IsEnd(message[pos]))
      <3>1. Len(message) > 0
        BY <1>2, <1>4, <1>5
      <3> QED
        BY <1>3, <3>1, TextEnds DEF MarkEnds, IsEnd
    <2>4. Closed(r, message, Len(q)) /\ Len(r) \in {Len(q), Len(q) + 1}
      BY <1>2, <1>3, <1>4, <1>5, <2>3, PushCloses
    <2> HIDE DEF r
    <2>5. Closed(r, message, Len(r)) \/ \E n \in Nat : n + 1 = Len(r) /\ Closed(r, message, n)
      BY <1>2, <2>4
    <2> QED
      BY <1>1, <1>3, <2>1, <2>2, <2>5 DEF Inv
  <1>6. CASE ~(pos < Len(message))
    <2>1. llm_response_' = q /\ pos = Len(message)
      BY <1>2, <1>4, <1>6 DEF Finishes
    <2> QED
      BY <1>1, <1>3, <2>1 DEF Inv
  <1> QED
    BY <1>5, <1>6

LEMMA InvStep == ASSUME Inv, [Next]_vars PROVE Inv'
  <1>1. ASSUME NEW piece \in Pieces, Takes(piece) PROVE Inv'
    BY <1>1, InvTakes
  <1>2. CASE Finishes
    BY <1>2, InvFinishes
  <1>3. CASE Fails
    BY <1>3 DEF Fails, Inv, HandedOver
  <1>4. CASE Ended \/ UNCHANGED vars
    BY <1>4 DEF Ended, vars, Inv, HandedOver
  <1> QED
    BY <1>1, <1>2, <1>3, <1>4 DEF Next

\* Whatever the pieces of an answer, its sentences are the answer.
THEOREM SentencesMakeTheAnswer == Spec => []SentencesAreTheAnswer
  <1>1. Inv => SentencesAreTheAnswer
    <2>1. Inv => DOMAIN llm_response_ = 1..Len(llm_response_)
      BY LenProperties DEF Inv, Sentences
    <2> QED
      BY <2>1 DEF Inv, Covers, SentencesAreTheAnswer
  <1> QED
    BY <1>1, InvInit, InvStep, PTL DEF Spec

\* No sentence is cut inside a character, and all but the last end with a mark.
THEOREM CharactersStayWhole == Spec => []NoCharacterIsCut
  <1>1. Inv => NoCharacterIsCut
    <2> SUFFICES ASSUME Inv, NEW k \in 1..Len(llm_response_)
                 PROVE  /\ IsBegin(message[llm_response_[k][1] + 1])
                        /\ IsEnd(message[llm_response_[k][2]])
                        /\ message[llm_response_[k][2]] \in {",", "m3"}
                           \/ (pc = "done" /\ k = Len(llm_response_))
      <3>1. Inv => DOMAIN llm_response_ = 1..Len(llm_response_)
        BY LenProperties DEF Inv, Sentences
      <3> QED
        BY <3>1 DEF NoCharacterIsCut
    <2>1. Len(llm_response_) \in Nat
      BY LenProperties DEF Inv, Sentences
    <2>2. CASE Closed(llm_response_, message, Len(llm_response_))
      <3>1. k <= Len(llm_response_)
        BY <2>1
      <3> QED
        BY <2>2, <3>1 DEF Closed, MarkEnds
    <2>3. ASSUME pc = "done", NEW n \in Nat, n + 1 = Len(llm_response_),
                 Closed(llm_response_, message, n)
          PROVE  /\ IsBegin(message[llm_response_[k][1] + 1])
                 /\ IsEnd(message[llm_response_[k][2]])
                 /\ message[llm_response_[k][2]] \in {",", "m3"}
                    \/ (pc = "done" /\ k = Len(llm_response_))
      <3>1. k <= n \/ k = Len(llm_response_)
        BY <2>1, <2>3
      <3> QED
        BY <2>3, <3>1 DEF Closed, MarkEnds
    <2> QED
      BY <2>2, <2>3 DEF Inv
  <1> QED
    BY <1>1, InvInit, InvStep, PTL DEF Spec
=============================================================================
