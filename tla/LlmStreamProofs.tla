-------------------------- MODULE LlmStreamProofs --------------------------
(***************************************************************************)
(* Theorems about LlmStream, for answers of any length, cut into any number *)
(* of chunks and reads, and for whatever a read that ends inside a chunk     *)
(* makes of a size line: its types, that nothing is heard twice or in        *)
(* another order, and that the whole answer has been heard when the reading  *)
(* ends, unless a read ended inside a chunk or a callback got a piece it     *)
(* cannot use.                                                               *)
(***************************************************************************)
EXTENDS LlmStream, SequenceTheorems, FiniteSetTheorems, WellFoundedInduction, TLAPS

-----------------------------------------------------------------------------
(* Induction and recursion up to a number *)

\* What holds of 0 and passes from each number to the next one holds up to n: else
\* the intervals that reach what it fails for would have no smallest one.
LEMMA UpTo ==
    ASSUME NEW n \in Nat, NEW Holds, 0 \in Holds, \A i \in 1..n : i - 1 \in Holds => i \in Holds
    PROVE  0..n \subseteq Holds
  <1>. DEFINE Fails == {i \in 0..n : i \notin Holds}
              Reach(i) == 0..i
              Reaches == {Reach(i) : i \in Fails}
  <1>1. SUFFICES ASSUME Fails # {} PROVE FALSE
    OBVIOUS
  <1>2. Reaches \subseteq FiniteSubsetsOf(Nat) /\ Reaches # {}
    <2>1. \A i \in Fails : IsFiniteSet(Reach(i)) /\ Reach(i) \subseteq Nat
      BY FS_Interval
    <2>. QED  BY <1>1, <2>1 DEF FiniteSubsetsOf
  <1>3. PICK X \in Reaches : \A Y \in Reaches : <<Y, X>> \notin StrictSubsetOrdering(Nat)
    <2>1. IsWellFoundedOn(StrictSubsetOrdering(Nat), FiniteSubsetsOf(Nat))
      BY FS_StrictSubsetOrderingWellFounded
    <2>. HIDE DEF Reaches
    <2>. QED  BY <1>2, <2>1, WFMin
  <1>4. PICK i \in Fails : X = Reach(i)
    BY <1>3
  <1>5. i \in 1..n /\ i - 1 \in Fails
    OBVIOUS
  <1>6. /\ Reach(i - 1) \subseteq Reach(i) /\ Reach(i - 1) # Reach(i)
        /\ Reach(i - 1) \in SUBSET Nat /\ Reach(i) \in SUBSET Nat
    BY <1>5
  <1>7. Reach(i - 1) \in Reaches
    BY <1>5
  <1>. HIDE DEF Reach, Reaches
  <1>. QED  BY <1>3, <1>4, <1>6, <1>7 DEF StrictSubsetOrdering

\* Rules from each number up to n and a value to the next one.
Rules(n, V) == [(1..n) \X V -> V]
Obeys(f, n, base, rule) ==
    f[0] = base /\ \A i \in 1..n : f[i] = rule[<<i, f[i - 1]>>]

\* A value for 0 and a rule define a function.
LEMMA Recursion ==
    ASSUME NEW n \in Nat, NEW V, NEW base \in V, NEW rule \in Rules(n, V)
    PROVE  \E f \in [0..n -> V] : Obeys(f, n, base, rule)
  <1>. DEFINE Defined(k) == \E f \in [0..k -> V] :
                f[0] = base /\ \A i \in 1..k : f[i] = rule[<<i, f[i - 1]>>]
              Holds == {k \in 0..n : Defined(k)}
  <1>. USE DEF Rules, Obeys
  <1>1. 0 \in Holds
    <2>. DEFINE g == [i \in 0..0 |-> base]
    <2>1. g \in [0..0 -> V] /\ g[0] = base /\ \A i \in 1..0 : FALSE
      OBVIOUS
    <2>. HIDE DEF g
    <2>2. Defined(0)
      BY <2>1
    <2>. QED  BY <2>2
  <1>2. ASSUME NEW k \in 1..n, k - 1 \in Holds PROVE k \in Holds
    <2>1. PICK f \in [0..k - 1 -> V] :
            f[0] = base /\ \A i \in 1..k - 1 : f[i] = rule[<<i, f[i - 1]>>]
      BY <1>2
    <2>. DEFINE g == [i \in 0..k |-> IF i = k THEN rule[<<k, f[k - 1]>>] ELSE f[i]]
    <2>2. f[k - 1] \in V /\ rule[<<k, f[k - 1]>>] \in V
      <3>1. f[k - 1] \in V
        BY <2>1
      <3>. QED  BY <3>1
    <2>3. g \in [0..k -> V]
      BY <2>1, <2>2
    <2>4. g[0] = base
      BY <2>1
    <2>5. ASSUME NEW i \in 1..k PROVE g[i] = rule[<<i, g[i - 1]>>]
      <3>1. g[i - 1] = f[i - 1]
        OBVIOUS
      <3>2. CASE i = k
        <4>1. g[k] = rule[<<k, f[k - 1]>>]
          OBVIOUS
        <4>. HIDE DEF g
        <4>. QED  BY <3>1, <3>2, <4>1
      <3>3. CASE i # k
        <4>1. g[i] = f[i] /\ i \in 1..k - 1
          BY <3>3
        <4>. QED  BY <2>1, <3>1, <4>1
      <3>. QED  BY <3>2, <3>3
    <2>. HIDE DEF g
    <2>. QED  BY <2>3, <2>4, <2>5
  <1>3. 0..n \subseteq Holds
    <2>. HIDE DEF Holds
    <2>. QED  BY <1>1, <1>2, UpTo
  <1>4. n \in 0..n
    OBVIOUS
  <1>. QED  BY <1>3, <1>4

\* A set of natural numbers has a least element; Min finds it.
LEMMA MinProperties ==
    ASSUME NEW Holds, Holds \subseteq Nat, Holds # {}
    PROVE  Min(Holds) \in Holds /\ \A y \in Holds : Min(Holds) <= y
  <1> DEFINE Below(y) == 0..y
             Sets == {Below(y) : y \in Holds}
  <1>1. Sets \subseteq FiniteSubsetsOf(Nat)
    <2>1. \A y \in Holds : IsFiniteSet(Below(y))
      BY FS_Interval
    <2> QED
      BY <2>1 DEF FiniteSubsetsOf
  <1>2. IsWellFoundedOn(StrictSubsetOrdering(Nat), FiniteSubsetsOf(Nat))
    BY FS_StrictSubsetOrderingWellFounded
  <1>3. Sets # {}
    OBVIOUS
  <1>4. PICK X \in Sets : \A Y \in Sets : ~(<<Y, X>> \in StrictSubsetOrdering(Nat))
    <2> HIDE DEF Sets
    <2> QED
      BY <1>1, <1>2, <1>3, WFMin
  <1>5. PICK x \in Holds : X = Below(x)
    BY <1>4
  <1>6. ASSUME NEW y \in Holds PROVE x <= y
    <2>1. SUFFICES ASSUME y < x PROVE FALSE
      OBVIOUS
    <2>2. Below(y) \subseteq Below(x) /\ Below(y) # Below(x)
      BY <2>1
    <2>3. Below(y) \in SUBSET Nat /\ Below(x) \in SUBSET Nat
      OBVIOUS
    <2> HIDE DEF Below
    <2> QED
      BY <1>4, <1>5, <2>2, <2>3 DEF StrictSubsetOrdering
  <1> QED
    BY <1>6 DEF Min

\* A set of numbers up to n has a greatest one; Max finds it.
LEMMA MaxProperties ==
    ASSUME NEW n \in Nat, NEW Holds, Holds \subseteq 1..n, Holds # {}
    PROVE  Max(Holds) \in Holds /\ \A y \in Holds : Max(Holds) >= y
  <1> DEFINE D == {n - y : y \in Holds}
  <1>1. D \subseteq Nat
    OBVIOUS
  <1>0. D # {}
    OBVIOUS
  <1>2. PICK x \in Holds : Min(D) = n - x
    BY <1>0, <1>1, MinProperties
  <1>3. \A y \in Holds : n - x <= n - y
    BY <1>0, <1>1, <1>2, MinProperties
  <1>4. \A y \in Holds : x >= y
    BY <1>3
  <1> QED
    BY <1>2, <1>4 DEF Max

-----------------------------------------------------------------------------
(* Sequences one after another *)

\* What is put together up to the i-th of seqs.
Flattens(F, n, seqs, V) ==
    /\ F \in [0..n -> Seq(V)] /\ F[0] = <<>>
    /\ \A i \in 1..n : F[i] = F[i - 1] \o seqs[i]

\* FlattenSeq goes from sequence to sequence.
LEMMA Flattening ==
    ASSUME NEW V, NEW n \in Nat, NEW seqs \in [1..n -> Seq(V)]
    PROVE  \E F : Flattens(F, n, seqs, V) /\ FlattenSeq(seqs) = F[n]
  <1>. DEFINE W == Seq(V)
              rule == [x \in (1..n) \X W |-> x[2] \o seqs[x[1]]]
  <1>1. <<>> \in W /\ \A s, t \in W : s \o t \in W
    BY EmptySeq, ConcatProperties
  <1>2. rule \in Rules(n, W)
    <2>1. \A i \in 1..n : seqs[i] \in W
      OBVIOUS
    <2>. HIDE DEF W
    <2>. QED  BY <1>1, <2>1 DEF Rules
  <1>3. PICK F \in [0..n -> W] : F[0] = <<>> /\ \A i \in 1..n : F[i] = rule[<<i, F[i - 1]>>]
    <2>. HIDE DEF rule, W
    <2>1. \E f \in [0..n -> W] : Obeys(f, n, <<>>, rule)
      BY <1>1, <1>2, Recursion
    <2>. QED  BY <2>1 DEF Obeys
  <1>4. ASSUME NEW i \in 1..n PROVE F[i] = F[i - 1] \o seqs[i]
    <2>1. <<i, F[i - 1]>> \in (1..n) \X W
      <3>1. i - 1 \in 0..n
        OBVIOUS
      <3>. HIDE DEF W
      <3>. QED  BY <1>3, <3>1
    <2>2. rule[<<i, F[i - 1]>>] = F[i - 1] \o seqs[i]
      <3>. HIDE DEF W
      <3>. QED  BY <2>1
    <2>. QED  BY <1>3, <2>2
  <1>5. Flattens(F, n, seqs, V)
    BY <1>3, <1>4 DEF Flattens
  <1>6. Len(seqs) = n
    OBVIOUS
  <1>7. CASE n = 0
    <2>1. FlattenSeq(seqs) = seqs
      BY <1>6, <1>7 DEF FlattenSeq
    <2>2. seqs = <<>>
      BY <1>7
    <2>. QED  BY <1>3, <1>5, <1>7, <2>1, <2>2
  <1>8. CASE n # 0
    <2>. DEFINE Follows(h) == h = [i \in 1..n |-> IF i = 1 THEN seqs[i] ELSE h[i - 1] \o seqs[i]]
                flatten == CHOOSE h : Follows(h)
                G == [i \in 1..n |-> F[i]]
    <2>1. Follows(G)
      <3>1. ASSUME NEW i \in 1..n
            PROVE  G[i] = IF i = 1 THEN seqs[i] ELSE G[i - 1] \o seqs[i]
        <4>1. G[i] = F[i - 1] \o seqs[i]
          BY <1>4
        <4>2. CASE i = 1
          <5>1. seqs[1] \in Seq(V) /\ F[0] = <<>>
            BY <1>3, <4>2
          <5>2. F[0] \o seqs[1] = seqs[1]
            BY <5>1, ConcatEmptySeq
          <5>3. i - 1 = 0
            BY <4>2
          <5>4. G[i] = F[0] \o seqs[1]
            <6>. HIDE DEF G
            <6>. QED  BY <4>1, <4>2, <5>3
          <5>. HIDE DEF G
          <5>. QED  BY <4>2, <5>2, <5>4
        <4>3. CASE i # 1
          <5>1. i - 1 \in 1..n
            BY <4>3
          <5>. QED  BY <4>1, <4>3, <5>1
        <4>. QED  BY <4>2, <4>3
      <3>2. G = [i \in 1..n |-> G[i]]
        OBVIOUS
      <3>. HIDE DEF G
      <3>. QED  BY <3>1, <3>2
    <2>2. Follows(flatten)
      <3>. HIDE DEF Follows, G
      <3>. QED  BY <2>1
    <2>3. FlattenSeq(seqs) = flatten[n]
      BY <1>6, <1>8 DEF FlattenSeq
    <2>. HIDE DEF flatten
    <2>4. 0..n - 1 \subseteq {i \in 0..n - 1 : flatten[i + 1] = F[i + 1]}
      <3>. DEFINE Holds == {i \in 0..n - 1 : flatten[i + 1] = F[i + 1]}
      <3>1. 0 \in Holds
        <4>1. 1 \in 1..n /\ seqs[1] \in Seq(V) /\ F[0] = <<>>
          BY <1>3, <1>8
        <4>2. F[1] = <<>> \o seqs[1]
          <5>1. F[1] = F[1 - 1] \o seqs[1]
            BY <1>4, <4>1
          <5>2. 1 - 1 = 0
            OBVIOUS
          <5>. QED  BY <4>1, <5>1, <5>2
        <4>3. F[1] = seqs[1]
          BY <4>1, <4>2, ConcatEmptySeq
        <4>4. flatten[1] = seqs[1]
          BY <2>2, <4>1
        <4>. QED  BY <1>8, <4>3, <4>4
      <3>2. ASSUME NEW i \in 1..n - 1, i - 1 \in Holds PROVE i \in Holds
        <4>1. i + 1 \in 1..n /\ (i + 1) - 1 = i /\ i + 1 # 1
          OBVIOUS
        <4>2. flatten[i + 1] = flatten[i] \o seqs[i + 1]
          BY <2>2, <4>1
        <4>3. F[i + 1] = F[i] \o seqs[i + 1]
          BY <1>4, <4>1
        <4>4. flatten[i] = F[i]
          <5>1. (i - 1) + 1 = i
            OBVIOUS
          <5>. QED  BY <3>2, <5>1
        <4>5. flatten[i + 1] = F[i + 1]
          BY <4>2, <4>3, <4>4
        <4>6. i \in 0..n - 1
          OBVIOUS
        <4>. QED  BY <4>5, <4>6
      <3>. HIDE DEF Holds
      <3>3. n - 1 \in Nat
        BY <1>8
      <3>4. 0..n - 1 \subseteq Holds
        BY <3>1, <3>2, <3>3, UpTo
      <3>. QED  BY <3>4 DEF Holds
    <2>5. n - 1 \in 0..n - 1 /\ (n - 1) + 1 = n
      BY <1>8
    <2>6. flatten[n] = F[n]
      BY <2>4, <2>5
    <2>. QED  BY <1>5, <2>3, <2>6
  <1>. QED  BY <1>7, <1>8

\* Where each of some sequences lies in what they make together: at[i] is where the
\* i-th ends.
Laid(s, n, seqs, at) ==
    /\ Len(s) = at[n]
    /\ \A i \in 1..n : \A r \in 1..Len(seqs[i]) :
         at[i - 1] + r \in 1..at[n] /\ s[at[i - 1] + r] = seqs[i][r]
    /\ \A q \in 1..at[n] : \E i \in 1..n : \E r \in 1..Len(seqs[i]) : q = at[i - 1] + r
    /\ \A i, k \in 0..n : i <= k => at[i] <= at[k]

\* The ends of n sequences.
EndsOf(at, n, seqs) ==
    at \in [0..n -> Nat] /\ at[0] = 0 /\ \A i \in 1..n : at[i] = at[i - 1] + Len(seqs[i])

\* A sequence more is laid behind the others.
LEMMA LaidNext ==
    ASSUME NEW V, NEW n \in Nat, NEW seqs \in [1..n -> Seq(V)], NEW at, EndsOf(at, n, seqs),
           NEW k \in 1..n, NEW s \in Seq(V), Laid(s, k - 1, seqs, at)
    PROVE  s \o seqs[k] \in Seq(V) /\ Laid(s \o seqs[k], k, seqs, at)
  <1>. DEFINE t == seqs[k]
              u == s \o t
  <1>1. t \in Seq(V)
    OBVIOUS
  <1>2. /\ u \in Seq(V) /\ Len(u) = Len(s) + Len(t)
        /\ \A j \in 1..Len(s) : u[j] = s[j]
        /\ \A j \in 1..Len(t) : u[Len(s) + j] = t[j]
    <2>. HIDE DEF t
    <2>1. Len(s) \in Nat /\ Len(t) \in Nat
      BY <1>1, LenProperties
    <2>2. \A j \in 1..Len(t) : u[Len(s) + j] = t[j]
      BY <1>1
    <2>. QED  BY <1>1, <2>2
  <1>3. Len(s) \in Nat /\ Len(t) \in Nat /\ at[k] \in Nat /\ at[k - 1] \in Nat
    BY <1>1, LenProperties DEF EndsOf
  <1>4. Len(s) = at[k - 1] /\ at[k] = at[k - 1] + Len(t)
    BY DEF Laid, EndsOf
  <1>. HIDE DEF u
  <1>5. Len(u) = at[k]
    BY <1>2, <1>4
  <1>6. ASSUME NEW i \in 1..k, NEW r \in 1..Len(seqs[i])
        PROVE  at[i - 1] + r \in 1..at[k] /\ u[at[i - 1] + r] = seqs[i][r]
    <2>1. CASE i = k
      <3>1. r \in 1..Len(t)
        BY <2>1
      <3>2. at[i - 1] + r = Len(s) + r /\ Len(s) + r \in 1..at[k]
        <4>1. at[i - 1] = Len(s)
          BY <2>1, <1>4
        <4>. QED  BY <4>1, <3>1, <1>3, <1>4
      <3>3. u[Len(s) + r] = t[r]
        BY <3>1, <1>2
      <3>. QED  BY <2>1, <3>2, <3>3
    <2>2. CASE i # k
      <3>1. i \in 1..k - 1
        BY <2>2
      <3>2. at[i - 1] + r \in 1..at[k - 1] /\ s[at[i - 1] + r] = seqs[i][r]
        BY <3>1 DEF Laid
      <3>3. at[i - 1] + r \in 1..at[k]
        BY <3>2, <1>3, <1>4
      <3>. QED  BY <3>2, <3>3, <1>2, <1>4
    <2>. QED  BY <2>1, <2>2
  <1>7. ASSUME NEW q \in 1..at[k]
        PROVE  \E i \in 1..k : \E r \in 1..Len(seqs[i]) : q = at[i - 1] + r
    <2>1. CASE q <= at[k - 1]
      <3>1. q \in 1..at[k - 1]
        BY <2>1, <1>3
      <3>2. PICK i \in 1..k - 1 : \E r \in 1..Len(seqs[i]) : q = at[i - 1] + r
        BY <3>1 DEF Laid
      <3>. QED  BY <3>2
    <2>2. CASE ~(q <= at[k - 1])
      <3>1. q - at[k - 1] \in 1..Len(t) /\ q = at[k - 1] + (q - at[k - 1])
        BY <2>2, <1>3, <1>4
      <3>2. k \in 1..k
        OBVIOUS
      <3>. QED  BY <3>1, <3>2
    <2>. QED  BY <2>1, <2>2
  <1>8. ASSUME NEW i \in 0..k, NEW j \in 0..k, i <= j PROVE at[i] <= at[j]
    <2>1. CASE j = k /\ i # k
      <3>1. i \in 0..k - 1 /\ k - 1 \in 0..k - 1 /\ i <= k - 1
        BY <1>8, <2>1
      <3>2. at[i] <= at[k - 1] /\ at[i] \in Nat
        <4>1. i \in 0..n
          OBVIOUS
        <4>. QED  BY <3>1, <4>1 DEF Laid, EndsOf
      <3>. QED  BY <2>1, <3>2, <1>3, <1>4
    <2>2. CASE j = k /\ i = k
      BY <2>2, <1>3
    <2>3. CASE j # k
      <3>1. i \in 0..k - 1 /\ j \in 0..k - 1
        BY <1>8, <2>3
      <3>. QED  BY <1>8, <3>1 DEF Laid
    <2>. QED  BY <2>1, <2>2, <2>3
  <1>9. Laid(u, k, seqs, at)
    BY <1>5, <1>6, <1>7, <1>8 DEF Laid
  <1>. QED  BY <1>2, <1>9 DEF u

\* FlattenSeq lays sequences one behind the other.
LEMMA FlattenLays ==
    ASSUME NEW V, NEW n \in Nat, NEW seqs \in [1..n -> Seq(V)], NEW at, EndsOf(at, n, seqs)
    PROVE  FlattenSeq(seqs) \in Seq(V) /\ Laid(FlattenSeq(seqs), n, seqs, at)
  <1>1. PICK F : Flattens(F, n, seqs, V) /\ FlattenSeq(seqs) = F[n]
    BY Flattening
  <1>. DEFINE Holds == {i \in 0..n : Laid(F[i], i, seqs, at)}
  <1>2. 0 \in Holds
    <2>1. F[0] = <<>> /\ at[0] = 0
      BY <1>1 DEF Flattens, EndsOf
    <2>2. Laid(F[0], 0, seqs, at)
      <3>1. Len(F[0]) = at[0]
        BY <2>1
      <3>2. 1..at[0] = {} /\ 1..0 = {}
        BY <2>1
      <3>3. ASSUME NEW i \in 0..0, NEW k \in 0..0 PROVE at[i] <= at[k]
        <4>1. i = 0 /\ k = 0
          OBVIOUS
        <4>2. at[i] = 0 /\ at[k] = 0
          BY <2>1, <4>1
        <4>. QED  BY <4>2
      <3>. QED  BY <3>1, <3>2, <3>3, Zenon DEF Laid
    <2>. QED  BY <2>2
  <1>3. ASSUME NEW i \in 1..n, i - 1 \in Holds PROVE i \in Holds
    <2>1. Laid(F[i - 1], i - 1, seqs, at)
      BY <1>3
    <2>2. F[i - 1] \in Seq(V) /\ F[i] = F[i - 1] \o seqs[i]
      <3>1. i - 1 \in 0..n
        OBVIOUS
      <3>. QED  BY <3>1, <1>1 DEF Flattens
    <2>3. Laid(F[i - 1] \o seqs[i], i, seqs, at)
      BY <2>1, <2>2, LaidNext
    <2>4. Laid(F[i], i, seqs, at)
      BY <2>2, <2>3
    <2>5. i \in 0..n
      OBVIOUS
    <2>. QED  BY <2>4, <2>5
  <1>. HIDE DEF Holds
  <1>4. 0..n \subseteq Holds
    BY <1>2, <1>3, UpTo
  <1>5. n \in 0..n
    OBVIOUS
  <1>6. Laid(F[n], n, seqs, at)
    BY <1>4, <1>5 DEF Holds
  <1>7. F[n] \in Seq(V)
    BY <1>1, <1>5 DEF Flattens
  <1>. QED  BY <1>1, <1>6, <1>7

\* What u = s \o t and u = Append(s, e) say of every position.
Concatenates(u, s, t) ==
    /\ Len(u) = Len(s) + Len(t) /\ \A j \in 1..Len(s) : u[j] = s[j]
    /\ \A j \in 1..Len(t) : u[Len(s) + j] = t[j]
Appends(u, s, e) ==
    Len(u) = Len(s) + 1 /\ (\A j \in 1..Len(s) : u[j] = s[j]) /\ u[Len(s) + 1] = e

\* \o, by positions.
LEMMA Concatenating ==
    ASSUME NEW V, NEW s \in Seq(V), NEW t \in Seq(V)
    PROVE  s \o t \in Seq(V) /\ Concatenates(s \o t, s, t)
  <1>. DEFINE u == s \o t
  <1>1. Len(s) \in Nat /\ Len(t) \in Nat
    BY LenProperties
  <1>2. u \in Seq(V) /\ Len(u) = Len(s) + Len(t) /\ \A j \in 1..Len(s) : u[j] = s[j]
    OBVIOUS
  <1>3. \A j \in 1..Len(t) : u[Len(s) + j] = t[j]
    OBVIOUS
  <1>. QED  BY <1>2, <1>3 DEF Concatenates

\* Append, by positions.
LEMMA Appending ==
    ASSUME NEW V, NEW s \in Seq(V), NEW e \in V
    PROVE  Append(s, e) \in Seq(V) /\ Appends(Append(s, e), s, e)
  <1>. DEFINE u == Append(s, e)
  <1>1. Len(s) \in Nat
    BY LenProperties
  <1>2. u \in Seq(V) /\ Len(u) = Len(s) + 1 /\ \A j \in 1..Len(s) : u[j] = s[j]
    OBVIOUS
  <1>3. u[Len(s) + 1] = e
    OBVIOUS
  <1>. QED  BY <1>2, <1>3 DEF Appends

Kinds == {"http", "end", "size", "cr", "lf", "da", "ta", "j1", "j2", "ev", "nl"}
Token == Kinds \X Nat

\* The data of event n behind position q.
DataAt(s, q, n) ==
    /\ s[q + 1] = T("da", 0) /\ s[q + 2] = T("ta", 0) /\ s[q + 3] = T("j1", n)
    /\ s[q + 4] = T("j2", n) /\ s[q + 5] = Newline

\* Openai's last line is [DONE].
EventOf(n, k) == IF k <= n THEN k ELSE 0

OpenaiBody(s, n) ==
    /\ s \in Seq(Token) /\ Len(s) = 5 * n + 5
    /\ \A k \in 1..n + 1 : DataAt(s, 5 * k - 5, EventOf(n, k))
DifyBody(s, n) ==
    /\ s \in Seq(Token) /\ Len(s) = 6 * n
    /\ \A k \in 1..n : DataAt(s, 6 * k - 6, k) /\ s[6 * k] = Newline
CozeBody(s, n) ==
    /\ s \in Seq(Token) /\ Len(s) = 7 * n
    /\ \A k \in 1..n : DataAt(s, 7 * k - 5, k) /\ s[7 * k - 6] = T("ev", k) /\ s[7 * k - 5] = Newline
IsBody(p, s, n) ==
    /\ p = "Openai" => OpenaiBody(s, n)
    /\ p = "Dify" => DifyBody(s, n)
    /\ p = "CozeV3" => CozeBody(s, n)

\* What a line is made of.
LEMMA LineTokens ==
    ASSUME NEW n \in Nat
    PROVE  Line(n) \in Seq(Token) /\ Len(Line(n)) = 5 /\ DataAt(Line(n), 0, n)
  <1>1. Line(n) = <<T("da", 0), T("ta", 0), T("j1", n), T("j2", n), Newline>>
    BY DEF Line
  <1>2. /\ T("da", 0) \in Token /\ T("ta", 0) \in Token /\ T("j1", n) \in Token
        /\ T("j2", n) \in Token /\ Newline \in Token
    BY DEF T, Newline, Token, Kinds
  <1>. QED  BY <1>1, <1>2 DEF DataAt

\* Dify's and Coze's lines of an event.
LEMMA EventTokens ==
    ASSUME NEW n \in Nat
    PROVE  /\ EventLines("Openai", n) = Line(n)
           /\ EventLines("Dify", n) \in Seq(Token) /\ Len(EventLines("Dify", n)) = 6
           /\ DataAt(EventLines("Dify", n), 0, n) /\ EventLines("Dify", n)[6] = Newline
           /\ EventLines("CozeV3", n) \in Seq(Token) /\ Len(EventLines("CozeV3", n)) = 7
           /\ DataAt(EventLines("CozeV3", n), 2, n)
           /\ EventLines("CozeV3", n)[1] = T("ev", n) /\ EventLines("CozeV3", n)[2] = Newline
  <1>. DEFINE line == Line(n)
              name == <<T("ev", n), Newline>>
  <1>1. line \in Seq(Token) /\ Len(line) = 5 /\ DataAt(line, 0, n)
    BY LineTokens
  <1>2. T("ev", n) \in Token /\ Newline \in Token
    BY DEF T, Newline, Token, Kinds
  <1>3. /\ EventLines("Openai", n) = line /\ EventLines("Dify", n) = Append(line, Newline)
        /\ EventLines("CozeV3", n) = name \o line
    BY DEF EventLines
  <1>4. /\ name \in Seq(Token) /\ Len(name) = 2 /\ name[1] = T("ev", n) /\ name[2] = Newline
    BY <1>2
  <1>. HIDE DEF line, name
  <1>5. Append(line, Newline) \in Seq(Token) /\ Len(Append(line, Newline)) = 6
        /\ DataAt(Append(line, Newline), 0, n) /\ Append(line, Newline)[6] = Newline
    <2>. DEFINE u == Append(line, Newline)
    <2>1. u \in Seq(Token) /\ Appends(u, line, Newline)
      BY <1>1, <1>2, Appending
    <2>. HIDE DEF u
    <2>2. Len(u) = 6 /\ u[6] = Newline /\ \A j \in 1..5 : u[j] = line[j]
      BY <1>1, <2>1 DEF Appends
    <2>3. DataAt(u, 0, n)
      BY <1>1, <2>2 DEF DataAt
    <2>. QED  BY <2>1, <2>2, <2>3 DEF u
  <1>6. /\ name \o line \in Seq(Token) /\ Len(name \o line) = 7
        /\ (name \o line)[1] = T("ev", n) /\ (name \o line)[2] = Newline
        /\ DataAt(name \o line, 2, n)
    <2>. DEFINE u == name \o line
    <2>1. u \in Seq(Token) /\ Concatenates(u, name, line)
      BY <1>1, <1>4, Concatenating
    <2>. HIDE DEF u
    <2>2. Len(u) = 7 /\ (\A j \in 1..2 : u[j] = name[j]) /\ \A j \in 1..5 : u[2 + j] = line[j]
      BY <1>1, <1>4, <2>1 DEF Concatenates
    <2>3. /\ u[2 + 1] = line[1] /\ u[2 + 2] = line[2] /\ u[2 + 3] = line[3] /\ u[2 + 4] = line[4]
          /\ u[2 + 5] = line[5] /\ u[1] = name[1] /\ u[2] = name[2]
      BY <2>2
    <2>4. DataAt(u, 2, n)
      BY <1>1, <2>3 DEF DataAt
    <2>. QED  BY <1>4, <2>1, <2>2, <2>3, <2>4 DEF u
  <1>. QED  BY <1>3, <1>5, <1>6 DEF line

\* The body that the events of an answer make.
LEMMA BodyTokens ==
    ASSUME NEW p \in Providers, NEW V, NEW es \in Seq(V)
    PROVE  IsBody(p, Body(p, es), Len(es))
  <1>. DEFINE n == Len(es)
              seqs == [k \in DOMAIN es |-> EventLines(p, k)]
              flat == FlattenSeq(seqs)
  <1>0. n \in Nat /\ DOMAIN es = 1..n
    BY LenProperties
  <1>. HIDE DEF n
  <1>1. seqs = [k \in 1..n |-> EventLines(p, k)] /\ \A k \in 1..n : k \in Nat
    BY <1>0
  <1>2. Body(p, es) = flat \o IF p = "Openai" THEN Line(0) ELSE <<>>
    BY DEF Body
  <1>. HIDE DEF flat
  <1>3. CASE p = "Openai"
    <2>. DEFINE at == [k \in 0..n |-> 5 * k]
                s == Body(p, es)
    <2>1. \A k \in 1..n : seqs[k] \in Seq(Token) /\ Len(seqs[k]) = 5 /\ DataAt(seqs[k], 0, k)
      BY <1>1, <1>3, EventTokens, LineTokens
    <2>2. seqs \in [1..n -> Seq(Token)]
      BY <1>1, <2>1
    <2>3. EndsOf(at, n, seqs)
      <3>. HIDE DEF seqs
      <3>1. at \in [0..n -> Nat] /\ at[0] = 0
        BY <1>0
      <3>2. \A k \in 1..n : at[k] = at[k - 1] + 5
        BY <1>0
      <3>. HIDE DEF at
      <3>. QED  BY <2>1, <3>1, <3>2 DEF EndsOf
    <2>4. flat \in Seq(Token) /\ Laid(flat, n, seqs, at)
      <3>. HIDE DEF seqs, at
      <3>. QED  BY <1>0, <2>2, <2>3, FlattenLays DEF flat
    <2>. HIDE DEF seqs
    <2>5. Len(flat) = 5 * n /\ \A k \in 1..n : DataAt(flat, 5 * k - 5, k)
      <3>1. n \in 0..n /\ at[n] = 5 * n
        BY <1>0
      <3>2. \A k \in 1..n : at[k - 1] = 5 * k - 5
        BY <1>0
      <3>. HIDE DEF at
      <3>3. ASSUME NEW k \in 1..n PROVE DataAt(flat, 5 * k - 5, k)
        <4>1. \A r \in 1..5 : flat[at[k - 1] + r] = seqs[k][r]
          BY <2>1, <2>4 DEF Laid
        <4>2. /\ flat[at[k - 1] + 1] = seqs[k][1] /\ flat[at[k - 1] + 2] = seqs[k][2]
              /\ flat[at[k - 1] + 3] = seqs[k][3] /\ flat[at[k - 1] + 4] = seqs[k][4]
              /\ flat[at[k - 1] + 5] = seqs[k][5]
          BY <4>1
        <4>3. DataAt(seqs[k], 0, k)
          BY <2>1
        <4>4. DataAt(flat, at[k - 1], k)
          BY <4>2, <4>3 DEF DataAt
        <4>. QED  BY <4>4, <3>2
      <3>. QED  BY <2>4, <3>1, <3>3 DEF Laid
    <2>6. Line(0) \in Seq(Token) /\ Len(Line(0)) = 5 /\ DataAt(Line(0), 0, 0)
      BY LineTokens
    <2>7. s = flat \o Line(0)
      BY <1>2, <1>3
    <2>. HIDE DEF s
    <2>8. /\ s \in Seq(Token) /\ Len(s) = 5 * n + 5
          /\ \A j \in 1..5 * n : s[j] = flat[j]
          /\ \A j \in 1..5 : s[5 * n + j] = Line(0)[j]
      <3>. DEFINE last == Line(0)
                  m == 5 * n
      <3>1. m \in Nat /\ m = 5 * n
        BY <1>0
      <3>. HIDE DEF last, m
      <3>2. last \in Seq(Token) /\ Len(last) = 5 /\ s = flat \o last /\ Len(flat) = m
        BY <2>5, <2>6, <2>7, <3>1 DEF last
      <3>3. /\ s \in Seq(Token) /\ Len(s) = m + 5
            /\ \A j \in 1..m : s[j] = flat[j]
            /\ \A j \in 1..5 : s[m + j] = last[j]
        <4>1. s \in Seq(Token) /\ Concatenates(s, flat, last)
          BY <2>4, <3>2, Concatenating
        <4>. QED  BY <3>1, <3>2, <4>1 DEF Concatenates
      <3>. QED  BY <3>1, <3>3 DEF last
    <2>9. ASSUME NEW k \in 1..n + 1 PROVE DataAt(s, 5 * k - 5, EventOf(n, k))
      <3>1. CASE k <= n
        <4>1. DataAt(flat, 5 * k - 5, k) /\ EventOf(n, k) = k
          BY <2>5, <3>1 DEF EventOf
        <4>2. \A r \in 1..5 : (5 * k - 5) + r \in 1..5 * n
          BY <1>0, <3>1
        <4>3. \A r \in 1..5 : s[(5 * k - 5) + r] = flat[(5 * k - 5) + r]
          BY <2>8, <4>2
        <4>. QED  BY <4>1, <4>3 DEF DataAt
      <3>2. CASE ~(k <= n)
        <4>1. 5 * k - 5 = 5 * n /\ EventOf(n, k) = 0
          BY <1>0, <3>2 DEF EventOf
        <4>2. DataAt(s, 5 * n, 0)
          <5>1. /\ s[5 * n + 1] = Line(0)[1] /\ s[5 * n + 2] = Line(0)[2]
                /\ s[5 * n + 3] = Line(0)[3] /\ s[5 * n + 4] = Line(0)[4]
                /\ s[5 * n + 5] = Line(0)[5]
            BY <2>8
          <5>. QED  BY <2>6, <5>1 DEF DataAt
        <4>. QED  BY <4>1, <4>2
      <3>. QED  BY <3>1, <3>2
    <2>10. OpenaiBody(s, n)
      BY <2>8, <2>9 DEF OpenaiBody
    <2>. QED  BY <1>3, <2>10 DEF IsBody, n, s
  <1>4. CASE p = "Dify"
    <2>. DEFINE at == [k \in 0..n |-> 6 * k]
    <2>1. \A k \in 1..n : /\ seqs[k] \in Seq(Token) /\ Len(seqs[k]) = 6 /\ DataAt(seqs[k], 0, k)
                          /\ seqs[k][6] = Newline
      BY <1>1, <1>4, EventTokens
    <2>2. seqs \in [1..n -> Seq(Token)]
      BY <1>1, <2>1
    <2>3. EndsOf(at, n, seqs)
      <3>. HIDE DEF seqs
      <3>1. at \in [0..n -> Nat] /\ at[0] = 0
        BY <1>0
      <3>2. \A k \in 1..n : at[k] = at[k - 1] + 6
        BY <1>0
      <3>. HIDE DEF at
      <3>. QED  BY <2>1, <3>1, <3>2 DEF EndsOf
    <2>4. flat \in Seq(Token) /\ Laid(flat, n, seqs, at)
      <3>. HIDE DEF seqs, at
      <3>. QED  BY <1>0, <2>2, <2>3, FlattenLays DEF flat
    <2>. HIDE DEF seqs
    <2>5. Len(flat) = 6 * n /\ \A k \in 1..n : DataAt(flat, 6 * k - 6, k) /\ flat[6 * k] = Newline
      <3>1. n \in 0..n /\ at[n] = 6 * n
        BY <1>0
      <3>2. \A k \in 1..n : at[k - 1] = 6 * k - 6
        BY <1>0
      <3>. HIDE DEF at
      <3>3. ASSUME NEW k \in 1..n PROVE DataAt(flat, 6 * k - 6, k) /\ flat[6 * k] = Newline
        <4>1. \A r \in 1..6 : flat[at[k - 1] + r] = seqs[k][r]
          BY <2>1, <2>4 DEF Laid
        <4>2. /\ flat[at[k - 1] + 1] = seqs[k][1] /\ flat[at[k - 1] + 2] = seqs[k][2]
              /\ flat[at[k - 1] + 3] = seqs[k][3] /\ flat[at[k - 1] + 4] = seqs[k][4]
              /\ flat[at[k - 1] + 5] = seqs[k][5] /\ flat[at[k - 1] + 6] = seqs[k][6]
          BY <4>1
        <4>3. DataAt(seqs[k], 0, k) /\ seqs[k][6] = Newline
          BY <2>1
        <4>4. DataAt(flat, at[k - 1], k) /\ flat[at[k - 1] + 6] = Newline
          BY <4>2, <4>3 DEF DataAt
        <4>5. (6 * k - 6) + 6 = 6 * k
          OBVIOUS
        <4>. QED  BY <4>4, <4>5, <3>2
      <3>. QED  BY <2>4, <3>1, <3>3 DEF Laid
    <2>7. Body(p, es) = flat
      <3>1. Body(p, es) = flat \o <<>>
        BY <1>2, <1>4
      <3>. QED  BY <2>4, <3>1, ConcatEmptySeq
    <2>10. DifyBody(flat, n)
      BY <2>4, <2>5 DEF DifyBody
    <2>. QED  BY <1>4, <2>7, <2>10 DEF IsBody, n
  <1>5. CASE p = "CozeV3"
    <2>. DEFINE at == [k \in 0..n |-> 7 * k]
    <2>1. \A k \in 1..n : /\ seqs[k] \in Seq(Token) /\ Len(seqs[k]) = 7 /\ DataAt(seqs[k], 2, k)
                          /\ seqs[k][1] = T("ev", k) /\ seqs[k][2] = Newline
      BY <1>1, <1>5, EventTokens
    <2>2. seqs \in [1..n -> Seq(Token)]
      BY <1>1, <2>1
    <2>3. EndsOf(at, n, seqs)
      <3>. HIDE DEF seqs
      <3>1. at \in [0..n -> Nat] /\ at[0] = 0
        BY <1>0
      <3>2. \A k \in 1..n : at[k] = at[k - 1] + 7
        BY <1>0
      <3>. HIDE DEF at
      <3>. QED  BY <2>1, <3>1, <3>2 DEF EndsOf
    <2>4. flat \in Seq(Token) /\ Laid(flat, n, seqs, at)
      <3>. HIDE DEF seqs, at
      <3>. QED  BY <1>0, <2>2, <2>3, FlattenLays DEF flat
    <2>. HIDE DEF seqs
    <2>5. Len(flat) = 7 * n /\ \A k \in 1..n : /\ DataAt(flat, 7 * k - 5, k)
                                               /\ flat[7 * k - 6] = T("ev", k)
                                               /\ flat[7 * k - 5] = Newline
      <3>1. n \in 0..n /\ at[n] = 7 * n
        BY <1>0
      <3>2. \A k \in 1..n : at[k - 1] = 7 * k - 7
        BY <1>0
      <3>. HIDE DEF at
      <3>3. ASSUME NEW k \in 1..n
            PROVE  /\ DataAt(flat, 7 * k - 5, k) /\ flat[7 * k - 6] = T("ev", k)
                   /\ flat[7 * k - 5] = Newline
        <4>1. \A r \in 1..7 : flat[at[k - 1] + r] = seqs[k][r]
          BY <2>1, <2>4 DEF Laid
        <4>2. /\ flat[(7 * k - 7) + 1] = seqs[k][1] /\ flat[(7 * k - 7) + 2] = seqs[k][2]
              /\ flat[(7 * k - 7) + 3] = seqs[k][3] /\ flat[(7 * k - 7) + 4] = seqs[k][4]
              /\ flat[(7 * k - 7) + 5] = seqs[k][5] /\ flat[(7 * k - 7) + 6] = seqs[k][6]
              /\ flat[(7 * k - 7) + 7] = seqs[k][7]
          BY <3>2, <4>1
        <4>3. DataAt(seqs[k], 2, k) /\ seqs[k][1] = T("ev", k) /\ seqs[k][2] = Newline
          BY <2>1
        <4>4. /\ (7 * k - 7) + 1 = 7 * k - 6 /\ (7 * k - 7) + 2 = 7 * k - 5
              /\ (7 * k - 7) + 3 = (7 * k - 5) + 1 /\ (7 * k - 7) + 4 = (7 * k - 5) + 2
              /\ (7 * k - 7) + 5 = (7 * k - 5) + 3 /\ (7 * k - 7) + 6 = (7 * k - 5) + 4
              /\ (7 * k - 7) + 7 = (7 * k - 5) + 5
          OBVIOUS
        <4>5. DataAt(flat, 7 * k - 5, k)
          BY <4>2, <4>3, <4>4 DEF DataAt
        <4>. QED  BY <4>2, <4>3, <4>4, <4>5
      <3>. QED  BY <2>4, <3>1, <3>3 DEF Laid
    <2>7. Body(p, es) = flat
      <3>1. Body(p, es) = flat \o <<>>
        BY <1>2, <1>5
      <3>. QED  BY <2>4, <3>1, ConcatEmptySeq
    <2>10. CozeBody(flat, n)
      BY <2>4, <2>5 DEF CozeBody
    <2>. QED  BY <1>5, <2>7, <2>10 DEF IsBody, n
  <1>. QED  BY <1>3, <1>4, <1>5 DEF Providers

-----------------------------------------------------------------------------
(* The response *)

\* Where the chunks of a body of length l end: m of them.
Cuts(E, m, l) ==
    /\ E \in [0..m -> Nat] /\ E[0] = 0 /\ E[m] = l
    /\ \A i \in 1..m : E[i - 1] < E[i]
    /\ \A i, k \in 0..m : i <= k => E[i] <= E[k]

\* The position in the response behind chunk i.
Behind(E, i) == 5 * i + E[i] + 2

\* The response, position by position.
Response(w, body, E, m) ==
    /\ w \in Seq(Token) /\ Len(w) = 5 * m + E[m] + 5
    /\ w[1] = T("http", 0) /\ w[2] = T("end", 0)
    /\ \A i \in 1..m :
         /\ w[Behind(E, i - 1) + 1] = T("size", E[i] - E[i - 1])
         /\ w[Behind(E, i - 1) + 2] = T("cr", 0) /\ w[Behind(E, i - 1) + 3] = T("lf", 0)
         /\ \A b \in E[i - 1] + 1..E[i] : w[5 * i + b] = body[b]
         /\ w[Behind(E, i) - 1] = T("cr", 0) /\ w[Behind(E, i)] = T("lf", 0)
    /\ w[Behind(E, m) + 1] = T("size", 0)
    /\ w[Behind(E, m) + 2] = T("cr", 0) /\ w[Behind(E, m) + 3] = T("lf", 0)
    /\ \A q \in 1..Len(w) :
         \/ w[q][1] \in {"http", "end", "size", "cr", "lf"}
         \/ \E i \in 1..m : \E b \in E[i - 1] + 1..E[i] : q = 5 * i + b

\* A chunk, position by position: the body from a + 1 to b.
IsChunk(c, body, a, b) ==
    /\ c \in Seq(Token) /\ Len(c) = b - a + 5
    /\ c[1] = T("size", b - a) /\ c[2] = T("cr", 0) /\ c[3] = T("lf", 0)
    /\ \A d \in 1..b - a : c[3 + d] = body[a + d]
    /\ c[(b - a) + 4] = T("cr", 0) /\ c[(b - a) + 5] = T("lf", 0)

\* What a chunk is made of.
LEMMA ChunkTokens ==
    ASSUME NEW body \in Seq(Token), NEW a \in Nat, NEW b \in Nat, a < b, b <= Len(body)
    PROVE  IsChunk(<<T("size", b - a)>> \o Crlf \o SubSeq(body, a + 1, b) \o Crlf, body, a, b)
  <1>. DEFINE size == <<T("size", b - a)>>
              data == SubSeq(body, a + 1, b)
              line == size \o Crlf
              most == line \o data
              c == most \o Crlf
  <1>1. T("size", b - a) \in Token /\ T("cr", 0) \in Token /\ T("lf", 0) \in Token
    BY DEF T, Token, Kinds
  <1>2. /\ Crlf \in Seq(Token) /\ Len(Crlf) = 2 /\ Crlf[1] = T("cr", 0) /\ Crlf[2] = T("lf", 0)
        /\ size \in Seq(Token) /\ Len(size) = 1 /\ size[1] = T("size", b - a)
    BY <1>1 DEF Crlf
  <1>3. data \in Seq(Token) /\ Len(data) = b - a /\ \A d \in 1..b - a : data[d] = body[a + d]
    <2>1. Len(body) \in Nat
      BY LenProperties
    <2>2. data \in Seq(Token)
      BY <2>1, SubSeqProperties
    <2>3. Len(data) = b - a
      BY <2>1, SubSeqProperties
    <2>4. ASSUME NEW d \in 1..b - a PROVE data[d] = body[a + d]
      <3>1. data[d] = body[(a + 1) + d - 1] /\ (a + 1) + d - 1 = a + d
        BY <2>1, SubSeqProperties
      <3>. QED  BY <3>1
    <2>. QED  BY <2>2, <2>3, <2>4
  <1>. HIDE DEF size, data
  <1>4. line \in Seq(Token) /\ Concatenates(line, size, Crlf)
    BY <1>2, Concatenating
  <1>. HIDE DEF line
  <1>5. Len(line) = 3 /\ line[1] = T("size", b - a) /\ line[2] = T("cr", 0) /\ line[3] = T("lf", 0)
    <2>1. line[1 + 1] = Crlf[1] /\ line[1 + 2] = Crlf[2] /\ line[1] = size[1]
      BY <1>2, <1>4 DEF Concatenates
    <2>. QED  BY <1>2, <1>4, <2>1 DEF Concatenates
  <1>6. most \in Seq(Token) /\ Concatenates(most, line, data)
    BY <1>3, <1>4, Concatenating
  <1>. HIDE DEF most
  <1>7. /\ Len(most) = b - a + 3 /\ \A d \in 1..b - a : most[3 + d] = body[a + d]
        /\ most[1] = T("size", b - a) /\ most[2] = T("cr", 0) /\ most[3] = T("lf", 0)
    <2>1. Len(most) = b - a + 3
      BY <1>3, <1>5, <1>6 DEF Concatenates
    <2>2. \A d \in 1..b - a : most[3 + d] = body[a + d]
      BY <1>3, <1>5, <1>6 DEF Concatenates
    <2>3. most[1] = line[1] /\ most[2] = line[2] /\ most[3] = line[3]
      BY <1>5, <1>6 DEF Concatenates
    <2>. QED  BY <1>5, <2>1, <2>2, <2>3
  <1>8. c \in Seq(Token) /\ Concatenates(c, most, Crlf)
    BY <1>2, <1>6, Concatenating
  <1>. HIDE DEF c
  <1>9. Len(c) = b - a + 5 /\ c[(b - a) + 4] = T("cr", 0) /\ c[(b - a) + 5] = T("lf", 0)
    <2>1. c[(b - a + 3) + 1] = Crlf[1] /\ c[(b - a + 3) + 2] = Crlf[2]
      BY <1>2, <1>7, <1>8 DEF Concatenates
    <2>2. (b - a + 3) + 1 = (b - a) + 4 /\ (b - a + 3) + 2 = (b - a) + 5
      OBVIOUS
    <2>3. Len(c) = b - a + 5
      BY <1>2, <1>7, <1>8 DEF Concatenates
    <2>. QED  BY <1>2, <2>1, <2>2, <2>3
  <1>10. \A q \in 1..b - a + 3 : c[q] = most[q]
    BY <1>7, <1>8 DEF Concatenates
  <1>11. /\ c[1] = T("size", b - a) /\ c[2] = T("cr", 0) /\ c[3] = T("lf", 0)
         /\ \A d \in 1..b - a : c[3 + d] = body[a + d]
    <2>1. 1 \in 1..b - a + 3 /\ 2 \in 1..b - a + 3 /\ 3 \in 1..b - a + 3
      OBVIOUS
    <2>2. \A d \in 1..b - a : 3 + d \in 1..b - a + 3
      OBVIOUS
    <2>. QED  BY <1>7, <1>10, <2>1, <2>2
  <1>12. IsChunk(c, body, a, b)
    BY <1>8, <1>9, <1>11 DEF IsChunk
  <1>. QED  BY <1>12 DEF c, most, line, size, data

\* Every way to cut a body into chunks is such a list of ends.
LEMMA Cutting ==
    ASSUME NEW body \in Seq(Token), NEW ends \in Chunkings(body)
    PROVE  \E m \in Nat : \E E : /\ Cuts(E, m, Len(body)) /\ DOMAIN ends = 1..m
                                 /\ \A i \in 1..m : End(ends, i - 1) = E[i - 1] /\ ends[i] = E[i]
  <1>. DEFINE l == Len(body)
  <1>0. l \in Nat
    BY LenProperties
  <1>1. PICK m \in 0..MaxCuts + 1 : ends \in [1..m -> 1..l]
    BY DEF Chunkings
  <1>2. m \in Nat /\ DOMAIN ends = 1..m /\ Len(ends) = m
    BY <1>1, LlmStreamAssumption
  <1>3. End(ends, m) = l /\ \A i \in 1..m : End(ends, i - 1) < ends[i]
    BY <1>2 DEF Chunkings
  <1>. HIDE DEF l
  <1>. DEFINE E == [i \in 0..m |-> End(ends, i)]
  <1>4. ASSUME NEW i \in 1..m PROVE E[i] = ends[i] /\ E[i - 1] = End(ends, i - 1)
    BY DEF End
  <1>5. E \in [0..m -> Nat]
    <2>1. ASSUME NEW i \in 0..m PROVE End(ends, i) \in Nat
      <3>1. CASE i = 0
        BY <3>1 DEF End
      <3>2. CASE i # 0
        BY <1>0, <1>1, <3>2 DEF End
      <3>. QED  BY <3>1, <3>2
    <2>. QED  BY <2>1
  <1>6. E[0] = 0 /\ E[m] = l
    BY <1>2, <1>3 DEF End
  <1>. HIDE DEF E
  <1>7. \A i \in 1..m : E[i - 1] < E[i]
    BY <1>3, <1>4
  <1>8. ASSUME NEW i \in 0..m, NEW k \in 0..m, i <= k PROVE E[i] <= E[k]
    <2>. DEFINE Holds == {j \in 0..m : \A h \in 0..j : E[h] <= E[j]}
    <2>1. 0 \in Holds
      BY <1>2, <1>5
    <2>2. ASSUME NEW j \in 1..m, j - 1 \in Holds PROVE j \in Holds
      <3>1. ASSUME NEW h \in 0..j PROVE E[h] <= E[j]
        <4>1. CASE h = j
          BY <4>1, <1>5
        <4>2. CASE h # j
          <5>1. h \in 0..j - 1 /\ h \in 0..m /\ j \in 0..m /\ j - 1 \in 0..m
            BY <4>2
          <5>2. E[h] <= E[j - 1]
            BY <2>2, <5>1
          <5>3. E[j - 1] < E[j] /\ E[h] \in Nat /\ E[j - 1] \in Nat /\ E[j] \in Nat
            BY <1>5, <1>7, <5>1
          <5>. QED  BY <5>2, <5>3
        <4>. QED  BY <4>1, <4>2
      <3>. QED  BY <3>1
    <2>. HIDE DEF Holds
    <2>3. 0..m \subseteq Holds
      BY <1>2, <2>1, <2>2, UpTo
    <2>4. k \in Holds /\ i \in 0..k
      BY <1>8, <2>3
    <2>. QED  BY <2>4 DEF Holds
  <1>9. Cuts(E, m, l)
    BY <1>5, <1>6, <1>7, <1>8 DEF Cuts
  <1>. QED  BY <1>2, <1>4, <1>9 DEF l

\* The response, wherever the body is cut.
LEMMA Responding ==
    ASSUME NEW body \in Seq(Token), NEW ends \in Chunkings(body)
    PROVE  \E m \in Nat : \E E : Cuts(E, m, Len(body)) /\ Response(Chunked(body, ends), body, E, m)
  <1>1. PICK m \in Nat : \E E : /\ Cuts(E, m, Len(body)) /\ DOMAIN ends = 1..m
                                /\ \A i \in 1..m : End(ends, i - 1) = E[i - 1] /\ ends[i] = E[i]
    BY Cutting
  <1>2. PICK E : /\ Cuts(E, m, Len(body)) /\ DOMAIN ends = 1..m
                 /\ \A i \in 1..m : End(ends, i - 1) = E[i - 1] /\ ends[i] = E[i]
    BY <1>1
  <1>. DEFINE Chunk(i) == <<T("size", E[i] - E[i - 1])>> \o Crlf
                          \o SubSeq(body, E[i - 1] + 1, E[i]) \o Crlf
              seqs == [i \in 1..m |-> Chunk(i)]
              at == [i \in 0..m |-> 5 * i + E[i]]
              flat == FlattenSeq(seqs)
              begin == <<T("http", 0), T("end", 0)>>
              zero == <<T("size", 0)>>
              most == begin \o flat
              nearly == most \o zero
              w == nearly \o Crlf
              l == 5 * m + E[m]
  <1>3. Chunked(body, ends) = w
    <2>. DEFINE Given(i) == <<T("size", ends[i] - End(ends, i - 1))>> \o Crlf
                            \o SubSeq(body, End(ends, i - 1) + 1, ends[i]) \o Crlf
    <2>1. \A i \in 1..m : Given(i) = Chunk(i)
      BY <1>2
    <2>2. [i \in DOMAIN ends |-> Given(i)] = seqs
      <3>. HIDE DEF Given, Chunk
      <3>. QED  BY <1>2, <2>1
    <2>3. Chunked(body, ends) = <<T("http", 0), T("end", 0)>> \o FlattenSeq([i \in DOMAIN ends |-> Given(i)])
                                \o <<T("size", 0)>> \o Crlf
      BY DEF Chunked
    <2>. HIDE DEF Given, seqs
    <2>. QED  BY <2>2, <2>3
  <1>4. Len(body) \in Nat /\ \A i \in 0..m : E[i] \in Nat /\ E[i] <= Len(body)
    <2>1. Len(body) \in Nat
      BY LenProperties
    <2>2. ASSUME NEW i \in 0..m PROVE E[i] \in Nat /\ E[i] <= Len(body)
      <3>1. m \in 0..m /\ i <= m
        OBVIOUS
      <3>2. E[i] <= E[m] /\ E[m] = Len(body)
        BY <1>2, <3>1 DEF Cuts
      <3>3. E[i] \in Nat
        BY <1>2 DEF Cuts
      <3>. QED  BY <3>2, <3>3
    <2>. QED  BY <2>1, <2>2
  <1>5. ASSUME NEW i \in 1..m PROVE E[i - 1] \in Nat /\ E[i] \in Nat /\ E[i - 1] < E[i]
    <2>1. i - 1 \in 0..m /\ i \in 0..m
      OBVIOUS
    <2>. QED  BY <1>2, <1>4, <2>1 DEF Cuts
  <1>6. ASSUME NEW i \in 1..m PROVE IsChunk(seqs[i], body, E[i - 1], E[i])
    <2>1. E[i] <= Len(body)
      BY <1>4
    <2>2. IsChunk(Chunk(i), body, E[i - 1], E[i])
      BY <1>5, <2>1, ChunkTokens
    <2>3. seqs[i] = Chunk(i)
      OBVIOUS
    <2>. HIDE DEF seqs, Chunk
    <2>. QED  BY <2>2, <2>3
  <1>7. seqs \in [1..m -> Seq(Token)]
    <2>. HIDE DEF Chunk
    <2>1. \A i \in 1..m : Chunk(i) \in Seq(Token)
      BY <1>6 DEF IsChunk
    <2>. QED  BY <2>1
  <1>8. EndsOf(at, m, seqs)
    <2>1. at \in [0..m -> Nat] /\ at[0] = 0
      <3>1. E[0] = 0 /\ 0 \in 0..m
        BY <1>2 DEF Cuts
      <3>2. \A i \in 0..m : 5 * i + E[i] \in Nat
        BY <1>4
      <3>3. at \in [0..m -> Nat]
        BY <3>2
      <3>4. at[0] = 5 * 0 + E[0]
        OBVIOUS
      <3>. HIDE DEF at
      <3>. QED  BY <3>1, <3>3, <3>4
    <2>2. ASSUME NEW i \in 1..m PROVE at[i] = at[i - 1] + Len(seqs[i])
      <3>1. at[i] = 5 * i + E[i] /\ at[i - 1] = 5 * (i - 1) + E[i - 1]
        OBVIOUS
      <3>2. Len(seqs[i]) = E[i] - E[i - 1] + 5
        BY <1>6 DEF IsChunk
      <3>. HIDE DEF at, seqs
      <3>. QED  BY <1>5, <3>1, <3>2
    <2>. HIDE DEF at, seqs
    <2>. QED  BY <2>1, <2>2 DEF EndsOf
  <1>9. flat \in Seq(Token) /\ Laid(flat, m, seqs, at)
    <2>. HIDE DEF seqs, at
    <2>. QED  BY <1>7, <1>8, FlattenLays
  <1>10. Len(flat) = l /\ l \in Nat /\ at[m] = l
    <2>1. at[m] = l /\ m \in 0..m
      OBVIOUS
    <2>2. l \in Nat
      BY <1>4, <2>1
    <2>. HIDE DEF at, seqs, flat, l
    <2>. QED  BY <1>9, <2>1, <2>2 DEF Laid
  <1>. HIDE DEF flat
  <1>11. ASSUME NEW i \in 1..m, NEW r \in 1..(E[i] - E[i - 1]) + 5
         PROVE  5 * i - 5 + E[i - 1] + r \in 1..l /\ flat[5 * i - 5 + E[i - 1] + r] = seqs[i][r]
    <2>1. at[i - 1] = 5 * i - 5 + E[i - 1]
      <3>1. at[i - 1] = 5 * (i - 1) + E[i - 1]
        OBVIOUS
      <3>. QED  BY <1>5, <3>1
    <2>2. r \in 1..Len(seqs[i])
      <3>. HIDE DEF seqs
      <3>. QED  BY <1>5, <1>6 DEF IsChunk
    <2>. HIDE DEF at, seqs, l
    <2>3. at[i - 1] + r \in 1..l /\ flat[at[i - 1] + r] = seqs[i][r]
      BY <1>9, <1>10, <2>2 DEF Laid
    <2>. QED  BY <2>1, <2>3
  <1>12. ASSUME NEW q \in 1..l
         PROVE  \E i \in 1..m : \E r \in 1..(E[i] - E[i - 1]) + 5 :
                  q = 5 * i - 5 + E[i - 1] + r /\ flat[q] = seqs[i][r]
    <2>1. PICK i \in 1..m : \E r \in 1..Len(seqs[i]) : q = at[i - 1] + r
      <3>. HIDE DEF at, seqs, l
      <3>. QED  BY <1>9, <1>10 DEF Laid
    <2>2. PICK r \in 1..Len(seqs[i]) : q = at[i - 1] + r
      BY <2>1
    <2>3. at[i - 1] = 5 * i - 5 + E[i - 1]
      <3>1. at[i - 1] = 5 * (i - 1) + E[i - 1]
        OBVIOUS
      <3>. QED  BY <1>5, <3>1
    <2>. HIDE DEF at, seqs, l
    <2>4. r \in 1..(E[i] - E[i - 1]) + 5
      BY <1>5, <1>6 DEF IsChunk
    <2>5. q = 5 * i - 5 + E[i - 1] + r
      BY <2>2, <2>3
    <2>6. flat[q] = seqs[i][r]
      BY <1>11, <2>4, <2>5
    <2>. QED  BY <2>4, <2>5, <2>6
  <1>13. /\ begin \in Seq(Token) /\ Len(begin) = 2 /\ begin[1] = T("http", 0) /\ begin[2] = T("end", 0)
         /\ zero \in Seq(Token) /\ Len(zero) = 1 /\ zero[1] = T("size", 0)
         /\ Crlf \in Seq(Token) /\ Len(Crlf) = 2 /\ Crlf[1] = T("cr", 0) /\ Crlf[2] = T("lf", 0)
    <2>1. /\ T("http", 0) \in Token /\ T("end", 0) \in Token /\ T("size", 0) \in Token
          /\ T("cr", 0) \in Token /\ T("lf", 0) \in Token
      BY DEF T, Token, Kinds
    <2>. QED  BY <2>1 DEF Crlf
  <1>. HIDE DEF l, seqs, at, begin, zero
  <1>14. most \in Seq(Token) /\ Concatenates(most, begin, flat)
    BY <1>9, <1>13, Concatenating
  <1>. HIDE DEF most
  <1>15. nearly \in Seq(Token) /\ Concatenates(nearly, most, zero)
    BY <1>13, <1>14, Concatenating
  <1>. HIDE DEF nearly
  <1>16. w \in Seq(Token) /\ Concatenates(w, nearly, Crlf)
    BY <1>13, <1>15, Concatenating
  <1>. HIDE DEF w
  <1>17. /\ Len(w) = l + 5 /\ w[1] = T("http", 0) /\ w[2] = T("end", 0)
         /\ \A q \in 1..l : w[2 + q] = flat[q]
         /\ w[l + 3] = T("size", 0) /\ w[l + 4] = T("cr", 0) /\ w[l + 5] = T("lf", 0)
    <2>1. Len(most) = l + 2 /\ \A q \in 1..l : most[2 + q] = flat[q]
      BY <1>10, <1>13, <1>14 DEF Concatenates
    <2>2. most[1] = T("http", 0) /\ most[2] = T("end", 0)
      <3>1. most[1] = begin[1] /\ most[2] = begin[2]
        BY <1>13, <1>14 DEF Concatenates
      <3>. QED  BY <1>13, <3>1
    <2>3. Len(nearly) = l + 3 /\ \A q \in 1..l + 2 : nearly[q] = most[q]
      BY <1>10, <1>13, <1>15, <2>1 DEF Concatenates
    <2>4. nearly[l + 3] = T("size", 0)
      <3>1. nearly[(l + 2) + 1] = zero[1]
        BY <1>13, <1>15, <2>1 DEF Concatenates
      <3>2. (l + 2) + 1 = l + 3
        BY <1>10
      <3>. QED  BY <1>13, <3>1, <3>2
    <2>5. Len(w) = l + 5 /\ \A q \in 1..l + 3 : w[q] = nearly[q]
      BY <1>10, <1>13, <1>16, <2>3 DEF Concatenates
    <2>6. w[l + 4] = T("cr", 0) /\ w[l + 5] = T("lf", 0)
      <3>1. w[(l + 3) + 1] = Crlf[1] /\ w[(l + 3) + 2] = Crlf[2]
        BY <1>13, <1>16, <2>3 DEF Concatenates
      <3>2. (l + 3) + 1 = l + 4 /\ (l + 3) + 2 = l + 5
        BY <1>10
      <3>. QED  BY <1>13, <3>1, <3>2
    <2>7. /\ 1 \in 1..l + 2 /\ 2 \in 1..l + 2 /\ l + 3 \in 1..l + 3
          /\ \A q \in 1..l : 2 + q \in 1..l + 2
          /\ \A q \in 1..l + 2 : q \in 1..l + 3
      BY <1>10
    <2>8. \A q \in 1..l + 2 : w[q] = most[q]
      BY <2>3, <2>5, <2>7
    <2>. QED  BY <2>1, <2>2, <2>4, <2>5, <2>6, <2>7, <2>8
  <1>18. ASSUME NEW i \in 1..m
         PROVE  /\ w[Behind(E, i - 1) + 1] = T("size", E[i] - E[i - 1])
                /\ w[Behind(E, i - 1) + 2] = T("cr", 0) /\ w[Behind(E, i - 1) + 3] = T("lf", 0)
                /\ \A b \in E[i - 1] + 1..E[i] : w[5 * i + b] = body[b]
                /\ w[Behind(E, i) - 1] = T("cr", 0) /\ w[Behind(E, i)] = T("lf", 0)
    <2>. DEFINE d == E[i] - E[i - 1]
                o == 5 * i - 5 + E[i - 1]
    <2>00. E[i - 1] \in Nat /\ E[i] \in Nat /\ E[i - 1] < E[i]
      BY <1>5
    <2>0. d \in Nat /\ o \in Nat /\ d = E[i] - E[i - 1] /\ o = 5 * i - 5 + E[i - 1]
      BY <2>00
    <2>1. ASSUME NEW r \in 1..d + 5 PROVE w[2 + (o + r)] = seqs[i][r]
      <3>1. o + r \in 1..l /\ flat[o + r] = seqs[i][r]
        BY <1>11
      <3>. HIDE DEF o, d
      <3>. QED  BY <1>17, <3>1
    <2>. HIDE DEF o, d
    <2>2. /\ seqs[i][1] = T("size", d) /\ seqs[i][2] = T("cr", 0) /\ seqs[i][3] = T("lf", 0)
          /\ (\A j \in 1..d : seqs[i][3 + j] = body[E[i - 1] + j])
          /\ seqs[i][d + 4] = T("cr", 0) /\ seqs[i][d + 5] = T("lf", 0)
      BY <1>6 DEF IsChunk, d
    <2>3. /\ Behind(E, i - 1) + 1 = 2 + (o + 1) /\ Behind(E, i - 1) + 2 = 2 + (o + 2)
          /\ Behind(E, i - 1) + 3 = 2 + (o + 3) /\ Behind(E, i) - 1 = 2 + (o + (d + 4))
          /\ Behind(E, i) = 2 + (o + (d + 5))
      <3>1. \A x, y \in Nat : /\ 5 * (i - 1) + x + 2 + 1 = 2 + (5 * i - 5 + x + 1)
                              /\ 5 * (i - 1) + x + 2 + 2 = 2 + (5 * i - 5 + x + 2)
                              /\ 5 * (i - 1) + x + 2 + 3 = 2 + (5 * i - 5 + x + 3)
                              /\ (5 * i + y + 2) - 1 = 2 + (5 * i - 5 + x + (y - x + 4))
                              /\ 5 * i + y + 2 = 2 + (5 * i - 5 + x + (y - x + 5))
        OBVIOUS
      <3>2. Behind(E, i - 1) = 5 * (i - 1) + E[i - 1] + 2 /\ Behind(E, i) = 5 * i + E[i] + 2
        BY DEF Behind
      <3>3. LET x == E[i - 1]
                y == E[i]
            IN  /\ 5 * (i - 1) + x + 2 + 1 = 2 + (5 * i - 5 + x + 1)
                /\ 5 * (i - 1) + x + 2 + 2 = 2 + (5 * i - 5 + x + 2)
                /\ 5 * (i - 1) + x + 2 + 3 = 2 + (5 * i - 5 + x + 3)
                /\ (5 * i + y + 2) - 1 = 2 + (5 * i - 5 + x + (y - x + 4))
                /\ 5 * i + y + 2 = 2 + (5 * i - 5 + x + (y - x + 5))
        BY <2>00, <3>1
      <3>4. LET x == E[i - 1]
                y == E[i]
            IN  5 * i - 5 + x + 1 = o + 1 /\ 5 * i - 5 + x + 2 = o + 2
                /\ 5 * i - 5 + x + 3 = o + 3 /\ y - x = d /\ 5 * i - 5 + x = o
        BY <2>0, <2>00
      <3>. QED  BY <3>2, <3>3, <3>4
    <2>4. /\ w[2 + (o + 1)] = seqs[i][1] /\ w[2 + (o + 2)] = seqs[i][2] /\ w[2 + (o + 3)] = seqs[i][3]
          /\ w[2 + (o + (d + 4))] = seqs[i][d + 4] /\ w[2 + (o + (d + 5))] = seqs[i][d + 5]
      <3>1. 1 \in 1..d + 5 /\ 2 \in 1..d + 5 /\ 3 \in 1..d + 5 /\ d + 4 \in 1..d + 5 /\ d + 5 \in 1..d + 5
        BY <2>0
      <3>. QED  BY <2>1, <3>1
    <2>5. ASSUME NEW b \in E[i - 1] + 1..E[i] PROVE w[5 * i + b] = body[b]
      <3>. DEFINE j == b - E[i - 1]
      <3>1. j \in 1..d /\ 3 + j \in 1..d + 5 /\ E[i - 1] + j = b /\ 5 * i + b = 2 + (o + (3 + j))
        <4>1. \A x, y, z \in Nat : z \in x + 1..y =>
                z - x \in 1..y - x /\ 3 + (z - x) \in 1..(y - x) + 5 /\ x + (z - x) = z
                /\ 5 * i + z = 2 + (5 * i - 5 + x + (3 + (z - x)))
          OBVIOUS
        <4>2. b \in Nat
          BY <2>00
        <4>3. LET x == E[i - 1]
                  y == E[i]
              IN  /\ b - x \in 1..y - x /\ 3 + (b - x) \in 1..(y - x) + 5 /\ x + (b - x) = b
                  /\ 5 * i + b = 2 + (5 * i - 5 + x + (3 + (b - x)))
          BY <2>00, <4>1, <4>2
        <4>4. 5 * i - 5 + E[i - 1] + (3 + (b - E[i - 1])) = o + (3 + (b - E[i - 1]))
          BY <2>0, <2>00, <4>2
        <4>5. d = E[i] - E[i - 1]
          BY <2>0
        <4>. QED  BY <4>3, <4>4, <4>5
      <3>. HIDE DEF j
      <3>2. w[2 + (o + (3 + j))] = seqs[i][3 + j] /\ seqs[i][3 + j] = body[E[i - 1] + j]
        BY <2>1, <2>2, <3>1
      <3>. QED  BY <3>1, <3>2
    <2>6. d = E[i] - E[i - 1]
      BY <2>0
    <2>. QED  BY <2>2, <2>3, <2>4, <2>5, <2>6, Zenon
  <1>19. /\ w[Behind(E, m) + 1] = T("size", 0)
         /\ w[Behind(E, m) + 2] = T("cr", 0) /\ w[Behind(E, m) + 3] = T("lf", 0)
    <2>1. E[m] \in Nat
      <3>1. m \in 0..m
        OBVIOUS
      <3>. QED  BY <1>4, <3>1
    <2>2. Behind(E, m) + 1 = l + 3 /\ Behind(E, m) + 2 = l + 4 /\ Behind(E, m) + 3 = l + 5
      BY <2>1 DEF Behind, l
    <2>. QED  BY <1>17, <2>2
  <1>20. ASSUME NEW q \in 1..Len(w)
         PROVE  \/ w[q][1] \in {"http", "end", "size", "cr", "lf"}
                \/ \E i \in 1..m : \E b \in E[i - 1] + 1..E[i] : q = 5 * i + b
    <2>1. \/ q = 1 \/ q = 2 \/ q = l + 3 \/ q = l + 4 \/ q = l + 5 \/ q - 2 \in 1..l
      BY <1>10, <1>17
    <2>2. CASE q - 2 \in 1..l
      <3>0. w[q] = flat[q - 2]
        <4>1. w[2 + (q - 2)] = flat[q - 2] /\ 2 + (q - 2) = q
          BY <1>17, <2>2
        <4>. QED  BY <4>1
      <3>1. PICK i \in 1..m : \E r \in 1..(E[i] - E[i - 1]) + 5 :
              q - 2 = 5 * i - 5 + E[i - 1] + r /\ flat[q - 2] = seqs[i][r]
        BY <1>12, <2>2
      <3>2. PICK r \in 1..(E[i] - E[i - 1]) + 5 :
              q - 2 = 5 * i - 5 + E[i - 1] + r /\ flat[q - 2] = seqs[i][r]
        BY <3>1
      <3>3. w[q] = seqs[i][r]
        BY <3>0, <3>2
      <3>4. /\ seqs[i][1][1] = "size" /\ seqs[i][2][1] = "cr" /\ seqs[i][3][1] = "lf"
            /\ seqs[i][(E[i] - E[i - 1]) + 4][1] = "cr" /\ seqs[i][(E[i] - E[i - 1]) + 5][1] = "lf"
        <4>1. IsChunk(seqs[i], body, E[i - 1], E[i])
          BY <1>6
        <4>. QED  BY <4>1 DEF IsChunk, T
      <3>7. E[i - 1] \in Nat /\ E[i] \in Nat
        BY <1>5
      <3>5. CASE r \in 4..(E[i] - E[i - 1]) + 3
        <4>1. \A x, y \in Nat : \A z \in 4..(y - x) + 3 :
                q - 2 = 5 * i - 5 + x + z
                  => q - 5 * i \in x + 1..y /\ q = 5 * i + (q - 5 * i)
          OBVIOUS
        <4>2. q - 5 * i \in E[i - 1] + 1..E[i] /\ q = 5 * i + (q - 5 * i)
          BY <3>2, <3>5, <3>7, <4>1
        <4>. QED  BY <4>2
      <3>6. CASE ~(r \in 4..(E[i] - E[i - 1]) + 3)
        <4>1. \A x, y \in Nat : \A z \in 1..(y - x) + 5 :
                ~(z \in 4..(y - x) + 3)
                  => z = 1 \/ z = 2 \/ z = 3 \/ z = (y - x) + 4 \/ z = (y - x) + 5
          OBVIOUS
        <4>2. \/ r = 1 \/ r = 2 \/ r = 3 \/ r = (E[i] - E[i - 1]) + 4 \/ r = (E[i] - E[i - 1]) + 5
          BY <3>6, <3>7, <4>1
        <4>. QED  BY <3>3, <3>4, <4>2
      <3>. QED  BY <3>5, <3>6
    <2>. QED  BY <1>17, <2>1, <2>2 DEF T
  <1>21. Response(w, body, E, m)
    <2>1. Len(w) = 5 * m + E[m] + 5
      BY <1>17 DEF l
    <2>. QED  BY <1>16, <1>17, <1>18, <1>19, <1>20, <2>1, Zenon DEF Response
  <1>. QED  BY <1>2, <1>3, <1>21 DEF w

-----------------------------------------------------------------------------
(* The order of the events *)

\* The ends of two events' data: the second event is later, unless it is [DONE].
Before(t, u) == t[1] = "j2" /\ u[1] = "j2" /\ u[2] # 0 => t[2] < u[2]

\* The events come in their order, and only Openai has a [DONE].
Ordered(s) == \A i, k \in 1..Len(s) : i < k => Before(s[i], s[k])
Numbered(p, s) == p # "Openai" => \A i \in 1..Len(s) : s[i][1] = "j2" => s[i][2] # 0

\* The body has the events in their order.
LEMMA BodyOrder ==
    ASSUME NEW p \in Providers, NEW n \in Nat, NEW s, IsBody(p, s, n)
    PROVE  s \in Seq(Token) /\ Ordered(s) /\ Numbered(p, s)
  <1>1. CASE p = "Openai"
    <2>1. OpenaiBody(s, n)
      BY <1>1 DEF IsBody
    <2>2. ASSUME NEW i \in 1..Len(s), s[i][1] = "j2"
          PROVE  \E k \in 1..n + 1 : i = 5 * k - 1 /\ s[i][2] = EventOf(n, k)
      <3>1. i \in 1..5 * n + 5
        BY <2>1 DEF OpenaiBody
      <3>2. \E k \in 1..n + 1 : \E r \in 1..5 : i = (5 * k - 5) + r
        <4>1. (i + 4) \div 5 \in 1..n + 1 /\ i - (5 * ((i + 4) \div 5) - 5) \in 1..5
          BY <3>1
        <4>2. i = (5 * ((i + 4) \div 5) - 5) + (i - (5 * ((i + 4) \div 5) - 5))
          BY <3>1
        <4>. QED  BY <4>1, <4>2
      <3>3. PICK k \in 1..n + 1 : \E r \in 1..5 : i = (5 * k - 5) + r
        BY <3>2
      <3>4. PICK r \in 1..5 : i = (5 * k - 5) + r
        BY <3>3
      <3>5. DataAt(s, 5 * k - 5, EventOf(n, k))
        BY <2>1 DEF OpenaiBody
      <3>6. /\ s[(5 * k - 5) + 1][1] = "da" /\ s[(5 * k - 5) + 2][1] = "ta"
            /\ s[(5 * k - 5) + 3][1] = "j1" /\ s[(5 * k - 5) + 5][1] = "nl"
            /\ s[(5 * k - 5) + 4][2] = EventOf(n, k)
        BY <3>5 DEF DataAt, T, Newline
      <3>7. r = 4
        <4>1. r = 1 \/ r = 2 \/ r = 3 \/ r = 4 \/ r = 5
          OBVIOUS
        <4>. QED  BY <2>2, <3>4, <3>6, <4>1
      <3>8. i = 5 * k - 1
        BY <3>4, <3>7
      <3>. QED  BY <3>4, <3>6, <3>7, <3>8
    <2>3. ASSUME NEW i \in 1..Len(s), NEW j \in 1..Len(s), i < j, s[i][1] = "j2", s[j][1] = "j2",
                 s[j][2] # 0
          PROVE  s[i][2] < s[j][2]
      <3>1. PICK k \in 1..n + 1 : i = 5 * k - 1 /\ s[i][2] = EventOf(n, k)
        BY <2>2, <2>3
      <3>2. PICK h \in 1..n + 1 : j = 5 * h - 1 /\ s[j][2] = EventOf(n, h)
        BY <2>2, <2>3
      <3>3. k < h
        BY <2>3, <3>1, <3>2
      <3>4. s[j][2] = h /\ h <= n
        BY <2>3, <3>2 DEF EventOf
      <3>5. s[i][2] = k
        BY <3>1, <3>3, <3>4 DEF EventOf
      <3>. QED  BY <3>3, <3>4, <3>5
    <2>4. Ordered(s)
      BY <2>3 DEF Ordered, Before
    <2>. QED  BY <1>1, <2>1, <2>4 DEF OpenaiBody, Numbered
  <1>2. CASE p = "Dify"
    <2>1. DifyBody(s, n)
      BY <1>2 DEF IsBody
    <2>2. ASSUME NEW i \in 1..Len(s), s[i][1] = "j2"
          PROVE  \E k \in 1..n : i = 6 * k - 2 /\ s[i][2] = k
      <3>1. i \in 1..6 * n
        BY <2>1 DEF DifyBody
      <3>2. \E k \in 1..n : \E r \in 1..6 : i = (6 * k - 6) + r
        <4>1. (i + 5) \div 6 \in 1..n /\ i - (6 * ((i + 5) \div 6) - 6) \in 1..6
          BY <3>1
        <4>2. i = (6 * ((i + 5) \div 6) - 6) + (i - (6 * ((i + 5) \div 6) - 6))
          BY <3>1
        <4>. QED  BY <4>1, <4>2
      <3>3. PICK k \in 1..n : \E r \in 1..6 : i = (6 * k - 6) + r
        BY <3>2
      <3>4. PICK r \in 1..6 : i = (6 * k - 6) + r
        BY <3>3
      <3>5. DataAt(s, 6 * k - 6, k) /\ s[6 * k] = Newline
        BY <2>1 DEF DifyBody
      <3>6. /\ s[(6 * k - 6) + 1][1] = "da" /\ s[(6 * k - 6) + 2][1] = "ta"
            /\ s[(6 * k - 6) + 3][1] = "j1" /\ s[(6 * k - 6) + 5][1] = "nl"
            /\ s[6 * k][1] = "nl" /\ s[(6 * k - 6) + 4][2] = k
        BY <3>5 DEF DataAt, T, Newline
      <3>7. r = 4
        <4>1. r = 1 \/ r = 2 \/ r = 3 \/ r = 4 \/ r = 5 \/ r = 6
          OBVIOUS
        <4>2. (6 * k - 6) + 6 = 6 * k
          OBVIOUS
        <4>. QED  BY <2>2, <3>4, <3>6, <4>1, <4>2
      <3>8. i = 6 * k - 2
        BY <3>4, <3>7
      <3>. QED  BY <3>4, <3>6, <3>7, <3>8
    <2>3. Ordered(s)
      <3>1. ASSUME NEW i \in 1..Len(s), NEW j \in 1..Len(s), i < j, s[i][1] = "j2", s[j][1] = "j2"
            PROVE  s[i][2] < s[j][2]
        <4>1. PICK k \in 1..n : i = 6 * k - 2 /\ s[i][2] = k
          BY <2>2, <3>1
        <4>2. PICK h \in 1..n : j = 6 * h - 2 /\ s[j][2] = h
          BY <2>2, <3>1
        <4>. QED  BY <3>1, <4>1, <4>2
      <3>. QED  BY <3>1 DEF Ordered, Before
    <2>4. Numbered(p, s)
      <3>1. ASSUME NEW i \in 1..Len(s), s[i][1] = "j2" PROVE s[i][2] # 0
        <4>1. PICK k \in 1..n : i = 6 * k - 2 /\ s[i][2] = k
          BY <2>2, <3>1
        <4>. QED  BY <4>1
      <3>. QED  BY <3>1 DEF Numbered
    <2>. QED  BY <2>1, <2>3, <2>4 DEF DifyBody
  <1>3. CASE p = "CozeV3"
    <2>1. CozeBody(s, n)
      BY <1>3 DEF IsBody
    <2>2. ASSUME NEW i \in 1..Len(s), s[i][1] = "j2"
          PROVE  \E k \in 1..n : i = 7 * k - 1 /\ s[i][2] = k
      <3>1. i \in 1..7 * n
        BY <2>1 DEF CozeBody
      <3>2. \E k \in 1..n : \E r \in 1..7 : i = (7 * k - 7) + r
        <4>1. (i + 6) \div 7 \in 1..n /\ i - (7 * ((i + 6) \div 7) - 7) \in 1..7
          BY <3>1
        <4>2. i = (7 * ((i + 6) \div 7) - 7) + (i - (7 * ((i + 6) \div 7) - 7))
          BY <3>1
        <4>. QED  BY <4>1, <4>2
      <3>3. PICK k \in 1..n : \E r \in 1..7 : i = (7 * k - 7) + r
        BY <3>2
      <3>4. PICK r \in 1..7 : i = (7 * k - 7) + r
        BY <3>3
      <3>5. DataAt(s, 7 * k - 5, k) /\ s[7 * k - 6] = T("ev", k) /\ s[7 * k - 5] = Newline
        BY <2>1 DEF CozeBody
      <3>6. /\ s[(7 * k - 5) + 1][1] = "da" /\ s[(7 * k - 5) + 2][1] = "ta"
            /\ s[(7 * k - 5) + 3][1] = "j1" /\ s[(7 * k - 5) + 5][1] = "nl"
            /\ s[7 * k - 6][1] = "ev" /\ s[7 * k - 5][1] = "nl" /\ s[(7 * k - 5) + 4][2] = k
        BY <3>5 DEF DataAt, T, Newline
      <3>7. r = 6
        <4>1. r = 1 \/ r = 2 \/ r = 3 \/ r = 4 \/ r = 5 \/ r = 6 \/ r = 7
          OBVIOUS
        <4>2. /\ (7 * k - 7) + 1 = 7 * k - 6 /\ (7 * k - 7) + 2 = 7 * k - 5
              /\ (7 * k - 7) + 3 = (7 * k - 5) + 1 /\ (7 * k - 7) + 4 = (7 * k - 5) + 2
              /\ (7 * k - 7) + 5 = (7 * k - 5) + 3 /\ (7 * k - 7) + 7 = (7 * k - 5) + 5
          OBVIOUS
        <4>. QED  BY <2>2, <3>4, <3>6, <4>1, <4>2
      <3>8. i = 7 * k - 1 /\ i = (7 * k - 5) + 4
        BY <3>4, <3>7
      <3>. QED  BY <3>6, <3>8
    <2>3. Ordered(s)
      <3>1. ASSUME NEW i \in 1..Len(s), NEW j \in 1..Len(s), i < j, s[i][1] = "j2", s[j][1] = "j2"
            PROVE  s[i][2] < s[j][2]
        <4>1. PICK k \in 1..n : i = 7 * k - 1 /\ s[i][2] = k
          BY <2>2, <3>1
        <4>2. PICK h \in 1..n : j = 7 * h - 1 /\ s[j][2] = h
          BY <2>2, <3>1
        <4>. QED  BY <3>1, <4>1, <4>2
      <3>. QED  BY <3>1 DEF Ordered, Before
    <2>4. Numbered(p, s)
      <3>1. ASSUME NEW i \in 1..Len(s), s[i][1] = "j2" PROVE s[i][2] # 0
        <4>1. PICK k \in 1..n : i = 7 * k - 1 /\ s[i][2] = k
          BY <2>2, <3>1
        <4>. QED  BY <4>1
      <3>. QED  BY <3>1 DEF Numbered
    <2>. QED  BY <2>1, <2>3, <2>4 DEF CozeBody
  <1>. QED  BY <1>1, <1>2, <1>3 DEF Providers

\* So has the response.
LEMMA ResponseOrder ==
    ASSUME NEW p, NEW body \in Seq(Token), NEW m \in Nat, NEW E, NEW w, Cuts(E, m, Len(body)),
           Response(w, body, E, m), Ordered(body), Numbered(p, body)
    PROVE  Ordered(w) /\ Numbered(p, w)
  <1>0. Len(body) \in Nat
    BY LenProperties
  <1>1. ASSUME NEW i \in 1..m, NEW b \in E[i - 1] + 1..E[i]
        PROVE  /\ b \in 1..Len(body) /\ w[5 * i + b] = body[b] /\ b \in Nat
               /\ E[i - 1] < b /\ b <= E[i]
    <2>1. i - 1 \in 0..m /\ i \in 0..m /\ m \in 0..m /\ i <= m
      OBVIOUS
    <2>2. E[i - 1] \in Nat /\ E[i] \in Nat /\ E[i] <= Len(body)
      BY <1>0, <2>1 DEF Cuts
    <2>3. w[5 * i + b] = body[b]
      BY DEF Response
    <2>. QED  BY <1>0, <2>2, <2>3
  <1>2. ASSUME NEW q \in 1..Len(w), w[q][1] = "j2"
        PROVE  \E i \in 1..m : \E b \in E[i - 1] + 1..E[i] : q = 5 * i + b
    BY <1>2 DEF Response
  <1>3. ASSUME NEW q \in 1..Len(w), NEW r \in 1..Len(w), q < r, w[q][1] = "j2", w[r][1] = "j2"
        PROVE  Before(w[q], w[r])
    <2>1. PICK i \in 1..m : \E b \in E[i - 1] + 1..E[i] : q = 5 * i + b
      BY <1>2, <1>3
    <2>2. PICK b \in E[i - 1] + 1..E[i] : q = 5 * i + b
      BY <2>1
    <2>3. PICK k \in 1..m : \E c \in E[k - 1] + 1..E[k] : r = 5 * k + c
      BY <1>2, <1>3
    <2>4. PICK c \in E[k - 1] + 1..E[k] : r = 5 * k + c
      BY <2>3
    <2>5. /\ b \in 1..Len(body) /\ w[q] = body[b] /\ b \in Nat
          /\ c \in 1..Len(body) /\ w[r] = body[c] /\ c \in Nat
      BY <1>1, <2>2, <2>4
    <2>6. b < c
      <3>1. /\ E[i] \in Nat /\ E[i - 1] \in Nat /\ E[k] \in Nat /\ E[k - 1] \in Nat
            /\ (i <= k - 1 => E[i] <= E[k - 1]) /\ (k <= i - 1 => E[k] <= E[i - 1])
        <4>1. i \in 0..m /\ i - 1 \in 0..m /\ k \in 0..m /\ k - 1 \in 0..m
          OBVIOUS
        <4>. QED  BY <4>1 DEF Cuts
      <3>2. E[i - 1] < b /\ b <= E[i] /\ E[k - 1] < c /\ c <= E[k]
        BY <1>1
      <3>3. 5 * i + b < 5 * k + c
        BY <1>3, <2>2, <2>4
      <3>4. CASE i = k
        BY <2>5, <3>3, <3>4
      <3>5. CASE i < k
        <4>1. i <= k - 1
          BY <3>5
        <4>. QED  BY <2>5, <3>1, <3>2, <4>1
      <3>6. CASE k < i
        <4>1. k <= i - 1
          BY <3>6
        <4>2. c < b
          BY <2>5, <3>1, <3>2, <4>1
        <4>. QED  BY <2>5, <3>3, <3>6, <4>2
      <3>. QED  BY <3>4, <3>5, <3>6
    <2>. QED  BY <2>5, <2>6 DEF Ordered
  <1>4. Ordered(w)
    BY <1>3 DEF Ordered, Before
  <1>5. ASSUME p # "Openai", NEW q \in 1..Len(w), w[q][1] = "j2" PROVE w[q][2] # 0
    <2>1. PICK i \in 1..m : \E b \in E[i - 1] + 1..E[i] : q = 5 * i + b
      BY <1>2, <1>5
    <2>2. PICK b \in E[i - 1] + 1..E[i] : q = 5 * i + b
      BY <2>1
    <2>3. b \in 1..Len(body) /\ w[q] = body[b]
      BY <1>1, <2>2
    <2>. QED  BY <1>5, <2>3 DEF Numbered
  <1>. QED  BY <1>4, <1>5 DEF Numbered

-----------------------------------------------------------------------------
(* parse_chunk *)

\* A number, or none.
Numbers == Nat \cup {Invalid}

\* stoul gives a number or throws.
LEMMA StoulNumbers ==
    ASSUME NEW line \in Seq(Token), NEW g \in Numbers
    PROVE  Stoul(line, g) \in Numbers
  <1>. DEFINE ink == {i \in DOMAIN line : line[i][1] \notin {"cr", "lf", "nl"}}
              first == line[Min(ink)]
  <1>1. CASE ink = {}
    BY <1>1 DEF Stoul, Numbers
  <1>2. CASE ink # {}
    <2>1. ink \subseteq Nat
      BY LenProperties
    <2>2. Min(ink) \in ink
      <3>. HIDE DEF ink
      <3>. QED  BY <1>2, <2>1, MinProperties
    <2>3. first \in Token
      <3>1. Min(ink) \in DOMAIN line
        BY <2>2
      <3>2. DOMAIN line = 1..Len(line)
        BY LenProperties
      <3>. HIDE DEF ink
      <3>. QED  BY <3>1, <3>2, ElementOfSeq
    <2>4. Max({1, g}) \in Nat
      <3>1. g \in Int
        BY DEF Numbers, Invalid
      <3>2. \E x \in {1, g} : \A y \in {1, g} : x >= y
        BY <3>1
      <3>3. Max({1, g}) \in {1, g} /\ Max({1, g}) >= 1
        BY <3>2 DEF Max
      <3>. QED  BY <3>1, <3>3
    <2>5. Stoul(line, g) = CASE first[1] = "size" -> first[2]
                             [] first[1] \in {"da", "ev"} -> Max({1, g})
                             [] first[1] = "j2" -> g
                             [] OTHER -> Invalid
      BY <1>2 DEF Stoul
    <2>6. first[2] \in Nat
      BY <2>3 DEF Token
    <2>. HIDE DEF first
    <2>7. CASE first[1] = "size"
      BY <2>5, <2>6, <2>7 DEF Numbers
    <2>8. CASE first[1] \in {"da", "ev"}
      <3>1. Stoul(line, g) = Max({1, g})
        BY <2>5, <2>8
      <3>. QED  BY <2>4, <3>1 DEF Numbers
    <2>9. CASE first[1] = "j2"
      <3>1. Stoul(line, g) = g
        BY <2>5, <2>9
      <3>. QED  BY <3>1
    <2>10. CASE first[1] \notin {"size", "da", "ev", "j2"}
      <3>1. Stoul(line, g) = Invalid
        BY <2>5, <2>10
      <3>. QED  BY <3>1 DEF Numbers
    <2>. QED  BY <2>7, <2>8, <2>9, <2>10
  <1>. QED  BY <1>1, <1>2

\* A body is picked from what lies before pos, in the order it has there.
PicksBy(f, body, view, pos) ==
    /\ f \in [1..Len(body) -> 1..Len(view)]
    /\ \A i \in 1..Len(body) : body[i] = view[f[i]] /\ f[i] <= pos
    /\ \A i, k \in 1..Len(body) : i < k => f[i] < f[k]
Picks(body, view, pos) == \E f : PicksBy(f, body, view, pos)

\* More may lie before it.
LEMMA PicksMore ==
    ASSUME NEW body \in Seq(Token), NEW view \in Seq(Token), NEW pos \in Nat, NEW q \in Nat,
           pos <= q, Picks(body, view, pos)
    PROVE  Picks(body, view, q)
  <1>1. PICK f : PicksBy(f, body, view, pos)
    BY DEF Picks
  <1>2. \A i \in 1..Len(body) : f[i] <= q
    <2>1. ASSUME NEW i \in 1..Len(body) PROVE f[i] <= q
      <3>1. f[i] <= pos /\ f[i] \in 1..Len(view)
        BY <1>1 DEF PicksBy
      <3>2. f[i] \in Int
        BY <3>1, LenProperties
      <3>. QED  BY <3>1, <3>2
    <2>. QED  BY <2>1
  <1>3. PicksBy(f, body, view, q)
    BY <1>1, <1>2 DEF PicksBy
  <1>. QED  BY <1>3 DEF Picks

\* A chunk is picked as a whole.
LEMMA PicksChunk ==
    ASSUME NEW body \in Seq(Token), NEW view \in Seq(Token), NEW pos \in Nat, NEW d \in Nat,
           NEW n \in Nat, pos <= d, d + n <= Len(view), Picks(body, view, pos)
    PROVE  /\ body \o SubSeq(view, d + 1, d + n) \in Seq(Token)
           /\ Picks(body \o SubSeq(view, d + 1, d + n), view, d + n + 2)
  <1>. DEFINE data == SubSeq(view, d + 1, d + n)
              more == body \o data
              l == Len(body)
  <1>0. Len(view) \in Nat /\ l \in Nat
    BY LenProperties
  <1>1. data \in Seq(Token) /\ Len(data) = n /\ \A i \in 1..n : data[i] = view[d + i]
    <2>1. data \in Seq(Token)
      BY <1>0, SubSeqProperties
    <2>2. Len(data) = n
      BY <1>0, SubSeqProperties
    <2>3. ASSUME NEW i \in 1..n PROVE data[i] = view[d + i]
      <3>1. data[i] = view[(d + 1) + i - 1] /\ (d + 1) + i - 1 = d + i
        BY <1>0, SubSeqProperties
      <3>. QED  BY <3>1
    <2>. QED  BY <2>1, <2>2, <2>3
  <1>. HIDE DEF data
  <1>2. more \in Seq(Token) /\ Concatenates(more, body, data)
    BY <1>1, Concatenating
  <1>. HIDE DEF more, l
  <1>3. /\ Len(more) = l + n /\ \A i \in 1..l : more[i] = body[i]
        /\ \A i \in 1..n : more[l + i] = view[d + i]
    BY <1>1, <1>2 DEF Concatenates, l
  <1>4. PICK f : PicksBy(f, body, view, pos)
    BY DEF Picks
  <1>5. /\ f \in [1..l -> 1..Len(view)]
        /\ \A i \in 1..l : body[i] = view[f[i]] /\ f[i] <= pos
        /\ \A i, k \in 1..l : i < k => f[i] < f[k]
    BY <1>4 DEF PicksBy, l
  <1>. DEFINE h == [i \in 1..l + n |-> IF i <= l THEN f[i] ELSE d + (i - l)]
  <1>6. ASSUME NEW i \in 1..l + n
        PROVE  /\ h[i] \in 1..Len(view) /\ more[i] = view[h[i]] /\ h[i] <= d + n
               /\ (i <= l => h[i] = f[i] /\ f[i] <= d /\ f[i] \in Int)
               /\ (~(i <= l) => h[i] = d + (i - l))
    <2>1. CASE i <= l
      <3>1. i \in 1..l /\ h[i] = f[i]
        BY <2>1
      <3>. HIDE DEF h
      <3>2. f[i] \in 1..Len(view) /\ body[i] = view[f[i]] /\ f[i] <= pos /\ more[i] = body[i]
        BY <1>3, <1>5, <3>1
      <3>3. f[i] \in Int /\ f[i] <= d /\ f[i] <= d + n
        BY <1>0, <3>2
      <3>. QED  BY <2>1, <3>1, <3>2, <3>3
    <2>2. CASE ~(i <= l)
      <3>1. h[i] = d + (i - l)
        BY <2>2
      <3>2. i - l \in 1..n /\ l + (i - l) = i
        BY <1>0, <2>2
      <3>. HIDE DEF h
      <3>3. more[l + (i - l)] = view[d + (i - l)]
        BY <1>3, <3>2
      <3>4. d + (i - l) \in 1..Len(view) /\ d + (i - l) <= d + n
        BY <1>0, <3>2
      <3>. QED  BY <2>2, <3>1, <3>2, <3>3, <3>4
    <2>. QED  BY <2>1, <2>2
  <1>7. DOMAIN h = 1..l + n /\ h = [i \in 1..l + n |-> h[i]]
    OBVIOUS
  <1>. HIDE DEF h
  <1>8. ASSUME NEW i \in 1..l + n, NEW k \in 1..l + n, i < k PROVE h[i] < h[k]
    <2>1. CASE k <= l
      <3>1. i \in 1..l /\ k \in 1..l /\ i <= l
        BY <1>0, <1>8, <2>1
      <3>2. h[i] = f[i] /\ h[k] = f[k] /\ f[i] < f[k]
        BY <1>5, <1>6, <1>8, <2>1, <3>1
      <3>. QED  BY <3>2
    <2>2. CASE ~(k <= l) /\ i <= l
      <3>1. h[i] = f[i] /\ f[i] <= d /\ f[i] \in Int /\ h[k] = d + (k - l)
        BY <1>6, <2>2
      <3>. QED  BY <1>0, <2>2, <3>1
    <2>3. CASE ~(i <= l)
      <3>1. ~(k <= l)
        BY <1>0, <1>8, <2>3
      <3>2. h[i] = d + (i - l) /\ h[k] = d + (k - l)
        BY <1>6, <2>3, <3>1
      <3>. QED  BY <1>0, <1>8, <3>2
    <2>. QED  BY <2>1, <2>2, <2>3
  <1>9. h \in [1..l + n -> 1..Len(view)]
    BY <1>6, <1>7
  <1>10. \A i \in 1..l + n : h[i] <= d + n + 2
    <2>1. ASSUME NEW i \in 1..l + n PROVE h[i] <= d + n + 2
      <3>1. h[i] <= d + n /\ h[i] \in 1..Len(view)
        BY <1>6
      <3>2. h[i] \in Int
        BY <1>0, <3>1
      <3>. QED  BY <3>1, <3>2
    <2>. QED  BY <2>1
  <1>11. PicksBy(h, more, view, d + n + 2)
    BY <1>3, <1>6, <1>8, <1>9, <1>10 DEF PicksBy
  <1>. QED  BY <1>2, <1>11 DEF Picks, more, data

Results == {"next", "more", "throws", "over"}
Rounds == [body : Seq(Token), pos : Nat, result : Results]

\* What a round finds at s: its chunk's data begin behind the lf.
DataBehind(view, s) == Min({i \in s.pos + 1..Len(view) - 1 : view[i][1] = "cr"}) + 1
SizeThere(view, g, s) == Stoul(SubSeq(view, s.pos + 1, DataBehind(view, s) - 2), g)

\* What a round makes of s, where its chunk's data lie at d and its size is n.
Moves(t, s, view, d, n) ==
    \/ t = s
    \/ t = [s EXCEPT !.result = "more"]
    \/ t = [s EXCEPT !.body = <<>>, !.result = "throws"]
    \/ t = [s EXCEPT !.pos = d, !.result = "over"]
    \/ t = [s EXCEPT !.pos = d, !.result = "more"]
    \/ /\ n \in Nat /\ d + n <= Len(view)
       /\ t = [s EXCEPT !.pos = d + n + 2, !.body = @ \o SubSeq(view, d + 1, d + n)]

\* A line ends behind where the search began.
LEMMA DataAfter ==
    ASSUME NEW view \in Seq(Token), NEW s \in Rounds,
           {i \in s.pos + 1..Len(view) - 1 : view[i][1] = "cr"} # {}
    PROVE  /\ DataBehind(view, s) \in Nat /\ s.pos + 2 <= DataBehind(view, s)
           /\ DataBehind(view, s) <= Len(view)
           /\ view[DataBehind(view, s) - 1][1] = "cr"
           /\ \A i \in s.pos + 1..DataBehind(view, s) - 2 : view[i][1] # "cr"
  <1>. DEFINE ends == {i \in s.pos + 1..Len(view) - 1 : view[i][1] = "cr"}
              q == Min(ends)
  <1>0. s.pos \in Nat /\ Len(view) \in Nat
    BY LenProperties DEF Rounds
  <1>1. ends \subseteq Nat
    BY <1>0
  <1>2. q \in ends /\ \A y \in ends : q <= y
    <2>. HIDE DEF ends
    <2>. QED  BY <1>1, MinProperties DEF ends
  <1>3. DataBehind(view, s) = q + 1
    BY DEF DataBehind
  <1>. HIDE DEF q
  <1>4. q \in s.pos + 1..Len(view) - 1 /\ view[q][1] = "cr"
    BY <1>2
  <1>5. q \in Nat /\ s.pos + 2 <= q + 1 /\ q + 1 <= Len(view) /\ (q + 1) - 1 = q /\ (q + 1) - 2 = q - 1
    BY <1>0, <1>4
  <1>6. ASSUME NEW i \in s.pos + 1..q - 1 PROVE view[i][1] # "cr"
    <2>1. i \in s.pos + 1..Len(view) - 1 /\ ~(q <= i)
      BY <1>0, <1>5
    <2>. QED  BY <1>2, <2>1
  <1>. HIDE DEF ends
  <1>. QED  BY <1>3, <1>4, <1>5, <1>6

\* The cases of a round.
LEMMA RoundMoves ==
    ASSUME NEW view \in Seq(Token), NEW g \in Numbers, NEW s \in Rounds
    PROVE  \/ NextChunk(view, g, s) = s
           \/ NextChunk(view, g, s) = [s EXCEPT !.result = "more"]
           \/ /\ DataBehind(view, s) \in Nat /\ s.pos <= DataBehind(view, s)
              /\ Moves(NextChunk(view, g, s), s, view, DataBehind(view, s), SizeThere(view, g, s))
  <1>. DEFINE ends == {i \in s.pos + 1..Len(view) - 1 : view[i][1] = "cr"}
              d == DataBehind(view, s)
              n == SizeThere(view, g, s)
  <1>1. NextChunk(view, g, s) =
          IF s.result # "next" THEN s
          ELSE IF ends = {} THEN [s EXCEPT !.result = "more"]
          ELSE IF n = Invalid THEN [s EXCEPT !.body = <<>>, !.result = "throws"]
          ELSE IF n = 0 THEN [s EXCEPT !.pos = d, !.result = "over"]
          ELSE IF d + n > Len(view) THEN [s EXCEPT !.pos = d, !.result = "more"]
          ELSE [s EXCEPT !.pos = d + n + 2, !.body = @ \o SubSeq(view, d + 1, d + n)]
    BY DEF NextChunk, DataBehind, SizeThere
  <1>2. CASE s.result # "next" \/ ends = {}
    <2>. HIDE DEF ends, d, n
    <2>. QED  BY <1>1, <1>2
  <1>3. CASE s.result = "next" /\ ends # {}
    <2>0. s.pos \in Nat /\ Len(view) \in Nat
      BY LenProperties DEF Rounds
    <2>1. d \in Nat /\ s.pos + 2 <= d /\ d <= Len(view)
      BY <1>3, DataAfter
    <2>2. n \in Numbers
      <3>. DEFINE line == SubSeq(view, s.pos + 1, d - 2)
      <3>1. line \in Seq(Token)
        <4>. HIDE DEF d
        <4>1. s.pos + 1 \in Int /\ d - 2 \in Int /\ s.pos + 1 >= 1 /\ d - 2 <= Len(view)
          BY <2>0, <2>1
        <4>2. \A i \in s.pos + 1..d - 2 : i \in 1..Len(view)
          BY <2>0, <2>1
        <4>. QED  BY <2>0, <4>1, <4>2, SubSeqProperties
      <3>2. n = Stoul(line, g)
        BY DEF SizeThere
      <3>. HIDE DEF line, n, d
      <3>. QED  BY <3>1, <3>2, StoulNumbers
    <2>. HIDE DEF d, n, ends
    <2>3. s.pos <= d
      BY <2>0, <2>1
    <2>4. n # Invalid => n \in Nat
      BY <2>2 DEF Numbers
    <2>5. ~(d + n > Len(view)) /\ n \in Nat => d + n <= Len(view)
      BY <2>0, <2>1
    <2>6. Moves(NextChunk(view, g, s), s, view, d, n)
      BY <1>1, <1>3, <2>4, <2>5 DEF Moves
    <2>. QED  BY <2>1, <2>3, <2>6 DEF d, n
  <1>. QED  BY <1>2, <1>3

\* What a round leaves is picked from what lies before its position.
Picked(s, view) == s \in Rounds /\ Picks(s.body, view, s.pos)

\* A round keeps that.
LEMMA RoundPicks ==
    ASSUME NEW view \in Seq(Token), NEW g \in Numbers, NEW s, Picked(s, view)
    PROVE  Picked(NextChunk(view, g, s), view)
  <1>. DEFINE t == NextChunk(view, g, s)
              d == DataBehind(view, s)
              n == SizeThere(view, g, s)
  <1>1. s \in Rounds /\ Picks(s.body, view, s.pos)
    BY DEF Picked
  <1>2. /\ s.body \in Seq(Token) /\ s.pos \in Nat /\ s.result \in Results
        /\ s = [body |-> s.body, pos |-> s.pos, result |-> s.result]
    BY <1>1 DEF Rounds
  <1>3. \/ t = s \/ t = [s EXCEPT !.result = "more"]
        \/ d \in Nat /\ s.pos <= d /\ Moves(t, s, view, d, n)
    BY <1>1, RoundMoves
  <1>0. SUFFICES Picked(t, view)
    OBVIOUS
  <1>. HIDE DEF t, d, n
  <1>4. Picks(<<>>, view, s.pos)
    <2>. DEFINE f == [i \in 1..0 |-> 1]
    <2>1. f \in [1..0 -> 1..Len(view)]
      OBVIOUS
    <2>2. PicksBy(f, <<>>, view, s.pos)
      BY <2>1 DEF PicksBy
    <2>. QED  BY <2>2 DEF Picks
  <1>5. CASE t = s
    BY <1>1, <1>5 DEF Picked
  <1>6. CASE t = [s EXCEPT !.result = "more"]
    <2>1. t \in Rounds /\ t.body = s.body /\ t.pos = s.pos
      BY <1>2, <1>6 DEF Rounds, Results
    <2>. QED  BY <1>1, <2>1 DEF Picked
  <1>7. CASE t = [s EXCEPT !.body = <<>>, !.result = "throws"]
    <2>1. t \in Rounds /\ t.body = <<>> /\ t.pos = s.pos
      <3>1. <<>> \in Seq(Token)
        BY EmptySeq
      <3>. QED  BY <1>2, <1>7, <3>1 DEF Rounds, Results
    <2>. QED  BY <1>4, <2>1 DEF Picked
  <1>8. CASE d \in Nat /\ s.pos <= d
             /\ (t = [s EXCEPT !.pos = d, !.result = "over"] \/ t = [s EXCEPT !.pos = d, !.result = "more"])
    <2>1. t \in Rounds /\ t.body = s.body /\ t.pos = d
      BY <1>2, <1>8 DEF Rounds, Results
    <2>2. Picks(s.body, view, d)
      BY <1>1, <1>2, <1>8, PicksMore
    <2>. QED  BY <2>1, <2>2 DEF Picked
  <1>9. CASE /\ d \in Nat /\ s.pos <= d /\ n \in Nat /\ d + n <= Len(view)
             /\ t = [s EXCEPT !.pos = d + n + 2, !.body = @ \o SubSeq(view, d + 1, d + n)]
    <2>. DEFINE more == s.body \o SubSeq(view, d + 1, d + n)
    <2>1. more \in Seq(Token) /\ Picks(more, view, d + n + 2)
      BY <1>1, <1>2, <1>9, PicksChunk
    <2>2. t = [s EXCEPT !.pos = d + n + 2, !.body = more]
      BY <1>9
    <2>. HIDE DEF more
    <2>3. t \in Rounds /\ t.body = more /\ t.pos = d + n + 2
      <3>1. d + n + 2 \in Nat
        BY <1>9
      <3>. QED  BY <1>2, <2>1, <2>2, <3>1 DEF Rounds
    <2>. QED  BY <2>1, <2>3 DEF Picked
  <1>. QED  BY <1>3, <1>5, <1>6, <1>7, <1>8, <1>9 DEF Moves

\* The only member of a set of one.
LEMMA Only ==
    ASSUME NEW x
    PROVE  (CHOOSE s \in {x} : TRUE) = x
  OBVIOUS

\* Where parse_chunk's loop begins.
HeaderLen(view) == IF view[1] = T("http", 0) THEN 2 ELSE 0
Start(view) == [body |-> <<>>, pos |-> HeaderLen(view), result |-> "next"]

\* The rounds of parse_chunk's loop.
RoundsOf(after, view, g) ==
    /\ after \in [0..Len(view) -> Rounds] /\ after[0] = Start(view)
    /\ \A k \in 1..Len(view) : after[k] = NextChunk(view, g, after[k - 1])
    /\ \A k \in 0..Len(view) : Picked(after[k], view)

\* What parse_chunk makes of the last of them.
ParsedFrom(p, s, view) ==
    IF Len(view) < HeaderLen(view) THEN p = [body |-> <<>>, pos |-> 0, result |-> "more"]
    ELSE p = [s EXCEPT !.pos = Consumed(view, @)]

\* parse_chunk goes from round to round.
LEMMA Parsing ==
    ASSUME NEW view \in Seq(Token), NEW g \in Numbers
    PROVE  \E after : RoundsOf(after, view, g)
                      /\ ParsedFrom(parse_chunk(view, g), after[Len(view)], view)
  <1>1. PICK n \in Nat : n = Len(view)
    BY LenProperties
  <1>. DEFINE base == [body |-> <<>>, pos |-> IF view[1] = T("http", 0) THEN 2 ELSE 0,
                       result |-> "next"]
              V == {s \in Rounds : Picked(s, view)}
              Goes(s) == NextChunk(view, g, s)
              Follows(h) ==
                h = [k \in 0..n |->
                       IF k = 0 THEN base
                       ELSE CHOOSE s \in {NextChunk(view, g, before) : before \in {h[k - 1]}} : TRUE]
              after == CHOOSE h : Follows(h)
              rule == [x \in (1..n) \X V |-> Goes(x[2])]
  <1>2. base \in V
    <2>1. <<>> \in Seq(Token)
      BY EmptySeq
    <2>. DEFINE pos == IF view[1] = T("http", 0) THEN 2 ELSE 0
    <2>2. pos \in Nat
      OBVIOUS
    <2>. HIDE DEF pos
    <2>3. base \in Rounds /\ base.body = <<>> /\ base.pos = pos
      BY <2>1, <2>2 DEF Rounds, Results, pos
    <2>4. Picks(<<>>, view, pos)
      <3>. DEFINE f == [i \in 1..0 |-> 1]
      <3>1. f \in [1..0 -> 1..Len(view)]
        OBVIOUS
      <3>2. PicksBy(f, <<>>, view, pos)
        BY <3>1 DEF PicksBy
      <3>. QED  BY <3>2 DEF Picks
    <2>. HIDE DEF base
    <2>5. Picked(base, view)
      BY <2>3, <2>4 DEF Picked
    <2>. QED  BY <2>3, <2>5
  <1>3. \A s \in V : Goes(s) \in V
    <2>1. ASSUME NEW s \in V PROVE Goes(s) \in V
      <3>1. Picked(NextChunk(view, g, s), view)
        BY RoundPicks
      <3>. QED  BY <3>1 DEF Picked
    <2>. QED  BY <2>1
  <1>. HIDE DEF base, V, Goes
  <1>4. rule \in Rules(n, V)
    BY <1>3 DEF Rules
  <1>5. PICK f \in [0..n -> V] : f[0] = base /\ \A k \in 1..n : f[k] = rule[<<k, f[k - 1]>>]
    <2>. HIDE DEF rule
    <2>1. \E f \in [0..n -> V] : Obeys(f, n, base, rule)
      BY <1>2, <1>4, Recursion
    <2>. QED  BY <2>1 DEF Obeys
  <1>6. ASSUME NEW k \in 1..n PROVE f[k] = Goes(f[k - 1])
    <2>1. k - 1 \in 0..n
      OBVIOUS
    <2>2. <<k, f[k - 1]>> \in (1..n) \X V
      BY <1>5, <2>1
    <2>3. rule[<<k, f[k - 1]>>] = Goes(f[k - 1])
      BY <2>2
    <2>. QED  BY <1>5, <2>3
  <1>7. \A x : (CHOOSE s \in {NextChunk(view, g, before) : before \in {x}} : TRUE) = Goes(x)
    <2>1. ASSUME NEW x
          PROVE  (CHOOSE s \in {NextChunk(view, g, before) : before \in {x}} : TRUE) = Goes(x)
      <3>1. {NextChunk(view, g, before) : before \in {x}} = {Goes(x)}
        BY DEF Goes
      <3>2. (CHOOSE s \in {Goes(x)} : TRUE) = Goes(x)
        BY Only
      <3>. QED  BY <3>1, <3>2
    <2>. QED  BY <2>1
  <1>8. Follows(f)
    <2>. DEFINE h == [k \in 0..n |->
                        IF k = 0 THEN base
                        ELSE CHOOSE s \in {NextChunk(view, g, before) : before \in {f[k - 1]}} : TRUE]
    <2>1. ASSUME NEW k \in 0..n PROVE h[k] = f[k]
      <3>1. CASE k = 0
        BY <1>5, <3>1
      <3>2. CASE k # 0
        <4>1. h[k] = CHOOSE s \in {NextChunk(view, g, before) : before \in {f[k - 1]}} : TRUE
          BY <3>2
        <4>2. k \in 1..n
          BY <3>2
        <4>3. f[k] = Goes(f[k - 1])
          BY <1>6, <4>2
        <4>. HIDE DEF h
        <4>. QED  BY <1>7, <4>1, <4>3
      <3>. QED  BY <3>1, <3>2
    <2>2. h = [k \in 0..n |-> h[k]] /\ f = [k \in 0..n |-> f[k]]
      BY <1>5
    <2>3. h = f
      <3>. HIDE DEF h
      <3>. QED  BY <2>1, <2>2
    <2>. QED  BY <2>3
  <1>9. Follows(after)
    <2>. HIDE DEF Follows
    <2>. QED  BY <1>8
  <1>10. ParsedFrom(parse_chunk(view, g), after[n], view)
    <2>1. parse_chunk(view, g) = IF Len(view) < HeaderLen(view)
                                 THEN [body |-> <<>>, pos |-> 0, result |-> "more"]
                                 ELSE [after[n] EXCEPT !.pos = Consumed(view, @)]
      BY <1>1 DEF parse_chunk, HeaderLen, base
    <2>. HIDE DEF after
    <2>. QED  BY <2>1 DEF ParsedFrom
  <1>. HIDE DEF after, rule
  <1>11. after[0] = base /\ after = [k \in 0..n |-> after[k]]
    BY <1>9
  <1>12. ASSUME NEW k \in 1..n PROVE after[k] = Goes(after[k - 1])
    <2>1. k \in 0..n /\ k # 0
      OBVIOUS
    <2>2. after[k] = CHOOSE s \in {NextChunk(view, g, before) : before \in {after[k - 1]}} : TRUE
      BY <1>9, <2>1
    <2>. HIDE DEF Follows
    <2>. QED  BY <1>7, <2>2
  <1>. HIDE DEF Follows
  <1>13. \A k \in 0..n : after[k] \in V
    <2>. DEFINE Holds == {k \in 0..n : after[k] \in V}
    <2>1. 0 \in Holds
      BY <1>2, <1>11
    <2>2. ASSUME NEW k \in 1..n, k - 1 \in Holds PROVE k \in Holds
      <3>1. Goes(after[k - 1]) \in V
        BY <1>3, <2>2
      <3>2. k \in 0..n /\ after[k] = Goes(after[k - 1])
        BY <1>12
      <3>. QED  BY <3>1, <3>2
    <2>3. 0..n \subseteq Holds
      <3>. HIDE DEF Holds
      <3>. QED  BY <2>1, <2>2, UpTo
    <2>. QED  BY <2>3
  <1>14. \A k \in 0..n : after[k] \in Rounds /\ Picked(after[k], view)
    BY <1>13 DEF V
  <1>15. base = Start(view)
    BY DEF base, Start, HeaderLen
  <1>16. \A k \in 1..n : after[k] = NextChunk(view, g, after[k - 1])
    BY <1>12 DEF Goes
  <1>17. after \in [0..n -> Rounds]
    BY <1>11, <1>14
  <1>18. RoundsOf(after, view, g)
    BY <1>1, <1>11, <1>14, <1>15, <1>16, <1>17 DEF RoundsOf
  <1>. QED  BY <1>1, <1>10, <1>18

\* What parse_chunk hands over is picked from what it consumes, and it consumes no
\* more than there is.
LEMMA ParseChunk ==
    ASSUME NEW view \in Seq(Token), NEW g \in Numbers
    PROVE  /\ parse_chunk(view, g).body \in Seq(Token)
           /\ parse_chunk(view, g).pos \in 0..Len(view)
           /\ parse_chunk(view, g).result \in Results
           /\ Picks(parse_chunk(view, g).body, view, parse_chunk(view, g).pos)
  <1>. DEFINE p == parse_chunk(view, g)
  <1>0. SUFFICES /\ p.body \in Seq(Token) /\ p.pos \in 0..Len(view) /\ p.result \in Results
                 /\ Picks(p.body, view, p.pos)
    OBVIOUS
  <1>1. PICK after : RoundsOf(after, view, g) /\ ParsedFrom(p, after[Len(view)], view)
    BY Parsing
  <1>2. Len(view) \in Nat /\ Len(view) \in 0..Len(view)
    BY LenProperties
  <1>. DEFINE s == after[Len(view)]
  <1>3. Picked(s, view)
    BY <1>1, <1>2 DEF RoundsOf
  <1>4. /\ s.body \in Seq(Token) /\ s.pos \in Nat /\ s.result \in Results
        /\ s = [body |-> s.body, pos |-> s.pos, result |-> s.result]
        /\ Picks(s.body, view, s.pos)
    BY <1>3 DEF Picked, Rounds
  <1>5. ParsedFrom(p, s, view)
    BY <1>1
  <1>. HIDE DEF p, s
  <1>6. CASE Len(view) < HeaderLen(view)
    <2>1. p = [body |-> <<>>, pos |-> 0, result |-> "more"]
      BY <1>5, <1>6 DEF ParsedFrom
    <2>2. p.body = <<>> /\ p.pos = 0 /\ p.result = "more"
      BY <2>1
    <2>3. Picks(<<>>, view, 0)
      <3>. DEFINE f == [i \in 1..0 |-> 1]
      <3>1. f \in [1..0 -> 1..Len(view)]
        OBVIOUS
      <3>2. PicksBy(f, <<>>, view, 0)
        BY <3>1 DEF PicksBy
      <3>. QED  BY <3>2 DEF Picks
    <2>4. <<>> \in Seq(Token) /\ 0 \in 0..Len(view) /\ "more" \in Results
      BY <1>2, EmptySeq DEF Results
    <2>. QED  BY <2>2, <2>3, <2>4
  <1>7. CASE ~(Len(view) < HeaderLen(view))
    <2>. DEFINE q == Consumed(view, s.pos)
    <2>1. p = [s EXCEPT !.pos = q]
      BY <1>5, <1>7 DEF ParsedFrom
    <2>2. q \in {s.pos, Len(view)} /\ q <= s.pos /\ q <= Len(view)
      <3>1. {s.pos, Len(view)} \subseteq Nat /\ {s.pos, Len(view)} # {}
        BY <1>2, <1>4
      <3>2. q = Min({s.pos, Len(view)})
        BY DEF Consumed
      <3>. HIDE DEF q
      <3>. QED  BY <3>1, <3>2, MinProperties
    <2>. HIDE DEF q
    <2>3. p.body = s.body /\ p.pos = q /\ p.result = s.result
      BY <1>4, <2>1
    <2>4. q \in 0..Len(view)
      BY <1>2, <1>4, <2>2
    <2>5. Picks(s.body, view, q)
      <3>1. PICK f : PicksBy(f, s.body, view, s.pos)
        BY <1>4 DEF Picks
      <3>2. ASSUME NEW i \in 1..Len(s.body) PROVE f[i] <= q
        <4>1. f[i] <= s.pos /\ f[i] \in 1..Len(view)
          BY <3>1 DEF PicksBy
        <4>. QED  BY <2>2, <4>1
      <3>3. PicksBy(f, s.body, view, q)
        BY <3>1, <3>2 DEF PicksBy
      <3>. QED  BY <3>3 DEF Picks
    <2>. QED  BY <1>4, <2>3, <2>4, <2>5
  <1>. QED  BY <1>6, <1>7

-----------------------------------------------------------------------------
(* The callbacks *)

\* What a callback knows between two tokens.
States == [line : Seq(Token), last_line : Seq(Token), is_active : BOOLEAN,
           heard : Seq(DOMAIN events), is_delta : BOOLEAN, threw : BOOLEAN]

\* What a line does to it: at most the event that the line ends with is heard, and
\* nothing is kept that was not there.
Takes(s, t, raw) ==
    /\ t \in States /\ t.line = s.line
    /\ \/ t.heard = s.heard
       \/ \E n \in DOMAIN events :
            raw # <<>> /\ raw[Len(raw)] = T("j2", n) /\ t.heard = Append(s.heard, n)
    /\ ToSet(t.last_line) \subseteq ToSet(s.last_line) \cup ToSet(raw)

\* A line that is JSON is that of an event, without its end.
LEMMA LineParsed ==
    ASSUME NEW line \in Seq(Token), Parsed(line) # Invalid, Len(events) \in Nat
    PROVE  Parsed(line) \in 0..Len(events) /\ Len(line) = 4 /\ line[4] = T("j2", Parsed(line))
  <1>1. \E n \in 0..Len(events) : Append(line, Newline) = Line(n)
    BY DEF Parsed
  <1>2. PICK n \in 0..Len(events) : Append(line, Newline) = Line(n)
    BY <1>1
  <1>3. Len(Line(n)) = 5 /\ DataAt(Line(n), 0, n)
    BY LineTokens
  <1>4. Newline \in Token
    BY DEF Newline, T, Token, Kinds
  <1>5. Appends(Line(n), line, Newline)
    BY <1>2, <1>4, Appending
  <1>6. Len(line) = 4 /\ line[3] = Line(n)[3] /\ line[4] = Line(n)[4]
    <2>1. Len(line) \in Nat
      BY LenProperties
    <2>2. Len(line) = 4
      <3>1. Len(Line(n)) = Len(line) + 1
        BY <1>5, Zenon DEF Appends
      <3>2. 5 = Len(line) + 1
        BY <1>3, <3>1, Zenon
      <3>3. \A x \in Nat : 5 = x + 1 => x = 4
        OBVIOUS
      <3>. QED  BY <2>1, <3>2, <3>3, Zenon
    <2>. QED  BY <1>5, <2>2 DEF Appends
  <1>7. Parsed(line) = line[3][2]
    BY <1>1 DEF Parsed
  <1>8. line[3] = T("j1", n) /\ line[4] = T("j2", n)
    BY <1>3, <1>6 DEF DataAt
  <1>9. Parsed(line) = n
    BY <1>7, <1>8 DEF T
  <1>. QED  BY <1>6, <1>8, <1>9

\* What is in two sequences one after the other.
LEMMA ConcatenationSet ==
    ASSUME NEW s \in Seq(Token), NEW t \in Seq(Token)
    PROVE  ToSet(s \o t) \subseteq ToSet(s) \cup ToSet(t)
  <1>. DEFINE u == s \o t
  <1>1. u \in Seq(Token) /\ Concatenates(u, s, t)
    BY Concatenating
  <1>. HIDE DEF u
  <1>2. Len(s) \in Nat /\ Len(t) \in Nat /\ DOMAIN s = 1..Len(s) /\ DOMAIN t = 1..Len(t)
        /\ DOMAIN u = 1..Len(u)
    BY <1>1, LenProperties
  <1>3. ASSUME NEW i \in 1..Len(u) PROVE u[i] \in ToSet(s) \cup ToSet(t)
    <2>1. CASE i <= Len(s)
      <3>1. i \in 1..Len(s)
        BY <1>2, <2>1
      <3>2. u[i] = s[i]
        BY <1>1, <3>1 DEF Concatenates
      <3>. QED  BY <1>2, <3>1, <3>2 DEF ToSet
    <2>2. CASE ~(i <= Len(s))
      <3>1. i - Len(s) \in 1..Len(t) /\ Len(s) + (i - Len(s)) = i
        BY <1>1, <1>2, <2>2 DEF Concatenates
      <3>2. u[Len(s) + (i - Len(s))] = t[i - Len(s)]
        BY <1>1, <3>1 DEF Concatenates
      <3>. QED  BY <1>2, <3>1, <3>2 DEF ToSet
    <2>. QED  BY <2>1, <2>2
  <1>4. ToSet(u) \subseteq ToSet(s) \cup ToSet(t)
    BY <1>2, <1>3 DEF ToSet
  <1>. QED  BY <1>4 DEF u

\* Openai's line, joined to the one before it or not.
LEMMA TakesOpenai ==
    ASSUME NEW s \in States, NEW raw \in Seq(Token), Len(events) \in Nat,
           DOMAIN events = 1..Len(events)
    PROVE  Takes(s, OpenaiLine(s, raw), raw)
  <1>. DEFINE j == Joined(s, raw)
              n == Parsed(j.line)
              t == OpenaiLine(s, raw)
              on == Active(s, n)
  <1>0. SUFFICES Takes(s, t, raw)
    OBVIOUS
  <1>1. /\ s.line \in Seq(Token) /\ s.last_line \in Seq(Token) /\ s.is_active \in BOOLEAN
        /\ s.heard \in Seq(DOMAIN events) /\ s.is_delta \in BOOLEAN /\ s.threw \in BOOLEAN
        /\ s = [line |-> s.line, last_line |-> s.last_line, is_active |-> s.is_active,
                heard |-> s.heard, is_delta |-> s.is_delta, threw |-> s.threw]
    BY DEF States
  <1>2. t = IF raw = <<>> THEN s
            ELSE IF ~IsData(j.line) THEN [s EXCEPT !.last_line = j.last_line]
            ELSE IF n = Invalid THEN [s EXCEPT !.last_line = j.line]
            ELSE IF n = 0 THEN [s EXCEPT !.last_line = j.last_line]
            ELSE [s EXCEPT !.last_line = j.last_line, !.is_active = on,
                           !.heard = IF on THEN Append(s.heard, n) ELSE s.heard]
    <2>1. OpenaiLine(s, raw) =
            IF raw = <<>> THEN s
            ELSE IF ~IsData(j.line) THEN [s EXCEPT !.last_line = j.last_line]
            ELSE IF n = Invalid THEN [s EXCEPT !.last_line = j.line]
            ELSE IF n = 0 THEN [s EXCEPT !.last_line = j.last_line]
            ELSE [s EXCEPT !.last_line = j.last_line, !.is_active = on,
                           !.heard = IF on THEN Append(s.heard, n) ELSE s.heard]
      BY DEF OpenaiLine
    <2>. QED  BY <2>1
  <1>3. /\ j.line \in Seq(Token) /\ j.last_line \in Seq(Token)
        /\ ToSet(j.line) \subseteq ToSet(s.last_line) \cup ToSet(raw)
        /\ ToSet(j.last_line) \subseteq ToSet(s.last_line) \cup ToSet(raw)
        /\ raw # <<>> /\ Len(j.line) = 4 => j.line[4] = raw[Len(raw)]
    <2>1. CASE IsData(raw)
      <3>1. j = [line |-> raw, last_line |-> s.last_line]
        BY <2>1 DEF Joined
      <3>2. j.line = raw /\ j.last_line = s.last_line
        BY <3>1
      <3>. HIDE DEF j
      <3>. QED  BY <1>1, <3>2
    <2>2. CASE ~IsData(raw)
      <3>. DEFINE u == s.last_line \o raw
      <3>1. j = [line |-> u, last_line |-> <<>>]
        BY <2>2 DEF Joined
      <3>2. j.line = u /\ j.last_line = <<>>
        BY <3>1
      <3>3. u \in Seq(Token) /\ Concatenates(u, s.last_line, raw)
        BY <1>1, Concatenating
      <3>4. ToSet(u) \subseteq ToSet(s.last_line) \cup ToSet(raw)
        BY <1>1, ConcatenationSet
      <3>. HIDE DEF j, u
      <3>5. ASSUME raw # <<>>, Len(u) = 4 PROVE u[4] = raw[Len(raw)]
        <4>1. Len(raw) \in 1..Len(raw) /\ Len(s.last_line) \in Nat
          <5>1. Len(raw) \in Nat /\ Len(raw) # 0 /\ Len(s.last_line) \in Nat
            BY <1>1, <3>5, LenProperties, EmptySeq
          <5>. QED  BY <5>1
        <4>2. Len(s.last_line) + Len(raw) = 4
          BY <3>3, <3>5 DEF Concatenates
        <4>3. u[Len(s.last_line) + Len(raw)] = raw[Len(raw)]
          BY <3>3, <4>1 DEF Concatenates
        <4>. QED  BY <4>2, <4>3
      <3>6. <<>> \in Seq(Token) /\ ToSet(<<>>) = {}
        BY EmptySeq DEF ToSet
      <3>. QED  BY <3>2, <3>3, <3>4, <3>5, <3>6
    <2>. QED  BY <2>1, <2>2
  <1>. HIDE DEF j
  <1>4. n # Invalid => n \in 0..Len(events) /\ Len(j.line) = 4 /\ j.line[4] = T("j2", n)
    BY <1>3, LineParsed
  <1>5. on \in BOOLEAN
    BY DEF Active
  <1>. HIDE DEF n, t, on
  <1>6. CASE t = s
    BY <1>6 DEF Takes
  <1>7. ASSUME NEW last \in Seq(Token), t = [s EXCEPT !.last_line = last],
               ToSet(last) \subseteq ToSet(s.last_line) \cup ToSet(raw)
        PROVE  Takes(s, t, raw)
    <2>1. t \in States /\ t.line = s.line /\ t.heard = s.heard /\ t.last_line = last
      BY <1>1, <1>7 DEF States
    <2>. QED  BY <1>7, <2>1 DEF Takes
  <1>8. CASE /\ raw # <<>> /\ n # Invalid /\ n # 0
             /\ t = [s EXCEPT !.last_line = j.last_line, !.is_active = on,
                              !.heard = IF on THEN Append(s.heard, n) ELSE s.heard]
    <2>1. n \in DOMAIN events /\ raw[Len(raw)] = T("j2", n)
      <3>1. n \in 0..Len(events) /\ j.line[4] = raw[Len(raw)] /\ j.line[4] = T("j2", n)
        BY <1>3, <1>4, <1>8
      <3>2. n \in 1..Len(events)
        BY <1>8, <3>1
      <3>. QED  BY <3>1, <3>2
    <2>. DEFINE more == IF on THEN Append(s.heard, n) ELSE s.heard
    <2>2. more \in Seq(DOMAIN events) /\ (more = s.heard \/ more = Append(s.heard, n))
      BY <1>1, <2>1, AppendProperties
    <2>3. t = [s EXCEPT !.last_line = j.last_line, !.is_active = on, !.heard = more]
      BY <1>8
    <2>. HIDE DEF more
    <2>4. t \in States /\ t.line = s.line /\ t.heard = more /\ t.last_line = j.last_line
      BY <1>1, <1>3, <1>5, <2>2, <2>3 DEF States
    <2>. QED  BY <1>3, <1>8, <2>1, <2>2, <2>4 DEF Takes
  <1>. QED  BY <1>2, <1>3, <1>6, <1>7, <1>8

\* Dify's line.
LEMMA TakesDify ==
    ASSUME NEW s \in States, NEW raw \in Seq(Token), Len(events) \in Nat,
           DOMAIN events = 1..Len(events), Numbered("Dify", raw)
    PROVE  Takes(s, DifyLine(s, raw), raw)
  <1>. DEFINE n == Parsed(raw)
              t == DifyLine(s, raw)
  <1>0. SUFFICES Takes(s, t, raw)
    OBVIOUS
  <1>1. /\ s.line \in Seq(Token) /\ s.last_line \in Seq(Token) /\ s.is_active \in BOOLEAN
        /\ s.heard \in Seq(DOMAIN events) /\ s.is_delta \in BOOLEAN /\ s.threw \in BOOLEAN
        /\ s = [line |-> s.line, last_line |-> s.last_line, is_active |-> s.is_active,
                heard |-> s.heard, is_delta |-> s.is_delta, threw |-> s.threw]
    BY DEF States
  <1>2. \/ t = s \/ t = [s EXCEPT !.threw = TRUE]
        \/ n # Invalid /\ t = [s EXCEPT !.heard = Append(s.heard, n)]
    BY DEF DifyLine
  <1>3. n # Invalid => n \in 0..Len(events) /\ Len(raw) = 4 /\ raw[4] = T("j2", n)
    BY LineParsed
  <1>. HIDE DEF n, t
  <1>4. CASE t = s
    BY <1>4 DEF Takes
  <1>5. CASE t = [s EXCEPT !.threw = TRUE]
    <2>1. t \in States /\ t.line = s.line /\ t.heard = s.heard /\ t.last_line = s.last_line
      BY <1>1, <1>5 DEF States
    <2>. QED  BY <2>1 DEF Takes
  <1>6. CASE n # Invalid /\ t = [s EXCEPT !.heard = Append(s.heard, n)]
    <2>1. n \in DOMAIN events /\ raw # <<>> /\ raw[Len(raw)] = T("j2", n)
      <3>1. n \in 0..Len(events) /\ Len(raw) = 4 /\ raw[4] = T("j2", n)
        BY <1>3, <1>6
      <3>2. raw # <<>>
        BY <3>1
      <3>3. n # 0
        BY <3>1 DEF Numbered, T
      <3>. QED  BY <3>1, <3>2, <3>3
    <2>2. Append(s.heard, n) \in Seq(DOMAIN events)
      BY <1>1, <2>1, AppendProperties
    <2>3. t \in States /\ t.line = s.line /\ t.heard = Append(s.heard, n) /\ t.last_line = s.last_line
      BY <1>1, <1>6, <2>2 DEF States
    <2>. QED  BY <2>1, <2>3 DEF Takes
  <1>. QED  BY <1>2, <1>4, <1>5, <1>6

\* CozeV3's line.
LEMMA TakesCoze ==
    ASSUME NEW s \in States, NEW raw \in Seq(Token), Len(events) \in Nat,
           DOMAIN events = 1..Len(events), Numbered("CozeV3", raw)
    PROVE  Takes(s, CozeLine(s, raw), raw)
  <1>. DEFINE n == Parsed(raw)
              t == CozeLine(s, raw)
  <1>0. SUFFICES Takes(s, t, raw)
    OBVIOUS
  <1>1. /\ s.line \in Seq(Token) /\ s.last_line \in Seq(Token) /\ s.is_active \in BOOLEAN
        /\ s.heard \in Seq(DOMAIN events) /\ s.is_delta \in BOOLEAN /\ s.threw \in BOOLEAN
        /\ s = [line |-> s.line, last_line |-> s.last_line, is_active |-> s.is_active,
                heard |-> s.heard, is_delta |-> s.is_delta, threw |-> s.threw]
    BY DEF States
  <1>2. \/ t = s \/ t = [s EXCEPT !.threw = TRUE] \/ t = [s EXCEPT !.is_delta = TRUE]
        \/ n # Invalid /\ t = [s EXCEPT !.heard = Append(s.heard, n)]
    BY DEF CozeLine
  <1>3. n # Invalid => n \in 0..Len(events) /\ Len(raw) = 4 /\ raw[4] = T("j2", n)
    BY LineParsed
  <1>. HIDE DEF n, t
  <1>4. CASE t = s
    BY <1>4 DEF Takes
  <1>5. CASE t = [s EXCEPT !.threw = TRUE] \/ t = [s EXCEPT !.is_delta = TRUE]
    <2>1. t \in States /\ t.line = s.line /\ t.heard = s.heard /\ t.last_line = s.last_line
      BY <1>1, <1>5 DEF States
    <2>. QED  BY <2>1 DEF Takes
  <1>6. CASE n # Invalid /\ t = [s EXCEPT !.heard = Append(s.heard, n)]
    <2>1. n \in DOMAIN events /\ raw # <<>> /\ raw[Len(raw)] = T("j2", n)
      <3>1. n \in 0..Len(events) /\ Len(raw) = 4 /\ raw[4] = T("j2", n)
        BY <1>3, <1>6
      <3>2. raw # <<>>
        BY <3>1
      <3>3. n # 0
        BY <3>1 DEF Numbered, T
      <3>. QED  BY <3>1, <3>2, <3>3
    <2>2. Append(s.heard, n) \in Seq(DOMAIN events)
      BY <1>1, <2>1, AppendProperties
    <2>3. t \in States /\ t.line = s.line /\ t.heard = Append(s.heard, n) /\ t.last_line = s.last_line
      BY <1>1, <1>6, <2>2 DEF States
    <2>. QED  BY <2>1, <2>3 DEF Takes
  <1>. QED  BY <1>2, <1>4, <1>5, <1>6

\* Whichever provider's line it is.
LEMMA TakesTheLine ==
    ASSUME NEW s \in States, NEW raw \in Seq(Token), Len(events) \in Nat,
           DOMAIN events = 1..Len(events), provider \in Providers, Numbered(provider, raw)
    PROVE  Takes(s, TakeLine(s, raw), raw)
  <1>1. CASE provider = "Openai"
    <2>1. TakeLine(s, raw) = OpenaiLine(s, raw)
      BY <1>1 DEF TakeLine
    <2>. QED  BY <2>1, TakesOpenai
  <1>2. CASE provider = "Dify"
    <2>1. TakeLine(s, raw) = DifyLine(s, raw)
      BY <1>2 DEF TakeLine
    <2>. QED  BY <1>2, <2>1, TakesDify
  <1>3. CASE provider = "CozeV3"
    <2>1. TakeLine(s, raw) = CozeLine(s, raw)
      BY <1>3 DEF TakeLine
    <2>. QED  BY <1>3, <2>1, TakesCoze
  <1>. QED  BY <1>1, <1>2, <1>3 DEF Providers

\* What one token of a callback's piece makes of s.
NextState(res, i, s) ==
    IF i <= Len(res) /\ res[i] # Newline THEN [s EXCEPT !.line = Append(@, res[i])]
    ELSE [TakeLine(s, s.line) EXCEPT !.line = <<>>]

\* How a callback begins.
FirstState == [line |-> <<>>, last_line |-> last_line, is_active |-> is_active,
               heard |-> heard, is_delta |-> FALSE, threw |-> FALSE]

\* The tokens of a piece, one after another.
StatesOf(after, res) ==
    /\ after[0] = FirstState
    /\ \A i \in 1..Len(res) + 1 : after[i] = NextState(res, i, after[i - 1])
    /\ Callback(res) = after[Len(res) + 1]

\* The variables that a callback depends on, as far as their types go.
Settled ==
    /\ provider \in Providers
    /\ Len(events) \in Nat /\ DOMAIN events = 1..Len(events)
    /\ last_line \in Seq(Token) /\ is_active \in BOOLEAN /\ heard \in Seq(DOMAIN events)

\* A state whose line has the provider's numbers.
Sound(s) == s \in States /\ Numbered(provider, s.line)

\* A token keeps it so.
LEMMA NextSound ==
    ASSUME Settled, NEW res \in Seq(Token), Numbered(provider, res), NEW i \in 1..Len(res) + 1,
           NEW s, Sound(s)
    PROVE  Sound(NextState(res, i, s))
  <1>. DEFINE t == NextState(res, i, s)
  <1>0. SUFFICES Sound(t)
    OBVIOUS
  <1>1. /\ s.line \in Seq(Token) /\ s.last_line \in Seq(Token) /\ s.is_active \in BOOLEAN
        /\ s.heard \in Seq(DOMAIN events) /\ s.is_delta \in BOOLEAN /\ s.threw \in BOOLEAN
        /\ s = [line |-> s.line, last_line |-> s.last_line, is_active |-> s.is_active,
                heard |-> s.heard, is_delta |-> s.is_delta, threw |-> s.threw]
        /\ s \in States /\ Numbered(provider, s.line)
    BY DEF States, Sound
  <1>2. Len(res) \in Nat /\ Len(s.line) \in Nat
    BY <1>1, LenProperties
  <1>3. CASE i <= Len(res) /\ res[i] # Newline
    <2>1. i \in 1..Len(res) /\ res[i] \in Token
      <3>1. i \in 1..Len(res)
        BY <1>2, <1>3
      <3>. QED  BY <3>1, ElementOfSeq
    <2>. DEFINE more == Append(s.line, res[i])
    <2>2. more \in Seq(Token) /\ Appends(more, s.line, res[i])
      BY <1>1, <2>1, Appending
    <2>3. t = [s EXCEPT !.line = more]
      BY <1>3 DEF NextState
    <2>. HIDE DEF more, t
    <2>4. t \in States /\ t.line = more
      BY <1>1, <2>2, <2>3 DEF States
    <2>5. Numbered(provider, more)
      <3>1. ASSUME provider # "Openai", NEW k \in 1..Len(more), more[k][1] = "j2"
            PROVE  more[k][2] # 0
        <4>1. CASE k \in 1..Len(s.line)
          <5>1. more[k] = s.line[k]
            BY <2>2, <4>1 DEF Appends
          <5>. QED  BY <1>1, <3>1, <4>1, <5>1 DEF Numbered
        <4>2. CASE k \notin 1..Len(s.line)
          <5>1. Len(more) = Len(s.line) + 1 /\ more[Len(s.line) + 1] = res[i]
            BY <2>2 DEF Appends
          <5>2. k = Len(s.line) + 1
            BY <1>2, <4>2, <5>1
          <5>3. more[k] = res[i]
            BY <5>1, <5>2
          <5>. QED  BY <2>1, <3>1, <5>3 DEF Numbered
        <4>. QED  BY <4>1, <4>2
      <3>. QED  BY <3>1 DEF Numbered
    <2>. QED  BY <2>4, <2>5 DEF Sound
  <1>4. CASE ~(i <= Len(res) /\ res[i] # Newline)
    <2>. DEFINE u == TakeLine(s, s.line)
    <2>1. u \in States
      <3>1. Takes(s, TakeLine(s, s.line), s.line)
        BY <1>1, TakesTheLine DEF Settled
      <3>. QED  BY <3>1 DEF Takes
    <2>2. t = [u EXCEPT !.line = <<>>]
      BY <1>4 DEF NextState
    <2>. HIDE DEF u, t
    <2>3. <<>> \in Seq(Token) /\ Len(<<>>) = 0
      BY EmptySeq
    <2>4. t \in States /\ t.line = <<>>
      BY <2>1, <2>2, <2>3 DEF States
    <2>5. Numbered(provider, <<>>)
      BY <2>3 DEF Numbered
    <2>. QED  BY <2>4, <2>5 DEF Sound
  <1>. QED  BY <1>3, <1>4

\* A callback goes from token to token.
LEMMA Calling ==
    ASSUME Settled, NEW res \in Seq(Token), Numbered(provider, res)
    PROVE  \E after : StatesOf(after, res) /\ \A i \in 0..Len(res) + 1 : Sound(after[i])
  <1>1. PICK n \in Nat : n = Len(res) + 1
    BY LenProperties
  <1>. DEFINE NextToken(i, s) ==
                IF i <= Len(res) /\ res[i] # Newline THEN [s EXCEPT !.line = Append(@, res[i])]
                ELSE [TakeLine(s, s.line) EXCEPT !.line = <<>>]
              base == [line |-> <<>>, last_line |-> last_line, is_active |-> is_active,
                       heard |-> heard, is_delta |-> FALSE, threw |-> FALSE]
              V == {s \in States : Sound(s)}
              Follows(h) ==
                h = [i \in 0..n |->
                       IF i = 0 THEN base
                       ELSE CHOOSE s \in {NextToken(i, before) : before \in {h[i - 1]}} : TRUE]
              after == CHOOSE h : Follows(h)
              rule == [x \in (1..n) \X V |-> NextToken(x[1], x[2])]
  <1>2. base \in V
    <2>1. <<>> \in Seq(Token) /\ Len(<<>>) = 0
      BY EmptySeq
    <2>2. base \in States /\ base.line = <<>>
      BY <2>1 DEF Settled, States
    <2>3. Numbered(provider, <<>>)
      BY <2>1 DEF Numbered
    <2>. HIDE DEF base
    <2>. QED  BY <2>2, <2>3 DEF Sound
  <1>3. \A i \in 1..n : \A s \in V : NextToken(i, s) \in V
    <2>1. ASSUME NEW i \in 1..n, NEW s \in V PROVE NextToken(i, s) \in V
      <3>1. Sound(NextState(res, i, s))
        BY <1>1, NextSound
      <3>2. NextState(res, i, s) = NextToken(i, s)
        BY DEF NextState
      <3>. HIDE DEF NextToken
      <3>. QED  BY <3>1, <3>2 DEF Sound
    <2>. QED  BY <2>1
  <1>4. \A i \in 1..n : \A s : NextState(res, i, s) = NextToken(i, s)
    BY DEF NextState
  <1>5. \A i \in 1..n : \A x :
          (CHOOSE s \in {NextToken(i, before) : before \in {x}} : TRUE) = NextToken(i, x)
    <2>1. ASSUME NEW i \in 1..n, NEW x
          PROVE  (CHOOSE s \in {NextToken(i, before) : before \in {x}} : TRUE) = NextToken(i, x)
      <3>. HIDE DEF NextToken
      <3>1. {NextToken(i, before) : before \in {x}} = {NextToken(i, x)}
        OBVIOUS
      <3>2. (CHOOSE s \in {NextToken(i, x)} : TRUE) = NextToken(i, x)
        BY Only
      <3>. QED  BY <3>1, <3>2
    <2>. QED  BY <2>1
  <1>6. Callback(res) = after[n]
    BY <1>1 DEF Callback
  <1>7. base = FirstState
    BY DEF FirstState
  <1>. HIDE DEF base, V, NextToken
  <1>8. rule \in Rules(n, V)
    BY <1>3 DEF Rules
  <1>9. PICK f \in [0..n -> V] : f[0] = base /\ \A i \in 1..n : f[i] = rule[<<i, f[i - 1]>>]
    <2>. HIDE DEF rule
    <2>1. \E f \in [0..n -> V] : Obeys(f, n, base, rule)
      BY <1>2, <1>8, Recursion
    <2>. QED  BY <2>1 DEF Obeys
  <1>10. ASSUME NEW i \in 1..n PROVE f[i] = NextToken(i, f[i - 1])
    <2>1. i - 1 \in 0..n
      OBVIOUS
    <2>2. <<i, f[i - 1]>> \in (1..n) \X V
      BY <1>9, <2>1
    <2>3. rule[<<i, f[i - 1]>>] = NextToken(i, f[i - 1])
      BY <2>2
    <2>. QED  BY <1>9, <2>3
  <1>11. Follows(f)
    <2>. DEFINE h == [i \in 0..n |->
                        IF i = 0 THEN base
                        ELSE CHOOSE s \in {NextToken(i, before) : before \in {f[i - 1]}} : TRUE]
    <2>1. ASSUME NEW i \in 0..n PROVE h[i] = f[i]
      <3>1. CASE i = 0
        BY <1>9, <3>1
      <3>2. CASE i # 0
        <4>1. h[i] = CHOOSE s \in {NextToken(i, before) : before \in {f[i - 1]}} : TRUE
          BY <3>2
        <4>2. i \in 1..n
          BY <3>2
        <4>3. f[i] = NextToken(i, f[i - 1])
          BY <1>10, <4>2
        <4>. HIDE DEF h
        <4>. QED  BY <1>5, <4>1, <4>2, <4>3
      <3>. QED  BY <3>1, <3>2
    <2>2. h = [i \in 0..n |-> h[i]] /\ f = [i \in 0..n |-> f[i]]
      BY <1>9
    <2>3. h = f
      <3>. HIDE DEF h
      <3>. QED  BY <2>1, <2>2
    <2>. QED  BY <2>3
  <1>12. Follows(after)
    <2>. HIDE DEF Follows
    <2>. QED  BY <1>11
  <1>. HIDE DEF after, rule
  <1>13. after[0] = base
    BY <1>12
  <1>14. ASSUME NEW i \in 1..n PROVE after[i] = NextToken(i, after[i - 1])
    <2>1. i \in 0..n /\ i # 0
      OBVIOUS
    <2>2. after[i] = CHOOSE s \in {NextToken(i, before) : before \in {after[i - 1]}} : TRUE
      BY <1>12, <2>1
    <2>. HIDE DEF Follows
    <2>. QED  BY <1>5, <2>2
  <1>. HIDE DEF Follows
  <1>15. \A i \in 0..n : after[i] \in V
    <2>. DEFINE Holds == {i \in 0..n : after[i] \in V}
    <2>1. 0 \in Holds
      BY <1>2, <1>13
    <2>2. ASSUME NEW i \in 1..n, i - 1 \in Holds PROVE i \in Holds
      <3>1. NextToken(i, after[i - 1]) \in V
        BY <1>3, <2>2
      <3>2. i \in 0..n /\ after[i] = NextToken(i, after[i - 1])
        BY <1>14
      <3>. QED  BY <3>1, <3>2
    <2>3. 0..n \subseteq Holds
      <3>. HIDE DEF Holds
      <3>. QED  BY <2>1, <2>2, UpTo
    <2>. QED  BY <2>3
  <1>16. \A i \in 0..n : Sound(after[i])
    BY <1>15 DEF V
  <1>17. \A i \in 1..n : after[i] = NextState(res, i, after[i - 1])
    BY <1>4, <1>14
  <1>18. StatesOf(after, res)
    BY <1>1, <1>6, <1>7, <1>13, <1>17 DEF StatesOf
  <1>. QED  BY <1>1, <1>16, <1>18

\* Numbers that grow, and numbers below another.
Grows(s) == \A i, k \in 1..Len(s) : i < k => s[i] < s[k]
Below(s, n) == \A i \in 1..Len(s) : s[i] < n

\* What is heard after some tokens of a piece: in its order, from before or from an
\* event that ends in the piece, and before all that is yet to be heard in it.
Hears(s, h, res, i) ==
    /\ Grows(s.heard)
    /\ \A k \in 1..Len(s.heard) :
         \/ \E j \in 1..Len(h) : h[j] = s.heard[k]
         \/ \E q \in 1..Len(res) : res[q] = T("j2", s.heard[k])
    /\ \A q \in 1..Len(res) :
         (q > i \/ (q = i /\ s.line # <<>>)) /\ res[q][1] = "j2" /\ res[q][2] # 0
           => Below(s.heard, res[q][2])

\* What is kept comes from the piece or from before it.
Keeps(s, res, i) ==
    /\ s.line # <<>> => i \in 1..Len(res) /\ s.line[Len(s.line)] = res[i]
    /\ ToSet(s.line) \subseteq ToSet(res)
    /\ ToSet(s.last_line) \subseteq ToSet(last_line) \cup ToSet(res)

\* An event more that is later than the others.
LEMMA GrowsOn ==
    ASSUME NEW V, V \subseteq Int, NEW h \in Seq(V), NEW n \in V, Grows(h), Below(h, n)
    PROVE  Grows(Append(h, n)) /\ Len(Append(h, n)) = Len(h) + 1
  <1>. DEFINE u == Append(h, n)
  <1>1. u \in Seq(V) /\ Appends(u, h, n)
    BY Appending
  <1>2. Len(h) \in Nat
    BY LenProperties
  <1>. HIDE DEF u
  <1>3. Len(u) = Len(h) + 1
    BY <1>1 DEF Appends
  <1>4. ASSUME NEW i \in 1..Len(u), NEW k \in 1..Len(u), i < k PROVE u[i] < u[k]
    <2>1. i \in 1..Len(h) /\ u[i] = h[i]
      <3>1. i \in 1..Len(h)
        BY <1>2, <1>3, <1>4
      <3>. QED  BY <1>1, <3>1 DEF Appends
    <2>2. CASE k \in 1..Len(h)
      <3>1. u[k] = h[k]
        BY <1>1, <2>2 DEF Appends
      <3>2. h[i] < h[k]
        BY <1>4, <2>1, <2>2 DEF Grows
      <3>. QED  BY <2>1, <3>1, <3>2
    <2>3. CASE k \notin 1..Len(h)
      <3>1. k = Len(h) + 1
        BY <1>2, <1>3, <2>3
      <3>2. u[k] = n
        BY <1>1, <3>1 DEF Appends
      <3>3. h[i] < n
        BY <2>1 DEF Below
      <3>. QED  BY <2>1, <3>2, <3>3
    <2>. QED  BY <2>2, <2>3
  <1>5. Grows(u)
    BY <1>4 DEF Grows
  <1>. QED  BY <1>3, <1>5 DEF u

\* A token keeps both.
LEMMA NextHears ==
    ASSUME Settled, NEW res \in Seq(Token), Numbered(provider, res), Ordered(res),
           NEW i \in 1..Len(res) + 1, NEW s, Sound(s), NEW h, Hears(s, h, res, i - 1),
           Keeps(s, res, i - 1)
    PROVE  Hears(NextState(res, i, s), h, res, i) /\ Keeps(NextState(res, i, s), res, i)
  <1>. DEFINE t == NextState(res, i, s)
  <1>0. SUFFICES Hears(t, h, res, i) /\ Keeps(t, res, i)
    OBVIOUS
  <1>1. /\ s.line \in Seq(Token) /\ s.last_line \in Seq(Token) /\ s.is_active \in BOOLEAN
        /\ s.heard \in Seq(DOMAIN events) /\ s.is_delta \in BOOLEAN /\ s.threw \in BOOLEAN
        /\ s = [line |-> s.line, last_line |-> s.last_line, is_active |-> s.is_active,
                heard |-> s.heard, is_delta |-> s.is_delta, threw |-> s.threw]
        /\ s \in States /\ Numbered(provider, s.line)
    BY DEF States, Sound
  <1>2. Len(res) \in Nat /\ Len(s.line) \in Nat /\ DOMAIN res = 1..Len(res)
    BY <1>1, LenProperties
  <1>3. CASE i <= Len(res) /\ res[i] # Newline
    <2>1. i \in 1..Len(res) /\ res[i] \in Token
      <3>1. i \in 1..Len(res)
        BY <1>2, <1>3
      <3>. QED  BY <3>1, ElementOfSeq
    <2>. DEFINE more == Append(s.line, res[i])
    <2>2. more \in Seq(Token) /\ Appends(more, s.line, res[i])
      BY <1>1, <2>1, Appending
    <2>3. t = [s EXCEPT !.line = more]
      BY <1>3 DEF NextState
    <2>. HIDE DEF more, t
    <2>4. t.line = more /\ t.heard = s.heard /\ t.last_line = s.last_line
      BY <1>1, <2>3
    <2>5. Hears(t, h, res, i)
      <3>1. ASSUME NEW q \in 1..Len(res), q > i \/ (q = i /\ t.line # <<>>)
            PROVE  q > i - 1
        BY <1>2, <3>1
      <3>. QED  BY <2>4, <3>1 DEF Hears
    <2>6. more[Len(more)] = res[i]
      <3>1. Len(more) = Len(s.line) + 1 /\ more[Len(s.line) + 1] = res[i]
        BY <2>2 DEF Appends
      <3>. QED  BY <3>1
    <2>7. ToSet(more) \subseteq ToSet(res)
      <3>1. ASSUME NEW k \in DOMAIN more PROVE more[k] \in ToSet(res)
        <4>1. k \in 1..Len(more) /\ Len(more) = Len(s.line) + 1
          BY <2>2, LenProperties DEF Appends
        <4>2. CASE k \in 1..Len(s.line)
          <5>1. more[k] = s.line[k] /\ s.line[k] \in ToSet(s.line)
            <6>1. DOMAIN s.line = 1..Len(s.line)
              BY <1>1, LenProperties
            <6>. QED  BY <2>2, <4>2, <6>1 DEF Appends, ToSet
          <5>. QED  BY <5>1 DEF Keeps
        <4>3. CASE k \notin 1..Len(s.line)
          <5>1. k = Len(s.line) + 1
            BY <1>2, <4>1, <4>3
          <5>2. more[k] = res[i]
            BY <2>2, <5>1 DEF Appends
          <5>. QED  BY <1>2, <2>1, <5>2 DEF ToSet
        <4>. QED  BY <4>2, <4>3
      <3>. QED  BY <3>1 DEF ToSet
    <2>8. Keeps(t, res, i)
      BY <2>1, <2>4, <2>6, <2>7 DEF Keeps
    <2>. QED  BY <2>5, <2>8
  <1>4. CASE ~(i <= Len(res) /\ res[i] # Newline)
    <2>. DEFINE u == TakeLine(s, s.line)
    <2>1. Takes(s, u, s.line)
      BY <1>1, TakesTheLine DEF Settled
    <2>2. t = [u EXCEPT !.line = <<>>]
      BY <1>4 DEF NextState
    <2>. HIDE DEF u, t
    <2>3. t.line = <<>> /\ t.heard = u.heard /\ t.last_line = u.last_line
      <3>1. u \in States
        BY <2>1 DEF Takes
      <3>. QED  BY <2>2, <3>1 DEF States
    <2>4. Keeps(t, res, i)
      <3>1. ToSet(<<>>) = {}
        BY DEF ToSet
      <3>2. ToSet(u.last_line) \subseteq ToSet(s.last_line) \cup ToSet(s.line)
        BY <2>1 DEF Takes
      <3>. QED  BY <2>3, <3>1, <3>2 DEF Keeps
    <2>5. CASE u.heard = s.heard
      <3>1. ASSUME NEW q \in 1..Len(res), q > i
            PROVE  q > i - 1
        BY <1>2, <3>1
      <3>2. Hears(t, h, res, i)
        BY <2>3, <2>5, <3>1 DEF Hears
      <3>. QED  BY <2>4, <3>2
    <2>6. ASSUME NEW n \in DOMAIN events, s.line # <<>>, s.line[Len(s.line)] = T("j2", n),
                 u.heard = Append(s.heard, n)
          PROVE  Hears(t, h, res, i)
      <3>1. i - 1 \in 1..Len(res) /\ res[i - 1] = T("j2", n)
        BY <2>6 DEF Keeps
      <3>2. n \in 1..Len(events) /\ Len(events) \in Nat /\ DOMAIN events \subseteq Int
        BY DEF Settled
      <3>3. res[i - 1][1] = "j2" /\ res[i - 1][2] = n /\ n # 0
        BY <3>1, <3>2 DEF T
      <3>4. Below(s.heard, n)
        BY <2>6, <3>1, <3>3 DEF Hears
      <3>. DEFINE g == s.heard
                  more == Append(g, n)
      <3>5. Grows(more) /\ Len(more) = Len(g) + 1
        <4>1. Grows(g)
          BY DEF Hears
        <4>. HIDE DEF g
        <4>2. g \in Seq(DOMAIN events) /\ Below(g, n)
          BY <1>1, <3>4 DEF g
        <4>. QED  BY <3>2, <4>1, <4>2, GrowsOn
      <3>6. Appends(more, g, n) /\ Len(g) \in Nat
        BY <1>1, Appending, LenProperties
      <3>. HIDE DEF more
      <3>7. ASSUME NEW k \in 1..Len(more)
            PROVE  (k \in 1..Len(g) /\ more[k] = g[k]) \/ more[k] = n
        <4>1. CASE k \in 1..Len(g)
          BY <3>6, <4>1 DEF Appends
        <4>2. CASE k \notin 1..Len(g)
          <5>1. k = Len(g) + 1
            BY <3>5, <3>6, <4>2
          <5>. QED  BY <3>6, <5>1 DEF Appends
        <4>. QED  BY <4>1, <4>2
      <3>8. ASSUME NEW k \in 1..Len(more)
            PROVE  \/ \E j \in 1..Len(h) : h[j] = more[k]
                   \/ \E q \in 1..Len(res) : res[q] = T("j2", more[k])
        BY <3>1, <3>7 DEF Hears
      <3>9. ASSUME NEW q \in 1..Len(res), q > i, res[q][1] = "j2", res[q][2] # 0
            PROVE  Below(more, res[q][2])
        <4>1. q > i - 1
          BY <1>2, <3>9
        <4>2. Below(g, res[q][2])
          BY <3>9, <4>1 DEF Hears
        <4>3. n < res[q][2]
          <5>1. i - 1 < q
            BY <1>2, <3>9
          <5>2. Before(res[i - 1], res[q])
            BY <3>1, <5>1 DEF Ordered
          <5>. QED  BY <3>3, <3>9, <5>2 DEF Before
        <4>. QED  BY <3>7, <4>2, <4>3 DEF Below
      <3>10. t.heard = more
        BY <2>3, <2>6 DEF more
      <3>. QED  BY <2>3, <3>5, <3>8, <3>9, <3>10 DEF Hears
    <2>. QED  BY <2>1, <2>4, <2>5, <2>6 DEF Takes
  <1>. QED  BY <1>3, <1>4

\* What a callback leaves.
LEMMA Called ==
    ASSUME Settled, NEW res \in Seq(Token), Numbered(provider, res), Ordered(res), Grows(heard),
           \A q \in 1..Len(res) : res[q][1] = "j2" /\ res[q][2] # 0 => Below(heard, res[q][2])
    PROVE  /\ Callback(res) \in States
           /\ Grows(Callback(res).heard)
           /\ ToSet(Callback(res).last_line) \subseteq ToSet(last_line) \cup ToSet(res)
           /\ \A k \in 1..Len(Callback(res).heard) :
                \/ \E j \in 1..Len(heard) : heard[j] = Callback(res).heard[k]
                \/ \E q \in 1..Len(res) : res[q] = T("j2", Callback(res).heard[k])
  <1>1. PICK after : StatesOf(after, res) /\ \A i \in 0..Len(res) + 1 : Sound(after[i])
    BY Calling
  <1>2. PICK n \in Nat : n = Len(res) + 1
    BY LenProperties
  <1>. DEFINE Holds == {i \in 0..n : Hears(after[i], heard, res, i) /\ Keeps(after[i], res, i)}
  <1>3. 0 \in Holds
    <2>1. after[0] = FirstState
      BY <1>1 DEF StatesOf
    <2>. DEFINE s == after[0]
    <2>2. s.line = <<>> /\ s.heard = heard /\ s.last_line = last_line
      BY <2>1 DEF FirstState
    <2>. HIDE DEF s
    <2>3. Hears(s, heard, res, 0)
      <3>1. \A k \in 1..Len(heard) : \E j \in 1..Len(heard) : heard[j] = heard[k]
        OBVIOUS
      <3>. QED  BY <2>2, <3>1 DEF Hears
    <2>4. Keeps(s, res, 0)
      <3>1. ToSet(<<>>) = {}
        BY DEF ToSet
      <3>. QED  BY <2>2, <3>1 DEF Keeps
    <2>. QED  BY <2>3, <2>4 DEF s
  <1>4. ASSUME NEW i \in 1..n, i - 1 \in Holds PROVE i \in Holds
    <2>1. /\ i \in 1..Len(res) + 1 /\ i - 1 \in 0..Len(res) + 1 /\ i \in 0..n
      BY <1>2
    <2>2. Sound(after[i - 1]) /\ after[i] = NextState(res, i, after[i - 1])
      BY <1>1, <2>1 DEF StatesOf
    <2>3. Hears(after[i - 1], heard, res, i - 1) /\ Keeps(after[i - 1], res, i - 1)
      BY <1>4
    <2>. DEFINE s == after[i - 1]
    <2>. HIDE DEF s
    <2>4. Hears(NextState(res, i, s), heard, res, i) /\ Keeps(NextState(res, i, s), res, i)
      BY <2>1, <2>2, <2>3, NextHears DEF s
    <2>. QED  BY <2>1, <2>2, <2>4 DEF s
  <1>5. 0..n \subseteq Holds
    <2>. HIDE DEF Holds
    <2>. QED  BY <1>3, <1>4, UpTo
  <1>6. n \in 0..n
    OBVIOUS
  <1>7. Callback(res) = after[n] /\ Sound(after[n]) /\ Hears(after[n], heard, res, n)
        /\ Keeps(after[n], res, n)
    BY <1>1, <1>2, <1>5, <1>6 DEF StatesOf
  <1>. QED  BY <1>7 DEF Sound, Hears, Keeps

-----------------------------------------------------------------------------
(* stream_post *)

\* The response is that of the answer, cut somehow.
Made ==
    /\ provider \in Providers /\ events \in Seq(Events(provider))
    /\ \E m \in Nat : \E E : /\ Cuts(E, m, Len(Body(provider, events)))
                             /\ Response(wire, Body(provider, events), E, m)

\* What is heard comes before all that is not yet consumed.
HeardBefore ==
    /\ Grows(heard)
    /\ \A q \in 1..Len(wire) :
         q > consumed /\ wire[q][1] = "j2" /\ wire[q][2] # 0 => Below(heard, wire[q][2])

\* The inductive invariant.
Inv ==
    /\ Made /\ TypeOK
    /\ last_line \in Seq(Token)
    /\ reads = MaxReads + 1 => arrived = Len(wire)
    /\ HeardBefore

\* The response has the events in their order.
LEMMA MadeInOrder ==
    ASSUME Made
    PROVE  /\ wire \in Seq(Token) /\ Ordered(wire) /\ Numbered(provider, wire)
           /\ Len(wire) \in Nat /\ Len(events) \in Nat /\ DOMAIN events = 1..Len(events)
  <1>. DEFINE body == Body(provider, events)
              l == Len(body)
  <1>1. Len(events) \in Nat /\ DOMAIN events = 1..Len(events)
    <2>1. \E V : events \in Seq(V)
      BY DEF Made
    <2>. QED  BY <2>1, LenProperties
  <1>2. IsBody(provider, body, Len(events))
    <2>1. provider \in Providers /\ events \in Seq(Events(provider))
      BY DEF Made
    <2>. QED  BY <2>1, BodyTokens
  <1>3. body \in Seq(Token) /\ Ordered(body) /\ Numbered(provider, body)
    <2>1. provider \in Providers
      BY DEF Made
    <2>. HIDE DEF body
    <2>. QED  BY <1>1, <1>2, <2>1, BodyOrder
  <1>4. PICK m \in Nat : \E E : Cuts(E, m, Len(body)) /\ Response(wire, body, E, m)
    BY DEF Made
  <1>5. PICK E : Cuts(E, m, Len(body)) /\ Response(wire, body, E, m)
    BY <1>4
  <1>. HIDE DEF body
  <1>6. Ordered(wire) /\ Numbered(provider, wire)
    BY <1>3, <1>5, ResponseOrder
  <1>7. wire \in Seq(Token)
    BY <1>5 DEF Response
  <1>. QED  BY <1>1, <1>6, <1>7, LenProperties

\* It holds at the start.
LEMMA InvInit == ASSUME Init PROVE Inv
  <1>1. provider \in Providers /\ events \in Seq(Events(provider))
    BY LlmStreamAssumption DEF Init
  <1>. DEFINE body == Body(provider, events)
  <1>2. body \in Seq(Token)
    <2>1. IsBody(provider, body, Len(events))
      BY <1>1, BodyTokens
    <2>2. Len(events) \in Nat
      BY <1>1, LenProperties
    <2>. HIDE DEF body
    <2>. QED  BY <1>1, <2>1, <2>2, BodyOrder
  <1>3. PICK ends \in Chunkings(body) : wire = Chunked(body, ends)
    BY DEF Init
  <1>4. \E m \in Nat : \E E : Cuts(E, m, Len(body)) /\ Response(wire, body, E, m)
    <2>. HIDE DEF body
    <2>. QED  BY <1>2, <1>3, Responding
  <1>5. Made
    BY <1>1, <1>4 DEF Made
  <1>6. /\ Len(wire) \in Nat /\ Len(events) \in Nat /\ DOMAIN events = 1..Len(events)
    BY <1>5, MadeInOrder
  <1>7. /\ pc = "connect" /\ reads = 0 /\ arrived = 0 /\ consumed = 0 /\ last_line = <<>>
        /\ is_active = TRUE /\ heard = <<>> /\ torn = FALSE /\ split = FALSE
    BY DEF Init
  <1>8. Len(<<>>) = 0 /\ ToSet(<<>>) = {} /\ <<>> \in Seq(Token) /\ <<>> \in Seq(DOMAIN events)
    BY EmptySeq DEF ToSet
  <1>9. TypeOK
    <2>1. 0 \in 0..MaxReads + 1 /\ 0 \in 0..Len(wire) /\ 0 \in 0..0
      BY <1>6, LlmStreamAssumption
    <2>. QED  BY <1>7, <1>8, <2>1 DEF TypeOK
  <1>10. HeardBefore
    BY <1>7, <1>8 DEF HeardBefore, Grows, Below
  <1>11. reads # MaxReads + 1
    BY <1>7, LlmStreamAssumption
  <1>. QED  BY <1>5, <1>7, <1>8, <1>9, <1>10, <1>11 DEF Inv

\* A read brings some of the response; what is parsed of it is picked from there.
LEMMA ViewTokens ==
    ASSUME NEW w \in Seq(Token), NEW c \in Nat, NEW u \in Nat, c <= u, u <= Len(w)
    PROVE  /\ SubSeq(w, c + 1, u) \in Seq(Token) /\ Len(SubSeq(w, c + 1, u)) = u - c
           /\ \A k \in 1..u - c : SubSeq(w, c + 1, u)[k] = w[c + k]
  <1>0. Len(w) \in Nat
    BY LenProperties
  <1>. DEFINE view == SubSeq(w, c + 1, u)
  <1>1. view \in Seq(Token)
    BY <1>0, SubSeqProperties
  <1>2. Len(view) = u - c
    BY <1>0, SubSeqProperties
  <1>3. ASSUME NEW k \in 1..u - c PROVE view[k] = w[c + k]
    <2>1. view[k] = w[(c + 1) + k - 1] /\ (c + 1) + k - 1 = c + k
      BY <1>0, SubSeqProperties
    <2>. QED  BY <2>1
  <1>. QED  BY <1>1, <1>2, <1>3

\* What one read of the response hands over and leaves.
ReadBy(upTo, g, p, s) ==
    /\ upTo \in arrived + 1..Len(wire)
    /\ reads = MaxReads => upTo = Len(wire)
    /\ reads <= MaxReads
    /\ g \in Numbers
    /\ p = parse_chunk(SubSeq(wire, consumed + 1, upTo), g) /\ s = Callback(p.body)
    /\ reads' = reads + 1 /\ arrived' = upTo /\ consumed' = consumed + p.pos
    /\ last_line' = s.last_line /\ is_active' = s.is_active /\ heard' = s.heard
    /\ torn' = (torn \/ InChunk(upTo))
    /\ split' = (split \/ (p.body # <<>> /\ Harmful(p.body)))
    /\ pc' = CASE p.result = "throws" \/ s.threw -> "thrown"
               [] p.result = "over" -> "over"
               [] OTHER -> "read"
    /\ UNCHANGED <<provider, events, wire>>

\* A read is one of those; a piece of garbage is read only behind a read that ended
\* inside a chunk.
LEMMA ReadsAre ==
    ASSUME Inv, Reads
    PROVE  /\ pc = "read"
           /\ \E upTo : \E g : \E p : \E s : ReadBy(upTo, g, p, s) /\ (g # Invalid => torn)
  <1>1. pc = "read" /\ arrived < Len(wire) /\ reads' = reads + 1
    BY DEF Reads
  <1>2. /\ Len(wire) \in Nat /\ arrived \in Nat /\ reads \in Nat /\ reads <= MaxReads
    <2>1. Len(wire) \in Nat
      BY MadeInOrder DEF Inv
    <2>2. reads \in 0..MaxReads + 1 /\ arrived \in 0..Len(wire)
      BY DEF Inv, TypeOK
    <2>3. reads # MaxReads + 1
      BY <1>1, <2>1, <2>2 DEF Inv
    <2>. QED  BY <2>1, <2>2, <2>3, LlmStreamAssumption
  <1>. DEFINE From == IF reads < MaxReads THEN arrived + 1 ELSE Len(wire)
              Gs == IF torn THEN Garbage ELSE {Invalid}
  <1>3. PICK upTo \in From..Len(wire) : \E g \in Gs :
          \E p \in {parse_chunk(SubSeq(wire, consumed + 1, upTo), g)} :
            \E s \in {Callback(p.body)} :
              /\ arrived' = upTo /\ consumed' = consumed + p.pos
              /\ last_line' = s.last_line /\ is_active' = s.is_active /\ heard' = s.heard
              /\ torn' = (torn \/ InChunk(upTo))
              /\ split' = (split \/ (p.body # <<>> /\ Harmful(p.body)))
              /\ pc' = CASE p.result = "throws" \/ s.threw -> "thrown"
                         [] p.result = "over" -> "over"
                         [] OTHER -> "read"
    BY DEF Reads
  <1>4. PICK g \in Gs :
          \E p \in {parse_chunk(SubSeq(wire, consumed + 1, upTo), g)} :
            \E s \in {Callback(p.body)} :
              /\ arrived' = upTo /\ consumed' = consumed + p.pos
              /\ last_line' = s.last_line /\ is_active' = s.is_active /\ heard' = s.heard
              /\ torn' = (torn \/ InChunk(upTo))
              /\ split' = (split \/ (p.body # <<>> /\ Harmful(p.body)))
              /\ pc' = CASE p.result = "throws" \/ s.threw -> "thrown"
                         [] p.result = "over" -> "over"
                         [] OTHER -> "read"
    BY <1>3
  <1>. DEFINE p == parse_chunk(SubSeq(wire, consumed + 1, upTo), g)
              s == Callback(p.body)
  <1>5. /\ arrived' = upTo /\ consumed' = consumed + p.pos
        /\ last_line' = s.last_line /\ is_active' = s.is_active /\ heard' = s.heard
        /\ torn' = (torn \/ InChunk(upTo))
        /\ split' = (split \/ (p.body # <<>> /\ Harmful(p.body)))
        /\ pc' = CASE p.result = "throws" \/ s.threw -> "thrown"
                   [] p.result = "over" -> "over"
                   [] OTHER -> "read"
    BY <1>4
  <1>6. upTo \in arrived + 1..Len(wire) /\ (reads = MaxReads => upTo = Len(wire))
    <2>1. CASE reads < MaxReads
      BY <1>2, <2>1, LlmStreamAssumption
    <2>2. CASE ~(reads < MaxReads)
      BY <1>1, <1>2, <2>2, LlmStreamAssumption
    <2>. QED  BY <2>1, <2>2
  <1>7. g \in Numbers /\ (g # Invalid => torn)
    BY <1>2 DEF Garbage, Numbers
  <1>8. UNCHANGED <<provider, events, wire>>
    BY DEF Reads
  <1>. HIDE DEF p, s
  <1>9. p = parse_chunk(SubSeq(wire, consumed + 1, upTo), g) /\ s = Callback(p.body)
    BY DEF p, s
  <1>10. ReadBy(upTo, g, p, s)
    BY <1>1, <1>2, <1>5, <1>6, <1>7, <1>8, <1>9, Zenon DEF ReadBy
  <1>. QED  BY <1>1, <1>7, <1>10

\* A read keeps the invariant.
LEMMA InvReads ==
    ASSUME Inv, Reads
    PROVE  Inv'
  <1>1. PICK upTo, g, p, s : ReadBy(upTo, g, p, s)
    BY ReadsAre
  <1>2. /\ wire \in Seq(Token) /\ Ordered(wire) /\ Numbered(provider, wire)
        /\ Len(wire) \in Nat /\ Len(events) \in Nat /\ DOMAIN events = 1..Len(events)
        /\ DOMAIN wire = 1..Len(wire)
    BY MadeInOrder, LenProperties DEF Inv
  <1>3. /\ arrived \in Nat /\ consumed \in Nat /\ consumed <= arrived /\ upTo \in Nat
        /\ arrived < upTo /\ upTo <= Len(wire) /\ consumed <= upTo
    <2>1. arrived \in 0..Len(wire) /\ consumed \in 0..arrived /\ upTo \in arrived + 1..Len(wire)
      BY <1>1 DEF Inv, TypeOK, ReadBy
    <2>. QED  BY <1>2, <2>1
  <1>. DEFINE view == SubSeq(wire, consumed + 1, upTo)
              res == p.body
  <1>4. view \in Seq(Token) /\ Len(view) = upTo - consumed
        /\ \A k \in 1..upTo - consumed : view[k] = wire[consumed + k]
    BY <1>2, <1>3, ViewTokens
  <1>5. p = parse_chunk(view, g) /\ g \in Numbers /\ s = Callback(res)
    BY <1>1 DEF ReadBy
  <1>. HIDE DEF view
  <1>6. /\ res \in Seq(Token) /\ p.pos \in 0..Len(view) /\ p.result \in Results
        /\ Picks(res, view, p.pos)
    <2>1. view \in Seq(Token)
      BY <1>4
    <2>2. g \in Numbers /\ p = parse_chunk(view, g)
      BY <1>5
    <2>. QED  BY <2>1, <2>2, ParseChunk
  <1>. HIDE DEF res
  <1>7. PICK f : PicksBy(f, res, view, p.pos)
    BY <1>6 DEF Picks
  <1>8. ASSUME NEW q \in 1..Len(res)
        PROVE  /\ f[q] \in Nat /\ 1 <= f[q] /\ f[q] <= p.pos
               /\ consumed + f[q] \in 1..Len(wire) /\ res[q] = wire[consumed + f[q]]
    <2>1. f[q] \in 1..Len(view) /\ f[q] <= p.pos /\ res[q] = view[f[q]]
      BY <1>7 DEF PicksBy
    <2>2. f[q] \in 1..upTo - consumed
      BY <1>4, <2>1
    <2>3. f[q] \in Nat /\ 1 <= f[q] /\ consumed + f[q] \in 1..Len(wire)
      BY <1>2, <1>3, <2>2
    <2>4. view[f[q]] = wire[consumed + f[q]]
      BY <1>4, <2>2
    <2>. QED  BY <2>1, <2>3, <2>4
  <1>9. Ordered(res)
    <2>1. ASSUME NEW q \in 1..Len(res), NEW r \in 1..Len(res), q < r
          PROVE  Before(res[q], res[r])
      <3>1. f[q] < f[r]
        BY <1>7, <2>1 DEF PicksBy
      <3>2. consumed + f[q] < consumed + f[r]
        BY <1>3, <1>8, <3>1
      <3>3. Before(wire[consumed + f[q]], wire[consumed + f[r]])
        BY <1>2, <1>8, <3>2 DEF Ordered
      <3>. QED  BY <1>8, <3>3
    <2>. QED  BY <2>1 DEF Ordered
  <1>10. Numbered(provider, res)
    BY <1>2, <1>8 DEF Numbered
  <1>11. Settled /\ Grows(heard)
    BY <1>2 DEF Settled, Inv, Made, TypeOK, HeardBefore
  <1>12. ASSUME NEW q \in 1..Len(res), res[q][1] = "j2", res[q][2] # 0
         PROVE  Below(heard, res[q][2])
    <2>1. consumed + f[q] > consumed
      BY <1>3, <1>8
    <2>. QED  BY <1>8, <1>12, <2>1 DEF Inv, HeardBefore
  <1>13. /\ s \in States /\ Grows(s.heard)
         /\ ToSet(s.last_line) \subseteq ToSet(last_line) \cup ToSet(res)
         /\ \A k \in 1..Len(s.heard) :
              \/ \E j \in 1..Len(heard) : heard[j] = s.heard[k]
              \/ \E q \in 1..Len(res) : res[q] = T("j2", s.heard[k])
    BY <1>5, <1>6, <1>9, <1>10, <1>11, <1>12, Called
  <1>14. /\ s.last_line \in Seq(Token) /\ s.is_active \in BOOLEAN /\ s.heard \in Seq(DOMAIN events)
    BY <1>13 DEF States
  <1>15. /\ provider' = provider /\ events' = events /\ wire' = wire
         /\ reads' = reads + 1 /\ arrived' = upTo /\ consumed' = consumed + p.pos
         /\ last_line' = s.last_line /\ is_active' = s.is_active /\ heard' = s.heard
    BY <1>1 DEF ReadBy
  <1>16. Made'
    BY <1>15 DEF Inv, Made
  <1>17. TypeOK'
    <2>1. pc' \in {"connect", "send", "read", "over", "cut", "answered", "returned", "thrown"}
      BY <1>1 DEF ReadBy
    <2>2. reads' \in 0..MaxReads + 1
      <3>1. reads \in 0..MaxReads + 1 /\ reads <= MaxReads
        BY <1>1 DEF Inv, TypeOK, ReadBy
      <3>. QED  BY <1>15, <3>1, LlmStreamAssumption
    <2>3. arrived' \in 0..Len(wire') /\ consumed' \in 0..arrived'
      <3>1. upTo \in 0..Len(wire) /\ consumed + p.pos \in 0..upTo
        BY <1>2, <1>3, <1>4, <1>6
      <3>. QED  BY <1>15, <3>1
    <2>4. ToSet(last_line') \subseteq ToSet(wire')
      <3>1. ToSet(res) \subseteq ToSet(wire)
        <4>1. DOMAIN res = 1..Len(res)
          BY <1>6, LenProperties
        <4>2. \A q \in 1..Len(res) : res[q] \in ToSet(wire)
          BY <1>2, <1>8 DEF ToSet
        <4>. QED  BY <4>1, <4>2 DEF ToSet
      <3>2. ToSet(last_line) \subseteq ToSet(wire)
        BY DEF Inv, TypeOK
      <3>3. ToSet(s.last_line) \subseteq ToSet(wire)
        BY <1>13, <3>1, <3>2
      <3>. QED  BY <1>15, <3>3
    <2>5. is_active' \in BOOLEAN /\ heard' \in Seq(DOMAIN events')
      BY <1>14, <1>15
    <2>6. torn' \in BOOLEAN /\ split' \in BOOLEAN
      <3>1. torn' = (torn \/ InChunk(upTo)) /\ split' = (split \/ (p.body # <<>> /\ Harmful(p.body)))
        BY <1>1 DEF ReadBy
      <3>. QED  BY <3>1
    <2>. QED  BY <2>1, <2>2, <2>3, <2>4, <2>5, <2>6 DEF TypeOK
  <1>18. reads' = MaxReads + 1 => arrived' = Len(wire')
    <2>1. reads \in 0..MaxReads + 1 /\ (reads = MaxReads => upTo = Len(wire))
      BY <1>1 DEF Inv, TypeOK, ReadBy
    <2>. QED  BY <1>15, <2>1, LlmStreamAssumption
  <1>19. HeardBefore'
    <2>1. ASSUME NEW q \in 1..Len(wire), q > consumed + p.pos, wire[q][1] = "j2", wire[q][2] # 0,
                 NEW k \in 1..Len(s.heard)
          PROVE  s.heard[k] < wire[q][2]
      <3>1. p.pos \in Nat
        BY <1>3, <1>4, <1>6
      <3>2. CASE \E j \in 1..Len(heard) : heard[j] = s.heard[k]
        <4>1. q > consumed
          BY <1>3, <2>1, <3>1
        <4>2. Below(heard, wire[q][2])
          BY <2>1, <4>1 DEF Inv, HeardBefore
        <4>. QED  BY <3>2, <4>2 DEF Below
      <3>3. ASSUME NEW r \in 1..Len(res), res[r] = T("j2", s.heard[k])
            PROVE  s.heard[k] < wire[q][2]
        <4>1. consumed + f[r] \in 1..Len(wire) /\ res[r] = wire[consumed + f[r]]
          BY <1>8
        <4>2. consumed + f[r] < q
          <5>1. f[r] \in Nat /\ f[r] <= p.pos
            BY <1>8
          <5>. QED  BY <1>3, <2>1, <3>1, <5>1
        <4>3. Before(res[r], wire[q])
          BY <1>2, <4>1, <4>2 DEF Ordered
        <4>4. res[r][1] = "j2" /\ res[r][2] = s.heard[k]
          BY <3>3 DEF T
        <4>. QED  BY <2>1, <4>3, <4>4 DEF Before
      <3>. QED  BY <1>13, <3>2, <3>3
    <2>2. ASSUME NEW q \in 1..Len(wire), q > consumed + p.pos, wire[q][1] = "j2", wire[q][2] # 0
          PROVE  Below(s.heard, wire[q][2])
      BY <2>1, <2>2 DEF Below
    <2>. QED  BY <1>13, <1>15, <2>2 DEF HeardBefore
  <1>. QED  BY <1>14, <1>15, <1>16, <1>17, <1>18, <1>19 DEF Inv

\* So does every step.
LEMMA InvStep ==
    ASSUME Inv, [Next]_vars
    PROVE  Inv'
  <1>1. CASE UNCHANGED vars
    BY <1>1 DEF vars, Inv, Made, TypeOK, HeardBefore
  <1>2. ASSUME pc' \in {"send", "read", "thrown", "cut", "answered", "returned"},
               UNCHANGED <<provider, events, wire, Progress>>
        PROVE  Inv'
    BY <1>2 DEF Progress, Inv, Made, TypeOK, HeardBefore
  <1>3. CASE Opens
    BY <1>2, <1>3 DEF Opens
  <1>4. CASE Reads
    BY <1>4, InvReads
  <1>5. CASE ReadFails
    BY <1>2, <1>5 DEF ReadFails
  <1>6. CASE Closes
    BY <1>2, <1>6 DEF Closes
  <1>7. CASE Ended
    BY <1>1, <1>7 DEF Ended
  <1>. QED  BY <1>1, <1>3, <1>4, <1>5, <1>6, <1>7 DEF Next

\* Type invariant of stream_post and the callbacks.
THEOREM StreamTyped == Spec => []TypeOK
  <1>1. Inv => TypeOK
    BY DEF Inv
  <1>. QED  BY <1>1, InvInit, InvStep, PTL DEF Spec

\* What is heard grows.
LEMMA InvInOrder == ASSUME Inv PROVE HeardInOrder
  <1>1. DOMAIN heard = 1..Len(heard)
    <2>1. heard \in Seq(DOMAIN events)
      BY DEF Inv, TypeOK
    <2>. QED  BY <2>1, LenProperties
  <1>. QED  BY <1>1 DEF Inv, HeardBefore, Grows, HeardInOrder

-----------------------------------------------------------------------------
(* Reads that do not end inside a chunk *)

\* r is what the body has behind a, up to b.
Slice(r, body, a, b) ==
    r \in Seq(Token) /\ Len(r) = b - a /\ \A i \in 1..b - a : r[i] = body[a + i]

\* Two slices that meet are one.
LEMMA Slices ==
    ASSUME NEW body, NEW a \in Nat, NEW b \in Nat, NEW c \in Nat, a <= b, b <= c,
           NEW r, NEW t, Slice(r, body, a, b), Slice(t, body, b, c)
    PROVE  Slice(r \o t, body, a, c)
  <1>. DEFINE u == r \o t
  <1>1. /\ r \in Seq(Token) /\ Len(r) = b - a /\ (\A i \in 1..b - a : r[i] = body[a + i])
        /\ t \in Seq(Token) /\ Len(t) = c - b /\ (\A i \in 1..c - b : t[i] = body[b + i])
    BY DEF Slice
  <1>2. u \in Seq(Token) /\ Concatenates(u, r, t)
    BY <1>1, Concatenating
  <1>. HIDE DEF u
  <1>3. Len(u) = c - a
    <2>1. Len(u) = Len(r) + Len(t)
      BY <1>2 DEF Concatenates
    <2>. QED  BY <1>1, <2>1
  <1>4. ASSUME NEW i \in 1..c - a PROVE u[i] = body[a + i]
    <2>1. CASE i <= b - a
      <3>1. i \in 1..Len(r) /\ i \in 1..b - a
        BY <1>1, <2>1
      <3>. QED  BY <1>1, <1>2, <3>1 DEF Concatenates
    <2>2. CASE ~(i <= b - a)
      <3>. DEFINE k == i - (b - a)
      <3>1. k \in 1..c - b /\ (b - a) + k = i /\ b + k = a + i
        BY <2>2
      <3>. HIDE DEF k
      <3>2. k \in 1..Len(t) /\ u[Len(r) + k] = t[k]
        BY <1>1, <1>2, <3>1 DEF Concatenates
      <3>3. Len(r) + k = i
        BY <1>1, <3>1
      <3>. QED  BY <1>1, <3>1, <3>2, <3>3
    <2>. QED  BY <2>1, <2>2
  <1>5. Slice(u, body, a, c)
    BY <1>2, <1>3, <1>4 DEF Slice
  <1>. QED  BY <1>5 DEF u

\* What stoul makes of a size line, with or without the end of the line before it.
LEMMA StoulSize ==
    ASSUME NEW line \in Seq(Token), NEW g, NEW n \in Nat, Len(line) \in {1, 2},
           line[Len(line)] = T("size", n), Len(line) = 2 => line[1] = T("lf", 0)
    PROVE  Stoul(line, g) = n
  <1>. DEFINE ink == {i \in DOMAIN line : line[i][1] \notin {"cr", "lf", "nl"}}
  <1>0. DOMAIN line = 1..Len(line)
    BY LenProperties
  <1>1. Len(line) \in ink
    <2>1. Len(line) \in 1..Len(line)
      <3>1. \A x \in {1, 2} : x \in 1..x
        OBVIOUS
      <3>. QED  BY <3>1
    <2>2. line[Len(line)][1] = "size"
      BY DEF T
    <2>. QED  BY <1>0, <2>1, <2>2
  <1>2. ink \subseteq Nat
    BY <1>0
  <1>3. Min(ink) \in ink
    <2>. HIDE DEF ink
    <2>. QED  BY <1>1, <1>2, MinProperties
  <1>4. \A i \in ink : i = Len(line)
    <2>1. ASSUME NEW i \in ink, i # Len(line) PROVE FALSE
      <3>1. i \in 1..Len(line) /\ line[i][1] # "lf"
        BY <1>0
      <3>2. i = 1 /\ Len(line) = 2
        BY <2>1, <3>1
      <3>3. line[i][1] = "lf"
        BY <3>2 DEF T
      <3>. QED  BY <3>1, <3>3
    <2>. QED  BY <2>1
  <1>5. line[Min(ink)] = T("size", n)
    <2>1. Min(ink) = Len(line)
      BY <1>3, <1>4
    <2>. QED  BY <2>1
  <1>6. ink # {}
    BY <1>1
  <1>7. Stoul(line, g) = CASE line[Min(ink)][1] = "size" -> line[Min(ink)][2]
                           [] line[Min(ink)][1] \in {"da", "ev"} -> Max({1, g})
                           [] line[Min(ink)][1] = "j2" -> g
                           [] OTHER -> Invalid
    BY <1>6 DEF Stoul
  <1>. HIDE DEF ink
  <1>8. line[Min(ink)][1] = "size" /\ line[Min(ink)][2] = n
    BY <1>5 DEF T
  <1>. QED  BY <1>7, <1>8

\* A read up to upTo, not inside a chunk, when j chunks are consumed.
Reading(body, E, m, j, upTo) ==
    /\ body \in Seq(Token) /\ m \in Nat /\ Cuts(E, m, Len(body)) /\ Response(wire, body, E, m)
    /\ j \in 0..m /\ consumed \in Nat /\ upTo \in Nat
    /\ consumed < upTo /\ upTo <= Len(wire) /\ ~InChunk(upTo)

\* The position pos of the view is behind chunk k, but for a line's end perhaps, and
\* the read reaches it.
Behinds(E, k, upTo, pos) ==
    /\ upTo >= Behind(E, k) - 1
    /\ \/ consumed + pos = Behind(E, k)
       \/ consumed + pos = Behind(E, k) - 1 /\ k > 0

\* The rounds take chunk after chunk, until there is none.
Took(s, body, E, m, j, upTo, r) ==
    \/ /\ s.result = "next" /\ j + r <= m
       /\ Slice(s.body, body, E[j], E[j + r]) /\ Behinds(E, j + r, upTo, s.pos)
    \/ s.result = "over" /\ Slice(s.body, body, E[j], E[m])
    \/ /\ s.result = "more"
       /\ \E k \in j..m : Slice(s.body, body, E[j], E[k]) /\ Behinds(E, k, upTo, s.pos)

\* What is around the end of chunk k.
LEMMA Around ==
    ASSUME NEW body, NEW E, NEW m, NEW j, NEW upTo, Reading(body, E, m, j, upTo),
           NEW k \in 0..m
    PROVE  /\ E[k] \in Nat /\ Behind(E, k) \in Nat /\ Behind(E, k) >= 2
           /\ k > 0 => wire[Behind(E, k)] = T("lf", 0)
           /\ wire[Behind(E, k) + 1] = T("size", IF k = m THEN 0 ELSE E[k + 1] - E[k])
           /\ wire[Behind(E, k) + 2] = T("cr", 0)
           /\ k < m => /\ E[k + 1] \in Nat /\ E[k] < E[k + 1]
                       /\ Behind(E, k + 1) = Behind(E, k) + 5 + (E[k + 1] - E[k])
                       /\ \A b \in E[k] + 1..E[k + 1] : wire[5 * (k + 1) + b] = body[b]
  <1>0. m \in Nat /\ Cuts(E, m, Len(body)) /\ Response(wire, body, E, m)
    BY DEF Reading
  <1>1. E[k] \in Nat /\ k \in Nat
    BY <1>0 DEF Cuts
  <1>2. Behind(E, k) \in Nat /\ Behind(E, k) >= 2
    BY <1>1 DEF Behind
  <1>3. ASSUME k > 0 PROVE wire[Behind(E, k)] = T("lf", 0)
    <2>1. k \in 1..m
      BY <1>0, <1>1, <1>3
    <2>. QED  BY <1>0, <2>1 DEF Response
  <1>4. CASE k = m
    <2>1. wire[Behind(E, k) + 1] = T("size", 0) /\ wire[Behind(E, k) + 2] = T("cr", 0)
      BY <1>0, <1>4 DEF Response
    <2>2. ~(k < m)
      BY <1>0, <1>4
    <2>. QED  BY <1>1, <1>2, <1>3, <1>4, <2>1, <2>2
  <1>5. CASE k # m
    <2>1. k + 1 \in 1..m /\ (k + 1) - 1 = k /\ k + 1 \in 0..m
      BY <1>0, <1>1, <1>5
    <2>2. /\ wire[Behind(E, (k + 1) - 1) + 1] = T("size", E[k + 1] - E[(k + 1) - 1])
          /\ wire[Behind(E, (k + 1) - 1) + 2] = T("cr", 0)
          /\ \A b \in E[(k + 1) - 1] + 1..E[k + 1] : wire[5 * (k + 1) + b] = body[b]
      BY <1>0, <2>1 DEF Response
    <2>3. E[(k + 1) - 1] < E[k + 1] /\ E[k + 1] \in Nat
      BY <1>0, <2>1 DEF Cuts
    <2>4. Behind(E, k + 1) = Behind(E, k) + 5 + (E[k + 1] - E[k])
      BY <1>1, <2>3 DEF Behind
    <2>5. /\ wire[Behind(E, k) + 1] = T("size", E[k + 1] - E[k]) /\ wire[Behind(E, k) + 2] = T("cr", 0)
          /\ (\A b \in E[k] + 1..E[k + 1] : wire[5 * (k + 1) + b] = body[b])
          /\ E[k] < E[k + 1]
      BY <2>1, <2>2, <2>3
    <2>. QED  BY <1>1, <1>2, <1>3, <1>5, <2>3, <2>4, <2>5
  <1>. QED  BY <1>4, <1>5

\* A read that reaches the data of a chunk reaches its end.
LEMMA NotInside ==
    ASSUME NEW body, NEW E, NEW m, NEW j, NEW upTo, Reading(body, E, m, j, upTo),
           NEW k \in 0..m, k < m, upTo >= Behind(E, k) + 3
    PROVE  upTo >= Behind(E, k + 1) - 1
  <1>1. /\ Behind(E, k) \in Nat /\ Behind(E, k) >= 2 /\ E[k] \in Nat /\ E[k + 1] \in Nat
        /\ E[k] < E[k + 1] /\ Behind(E, k + 1) = Behind(E, k) + 5 + (E[k + 1] - E[k])
    BY Around
  <1>2. wire[Behind(E, k) + 1] = T("size", E[k + 1] - E[k])
    <2>1. wire[Behind(E, k) + 1] = T("size", IF k = m THEN 0 ELSE E[k + 1] - E[k])
      BY Around
    <2>2. k # m
      BY DEF Reading
    <2>. QED  BY <2>1, <2>2
  <1>. DEFINE b == Behind(E, k) + 1
  <1>3. upTo \in Nat /\ ~InChunk(upTo)
    BY DEF Reading
  <1>4. b \in 3..upTo
    BY <1>1, <1>3
  <1>5. wire[b][1] = "size" /\ wire[b][2] = E[k + 1] - E[k] /\ E[k + 1] - E[k] > 0
    BY <1>1, <1>2 DEF T
  <1>6. upTo \notin b + 2..b + 2 + wire[b][2]
    <2>. HIDE DEF b
    <2>1. wire[b][2] > 0
      BY <1>5
    <2>. QED  BY <1>3, <1>4, <1>5, <2>1 DEF InChunk
  <1>7. upTo \notin Behind(E, k) + 3..Behind(E, k) + 3 + (E[k + 1] - E[k])
    <2>1. b + 2 = Behind(E, k) + 3 /\ wire[b][2] = E[k + 1] - E[k]
      BY <1>1, <1>5
    <2>. QED  BY <1>6, <2>1
  <1>. QED  BY <1>1, <1>3, <1>7

\* What of the response is in the buffer after a read up to upTo.
ViewOf(view, upTo) ==
    /\ view \in Seq(Token) /\ Len(view) = upTo - consumed
    /\ \A i \in 1..upTo - consumed : view[i] = wire[consumed + i]

\* A read that does not reach the end of a size line: there is no line to be found.
LEMMA NoLine ==
    ASSUME NEW body, NEW E, NEW m, NEW j, NEW upTo, Reading(body, E, m, j, upTo),
           NEW view, ViewOf(view, upTo), NEW s \in Rounds, NEW k \in 0..m,
           Behinds(E, k, upTo, s.pos), upTo <= Behind(E, k) + 2
    PROVE  {i \in s.pos + 1..Len(view) - 1 : view[i][1] = "cr"} = {}
  <1>. DEFINE b == Behind(E, k)
  <1>1. s.pos \in Nat /\ consumed \in Nat /\ upTo \in Nat /\ Len(view) = upTo - consumed
    BY DEF Rounds, Reading, ViewOf
  <1>2. b \in Nat
    BY Around
  <1>3. k > 0 => wire[b] = T("lf", 0)
    BY Around
  <1>4. wire[b + 1] = T("size", IF k = m THEN 0 ELSE E[k + 1] - E[k])
    BY Around
  <1>5. \/ consumed + s.pos = b
        \/ consumed + s.pos = b - 1 /\ k > 0
    BY DEF Behinds
  <1>6. ASSUME NEW i \in s.pos + 1..Len(view) - 1 PROVE view[i][1] # "cr"
    <2>1. i \in 1..upTo - consumed
      BY <1>1
    <2>2. view[i] = wire[consumed + i]
      BY <2>1 DEF ViewOf
    <2>3. \/ consumed + i = b + 1
          \/ consumed + i = b /\ k > 0
      <3>. HIDE DEF b
      <3>1. upTo <= b + 2
        BY DEF b
      <3>. QED  BY <1>1, <1>2, <1>5, <3>1
    <2>4. CASE consumed + i = b + 1
      <3>. HIDE DEF b
      <3>. QED  BY <1>4, <2>2, <2>4 DEF T
    <2>5. CASE consumed + i = b /\ k > 0
      <3>. HIDE DEF b
      <3>. QED  BY <1>3, <2>2, <2>5 DEF T
    <2>. QED  BY <2>3, <2>4, <2>5
  <1>. QED  BY <1>6

\* Else the line is that of the chunk's size, and the data are behind it.
Found(view, g, s, d, n) ==
    /\ {i \in s.pos + 1..Len(view) - 1 : view[i][1] = "cr"} # {}
    /\ DataBehind(view, s) = d /\ SizeThere(view, g, s) = n

\* A round at the start of chunk k + 1, with its size line in the view, finds the end
\* of the line and the size the line states: that of the chunk, or 0 after the last.
LEMMA LineFound ==
    ASSUME NEW body, NEW E, NEW m, NEW j, NEW upTo, Reading(body, E, m, j, upTo),
           NEW view, ViewOf(view, upTo), NEW s \in Rounds, NEW k \in 0..m, NEW g,
           Behinds(E, k, upTo, s.pos), upTo >= Behind(E, k) + 3
    PROVE  Found(view, g, s, (Behind(E, k) + 3) - consumed, IF k = m THEN 0 ELSE E[k + 1] - E[k])
  <1>. DEFINE b == Behind(E, k)
              n == IF k = m THEN 0 ELSE E[k + 1] - E[k]
              ends == {i \in s.pos + 1..Len(view) - 1 : view[i][1] = "cr"}
              d == DataBehind(view, s)
              line == SubSeq(view, s.pos + 1, d - 2)
  <1>1. s.pos \in Nat /\ consumed \in Nat /\ upTo \in Nat /\ Len(view) = upTo - consumed
        /\ view \in Seq(Token) /\ Len(view) \in Nat
    BY LenProperties DEF Rounds, Reading, ViewOf
  <1>2. b \in Nat /\ b >= 2 /\ upTo >= b + 3
    BY Around
  <1>3. k > 0 => wire[b] = T("lf", 0)
    BY Around
  <1>4. wire[b + 1] = T("size", n) /\ wire[b + 2] = T("cr", 0)
    BY Around
  <1>5. \/ consumed + s.pos = b
        \/ consumed + s.pos = b - 1 /\ k > 0
    BY DEF Behinds
  <1>6. n \in Nat
    <2>1. k < m => E[k + 1] \in Nat /\ E[k] < E[k + 1] /\ E[k] \in Nat
      BY Around
    <2>2. m \in Nat /\ k \in Nat
      BY DEF Reading
    <2>. QED  BY <2>1, <2>2
  <1>. HIDE DEF b, n
  <1>7. \A i \in 1..Len(view) : view[i] = wire[consumed + i]
    BY <1>1 DEF ViewOf
  <1>. DEFINE e == (b + 2) - consumed
  <1>8. e \in s.pos + 1..Len(view) - 1 /\ e \in 1..Len(view) /\ consumed + e = b + 2
        /\ e - 1 \in s.pos + 1..Len(view) - 1 /\ e - 1 \in 1..Len(view) /\ consumed + (e - 1) = b + 1
    BY <1>1, <1>2, <1>5
  <1>. HIDE DEF e
  <1>9. view[e] = T("cr", 0) /\ view[e - 1] = T("size", n)
    BY <1>4, <1>7, <1>8
  <1>10. ends # {}
    <2>1. view[e][1] = "cr"
      BY <1>9 DEF T
    <2>. QED  BY <1>8, <2>1
  <1>11. /\ d \in Nat /\ s.pos + 2 <= d /\ d <= Len(view) /\ view[d - 1][1] = "cr"
         /\ \A i \in s.pos + 1..d - 2 : view[i][1] # "cr"
    BY <1>1, <1>10, DataAfter
  <1>. HIDE DEF d, ends
  <1>12. ASSUME NEW i \in s.pos + 1..e - 1 PROVE view[i][1] # "cr" /\ (i < e - 1 => i = s.pos + 1 /\ e = s.pos + 3 /\ view[i] = T("lf", 0))
    <2>1. i \in 1..Len(view) /\ i \in Nat
      BY <1>1, <1>8
    <2>2. view[i] = wire[consumed + i]
      BY <1>7, <2>1
    <2>3. \/ i = e - 1
          \/ i < e - 1 /\ consumed + i = b /\ k > 0 /\ i = s.pos + 1 /\ e = s.pos + 3
      BY <1>1, <1>2, <1>5, <1>8, <2>1
    <2>4. CASE i = e - 1
      <3>1. ~(i < e - 1) /\ view[i] = T("size", n)
        BY <1>9, <2>1, <2>4
      <3>. QED  BY <3>1 DEF T
    <2>5. CASE i < e - 1 /\ consumed + i = b /\ k > 0 /\ i = s.pos + 1 /\ e = s.pos + 3
      <3>1. view[i] = T("lf", 0)
        BY <1>3, <2>2, <2>5
      <3>. QED  BY <2>5, <3>1 DEF T
    <2>. QED  BY <2>3, <2>4, <2>5
  <1>13. d - 1 = e
    <2>1. e \in Nat /\ d - 1 \in Nat
      BY <1>1, <1>8, <1>11
    <2>2. ~(d - 1 < e)
      <3>1. SUFFICES ASSUME d - 1 < e PROVE FALSE
        OBVIOUS
      <3>2. d - 1 \in s.pos + 1..e - 1
        BY <1>1, <1>11, <2>1, <3>1
      <3>. QED  BY <1>11, <1>12, <3>2
    <2>3. ~(e < d - 1)
      <3>1. SUFFICES ASSUME e < d - 1 PROVE FALSE
        OBVIOUS
      <3>2. e \in s.pos + 1..d - 2
        BY <1>1, <1>8, <1>11, <2>1, <3>1
      <3>3. view[e][1] = "cr"
        BY <1>9 DEF T
      <3>. QED  BY <1>11, <3>2, <3>3
    <2>. QED  BY <2>1, <2>2, <2>3
  <1>14. d - 2 = e - 1 /\ d = (b + 3) - consumed
    BY <1>1, <1>2, <1>8, <1>11, <1>13 DEF e
  <1>15. /\ line \in Seq(Token) /\ Len(line) = (e - 1) - s.pos
         /\ \A i \in 1..(e - 1) - s.pos : line[i] = view[s.pos + i]
    <2>1. SubSeq(view, s.pos + 1, e - 1) \in Seq(Token)
      <3>1. s.pos + 1 \in Int /\ e - 1 \in Int
        BY <1>1, <1>8
      <3>2. \A i \in s.pos + 1..e - 1 : i \in 1..Len(view)
        BY <1>1, <1>8
      <3>. QED  BY <1>1, <3>1, <3>2, SubSeqProperties
    <2>2. SubSeq(view, s.pos + 1, e - 1) \in Seq(Token)
          /\ Len(SubSeq(view, s.pos + 1, e - 1)) = (e - 1) - s.pos
          /\ \A i \in 1..(e - 1) - s.pos : SubSeq(view, s.pos + 1, e - 1)[i] = view[s.pos + i]
      <3>1. s.pos \in Nat /\ e - 1 \in Nat /\ s.pos <= e - 1 /\ e - 1 <= Len(view)
        BY <1>1, <1>8
      <3>. QED  BY <1>1, <3>1, ViewTokens
    <2>. QED  BY <1>14, <2>2
  <1>. HIDE DEF line
  <1>16. Len(line) \in {1, 2}
    BY <1>1, <1>2, <1>5, <1>15 DEF e
  <1>17. line[Len(line)] = T("size", n)
    <2>1. Len(line) \in 1..(e - 1) - s.pos /\ s.pos + Len(line) = e - 1
      BY <1>1, <1>8, <1>15, <1>16
    <2>. QED  BY <1>9, <1>15, <2>1
  <1>18. Len(line) = 2 => line[1] = T("lf", 0)
    <2>1. SUFFICES ASSUME Len(line) = 2 PROVE line[1] = T("lf", 0)
      OBVIOUS
    <2>2. 1 \in 1..(e - 1) - s.pos /\ s.pos + 1 \in s.pos + 1..e - 1 /\ s.pos + 1 < e - 1
      <3>1. (e - 1) - s.pos = 2
        BY <1>15, <2>1
      <3>2. e \in Nat
        BY <1>1, <1>8
      <3>3. \A x, y \in Nat : (x - 1) - y = 2 => 1 \in 1..(x - 1) - y /\ y + 1 \in y + 1..x - 1 /\ y + 1 < x - 1
        OBVIOUS
      <3>. QED  BY <1>1, <3>1, <3>2, <3>3
    <2>3. line[1] = view[s.pos + 1]
      BY <1>15, <2>2
    <2>. QED  BY <1>12, <2>2, <2>3
  <1>19. Stoul(line, g) = n
    BY <1>6, <1>15, <1>16, <1>17, <1>18, StoulSize
  <1>20. SizeThere(view, g, s) = n
    BY <1>19 DEF SizeThere, line, d
  <1>21. Found(view, g, s, (b + 3) - consumed, n)
    BY <1>10, <1>14, <1>20 DEF Found, d, ends
  <1>. QED  BY <1>21 DEF b, n

\* What a round may do: nothing, stop, find the end or take a chunk.
Stops(t, s) == t = [s EXCEPT !.result = "more"]
FindsEnd(t, s, d) == t = [s EXCEPT !.pos = d, !.result = "over"]
TakesChunk(t, s, view, d, n) ==
    t = [s EXCEPT !.pos = d + n + 2, !.body = @ \o SubSeq(view, d + 1, d + n)]

\* A loop that is over does nothing.
LEMMA RoundRests ==
    ASSUME NEW view, NEW g, NEW s, s.result # "next"
    PROVE  NextChunk(view, g, s) = s
  BY DEF NextChunk

\* Without a line's end it stops.
LEMMA RoundStops ==
    ASSUME NEW view, NEW g, NEW s, s.result = "next",
           {i \in s.pos + 1..Len(view) - 1 : view[i][1] = "cr"} = {}
    PROVE  Stops(NextChunk(view, g, s), s)
  BY DEF NextChunk, Stops

\* What a round does with the size it has found.
LEMMA RoundFinds ==
    ASSUME NEW view, NEW g, NEW s, s.result = "next", NEW d, NEW n, Found(view, g, s, d, n),
           n # Invalid
    PROVE  /\ n = 0 => FindsEnd(NextChunk(view, g, s), s, d)
           /\ n # 0 /\ ~(d + n > Len(view)) => TakesChunk(NextChunk(view, g, s), s, view, d, n)
  <1>. DEFINE ends == {i \in s.pos + 1..Len(view) - 1 : view[i][1] = "cr"}
              dd == DataBehind(view, s)
              nn == SizeThere(view, g, s)
              t == NextChunk(view, g, s)
  <1>1. t = IF s.result # "next" THEN s
            ELSE IF ends = {} THEN [s EXCEPT !.result = "more"]
            ELSE IF nn = Invalid THEN [s EXCEPT !.body = <<>>, !.result = "throws"]
            ELSE IF nn = 0 THEN [s EXCEPT !.pos = dd, !.result = "over"]
            ELSE IF dd + nn > Len(view) THEN [s EXCEPT !.pos = dd, !.result = "more"]
            ELSE [s EXCEPT !.pos = dd + nn + 2, !.body = @ \o SubSeq(view, dd + 1, dd + nn)]
    BY DEF NextChunk, DataBehind, SizeThere
  <1>2. ends # {} /\ dd = d /\ nn = n
    BY DEF Found
  <1>. HIDE DEF ends, dd, nn, t
  <1>3. t = IF n = 0 THEN [s EXCEPT !.pos = d, !.result = "over"]
            ELSE IF d + n > Len(view) THEN [s EXCEPT !.pos = d, !.result = "more"]
            ELSE [s EXCEPT !.pos = d + n + 2, !.body = @ \o SubSeq(view, d + 1, d + n)]
    BY <1>1, <1>2
  <1>4. n = 0 => FindsEnd(t, s, d)
    BY <1>3 DEF FindsEnd
  <1>5. n # 0 /\ ~(d + n > Len(view)) => TakesChunk(t, s, view, d, n)
    BY <1>3 DEF TakesChunk
  <1>. QED  BY <1>4, <1>5 DEF t

\* A round takes one chunk more, or finds that there is none.
LEMMA TookNext ==
    ASSUME NEW body, NEW E, NEW m, NEW j, NEW upTo, Reading(body, E, m, j, upTo),
           NEW view, ViewOf(view, upTo), NEW g, NEW s \in Rounds, NEW r \in Nat,
           Took(s, body, E, m, j, upTo, r)
    PROVE  Took(NextChunk(view, g, s), body, E, m, j, upTo, r + 1)
  <1>. DEFINE t == NextChunk(view, g, s)
              k == j + r
              b == Behind(E, k)
  <1>0. m \in Nat /\ j \in Nat /\ j <= m /\ consumed \in Nat /\ upTo \in Nat /\ body \in Seq(Token)
        /\ consumed < upTo
    BY DEF Reading
  <1>01. s = [body |-> s.body, pos |-> s.pos, result |-> s.result] /\ s.body \in Seq(Token)
         /\ s.pos \in Nat
    BY DEF Rounds
  <1>1. CASE s.result # "next"
    <2>1. t = s
      BY <1>1, RoundRests
    <2>. QED  BY <1>1, <2>1 DEF Took
  <1>2. CASE s.result = "next"
    <2>0. k <= m /\ Slice(s.body, body, E[j], E[k]) /\ Behinds(E, k, upTo, s.pos)
      BY <1>2 DEF Took
    <2>01. k \in 0..m /\ k \in j..m
      BY <1>0, <2>0
    <2>02. b \in Nat /\ E[k] \in Nat
      BY <2>01, Around
    <2>1. CASE upTo <= b + 2
      <3>. HIDE DEF k
      <3>1. {i \in s.pos + 1..Len(view) - 1 : view[i][1] = "cr"} = {}
        BY <2>0, <2>01, <2>1, NoLine
      <3>2. Stops(t, s)
        BY <1>2, <3>1, RoundStops
      <3>3. t.result = "more" /\ t.body = s.body /\ t.pos = s.pos
        BY <1>01, <3>2 DEF Stops
      <3>. HIDE DEF t
      <3>4. Slice(t.body, body, E[j], E[k]) /\ Behinds(E, k, upTo, t.pos)
        BY <2>0, <3>3
      <3>5. Took(t, body, E, m, j, upTo, r + 1)
        BY <2>01, <3>3, <3>4, Zenon DEF Took
      <3>. QED  BY <3>5 DEF t
    <2>2. CASE ~(upTo <= b + 2)
      <3>. DEFINE d == (b + 3) - consumed
                  n == IF k = m THEN 0 ELSE E[k + 1] - E[k]
      <3>0. upTo >= b + 3
        BY <1>0, <2>02, <2>2
      <3>. HIDE DEF k
      <3>1. Found(view, g, s, d, n)
        BY <2>0, <2>01, <3>0, LineFound
      <3>2. CASE k = m
        <4>0. n = 0 /\ n # Invalid
          BY <3>2 DEF Invalid
        <4>. HIDE DEF n, d
        <4>1. FindsEnd(t, s, d)
          BY <1>2, <3>1, <4>0, RoundFinds
        <4>2. t.result = "over" /\ t.body = s.body
          BY <1>01, <4>1 DEF FindsEnd
        <4>. HIDE DEF t
        <4>3. Slice(t.body, body, E[j], E[m])
          BY <2>0, <3>2, <4>2
        <4>4. Took(t, body, E, m, j, upTo, r + 1)
          BY <4>2, <4>3, Zenon DEF Took
        <4>. QED  BY <4>4 DEF t
      <3>3. CASE k # m
        <4>. DEFINE c == Behind(E, k + 1)
                    more == SubSeq(view, d + 1, d + n)
        <4>0. k < m /\ k + 1 \in 0..m
          BY <1>0, <2>01, <3>3
        <4>1. /\ E[k + 1] \in Nat /\ E[k] < E[k + 1] /\ c = b + 5 + (E[k + 1] - E[k])
              /\ \A i \in E[k] + 1..E[k + 1] : wire[5 * (k + 1) + i] = body[i]
          BY <2>01, <4>0, Around
        <4>2. upTo >= c - 1
          BY <2>01, <3>0, <4>0, NotInside
        <4>3. n = E[k + 1] - E[k]
          BY <3>3
        <4>. HIDE DEF n, c
        <4>4. n \in Nat /\ n # 0 /\ n # Invalid
          BY <2>02, <4>1, <4>3 DEF Invalid
        <4>5. consumed <= b
          BY <1>0, <1>01, <2>0, <2>02 DEF Behinds
        <4>51. c = b + 5 + n
          BY <4>1, <4>3
        <4>. HIDE DEF b
        <4>6. /\ d \in Nat /\ d + n + 2 = c - consumed /\ d + n <= upTo - consumed
              /\ ~(d + n > upTo - consumed) /\ consumed + (d + n + 2) = c
          BY <1>0, <2>02, <4>2, <4>4, <4>5, <4>51
        <4>7. Len(view) = upTo - consumed /\ view \in Seq(Token)
              /\ \A i \in 1..upTo - consumed : view[i] = wire[consumed + i]
          BY DEF ViewOf
        <4>8. TakesChunk(t, s, view, d, n)
          <5>1. ~(d + n > Len(view))
            BY <4>6, <4>7
          <5>. HIDE DEF d
          <5>. QED  BY <1>2, <3>1, <4>4, <5>1, RoundFinds
        <4>9. t.result = "next" /\ t.body = s.body \o more /\ t.pos = d + n + 2
          <5>1. t = [s EXCEPT !.pos = d + n + 2, !.body = @ \o more]
            BY <4>8 DEF TakesChunk
          <5>. HIDE DEF more, d, t
          <5>. QED  BY <1>01, <1>2, <5>1
        <4>10. Slice(more, body, E[k], E[k + 1])
          <5>1. /\ more \in Seq(Token) /\ Len(more) = (d + n) - d
                /\ \A i \in 1..(d + n) - d : more[i] = view[d + i]
            <6>1. d + n \in Nat /\ d <= d + n /\ d + n <= Len(view)
              BY <4>4, <4>6, <4>7
            <6>. HIDE DEF d
            <6>. QED  BY <4>6, <4>7, <6>1, ViewTokens
          <5>2. (d + n) - d = n
            BY <4>4, <4>6
          <5>3. ASSUME NEW i \in 1..n PROVE more[i] = body[E[k] + i]
            <6>0. more[i] = view[d + i]
              BY <5>1, <5>2
            <6>1. d + i \in 1..upTo - consumed /\ consumed + (d + i) = b + 3 + i
                  /\ E[k] + i \in E[k] + 1..E[k + 1]
              <7>1. d + i \in 1..upTo - consumed
                BY <1>0, <4>4, <4>6
              <7>2. consumed + (d + i) = b + 3 + i
                BY <1>0, <2>02, <4>4
              <7>3. E[k] + i \in E[k] + 1..E[k + 1]
                BY <2>02, <4>1, <4>3
              <7>. QED  BY <7>1, <7>2, <7>3
            <6>2. 5 * (k + 1) + (E[k] + i) = b + 3 + i
              BY <2>01, <2>02 DEF b, Behind
            <6>3. view[d + i] = wire[b + 3 + i]
              BY <4>7, <6>1
            <6>4. wire[b + 3 + i] = body[E[k] + i]
              BY <4>1, <6>1, <6>2
            <6>. QED  BY <6>0, <6>3, <6>4
          <5>. HIDE DEF more
          <5>4. more \in Seq(Token) /\ Len(more) = E[k + 1] - E[k]
                /\ \A i \in 1..E[k + 1] - E[k] : more[i] = body[E[k] + i]
            BY <4>3, <5>1, <5>2, <5>3
          <5>. QED  BY <5>4 DEF Slice
        <4>11. Slice(t.body, body, E[j], E[k + 1])
          <5>1. E[j] \in Nat /\ E[j] <= E[k]
            <6>1. Cuts(E, m, Len(body))
              BY DEF Reading
            <6>2. j \in 0..m /\ j <= k
              BY <1>0, <2>01
            <6>. QED  BY <2>01, <6>1, <6>2 DEF Cuts
          <5>2. E[k] <= E[k + 1]
            BY <2>02, <4>1
          <5>3. Slice(s.body \o more, body, E[j], E[k + 1])
            <6>. HIDE DEF more
            <6>. QED  BY <2>0, <2>02, <4>1, <4>10, <5>1, <5>2, Slices
          <5>. QED  BY <4>9, <5>3
        <4>12. Behinds(E, k + 1, upTo, t.pos)
          <5>1. consumed + t.pos = Behind(E, k + 1)
            BY <4>6, <4>9 DEF c
          <5>. QED  BY <4>2, <5>1 DEF Behinds, c
        <4>. HIDE DEF t
        <4>13. j + (r + 1) = k + 1 /\ k + 1 <= m
          BY <1>0, <4>0 DEF k
        <4>14. Took(t, body, E, m, j, upTo, r + 1)
          <5>1. j + (r + 1) <= m /\ Slice(t.body, body, E[j], E[j + (r + 1)])
                /\ Behinds(E, j + (r + 1), upTo, t.pos) /\ t.result = "next"
            BY <4>9, <4>11, <4>12, <4>13
          <5>. QED  BY <5>1, Zenon DEF Took
        <4>. QED  BY <4>14 DEF t
      <3>. QED  BY <3>2, <3>3
    <2>. QED  BY <2>1, <2>2
  <1>. QED  BY <1>1, <1>2

\* a tokens have arrived and c are consumed, which are the first j chunks: of the line's
\* end behind the last of them the lf may be left, and the header is left until it is
\* complete.
Placed(E, j, a, c) ==
    \/ c = 0 /\ a < 2 /\ j = 0
    \/ /\ a >= Behind(E, j) - 1
       /\ \/ c = Behind(E, j)
          \/ c = Behind(E, j) - 1 /\ j > 0

\* What parse_chunk returns in such a place when the read does not end inside a chunk.
Parses(p, body, E, m, j, upTo) ==
    \/ p.result = "over" /\ Slice(p.body, body, E[j], E[m])
    \/ /\ p.result = "more"
       /\ \E k \in j..m : Slice(p.body, body, E[j], E[k]) /\ Placed(E, k, upTo, consumed + p.pos)

\* Nothing is a slice.
LEMMA NoSlice ==
    ASSUME NEW body, NEW a \in Nat
    PROVE  Slice(<<>>, body, a, a)
  <1>1. <<>> \in Seq(Token) /\ Len(<<>>) = 0
    OBVIOUS
  <1>2. a - a = 0
    OBVIOUS
  <1>. QED  BY <1>1, <1>2 DEF Slice

\* Where the rounds begin: behind the header if that has not been consumed.
LEMMA Begins ==
    ASSUME NEW body, NEW E, NEW m, NEW j, NEW upTo, Reading(body, E, m, j, upTo),
           NEW view, ViewOf(view, upTo), NEW a \in Nat, a < upTo, Placed(E, j, a, consumed),
           ~(Len(view) < HeaderLen(view))
    PROVE  Behinds(E, j, upTo, HeaderLen(view)) /\ (HeaderLen(view) = 0 => consumed > 0)
           /\ (HeaderLen(view) # 0 => consumed = 0 /\ upTo >= 2)
  <1>1. /\ consumed \in Nat /\ upTo \in Nat /\ consumed < upTo /\ m \in Nat /\ j \in 0..m
        /\ wire[1] = T("http", 0) /\ E[0] = 0
    BY DEF Reading, Response, Cuts
  <1>2. Behind(E, j) \in Nat /\ Behind(E, j) >= 2
    BY <1>1, Around
  <1>3. view[1] = wire[consumed + 1] /\ Len(view) = upTo - consumed
    BY <1>1 DEF ViewOf
  <1>4. CASE consumed = 0
    <2>1. HeaderLen(view) = 2
      BY <1>1, <1>3, <1>4 DEF HeaderLen
    <2>2. j = 0
      BY <1>1, <1>2, <1>4 DEF Placed, Behind
    <2>3. Behind(E, j) = 2
      BY <1>1, <2>2 DEF Behind
    <2>4. upTo >= 2
      <3>1. ~(Len(view) < 2)
        BY <2>1
      <3>2. ~(upTo - consumed < 2)
        BY <1>3, <3>1
      <3>3. \A x, y \in Nat : y \in {0} /\ ~(x - y < 2) => x >= 2
        OBVIOUS
      <3>4. consumed \in Nat /\ upTo \in Nat
        BY <1>1
      <3>5. consumed \in {0}
        BY <1>4
      <3>. QED  BY <3>2, <3>3, <3>4, <3>5
    <2>5. Behinds(E, j, upTo, HeaderLen(view))
      <3>1. consumed + HeaderLen(view) = Behind(E, j)
        BY <1>4, <2>1, <2>3
      <3>2. upTo >= Behind(E, j) - 1
        BY <1>1, <2>3, <2>4
      <3>. QED  BY <3>1, <3>2 DEF Behinds
    <2>. QED  BY <1>4, <2>1, <2>4, <2>5
  <1>5. CASE consumed # 0
    <2>1. /\ a >= Behind(E, j) - 1
          /\ \/ consumed = Behind(E, j)
             \/ consumed = Behind(E, j) - 1 /\ j > 0
      BY <1>5 DEF Placed
    <2>2. wire[consumed + 1] # T("http", 0)
      <3>1. CASE consumed = Behind(E, j)
        <4>1. wire[consumed + 1] = T("size", IF j = m THEN 0 ELSE E[j + 1] - E[j])
          BY <1>1, <3>1, Around
        <4>. QED  BY <4>1 DEF T
      <3>2. CASE consumed = Behind(E, j) - 1 /\ j > 0
        <4>1. wire[consumed + 1] = T("lf", 0)
          <5>1. wire[Behind(E, j)] = T("lf", 0)
            BY <1>1, <3>2, Around
          <5>2. consumed + 1 = Behind(E, j)
            BY <1>2, <3>2
          <5>. QED  BY <5>1, <5>2
        <4>. QED  BY <4>1 DEF T
      <3>. QED  BY <2>1, <3>1, <3>2
    <2>3. HeaderLen(view) = 0
      BY <1>3, <2>2 DEF HeaderLen
    <2>4. Behinds(E, j, upTo, 0)
      <3>1. upTo >= Behind(E, j) - 1 /\ consumed + 0 = consumed
        BY <1>1, <1>2, <2>1
      <3>. QED  BY <2>1, <3>1 DEF Behinds
    <2>. QED  BY <1>1, <1>5, <2>3, <2>4
  <1>. QED  BY <1>4, <1>5

\* As many rounds as the view is long are enough: each takes five tokens at least.
LEMMA RoundsEnd ==
    ASSUME NEW body, NEW E, NEW m, NEW j, NEW upTo, Reading(body, E, m, j, upTo),
           NEW r \in Nat, r = upTo - consumed, NEW pos \in Nat, j + r <= m,
           NEW a \in Nat, Placed(E, j, a, consumed), Behinds(E, j + r, upTo, pos)
    PROVE  FALSE
  <1>1. consumed \in Nat /\ upTo \in Nat /\ consumed < upTo /\ m \in Nat /\ j \in 0..m
        /\ j \in Nat /\ Cuts(E, m, Len(body))
    BY DEF Reading
  <1>2. j + r \in 0..m /\ j <= j + r
    BY <1>1
  <1>3. E[j] \in Nat /\ E[j + r] \in Nat /\ E[j] <= E[j + r]
    BY <1>1, <1>2 DEF Cuts
  <1>4. Behind(E, j) = 5 * j + E[j] + 2 /\ Behind(E, j + r) = 5 * (j + r) + E[j + r] + 2
    BY DEF Behind
  <1>5. upTo >= Behind(E, j + r) - 1
    BY DEF Behinds
  <1>6. Behind(E, j) \in Nat /\ Behind(E, j + r) \in Nat /\ Behind(E, j + r) >= Behind(E, j) + 5 * r
    <2>1. \A x, y, e, f \in Nat : e <= f => (5 * (x + y) + f) + 2 >= ((5 * x + e) + 2) + 5 * y
      OBVIOUS
    <2>2. Behind(E, j) = (5 * j + E[j]) + 2 /\ Behind(E, j + r) = (5 * (j + r) + E[j + r]) + 2
      BY <1>1, <1>3, <1>4
    <2>3. Behind(E, j) \in Nat /\ Behind(E, j + r) \in Nat
      BY <1>1, <1>2, Around
    <2>4. (5 * (j + r) + E[j + r]) + 2 >= ((5 * j + E[j]) + 2) + 5 * r
      BY <1>1, <1>3, <2>1
    <2>. QED  BY <2>2, <2>3, <2>4
  <1>7. consumed <= Behind(E, j)
    BY <1>1, <1>6 DEF Placed
  <1>. DEFINE x == Behind(E, j)
              y == Behind(E, j + r)
              c == consumed
  <1>8. x \in Nat /\ y \in Nat /\ c \in Nat /\ upTo \in Nat /\ c < upTo /\ c <= x /\ y >= x + 5 * r
        /\ upTo >= y - 1 /\ upTo - c = r
    BY <1>1, <1>5, <1>6, <1>7
  <1>. HIDE DEF x, y, c
  <1>. QED  BY <1>8

\* The state after the rounds of a read that does not end inside a chunk.
LEMMA AllTook ==
    ASSUME NEW body, NEW E, NEW m, NEW j, NEW upTo, Reading(body, E, m, j, upTo),
           NEW view, ViewOf(view, upTo), NEW g, NEW after, RoundsOf(after, view, g),
           Behinds(E, j, upTo, HeaderLen(view))
    PROVE  \A k \in 0..Len(view) : Took(after[k], body, E, m, j, upTo, k)
  <1>. DEFINE Holds == {k \in 0..Len(view) : Took(after[k], body, E, m, j, upTo, k)}
  <1>1. m \in Nat /\ j \in Nat /\ j <= m /\ j \in 0..m
    BY DEF Reading
  <1>2. Len(view) \in Nat
    BY LenProperties DEF ViewOf
  <1>3. E[j] \in Nat
    BY <1>1, Around
  <1>4. 0 \in Holds
    <2>1. after[0] = Start(view)
      BY DEF RoundsOf
    <2>2. after[0].body = <<>> /\ after[0].pos = HeaderLen(view) /\ after[0].result = "next"
      BY <2>1 DEF Start
    <2>3. j + 0 = j /\ 0 \in 0..Len(view)
      BY <1>1, <1>2
    <2>4. Slice(after[0].body, body, E[j], E[j + 0])
      BY <1>3, <2>2, <2>3, NoSlice
    <2>5. Behinds(E, j + 0, upTo, after[0].pos)
      BY <2>2, <2>3
    <2>6. j + 0 <= m
      BY <1>1
    <2>7. Took(after[0], body, E, m, j, upTo, 0)
      BY <2>2, <2>4, <2>5, <2>6, Zenon DEF Took
    <2>. QED  BY <2>3, <2>7
  <1>5. ASSUME NEW i \in 1..Len(view), i - 1 \in Holds PROVE i \in Holds
    <2>1. i - 1 \in Nat /\ (i - 1) + 1 = i /\ i - 1 \in 0..Len(view) /\ i \in 0..Len(view)
      BY <1>2
    <2>2. after[i] = NextChunk(view, g, after[i - 1]) /\ after[i - 1] \in Rounds
      BY <2>1 DEF RoundsOf
    <2>3. Took(after[i - 1], body, E, m, j, upTo, i - 1)
      BY <1>5
    <2>4. Took(NextChunk(view, g, after[i - 1]), body, E, m, j, upTo, (i - 1) + 1)
      BY <2>1, <2>2, <2>3, TookNext
    <2>5. Took(after[i], body, E, m, j, upTo, i)
      BY <2>1, <2>2, <2>4
    <2>. QED  BY <2>1, <2>5
  <1>6. 0..Len(view) \subseteq Holds
    <2>. HIDE DEF Holds
    <2>. QED  BY <1>2, <1>4, <1>5, UpTo
  <1>. QED  BY <1>6

\* What parse_chunk takes no more of than there is leaves it in such a place again.
LEMMA PlacedAgain ==
    ASSUME NEW body, NEW E, NEW m, NEW j, NEW upTo, Reading(body, E, m, j, upTo),
           NEW len, len = upTo - consumed, NEW k \in 0..m, NEW pos \in Nat, Behinds(E, k, upTo, pos),
           NEW q, q \in {pos, len}, q <= pos, q <= len,
           k = 0 => upTo >= 2
    PROVE  Placed(E, k, upTo, consumed + q)
  <1>1. consumed \in Nat /\ upTo \in Nat /\ consumed < upTo /\ k \in Nat /\ len \in Nat
    BY DEF Reading
  <1>2. Behind(E, k) \in Nat /\ Behind(E, k) >= 2
    BY Around
  <1>3. upTo >= Behind(E, k) - 1
    BY DEF Behinds
  <1>4. k = 0 => Behind(E, k) = 2
    BY DEF Behind, Reading, Cuts
  <1>5. CASE q = pos
    <2>1. \/ consumed + q = Behind(E, k)
          \/ consumed + q = Behind(E, k) - 1 /\ k > 0
      BY <1>5 DEF Behinds
    <2>. QED  BY <1>3, <2>1 DEF Placed
  <1>6. CASE q = len /\ q # pos
    <2>1. consumed + q = upTo /\ consumed + pos > upTo
      <3>1. \A c, u \in Nat : \A x, y \in Nat : x = u - c /\ x <= y /\ x # y => c + x = u /\ c + y > u
        OBVIOUS
      <3>2. q \in Nat /\ q = upTo - consumed
        BY <1>1, <1>6
      <3>. QED  BY <1>1, <1>6, <3>1, <3>2
    <2>2. consumed + pos <= Behind(E, k)
      BY <1>1, <1>2 DEF Behinds
    <2>3. upTo = Behind(E, k) - 1
      BY <1>1, <1>2, <1>3, <2>1, <2>2
    <2>4. k # 0
      BY <1>1, <1>4, <2>3
    <2>5. k > 0 /\ consumed + q = Behind(E, k) - 1
      BY <1>1, <2>1, <2>3, <2>4
    <2>. QED  BY <1>3, <2>5 DEF Placed
  <1>. QED  BY <1>5, <1>6

\* A read that does not end inside a chunk: parse_chunk hands over whole chunks, all
\* that follow those consumed, and never throws.
LEMMA ParsedWhole ==
    ASSUME NEW body, NEW E, NEW m, NEW j, NEW upTo, Reading(body, E, m, j, upTo),
           NEW view, ViewOf(view, upTo), NEW a \in Nat, a < upTo, Placed(E, j, a, consumed),
           NEW g \in Numbers
    PROVE  Parses(parse_chunk(view, g), body, E, m, j, upTo)
  <1>. DEFINE p == parse_chunk(view, g)
  <1>1. /\ consumed \in Nat /\ upTo \in Nat /\ consumed < upTo /\ m \in Nat /\ j \in Nat /\ j <= m
        /\ j \in 0..m /\ j \in j..m
    BY DEF Reading
  <1>2. view \in Seq(Token) /\ Len(view) = upTo - consumed
    BY DEF ViewOf
  <1>3. Len(view) \in Nat /\ Len(view) \in 0..Len(view)
    BY <1>2, LenProperties
  <1>4. PICK after : RoundsOf(after, view, g) /\ ParsedFrom(p, after[Len(view)], view)
    BY <1>2, Parsing
  <1>. DEFINE s == after[Len(view)]
  <1>5. s \in Rounds /\ ParsedFrom(p, s, view)
    BY <1>3, <1>4 DEF RoundsOf
  <1>. HIDE DEF p
  <1>6. CASE Len(view) < HeaderLen(view)
    <2>1. p = [body |-> <<>>, pos |-> 0, result |-> "more"]
      BY <1>5, <1>6 DEF ParsedFrom
    <2>2. p.body = <<>> /\ p.pos = 0 /\ p.result = "more"
      BY <2>1
    <2>3. Slice(p.body, body, E[j], E[j])
      <3>1. E[j] \in Nat
        BY <1>1, Around
      <3>. QED  BY <2>2, <3>1, NoSlice
    <2>4. Len(view) < 2 /\ view[1] = T("http", 0)
      BY <1>3, <1>6 DEF HeaderLen
    <2>5. wire[consumed + 1] = T("http", 0)
      BY <1>1, <2>4 DEF ViewOf
    <2>6. consumed = 0
      <3>1. \/ consumed = 0
            \/ consumed = Behind(E, j)
            \/ consumed = Behind(E, j) - 1 /\ j > 0
        BY DEF Placed
      <3>2. CASE consumed = Behind(E, j)
        <4>1. wire[consumed + 1] = T("size", IF j = m THEN 0 ELSE E[j + 1] - E[j])
          BY <1>1, <3>2, Around
        <4>. QED  BY <2>5, <4>1 DEF T
      <3>3. CASE consumed = Behind(E, j) - 1 /\ j > 0
        <4>1. Behind(E, j) \in Nat
          BY <1>1, Around
        <4>2. wire[Behind(E, j)] = T("lf", 0)
          BY <1>1, <3>3, Around
        <4>3. consumed + 1 = Behind(E, j)
          BY <3>3, <4>1
        <4>. QED  BY <2>5, <4>2, <4>3 DEF T
      <3>. QED  BY <3>1, <3>2, <3>3
    <2>7. upTo < 2
      <3>1. upTo - consumed < 2
        BY <1>2, <2>4
      <3>2. \A x, y \in Nat : y \in {0} /\ x - y < 2 => x < 2
        OBVIOUS
      <3>3. consumed \in {0}
        BY <2>6
      <3>. QED  BY <1>1, <3>1, <3>2, <3>3
    <2>8. j = 0
      <3>1. Behind(E, j) \in Nat /\ Behind(E, j) >= 2
        BY <1>1, Around
      <3>2. consumed # Behind(E, j)
        BY <2>6, <3>1
      <3>3. j > 0 => Behind(E, j) >= 7
        <4>1. E[j] \in Nat
          BY <1>1, Around
        <4>. QED  BY <1>1, <4>1 DEF Behind
      <3>4. ~(consumed = Behind(E, j) - 1 /\ j > 0)
        BY <2>6, <3>1, <3>3
      <3>. QED  BY <3>2, <3>4 DEF Placed
    <2>9. Placed(E, j, upTo, consumed + p.pos)
      <3>1. consumed + p.pos = 0
        BY <2>2, <2>6
      <3>. QED  BY <2>7, <2>8, <3>1 DEF Placed
    <2>10. Parses(p, body, E, m, j, upTo)
      BY <1>1, <2>2, <2>3, <2>9, Zenon DEF Parses
    <2>. QED  BY <2>10 DEF p
  <1>7. CASE ~(Len(view) < HeaderLen(view))
    <2>. DEFINE q == Consumed(view, s.pos)
    <2>1. p = [s EXCEPT !.pos = q]
      BY <1>5, <1>7 DEF ParsedFrom
    <2>2. s.pos \in Nat /\ s = [body |-> s.body, pos |-> s.pos, result |-> s.result]
      BY <1>5 DEF Rounds
    <2>3. q \in {s.pos, Len(view)} /\ q <= s.pos /\ q <= Len(view)
      <3>1. {s.pos, Len(view)} \subseteq Nat /\ {s.pos, Len(view)} # {}
        BY <1>3, <2>2
      <3>2. q = Min({s.pos, Len(view)})
        BY DEF Consumed
      <3>. HIDE DEF q, s
      <3>. QED  BY <3>1, <3>2, MinProperties
    <2>4. Behinds(E, j, upTo, HeaderLen(view))
          /\ (HeaderLen(view) = 0 => consumed > 0) /\ (HeaderLen(view) # 0 => consumed = 0 /\ upTo >= 2)
      BY <1>7, Begins
    <2>5. Took(s, body, E, m, j, upTo, Len(view))
      BY <1>3, <1>4, <2>4, AllTook
    <2>. HIDE DEF q, s
    <2>6. p.body = s.body /\ p.pos = q /\ p.result = s.result
      BY <2>1, <2>2
    <2>7. CASE s.result = "over" /\ Slice(s.body, body, E[j], E[m])
      <3>1. Parses(p, body, E, m, j, upTo)
        BY <2>6, <2>7, Zenon DEF Parses
      <3>. QED  BY <3>1 DEF p
    <2>8. CASE s.result = "more" /\ \E k \in j..m : Slice(s.body, body, E[j], E[k])
                                                    /\ Behinds(E, k, upTo, s.pos)
      <3>1. PICK k \in j..m : Slice(s.body, body, E[j], E[k]) /\ Behinds(E, k, upTo, s.pos)
        BY <2>8
      <3>2. k \in 0..m
        BY <1>1
      <3>3. upTo >= 2
        <4>1. \A x, y \in Nat : x > 0 /\ x < y => y >= 2
          OBVIOUS
        <4>2. consumed > 0 \/ upTo >= 2
          BY <2>4
        <4>. QED  BY <1>1, <4>1, <4>2
      <3>4. Placed(E, k, upTo, consumed + q)
        BY <1>2, <2>2, <2>3, <3>1, <3>2, <3>3, PlacedAgain
      <3>5. Parses(p, body, E, m, j, upTo)
        <4>1. p.result = "more" /\ Slice(p.body, body, E[j], E[k]) /\ Placed(E, k, upTo, consumed + p.pos)
          BY <2>6, <2>8, <3>1, <3>4
        <4>. QED  BY <4>1, Zenon DEF Parses
      <3>. QED  BY <3>5 DEF p
    <2>9. CASE /\ s.result = "next" /\ j + Len(view) <= m
               /\ Slice(s.body, body, E[j], E[j + Len(view)]) /\ Behinds(E, j + Len(view), upTo, s.pos)
      BY <1>2, <1>3, <2>2, <2>9, RoundsEnd
    <2>. QED  BY <2>5, <2>7, <2>8, <2>9 DEF Took
  <1>. QED  BY <1>6, <1>7

-----------------------------------------------------------------------------
(* Pieces of a line *)

\* The tokens of the line of event n behind u, up to v.
Piece(line, n, u, v) ==
    /\ line \in Seq(Token) /\ Len(line) = v - u
    /\ \A i \in 1..v - u : line[i] = Line(n)[u + i]

\* What begins with "data:".
LEMMA BeginsData ==
    ASSUME NEW line \in Seq(Token), Len(line) >= 2
    PROVE  IsData(line) <=> line[1] = T("da", 0) /\ line[2] = T("ta", 0)
  <1>. DEFINE a == SubSeq(line, 1, 2)
              b == SubSeq(Line(0), 1, 2)
  <1>1. Len(line) \in Nat /\ 1 \in 1..Len(line) /\ 2 \in 1..Len(line)
    <2>1. Len(line) \in Nat
      BY LenProperties
    <2>. QED  BY <2>1
  <1>2. a \in Seq(Token) /\ Len(a) = 2 /\ a[1] = line[1] /\ a[2] = line[2]
    <2>1. SubSeq(line, 0 + 1, 2) \in Seq(Token) /\ Len(SubSeq(line, 0 + 1, 2)) = 2 - 0
          /\ \A k \in 1..2 - 0 : SubSeq(line, 0 + 1, 2)[k] = line[0 + k]
      BY <1>1, ViewTokens
    <2>2. 0 + 1 = 1 /\ 2 - 0 = 2 /\ 0 + 2 = 2
      OBVIOUS
    <2>3. 1 \in 1..2 /\ 2 \in 1..2
      OBVIOUS
    <2>. QED  BY <2>1, <2>2, <2>3
  <1>3. b \in Seq(Token) /\ Len(b) = 2 /\ b[1] = T("da", 0) /\ b[2] = T("ta", 0)
    <2>0. 0 \in Nat
      OBVIOUS
    <2>1. Line(0) \in Seq(Token) /\ Len(Line(0)) = 5 /\ DataAt(Line(0), 0, 0)
      BY <2>0, LineTokens
    <2>2. SubSeq(Line(0), 0 + 1, 2) \in Seq(Token) /\ Len(SubSeq(Line(0), 0 + 1, 2)) = 2 - 0
          /\ \A k \in 1..2 - 0 : SubSeq(Line(0), 0 + 1, 2)[k] = Line(0)[0 + k]
      <3>1. 0 <= 2 /\ 2 <= Len(Line(0)) /\ 2 \in Nat
        <4>1. 0 <= 2 /\ 2 \in Nat /\ \A x \in {5} : 2 <= x
          OBVIOUS
        <4>2. Len(Line(0)) \in {5}
          BY <2>1
        <4>. QED  BY <4>1, <4>2
      <3>. QED  BY <2>0, <2>1, <3>1, ViewTokens
    <2>3. 0 + 1 = 1 /\ 2 - 0 = 2 /\ 0 + 2 = 2 /\ 1 \in 1..2 /\ 2 \in 1..2
      OBVIOUS
    <2>4. Line(0)[1] = T("da", 0) /\ Line(0)[2] = T("ta", 0)
      BY <2>1, <2>3 DEF DataAt
    <2>. QED  BY <2>2, <2>3, <2>4
  <1>4. IsData(line) <=> a = b
    BY DEF IsData
  <1>. HIDE DEF a, b
  <1>5. a = b <=> a[1] = b[1] /\ a[2] = b[2]
    <2>1. SUFFICES ASSUME a[1] = b[1], a[2] = b[2] PROVE a = b
      OBVIOUS
    <2>2. \A i \in 1..2 : a[i] = b[i]
      <3>1. \A i \in 1..2 : i = 1 \/ i = 2
        OBVIOUS
      <3>. QED  BY <2>1, <3>1
    <2>3. Len(a) = Len(b) /\ \A i \in 1..Len(a) : a[i] = b[i]
      BY <1>2, <1>3, <2>2
    <2>. QED  BY <1>2, <1>3, <2>3, SeqEqual
  <1>. QED  BY <1>2, <1>3, <1>4, <1>5

\* A line from its beginning says "data:"; what follows that does not.
LEMMA PieceIsData ==
    ASSUME NEW n \in Nat, NEW v \in {2, 3, 4}, NEW line, Piece(line, n, 0, v)
    PROVE  IsData(line)
  <1>1. line \in Seq(Token) /\ Len(line) = v - 0 /\ \A i \in 1..v - 0 : line[i] = Line(n)[0 + i]
    BY DEF Piece
  <1>2. 1 \in 1..v - 0 /\ 2 \in 1..v - 0 /\ v - 0 >= 2 /\ 0 + 1 = 1 /\ 0 + 2 = 2
    OBVIOUS
  <1>3. Line(n)[1] = T("da", 0) /\ Line(n)[2] = T("ta", 0)
    <2>1. DataAt(Line(n), 0, n)
      BY LineTokens
    <2>. QED  BY <1>2, <2>1 DEF DataAt
  <1>4. line[1] = T("da", 0) /\ line[2] = T("ta", 0) /\ Len(line) >= 2
    BY <1>1, <1>2, <1>3
  <1>. QED  BY <1>1, <1>4, BeginsData

\* What is left of a line whose first two tokens are gone does not begin with data.
LEMMA PieceNotData ==
    ASSUME NEW n \in Nat, NEW u \in {2, 3}, NEW v \in 0..4, u <= v, NEW line, Piece(line, n, u, v)
    PROVE  ~IsData(line)
  <1>1. line \in Seq(Token) /\ Len(line) = v - u /\ \A i \in 1..v - u : line[i] = Line(n)[u + i]
    BY DEF Piece
  <1>2. SUFFICES ASSUME Len(line) >= 2 PROVE ~IsData(line)
    <2>1. ~(Len(line) >= 2) => ~IsData(line)
      BY DEF IsData
    <2>. QED  BY <2>1
  <1>3. 1 \in 1..v - u
    BY <1>1, <1>2
  <1>4. line[1] = Line(n)[u + 1]
    BY <1>1, <1>3
  <1>5. Line(n)[3] = T("j1", n) /\ Line(n)[4] = T("j2", n)
    <2>1. DataAt(Line(n), 0, n)
      BY LineTokens
    <2>2. 0 + 3 = 3 /\ 0 + 4 = 4
      OBVIOUS
    <2>. QED  BY <2>1, <2>2 DEF DataAt
  <1>6. u + 1 = 3 \/ u + 1 = 4
    OBVIOUS
  <1>7. line[1] # T("da", 0)
    BY <1>4, <1>5, <1>6 DEF T
  <1>. QED  BY <1>1, <1>2, <1>7, BeginsData

\* A line without its end is JSON when it is whole.
LEMMA PieceParsed ==
    ASSUME Len(events) \in Nat, NEW n \in 0..Len(events), NEW line, Piece(line, n, 0, 4)
    PROVE  Parsed(line) = n
  <1>0. n \in Nat
    OBVIOUS
  <1>1. line \in Seq(Token) /\ Len(line) = 4 /\ \A i \in 1..4 : line[i] = Line(n)[i]
    <2>1. line \in Seq(Token) /\ Len(line) = 4 - 0 /\ \A i \in 1..4 - 0 : line[i] = Line(n)[0 + i]
      BY DEF Piece
    <2>2. 4 - 0 = 4 /\ \A i \in 1..4 : 0 + i = i
      OBVIOUS
    <2>. QED  BY <2>1, <2>2
  <1>2. Line(n) \in Seq(Token) /\ Len(Line(n)) = 5 /\ DataAt(Line(n), 0, n)
    BY <1>0, LineTokens
  <1>3. Line(n)[3] = T("j1", n) /\ Line(n)[5] = Newline
    <2>1. 0 + 3 = 3 /\ 0 + 5 = 5
      OBVIOUS
    <2>. QED  BY <1>2, <2>1 DEF DataAt
  <1>4. Newline \in Token
    BY DEF Newline, T, Token, Kinds
  <1>5. Append(line, Newline) = Line(n)
    <2>. DEFINE w == Append(line, Newline)
    <2>1. w \in Seq(Token) /\ Appends(w, line, Newline)
      BY <1>1, <1>4, Appending
    <2>. HIDE DEF w
    <2>2. Len(w) = 5 /\ w[5] = Newline /\ \A i \in 1..4 : w[i] = line[i]
      <3>1. 4 + 1 = 5
        OBVIOUS
      <3>2. Len(w) = Len(line) + 1 /\ (\A i \in 1..Len(line) : w[i] = line[i]) /\ w[Len(line) + 1] = Newline
        BY <2>1 DEF Appends
      <3>3. Len(w) = 4 + 1 /\ (\A i \in 1..4 : w[i] = line[i]) /\ w[4 + 1] = Newline
        BY <1>1, <3>2
      <3>. QED  BY <3>1, <3>3
    <2>3. ASSUME NEW i \in 1..5 PROVE w[i] = Line(n)[i]
      <3>1. i \in 1..4 \/ i = 5
        OBVIOUS
      <3>. QED  BY <1>1, <1>3, <2>2, <3>1
    <2>4. Len(w) = Len(Line(n)) /\ \A i \in 1..Len(w) : w[i] = Line(n)[i]
      BY <1>2, <2>2, <2>3
    <2>5. w = Line(n)
      BY <1>2, <2>1, <2>4, SeqEqual
    <2>. QED  BY <2>5 DEF w
  <1>6. Parsed(line) = line[3][2]
    BY <1>5 DEF Parsed
  <1>7. line[3] = T("j1", n)
    <2>1. 3 \in 1..4
      OBVIOUS
    <2>. QED  BY <1>1, <1>3, <2>1
  <1>. QED  BY <1>6, <1>7 DEF T

\* A line that lost its last token is not one the callback can parse.
LEMMA PieceNotParsed ==
    ASSUME Len(events) \in Nat, NEW n \in Nat, NEW v \in 0..3, NEW line, Piece(line, n, 0, v)
    PROVE  Parsed(line) = Invalid
  <1>1. line \in Seq(Token) /\ Len(line) = v - 0
    BY DEF Piece
  <1>2. Len(line) # 4
    BY <1>1
  <1>. QED  BY <1>1, <1>2, LineParsed

\* What is heard of the first c events, and after them a thought is open or not.
Thinking(n) == \E a \in 1..n : events[a] = "open" /\ \A b \in a..n : events[b] # "close"
Caught(h, c) == ToSet(h) = Expected \cap 1..c

\* What the event n does to what Openai's callback knows.
Minds(t, s, n) ==
    IF n = 0 THEN t.is_active = s.is_active /\ t.heard = s.heard
    ELSE /\ t.is_active = Active(s, n)
         /\ t.heard = IF Active(s, n) THEN Append(s.heard, n) ELSE s.heard

\* What Openai's callback keeps of a line of which it has got the first u tokens.
Kept(s, n, u) ==
    IF u \in {2, 3} THEN Piece(s.last_line, n, 0, u) ELSE s.last_line = <<>>

\* A line from u to v, the first u tokens of which came before.
LEMMA OpenaiPiece ==
    ASSUME NEW s \in States, Len(events) \in Nat, NEW n \in 0..Len(events), NEW u \in {0, 2, 3},
           NEW v \in {2, 3, 4}, u < v, Piece(s.line, n, u, v), Kept(s, n, u)
    PROVE  /\ Kept(OpenaiLine(s, s.line), n, v)
           /\ v # 4 => OpenaiLine(s, s.line).is_active = s.is_active
                       /\ OpenaiLine(s, s.line).heard = s.heard
           /\ v = 4 => Minds(OpenaiLine(s, s.line), s, n)
  <1>. DEFINE raw == s.line
              j == Joined(s, raw)
              k == Parsed(j.line)
              t == OpenaiLine(s, raw)
              on == Active(s, k)
  <1>1. /\ s.line \in Seq(Token) /\ s.last_line \in Seq(Token)
        /\ s = [line |-> s.line, last_line |-> s.last_line, is_active |-> s.is_active,
                heard |-> s.heard, is_delta |-> s.is_delta, threw |-> s.threw]
    BY DEF States
  <1>2. t = IF raw = <<>> THEN s
            ELSE IF ~IsData(j.line) THEN [s EXCEPT !.last_line = j.last_line]
            ELSE IF k = Invalid THEN [s EXCEPT !.last_line = j.line]
            ELSE IF k = 0 THEN [s EXCEPT !.last_line = j.last_line]
            ELSE [s EXCEPT !.last_line = j.last_line, !.is_active = on,
                           !.heard = IF on THEN Append(s.heard, k) ELSE s.heard]
    BY DEF OpenaiLine
  <1>3. n \in Nat /\ v \in Nat /\ u \in Nat /\ v \in 0..4
    OBVIOUS
  <1>4. raw # <<>>
    <2>1. Len(raw) = v - u /\ v - u > 0
      BY DEF Piece
    <2>2. Len(<<>>) = 0
      OBVIOUS
    <2>3. Len(raw) # 0
      BY <2>1
    <2>. QED  BY <2>2, <2>3
  <1>5. Piece(j.line, n, 0, v) /\ j.last_line = <<>>
    <2>1. CASE u = 0
      <3>1. Piece(raw, n, 0, v)
        BY <2>1
      <3>2. IsData(raw)
        BY <1>3, <3>1, PieceIsData
      <3>3. j = [line |-> raw, last_line |-> s.last_line]
        BY <3>2 DEF Joined
      <3>4. s.last_line = <<>>
        BY <2>1 DEF Kept
      <3>5. j.line = raw /\ j.last_line = s.last_line
        BY <3>3
      <3>. HIDE DEF j, raw
      <3>. QED  BY <3>1, <3>4, <3>5
    <2>2. CASE u # 0
      <3>0. u \in {2, 3}
        BY <2>2
      <3>1. ~IsData(raw)
        BY <1>3, <3>0, PieceNotData
      <3>2. Piece(s.last_line, n, 0, u)
        BY <3>0 DEF Kept
      <3>. DEFINE w == s.last_line \o raw
      <3>3. j = [line |-> w, last_line |-> <<>>]
        <4>. HIDE DEF raw
        <4>1. Joined(s, raw) = IF IsData(raw) THEN [line |-> raw, last_line |-> s.last_line]
                               ELSE [line |-> s.last_line \o raw, last_line |-> <<>>]
          BY DEF Joined
        <4>2. Joined(s, raw) = [line |-> s.last_line \o raw, last_line |-> <<>>]
          BY <3>1, <4>1
        <4>. QED  BY <4>2 DEF w
      <3>. HIDE DEF w
      <3>4. j.line = w /\ j.last_line = <<>>
        <4>. HIDE DEF j, raw
        <4>. QED  BY <3>3
      <3>5. Slice(s.last_line, Line(n), 0, u) /\ Slice(raw, Line(n), u, v)
        BY <3>2 DEF Piece, Slice
      <3>6. Slice(w, Line(n), 0, v)
        <4>0. Slice(s.last_line \o raw, Line(n), 0, v) => Slice(w, Line(n), 0, v)
          BY DEF w
        <4>1. 0 \in Nat /\ 0 <= u /\ u <= v
          BY <1>3
        <4>. HIDE DEF raw
        <4>2. Slice(s.last_line \o raw, Line(n), 0, v)
          BY <1>3, <3>5, <4>1, Slices
        <4>. QED  BY <4>0, <4>2
      <3>7. Piece(w, n, 0, v)
        <4>. HIDE DEF raw
        <4>. QED  BY <3>6 DEF Piece, Slice
      <3>. HIDE DEF j, raw
      <3>. QED  BY <3>4, <3>7
    <2>. QED  BY <2>1, <2>2
  <1>6. IsData(j.line)
    <2>. HIDE DEF j
    <2>. QED  BY <1>3, <1>5, PieceIsData
  <1>. HIDE DEF j, raw
  <1>7. CASE v # 4
    <2>0. v \in 0..3 /\ v \in {2, 3}
      BY <1>7
    <2>1. k = Invalid
      BY <1>3, <1>5, <2>0, PieceNotParsed
    <2>. HIDE DEF k, on, t
    <2>2. t = [s EXCEPT !.last_line = j.line]
      BY <1>2, <1>4, <1>6, <2>1
    <2>3. t.last_line = j.line /\ t.is_active = s.is_active /\ t.heard = s.heard
      BY <1>1, <2>2
    <2>4. Kept(t, n, v)
      BY <1>5, <2>0, <2>3 DEF Kept
    <2>. QED  BY <1>7, <2>3, <2>4 DEF t, raw
  <1>8. CASE v = 4
    <2>1. k = n
      <3>1. Piece(j.line, n, 0, 4)
        BY <1>5, <1>8
      <3>. QED  BY <3>1, PieceParsed
    <2>2. n # Invalid /\ v \notin {2, 3}
      BY <1>3, <1>8 DEF Invalid
    <2>. HIDE DEF k, on, t
    <2>3. t.last_line = <<>>
      BY <1>1, <1>2, <1>4, <1>5, <1>6, <2>1, <2>2
    <2>4. Minds(t, s, n)
      <3>1. CASE n = 0
        <4>1. t = [s EXCEPT !.last_line = j.last_line]
          BY <1>2, <1>4, <1>6, <2>1, <2>2, <3>1
        <4>2. t.is_active = s.is_active /\ t.heard = s.heard
          BY <1>1, <4>1
        <4>. QED  BY <3>1, <4>2 DEF Minds
      <3>2. CASE n # 0
        <4>1. t = [s EXCEPT !.last_line = j.last_line, !.is_active = on,
                            !.heard = IF on THEN Append(s.heard, k) ELSE s.heard]
          BY <1>2, <1>4, <1>6, <2>1, <2>2, <3>2
        <4>2. t.is_active = on /\ t.heard = IF on THEN Append(s.heard, k) ELSE s.heard
          BY <1>1, <4>1
        <4>3. on = Active(s, n)
          BY <2>1 DEF on
        <4>. QED  BY <2>1, <3>2, <4>2, <4>3 DEF Minds
      <3>. QED  BY <3>1, <3>2
    <2>5. Kept(t, n, v)
      BY <2>2, <2>3 DEF Kept
    <2>. QED  BY <1>8, <2>4, <2>5 DEF t, raw
  <1>. QED  BY <1>7, <1>8

\* Which events should be heard.
LEMMA ExpectedAre ==
    \A n : n \in Expected <=> /\ n \in DOMAIN events /\ events[n] \in {"text", "close", "delta"}
                              /\ ~Thinking(n)
  BY DEF Expected, Thinking

\* What is caught when the next event is, or is none that should be heard.
LEMMA CaughtNext ==
    ASSUME NEW h \in Seq(DOMAIN events), NEW c \in Nat, Caught(h, c)
    PROVE  /\ c + 1 \in Expected => Caught(Append(h, c + 1), c + 1)
           /\ c + 1 \notin Expected => Caught(h, c + 1)
  <1>1. 1..c + 1 = (1..c) \cup {c + 1}
    OBVIOUS
  <1>2. ToSet(h) = Expected \cap 1..c
    BY DEF Caught
  <1>3. ASSUME c + 1 \in Expected PROVE ToSet(Append(h, c + 1)) = ToSet(h) \cup {c + 1}
    <2>. DEFINE e == c + 1
                w == Append(h, e)
    <2>1. e \in DOMAIN events
      BY <1>3, ExpectedAre
    <2>. HIDE DEF e
    <2>2. w \in Seq(DOMAIN events) /\ Appends(w, h, e)
      BY <2>1, Appending
    <2>3. Len(h) \in Nat /\ DOMAIN h = 1..Len(h) /\ DOMAIN w = 1..Len(w)
      BY <2>2, LenProperties
    <2>. HIDE DEF w
    <2>4. Len(w) = Len(h) + 1 /\ (\A j \in 1..Len(h) : w[j] = h[j]) /\ w[Len(h) + 1] = e
      BY <2>2 DEF Appends
    <2>5. DOMAIN w = DOMAIN h \cup {Len(h) + 1}
      BY <2>3, <2>4
    <2>6. ToSet(w) = ToSet(h) \cup {e}
      <3>1. ASSUME NEW x \in ToSet(w) PROVE x \in ToSet(h) \cup {e}
        <4>1. PICK k \in DOMAIN w : x = w[k]
          BY DEF ToSet
        <4>. QED  BY <2>3, <2>4, <2>5, <4>1 DEF ToSet
      <3>2. ASSUME NEW x \in ToSet(h) PROVE x \in ToSet(w)
        <4>1. PICK k \in DOMAIN h : x = h[k]
          BY DEF ToSet
        <4>2. k \in DOMAIN w /\ x = w[k]
          BY <2>3, <2>4, <2>5, <4>1
        <4>. QED  BY <4>2 DEF ToSet
      <3>3. e \in ToSet(w)
        <4>1. Len(h) + 1 \in DOMAIN w
          BY <2>5
        <4>. QED  BY <2>4, <4>1 DEF ToSet
      <3>. QED  BY <3>1, <3>2, <3>3
    <2>. QED  BY <2>6 DEF w, e
  <1>4. ASSUME c + 1 \in Expected PROVE Caught(Append(h, c + 1), c + 1)
    <2>1. ToSet(Append(h, c + 1)) = Expected \cap 1..c + 1
      BY <1>1, <1>2, <1>3, <1>4, Zenon
    <2>. QED  BY <2>1 DEF Caught
  <1>5. ASSUME c + 1 \notin Expected PROVE Caught(h, c + 1)
    <2>1. ToSet(h) = Expected \cap 1..c + 1
      BY <1>1, <1>2, <1>5, Zenon
    <2>. QED  BY <2>1 DEF Caught
  <1>. QED  BY <1>4, <1>5

\* A thought is open behind an event that opens one, or that does not close one.
LEMMA ThinkingNext ==
    ASSUME NEW c \in Nat
    PROVE  Thinking(c + 1) <=> \/ events[c + 1] = "open"
                               \/ Thinking(c) /\ events[c + 1] # "close"
  <1>1. ASSUME events[c + 1] = "open" PROVE Thinking(c + 1)
    <2>1. c + 1 \in 1..c + 1 /\ \A b \in c + 1..c + 1 : b = c + 1
      OBVIOUS
    <2>. QED  BY <1>1, <2>1, Zenon DEF Thinking
  <1>2. ASSUME Thinking(c), events[c + 1] # "close" PROVE Thinking(c + 1)
    <2>1. PICK x \in 1..c : events[x] = "open" /\ \A b \in x..c : events[b] # "close"
      BY <1>2 DEF Thinking
    <2>2. x \in 1..c + 1 /\ \A b \in x..c + 1 : b \in x..c \/ b = c + 1
      BY <2>1
    <2>3. \A b \in x..c + 1 : events[b] # "close"
      BY <1>2, <2>1, <2>2, Zenon
    <2>. QED  BY <2>1, <2>2, <2>3, Zenon DEF Thinking
  <1>3. ASSUME Thinking(c + 1), events[c + 1] # "open"
        PROVE  Thinking(c) /\ events[c + 1] # "close"
    <2>1. PICK x \in 1..c + 1 : events[x] = "open" /\ \A b \in x..c + 1 : events[b] # "close"
      BY <1>3 DEF Thinking
    <2>2. x # c + 1
      BY <1>3, <2>1
    <2>3. x \in 1..c /\ c + 1 \in x..c + 1 /\ \A b \in x..c : b \in x..c + 1
      BY <2>2
    <2>4. \A b \in x..c : events[b] # "close"
      BY <2>1, <2>3, Zenon
    <2>. QED  BY <2>1, <2>3, <2>4, Zenon DEF Thinking
  <1>. QED  BY <1>1, <1>2, <1>3, Zenon

\* What Openai's callback knows of the first c events.
Heeds(s, c) == Caught(s.heard, c) /\ (c <= Len(events) => s.is_active = ~Thinking(c))

\* An event more.
LEMMA OpenaiHeeds ==
    ASSUME NEW s \in States, NEW t, NEW c \in Nat, c <= Len(events), Len(events) \in Nat,
           DOMAIN events = 1..Len(events),
           \A i \in 1..Len(events) : events[i] \in {"text", "open", "close"},
           Heeds(s, c), Minds(t, s, EventOf(Len(events), c + 1))
    PROVE  Heeds(t, c + 1)
  <1>1. s.heard \in Seq(DOMAIN events) /\ Caught(s.heard, c) /\ s.is_active = ~Thinking(c)
    BY DEF States, Heeds
  <1>2. CASE c = Len(events)
    <2>1. ~(c + 1 <= Len(events)) /\ c + 1 \notin 1..Len(events)
      BY <1>2
    <2>2. Minds(t, s, 0)
      BY <2>1 DEF EventOf
    <2>3. t.heard = s.heard
      BY <2>2 DEF Minds
    <2>4. c + 1 \notin Expected
      BY <2>1, ExpectedAre
    <2>5. Caught(t.heard, c + 1)
      BY <1>1, <2>3, <2>4, CaughtNext
    <2>. QED  BY <2>1, <2>5 DEF Heeds
  <1>3. CASE c # Len(events)
    <2>1. c + 1 <= Len(events) /\ c + 1 \in 1..Len(events) /\ c + 1 # 0
      <3>1. \A x, y \in Nat : x <= y /\ x # y => x + 1 <= y /\ x + 1 \in 1..y /\ x + 1 # 0
        OBVIOUS
      <3>. QED  BY <1>3, <3>1, Zenon
    <2>2. Minds(t, s, c + 1)
      BY <2>1 DEF EventOf
    <2>3. /\ t.is_active = Active(s, c + 1)
          /\ t.heard = IF Active(s, c + 1) THEN Append(s.heard, c + 1) ELSE s.heard
      BY <2>1, <2>2 DEF Minds
    <2>4. Active(s, c + 1) = ~Thinking(c + 1)
      <3>1. Thinking(c + 1) <=> \/ events[c + 1] = "open"
                                \/ Thinking(c) /\ events[c + 1] # "close"
        BY ThinkingNext
      <3>2. Active(s, c + 1) <=> \/ events[c + 1] = "close"
                                 \/ ~Thinking(c) /\ events[c + 1] # "open"
        BY <1>1 DEF Active
      <3>3. Active(s, c + 1) <=> ~Thinking(c + 1)
        BY <3>1, <3>2
      <3>4. Active(s, c + 1) \in BOOLEAN
        BY DEF Active
      <3>. QED  BY <3>3, <3>4
    <2>5. c + 1 \in Expected <=> ~Thinking(c + 1)
      <3>1. Thinking(c + 1) <=> \/ events[c + 1] = "open"
                                \/ Thinking(c) /\ events[c + 1] # "close"
        BY ThinkingNext
      <3>2. events[c + 1] \in {"text", "open", "close"} /\ c + 1 \in DOMAIN events
        BY <2>1
      <3>3. c + 1 \in Expected <=> /\ c + 1 \in DOMAIN events
                                   /\ events[c + 1] \in {"text", "close", "delta"}
                                   /\ ~Thinking(c + 1)
        BY ExpectedAre
      <3>. QED  BY <3>1, <3>2, <3>3
    <2>6. /\ c + 1 \in Expected => Caught(Append(s.heard, c + 1), c + 1)
          /\ c + 1 \notin Expected => Caught(s.heard, c + 1)
      BY <1>1, CaughtNext
    <2>7. Caught(t.heard, c + 1)
      <3>. DEFINE e == c + 1
      <3>1. /\ e \in Expected <=> Active(s, e)
            /\ e \in Expected => Caught(Append(s.heard, e), e)
            /\ e \notin Expected => Caught(s.heard, e)
            /\ t.heard = IF Active(s, e) THEN Append(s.heard, e) ELSE s.heard
        <4>1. e \in Expected <=> Active(s, e)
          BY <2>4, <2>5
        <4>2. e \in Expected => Caught(Append(s.heard, e), e)
          BY <2>6
        <4>3. e \notin Expected => Caught(s.heard, e)
          BY <2>6
        <4>4. t.heard = IF Active(s, e) THEN Append(s.heard, e) ELSE s.heard
          BY <2>3
        <4>. QED  BY <4>1, <4>2, <4>3, <4>4, Zenon
      <3>. HIDE DEF e
      <3>2. CASE e \in Expected
        <4>1. t.heard = Append(s.heard, e)
          BY <3>1, <3>2
        <4>. QED  BY <3>1, <3>2, <4>1 DEF e
      <3>3. CASE e \notin Expected
        <4>1. t.heard = s.heard
          BY <3>1, <3>3
        <4>. QED  BY <3>1, <3>3, <4>1 DEF e
      <3>. QED  BY <3>2, <3>3
    <2>. QED  BY <2>3, <2>4, <2>7, Zenon DEF Heeds
  <1>. QED  BY <1>2, <1>3

\* A piece of a line that has not begun.
LEMMA EmptyPiece ==
    ASSUME NEW n, NEW u \in Nat
    PROVE  Piece(<<>>, n, u, u)
  <1>1. <<>> \in Seq(Token) /\ Len(<<>>) = 0
    BY EmptySeq
  <1>2. u - u = 0
    OBVIOUS
  <1>. QED  BY <1>1, <1>2 DEF Piece

\* Such a piece is empty.
LEMMA PieceEmpty ==
    ASSUME NEW n, NEW u \in Nat, NEW line, Piece(line, n, u, u)
    PROVE  line = <<>>
  <1>1. line \in Seq(Token) /\ Len(line) = u - u
    BY DEF Piece
  <1>2. Len(line) = 0
    BY <1>1
  <1>. QED  BY <1>1, <1>2, EmptySeq

\* A token more of the line.
LEMMA PieceGrows ==
    ASSUME NEW n \in Nat, NEW u \in Nat, NEW v \in 0..4, u <= v, NEW line, Piece(line, n, u, v)
    PROVE  Line(n)[v + 1] \in Token /\ Piece(Append(line, Line(n)[v + 1]), n, u, v + 1)
  <1>. DEFINE e == Line(n)[v + 1]
              w == Append(line, e)
  <1>1. line \in Seq(Token) /\ Len(line) = v - u /\ \A i \in 1..v - u : line[i] = Line(n)[u + i]
    BY DEF Piece
  <1>2. e \in Token
    <2>1. Line(n) \in Seq(Token) /\ Len(Line(n)) \in {5}
      BY LineTokens
    <2>2. \A l \in {5} : v + 1 \in 1..l
      OBVIOUS
    <2>3. v + 1 \in 1..Len(Line(n))
      BY <2>1, <2>2
    <2>. QED  BY <2>1, <2>3, ElementOfSeq
  <1>. HIDE DEF e
  <1>3. w \in Seq(Token) /\ Appends(w, line, e)
    BY <1>1, <1>2, Appending
  <1>. HIDE DEF w
  <1>4. Len(w) = (v - u) + 1 /\ (\A i \in 1..v - u : w[i] = line[i]) /\ w[(v - u) + 1] = e
    BY <1>1, <1>3 DEF Appends
  <1>5. (v - u) + 1 = (v + 1) - u /\ u + ((v - u) + 1) = v + 1
    OBVIOUS
  <1>6. ASSUME NEW i \in 1..(v + 1) - u PROVE w[i] = Line(n)[u + i]
    <2>1. i \in 1..v - u \/ i = (v - u) + 1
      OBVIOUS
    <2>2. CASE i \in 1..v - u
      BY <1>1, <1>4, <2>2
    <2>3. CASE i = (v - u) + 1
      <3>1. w[i] = e /\ u + i = v + 1
        BY <1>4, <1>5, <2>3
      <3>. QED  BY <3>1 DEF e
    <2>. QED  BY <2>1, <2>2, <2>3
  <1>7. Piece(w, n, u, v + 1)
    BY <1>3, <1>4, <1>5, <1>6 DEF Piece
  <1>. QED  BY <1>2, <1>7 DEF w, e

\* The tokens of a line: only the last ends it.
LEMMA LineEnds ==
    ASSUME NEW n \in Nat, NEW v \in 0..4
    PROVE  /\ Line(n)[v + 1] = Newline <=> v = 4
           /\ Line(n)[v + 1][1] = "da" <=> v = 0
           /\ Line(n)[v + 1][1] # "ev"
  <1>1. DataAt(Line(n), 0, n)
    BY LineTokens
  <1>2. 0 + 1 = 1 /\ 0 + 2 = 2 /\ 0 + 3 = 3 /\ 0 + 4 = 4 /\ 0 + 5 = 5
    OBVIOUS
  <1>3. /\ Line(n)[1] = T("da", 0) /\ Line(n)[2] = T("ta", 0) /\ Line(n)[3] = T("j1", n)
        /\ Line(n)[4] = T("j2", n) /\ Line(n)[5] = Newline
    BY <1>1, <1>2 DEF DataAt
  <1>4. /\ v = 0 \/ v = 1 \/ v = 2 \/ v = 3 \/ v = 4
        /\ v = 0 => v + 1 = 1
        /\ v = 1 => v + 1 = 2
        /\ v = 2 => v + 1 = 3
        /\ v = 3 => v + 1 = 4
        /\ v = 4 => v + 1 = 5
    OBVIOUS
  <1>5. CASE v = 0
    BY <1>3, <1>4, <1>5 DEF T, Newline
  <1>6. CASE v = 1
    BY <1>3, <1>4, <1>6 DEF T, Newline
  <1>7. CASE v = 2
    BY <1>3, <1>4, <1>7 DEF T, Newline
  <1>8. CASE v = 3
    BY <1>3, <1>4, <1>8 DEF T, Newline
  <1>9. CASE v = 4
    BY <1>3, <1>4, <1>9 DEF T, Newline
  <1>. QED  BY <1>4, <1>5, <1>6, <1>7, <1>8, <1>9

\* The data of an event are its line.
LEMMA DataAre ==
    ASSUME NEW body, NEW q \in Nat, NEW n \in Nat, DataAt(body, q, n), NEW v \in 0..4
    PROVE  body[q + (v + 1)] = Line(n)[v + 1]
  <1>1. DataAt(Line(n), 0, n)
    BY LineTokens
  <1>2. 0 + 1 = 1 /\ 0 + 2 = 2 /\ 0 + 3 = 3 /\ 0 + 4 = 4 /\ 0 + 5 = 5
    OBVIOUS
  <1>3. /\ Line(n)[1] = body[q + 1] /\ Line(n)[2] = body[q + 2] /\ Line(n)[3] = body[q + 3]
        /\ Line(n)[4] = body[q + 4] /\ Line(n)[5] = body[q + 5]
    BY <1>1, <1>2 DEF DataAt
  <1>4. v + 1 = 1 \/ v + 1 = 2 \/ v + 1 = 3 \/ v + 1 = 4 \/ v + 1 = 5
    OBVIOUS
  <1>. QED  BY <1>3, <1>4

-----------------------------------------------------------------------------
(* Openai *)

\* Openai's callback has got the first u tokens of line q + 1, and what comes before.
OpenaiAt(s, q, u) ==
    Kept(s, EventOf(Len(events), q + 1), u) /\ Heeds(s, IF u = 4 THEN q + 1 ELSE q)

\* It is behind token p of the body: v tokens of the line, those from u on in this piece.
OpenaiIn(s, q, u, v) ==
    /\ q \in 0..Len(events) + 1 /\ u \in {0, 2, 3, 4} /\ v \in 0..4 /\ u <= v
    /\ Piece(s.line, EventOf(Len(events), q + 1), u, v) /\ OpenaiAt(s, q, u)
OpenaiMid(s, p) == \E q, u, v : p = 5 * q + v /\ OpenaiIn(s, q, u, v)

\* The end of a line.
LEMMA OpenaiEnd ==
    ASSUME Settled, provider = "Openai",
           \A i \in 1..Len(events) : events[i] \in {"text", "open", "close"},
           NEW s \in States, NEW q, NEW u, NEW v, OpenaiIn(s, q, u, v), v # 1,
           u # v => q <= Len(events)
    PROVE  OpenaiAt(OpenaiLine(s, s.line), q, v)
  <1>. DEFINE n == EventOf(Len(events), q + 1)
              t == OpenaiLine(s, s.line)
  <1>1. Len(events) \in Nat /\ DOMAIN events = 1..Len(events)
    BY DEF Settled
  <1>2. /\ q \in Nat /\ q + 1 \in Nat /\ u \in {0, 2, 3, 4} /\ v \in 0..4 /\ u <= v
        /\ Piece(s.line, n, u, v) /\ Kept(s, n, u) /\ Heeds(s, IF u = 4 THEN q + 1 ELSE q)
    BY <1>1 DEF OpenaiIn, OpenaiAt
  <1>3. n \in 0..Len(events)
    <2>1. q + 1 <= Len(events) => q + 1 \in 0..Len(events)
      BY <1>1, <1>2
    <2>2. 0 \in 0..Len(events)
      BY <1>1
    <2>. QED  BY <2>1, <2>2 DEF EventOf
  <1>4. CASE u = v
    <2>1. s.line = <<>>
      <3>1. v \in Nat /\ Piece(s.line, n, v, v)
        BY <1>2, <1>4
      <3>. HIDE DEF n
      <3>. QED  BY <3>1, PieceEmpty
    <2>2. t = s
      BY <2>1 DEF OpenaiLine
    <2>3. OpenaiAt(s, q, v)
      BY <1>4 DEF OpenaiIn
    <2>. QED  BY <2>2, <2>3
  <1>5. CASE u # v
    <2>1. u < v /\ u \in {0, 2, 3} /\ v \in {2, 3, 4} /\ u # 4
      BY <1>2, <1>5
    <2>2. /\ Kept(t, n, v)
          /\ v # 4 => t.is_active = s.is_active /\ t.heard = s.heard
          /\ v = 4 => Minds(t, s, n)
      <3>. HIDE DEF n
      <3>. QED  BY <1>1, <1>2, <1>3, <2>1, OpenaiPiece
    <2>3. Heeds(s, q)
      BY <1>2, <2>1
    <2>. HIDE DEF t
    <2>4. Heeds(t, IF v = 4 THEN q + 1 ELSE q)
      <3>1. CASE v = 4
        <4>1. Minds(t, s, EventOf(Len(events), q + 1))
          BY <2>2, <3>1
        <4>2. Heeds(t, q + 1)
          BY <1>1, <1>2, <1>5, <2>3, <4>1, OpenaiHeeds
        <4>. QED  BY <3>1, <4>2
      <3>2. CASE v # 4
        <4>1. Heeds(t, q)
          BY <2>2, <2>3, <3>2 DEF Heeds
        <4>. QED  BY <3>2, <4>1
      <3>. QED  BY <3>1, <3>2
    <2>. QED  BY <2>2, <2>4 DEF OpenaiAt, t
  <1>. QED  BY <1>4, <1>5

\* A token more.
LEMMA OpenaiToken ==
    ASSUME Settled, provider = "Openai",
           \A i \in 1..Len(events) : events[i] \in {"text", "open", "close"},
           NEW s \in States, NEW q, NEW u, NEW v, OpenaiIn(s, q, u, v), q <= Len(events),
           NEW res \in Seq(Token), NEW i \in 1..Len(res),
           res[i] = Line(EventOf(Len(events), q + 1))[v + 1]
    PROVE  \/ v < 4 /\ OpenaiIn(NextState(res, i, s), q, u, v + 1)
           \/ v = 4 /\ OpenaiIn(NextState(res, i, s), q + 1, 0, 0)
  <1>. DEFINE n == EventOf(Len(events), q + 1)
              e == res[i]
              t == NextState(res, i, s)
  <1>1. Len(events) \in Nat /\ Len(res) \in Nat /\ i <= Len(res)
    BY LenProperties DEF Settled
  <1>2. /\ q \in Nat /\ q + 1 \in Nat /\ u \in {0, 2, 3, 4} /\ v \in 0..4 /\ u <= v /\ u \in Nat
        /\ Piece(s.line, n, u, v) /\ Kept(s, n, u) /\ Heeds(s, IF u = 4 THEN q + 1 ELSE q)
    BY <1>1 DEF OpenaiIn, OpenaiAt
  <1>3. n \in Nat
    BY <1>2 DEF EventOf
  <1>4. s = [line |-> s.line, last_line |-> s.last_line, is_active |-> s.is_active,
             heard |-> s.heard, is_delta |-> s.is_delta, threw |-> s.threw]
    BY DEF States
  <1>5. e = Newline <=> v = 4
    <2>. HIDE DEF n
    <2>. QED  BY <1>2, <1>3, LineEnds DEF n
  <1>6. CASE v # 4
    <2>. DEFINE w == Append(s.line, e)
    <2>1. Piece(w, n, u, v + 1)
      <3>1. e = Line(n)[v + 1]
        OBVIOUS
      <3>. HIDE DEF n, e
      <3>2. Piece(Append(s.line, Line(n)[v + 1]), n, u, v + 1)
        BY <1>2, <1>3, PieceGrows
      <3>. QED  BY <3>1, <3>2
    <2>2. t = [s EXCEPT !.line = w]
      BY <1>1, <1>5, <1>6 DEF NextState
    <2>. HIDE DEF w, t, e
    <2>3. t.line = w /\ t.last_line = s.last_line /\ t.heard = s.heard /\ t.is_active = s.is_active
      BY <1>4, <2>2
    <2>4. OpenaiAt(t, q, u)
      BY <1>2, <2>3 DEF OpenaiAt, Kept, Heeds
    <2>5. v < 4 /\ v + 1 \in 0..4 /\ u <= v + 1
      BY <1>2, <1>6
    <2>6. q \in 0..Len(events) + 1
      BY DEF OpenaiIn
    <2>7. OpenaiIn(t, q, u, v + 1)
      BY <1>2, <2>1, <2>3, <2>4, <2>5, <2>6, Zenon DEF OpenaiIn
    <2>. QED  BY <2>5, <2>7 DEF t
  <1>7. CASE v = 4
    <2>. DEFINE r == OpenaiLine(s, s.line)
    <2>1. OpenaiAt(r, q, 4)
      <3>1. v # 1
        BY <1>7
      <3>. QED  BY <1>7, <3>1, OpenaiEnd
    <2>2. r \in States
      <3>1. s.line \in Seq(Token)
        BY DEF States
      <3>. QED  BY <3>1, TakesOpenai DEF Takes, Settled
    <2>3. t = [r EXCEPT !.line = <<>>]
      <3>1. t = [TakeLine(s, s.line) EXCEPT !.line = <<>>]
        BY <1>5, <1>7 DEF NextState
      <3>2. TakeLine(s, s.line) = r
        BY DEF TakeLine
      <3>. HIDE DEF r
      <3>. QED  BY <3>1, <3>2
    <2>. HIDE DEF r, t
    <2>4. t.line = <<>> /\ t.last_line = r.last_line /\ t.heard = r.heard /\ t.is_active = r.is_active
      BY <2>2, <2>3 DEF States
    <2>5. r.last_line = <<>> /\ Heeds(r, q + 1)
      BY <2>1 DEF OpenaiAt, Kept
    <2>6. OpenaiAt(t, q + 1, 0)
      <3>1. Heeds(t, q + 1)
        BY <2>4, <2>5 DEF Heeds
      <3>2. t.last_line = <<>>
        BY <2>4, <2>5
      <3>. QED  BY <3>1, <3>2 DEF OpenaiAt, Kept
    <2>7. Piece(t.line, EventOf(Len(events), (q + 1) + 1), 0, 0)
      BY <2>4, EmptyPiece
    <2>8. q + 1 \in 0..Len(events) + 1 /\ 0 \in {0, 2, 3, 4} /\ 0 \in 0..4 /\ 0 <= 0
      BY <1>1, <1>2
    <2>9. OpenaiIn(t, q + 1, 0, 0)
      BY <2>6, <2>7, <2>8, Zenon DEF OpenaiIn
    <2>. QED  BY <1>7, <2>9 DEF t
  <1>. QED  BY <1>6, <1>7

\* The next token of the body.
LEMMA OpenaiNext ==
    ASSUME Settled, provider = "Openai",
           \A i \in 1..Len(events) : events[i] \in {"text", "open", "close"},
           NEW body, OpenaiBody(body, Len(events)), NEW p \in Nat, p < Len(body),
           NEW res \in Seq(Token), NEW i \in 1..Len(res), res[i] = body[p + 1],
           NEW s \in States, OpenaiMid(s, p)
    PROVE  OpenaiMid(NextState(res, i, s), p + 1)
  <1>. DEFINE t == NextState(res, i, s)
              l == Len(events)
  <1>1. l \in Nat
    BY DEF Settled
  <1>2. PICK q, u, v : p = 5 * q + v /\ OpenaiIn(s, q, u, v)
    BY DEF OpenaiMid
  <1>3. q \in 0..l + 1 /\ v \in 0..4
    BY <1>2 DEF OpenaiIn
  <1>4. Len(body) = 5 * l + 5 /\ \A k \in 1..l + 1 : DataAt(body, 5 * k - 5, EventOf(l, k))
    BY DEF OpenaiBody
  <1>5. q <= l /\ q + 1 \in 1..l + 1 /\ q + 1 \in Nat /\ 5 * (q + 1) - 5 = 5 * q /\ 5 * q \in Nat
    <2>. HIDE DEF l
    <2>1. p < 5 * l + 5
      BY <1>4
    <2>2. \A x, y, z \in Nat : 5 * y + z < 5 * x + 5 => y <= x
      OBVIOUS
    <2>3. q \in Nat /\ v \in Nat
      BY <1>1, <1>3
    <2>4. q <= l
      BY <1>1, <1>2, <2>1, <2>2, <2>3
    <2>. QED  BY <1>1, <2>3, <2>4
  <1>6. DataAt(body, 5 * q, EventOf(l, q + 1))
    BY <1>4, <1>5
  <1>7. EventOf(l, q + 1) \in Nat
    BY <1>5 DEF EventOf
  <1>8. body[5 * q + (v + 1)] = Line(EventOf(l, q + 1))[v + 1]
    BY <1>3, <1>5, <1>6, <1>7, DataAre
  <1>9. 5 * q + (v + 1) = p + 1
    BY <1>2, <1>3, <1>5
  <1>10. res[i] = Line(EventOf(l, q + 1))[v + 1]
    BY <1>8, <1>9
  <1>11. \/ v < 4 /\ OpenaiIn(t, q, u, v + 1)
         \/ v = 4 /\ OpenaiIn(t, q + 1, 0, 0)
    BY <1>2, <1>5, <1>10, OpenaiToken
  <1>. HIDE DEF t
  <1>12. CASE v < 4 /\ OpenaiIn(t, q, u, v + 1)
    <2>1. p + 1 = 5 * q + (v + 1)
      BY <1>9
    <2>. QED  BY <1>12, <2>1 DEF OpenaiMid, t
  <1>13. CASE v = 4 /\ OpenaiIn(t, q + 1, 0, 0)
    <2>1. p + 1 = 5 * (q + 1) + 0
      BY <1>2, <1>3, <1>5, <1>13
    <2>. QED  BY <1>13, <2>1 DEF OpenaiMid, t
  <1>. QED  BY <1>11, <1>12, <1>13

-----------------------------------------------------------------------------
(* Dify *)

\* An empty line is no data.
LEMMA EmptyNotData == ~IsData(<<>>)
  <1>1. Len(<<>>) = 0
    OBVIOUS
  <1>. QED  BY <1>1 DEF IsData

\* Dify's callback is behind v tokens of the lines of event q + 1.
DifyIn(s, q, v) ==
    /\ q \in 0..Len(events) /\ v \in 0..5 /\ ~s.threw
    /\ Caught(s.heard, IF v = 5 THEN q + 1 ELSE q)
    /\ IF v = 5 THEN s.line = <<>> ELSE Piece(s.line, q + 1, 0, v)
DifyMid(s, p) == \E q, v : p = 6 * q + v /\ DifyIn(s, q, v)

\* What a provider without thoughts expects.
LEMMA NoThought ==
    ASSUME \A i \in 1..Len(events) : events[i] # "open", DOMAIN events = 1..Len(events),
           Len(events) \in Nat, NEW n \in 1..Len(events)
    PROVE  n \in Expected <=> events[n] \in {"text", "close", "delta"}
  <1>1. ~Thinking(n)
    <2>1. \A a \in 1..n : a \in 1..Len(events)
      OBVIOUS
    <2>. QED  BY <2>1 DEF Thinking
  <1>. QED  BY <1>1, ExpectedAre

\* The end of Dify's data.
LEMMA DifyEnd ==
    ASSUME Settled, provider = "Dify", \A i \in 1..Len(events) : events[i] \in {"text", "error"},
           NEW s \in States, NEW q, DifyIn(s, q, 4), q < Len(events)
    PROVE  /\ DifyLine(s, s.line) \in States /\ ~DifyLine(s, s.line).threw
           /\ Caught(DifyLine(s, s.line).heard, q + 1)
  <1>. DEFINE n == q + 1
              t == DifyLine(s, s.line)
  <1>1. Len(events) \in Nat /\ DOMAIN events = 1..Len(events) /\ DOMAIN events \subseteq Nat
    BY DEF Settled
  <1>2. q \in Nat /\ n \in 0..Len(events) /\ n \in 1..Len(events) /\ n \in Nat
    BY <1>1 DEF DifyIn
  <1>3. /\ ~s.threw /\ Caught(s.heard, q) /\ Piece(s.line, n, 0, 4)
    BY DEF DifyIn
  <1>4. /\ s.heard \in Seq(DOMAIN events)
        /\ s = [line |-> s.line, last_line |-> s.last_line, is_active |-> s.is_active,
                heard |-> s.heard, is_delta |-> s.is_delta, threw |-> s.threw]
    BY DEF States
  <1>5. /\ q + 1 \in Expected => Caught(Append(s.heard, q + 1), q + 1)
        /\ q + 1 \notin Expected => Caught(s.heard, q + 1)
    BY <1>2, <1>3, <1>4, CaughtNext
  <1>. HIDE DEF n
  <1>6. IsData(s.line)
    BY <1>2, <1>3, PieceIsData
  <1>7. Parsed(s.line) = n
    BY <1>1, <1>2, <1>3, PieceParsed
  <1>8. n # Invalid
    BY <1>2 DEF Invalid
  <1>9. t = IF events[n] = "text" THEN [s EXCEPT !.heard = Append(s.heard, n)] ELSE s
    BY <1>3, <1>6, <1>7, <1>8 DEF DifyLine
  <1>10. n \in Expected <=> events[n] = "text"
    <2>1. \A k \in 1..Len(events) : events[k] # "open"
      OBVIOUS
    <2>2. n \in Expected <=> events[n] \in {"text", "close", "delta"}
      BY <1>1, <1>2, <2>1, NoThought
    <2>3. events[n] \in {"text", "error"}
      BY <1>2
    <2>. QED  BY <2>2, <2>3
  <1>. HIDE DEF t
  <1>11. CASE events[n] = "text"
    <2>. DEFINE more == Append(s.heard, n)
    <2>1. more \in Seq(DOMAIN events)
      BY <1>1, <1>2, <1>4, AppendProperties
    <2>2. t = [s EXCEPT !.heard = more]
      BY <1>9, <1>11
    <2>3. Caught(more, n)
      BY <1>5, <1>10, <1>11 DEF n
    <2>. HIDE DEF more
    <2>4. t \in States /\ ~t.threw /\ t.heard = more
      BY <1>3, <2>1, <2>2 DEF States
    <2>. QED  BY <2>3, <2>4 DEF t, n
  <1>12. CASE events[n] # "text"
    <2>1. t = s
      BY <1>9, <1>12
    <2>2. Caught(s.heard, n)
      BY <1>5, <1>10, <1>12 DEF n
    <2>. QED  BY <1>3, <2>1, <2>2 DEF t, n
  <1>. QED  BY <1>11, <1>12

\* A token more, of the data or the line behind them.
LEMMA DifyToken ==
    ASSUME Settled, provider = "Dify", \A i \in 1..Len(events) : events[i] \in {"text", "error"},
           NEW s \in States, NEW q, NEW v, DifyIn(s, q, v), q < Len(events),
           NEW res \in Seq(Token), NEW i \in 1..Len(res),
           v # 5 => res[i] = Line(q + 1)[v + 1], v = 5 => res[i] = Newline
    PROVE  \/ v < 5 /\ DifyIn(NextState(res, i, s), q, v + 1)
           \/ v = 5 /\ DifyIn(NextState(res, i, s), q + 1, 0)
  <1>. DEFINE n == q + 1
              e == res[i]
              t == NextState(res, i, s)
  <1>1. Len(events) \in Nat /\ Len(res) \in Nat /\ i <= Len(res)
    BY LenProperties DEF Settled
  <1>2. q \in Nat /\ n \in Nat /\ v \in 0..5 /\ ~s.threw /\ q \in 0..Len(events)
        /\ n \in 0..Len(events)
    BY <1>1 DEF DifyIn
  <1>3. s = [line |-> s.line, last_line |-> s.last_line, is_active |-> s.is_active,
             heard |-> s.heard, is_delta |-> s.is_delta, threw |-> s.threw]
    BY DEF States
  <1>4. CASE v \in 0..3
    <2>1. v \in 0..4 /\ v # 4 /\ v # 5 /\ 0 \in Nat /\ 0 <= v /\ v + 1 # 5 /\ v + 1 \in 0..5 /\ v < 5
      BY <1>4
    <2>2. e = Line(n)[v + 1]
      BY <2>1
    <2>3. e # Newline
      <3>. HIDE DEF n
      <3>. QED  BY <1>2, <2>1, <2>2, LineEnds
    <2>. DEFINE w == Append(s.line, e)
    <2>4. Caught(s.heard, q) /\ Piece(s.line, n, 0, v)
      BY <2>1 DEF DifyIn
    <2>5. Piece(w, n, 0, v + 1)
      <3>. HIDE DEF n, e
      <3>1. Piece(Append(s.line, Line(n)[v + 1]), n, 0, v + 1)
        BY <1>2, <2>1, <2>4, PieceGrows
      <3>. QED  BY <2>2, <3>1
    <2>6. t = [s EXCEPT !.line = w]
      BY <1>1, <2>3 DEF NextState
    <2>. HIDE DEF w, t, e
    <2>7. t.line = w /\ t.heard = s.heard /\ ~t.threw
      BY <1>2, <1>3, <2>6
    <2>8. DifyIn(t, q, v + 1)
      BY <1>2, <2>1, <2>4, <2>5, <2>7, Zenon DEF DifyIn, n
    <2>. QED  BY <2>1, <2>8 DEF t
  <1>5. CASE v \in {4, 5}
    <2>. DEFINE r == DifyLine(s, s.line)
    <2>1. e = Newline
      <3>1. CASE v = 4
        <4>1. e = Line(n)[v + 1] /\ v \in 0..4
          BY <3>1
        <4>. HIDE DEF n, e
        <4>. QED  BY <1>2, <3>1, <4>1, LineEnds
      <3>2. CASE v = 5
        BY <3>2
      <3>. QED  BY <1>5, <3>1, <3>2
    <2>2. t = [r EXCEPT !.line = <<>>]
      <3>1. t = [TakeLine(s, s.line) EXCEPT !.line = <<>>]
        BY <2>1 DEF NextState
      <3>2. TakeLine(s, s.line) = r
        BY DEF TakeLine
      <3>. HIDE DEF r
      <3>. QED  BY <3>1, <3>2
    <2>3. r \in States /\ ~r.threw /\ Caught(r.heard, n)
      <3>1. CASE v = 4
        <4>1. DifyIn(s, q, 4)
          BY <3>1
        <4>. QED  BY <4>1, DifyEnd
      <3>2. CASE v = 5
        <4>1. s.line = <<>> /\ Caught(s.heard, n)
          BY <3>2 DEF DifyIn
        <4>2. r = s
          BY <4>1, EmptyNotData DEF DifyLine
        <4>. QED  BY <1>2, <4>1, <4>2
      <3>. QED  BY <1>5, <3>1, <3>2
    <2>. HIDE DEF r, t
    <2>4. t.line = <<>> /\ ~t.threw /\ Caught(t.heard, n)
      <3>1. t.line = <<>> /\ t.threw = r.threw /\ t.heard = r.heard
        BY <2>2, <2>3 DEF States
      <3>. QED  BY <2>3, <3>1
    <2>5. CASE v = 4
      <3>1. v + 1 = 5 /\ v < 5 /\ v + 1 \in 0..5
        BY <2>5
      <3>2. DifyIn(t, q, v + 1)
        BY <1>2, <2>4, <3>1, Zenon DEF DifyIn, n
      <3>. QED  BY <3>1, <3>2 DEF t
    <2>6. CASE v = 5
      <3>1. 0 \in 0..5 /\ 0 # 5
        OBVIOUS
      <3>2. Piece(t.line, n + 1, 0, 0)
        BY <2>4, EmptyPiece
      <3>3. DifyIn(t, n, 0)
        BY <1>2, <2>4, <3>1, <3>2, Zenon DEF DifyIn
      <3>. QED  BY <2>6, <3>3 DEF t, n
    <2>. QED  BY <1>5, <2>5, <2>6
  <1>. QED  BY <1>2, <1>4, <1>5

\* The next token of the body.
LEMMA DifyNext ==
    ASSUME Settled, provider = "Dify", \A i \in 1..Len(events) : events[i] \in {"text", "error"},
           NEW body, DifyBody(body, Len(events)), NEW p \in Nat, p < Len(body),
           NEW res \in Seq(Token), NEW i \in 1..Len(res), res[i] = body[p + 1],
           NEW s \in States, DifyMid(s, p)
    PROVE  DifyMid(NextState(res, i, s), p + 1)
  <1>. DEFINE t == NextState(res, i, s)
              l == Len(events)
  <1>1. l \in Nat
    BY DEF Settled
  <1>2. PICK q, v : p = 6 * q + v /\ DifyIn(s, q, v)
    BY DEF DifyMid
  <1>3. q \in 0..l /\ v \in 0..5
    BY <1>2 DEF DifyIn
  <1>4. Len(body) = 6 * l
        /\ \A k \in 1..l : DataAt(body, 6 * k - 6, k) /\ body[6 * k] = Newline
    BY DEF DifyBody
  <1>5. q < l /\ q + 1 \in 1..l /\ q + 1 \in Nat /\ 6 * (q + 1) - 6 = 6 * q /\ 6 * q \in Nat
    <2>. HIDE DEF l
    <2>1. p < 6 * l
      BY <1>4
    <2>2. \A x, y, z \in Nat : 6 * y + z < 6 * x => y < x
      OBVIOUS
    <2>3. q \in Nat /\ v \in Nat
      BY <1>1, <1>3
    <2>4. q < l
      BY <1>1, <1>2, <2>1, <2>2, <2>3
    <2>. QED  BY <1>1, <2>3, <2>4
  <1>6. DataAt(body, 6 * q, q + 1) /\ body[6 * (q + 1)] = Newline
    BY <1>4, <1>5
  <1>7. 6 * q + (v + 1) = p + 1
    BY <1>2, <1>3, <1>5
  <1>8. ASSUME v # 5 PROVE res[i] = Line(q + 1)[v + 1]
    <2>1. v \in 0..4
      BY <1>3, <1>8
    <2>2. body[6 * q + (v + 1)] = Line(q + 1)[v + 1]
      BY <1>5, <1>6, <2>1, DataAre
    <2>. QED  BY <1>7, <2>2
  <1>9. ASSUME v = 5 PROVE res[i] = Newline
    <2>1. p + 1 = 6 * (q + 1)
      BY <1>3, <1>5, <1>7, <1>9
    <2>. QED  BY <1>6, <2>1
  <1>10. \/ v < 5 /\ DifyIn(t, q, v + 1)
         \/ v = 5 /\ DifyIn(t, q + 1, 0)
    BY <1>2, <1>5, <1>8, <1>9, DifyToken
  <1>. HIDE DEF t
  <1>11. CASE v < 5 /\ DifyIn(t, q, v + 1)
    <2>1. p + 1 = 6 * q + (v + 1)
      BY <1>7
    <2>. QED  BY <1>11, <2>1 DEF DifyMid, t
  <1>12. CASE v = 5 /\ DifyIn(t, q + 1, 0)
    <2>1. p + 1 = 6 * (q + 1) + 0
      BY <1>3, <1>5, <1>7, <1>12
    <2>. QED  BY <1>12, <2>1 DEF DifyMid, t
  <1>. QED  BY <1>10, <1>11, <1>12

-----------------------------------------------------------------------------
(* CozeV3 *)

\* One of the events behind a, up to q, is a delta.
Deltas(a, q) == \E k \in a + 1..q : events[k] = "delta"

\* Coze's callback began behind a events and is behind v tokens of the lines of event
\* q + 1.
CozeIn(s, a, q, v) ==
    /\ q \in 0..Len(events) /\ v \in 0..6 /\ a \in Nat /\ a <= q /\ ~s.threw
    /\ Caught(s.heard, q)
    /\ s.is_delta = Deltas(a, IF v \in {0, 1} THEN q ELSE q + 1)
    /\ v = 0 => s.line = <<>>
    /\ v = 1 => s.line = <<T("ev", q + 1)>>
    /\ v \in 2..6 => Piece(s.line, q + 1, 0, v - 2)
CozeMid(s, a, p) == \E q, v : p = 7 * q + v /\ CozeIn(s, a, q, v)

\* What an event more does.
LEMMA DeltasNext ==
    ASSUME NEW a \in Nat, NEW q \in Nat, a <= q
    PROVE  /\ Deltas(a, q + 1) <=> Deltas(a, q) \/ events[q + 1] = "delta"
           /\ Deltas(a, q) \in BOOLEAN /\ Deltas(a, q + 1) \in BOOLEAN
  <1>1. \A k \in a + 1..q + 1 : k \in a + 1..q \/ k = q + 1
    OBVIOUS
  <1>2. q + 1 \in a + 1..q + 1 /\ \A k \in a + 1..q : k \in a + 1..q + 1
    OBVIOUS
  <1>3. Deltas(a, q + 1) <=> Deltas(a, q) \/ events[q + 1] = "delta"
    BY <1>1, <1>2, Zenon DEF Deltas
  <1>. QED  BY <1>3 DEF Deltas

\* The name of an event.
LEMMA CozeName ==
    ASSUME Settled, provider = "CozeV3", NEW s \in States, NEW a, NEW q, CozeIn(s, a, q, 1)
    PROVE  /\ CozeLine(s, s.line) \in States /\ ~CozeLine(s, s.line).threw
           /\ CozeLine(s, s.line).heard = s.heard
           /\ CozeLine(s, s.line).is_delta = Deltas(a, q + 1)
  <1>. DEFINE n == q + 1
              t == CozeLine(s, s.line)
  <1>1. q \in Nat /\ a \in Nat /\ a <= q /\ ~s.threw /\ s.is_delta = Deltas(a, q)
        /\ s.line = <<T("ev", n)>>
    BY DEF CozeIn, Settled
  <1>2. s = [line |-> s.line, last_line |-> s.last_line, is_active |-> s.is_active,
             heard |-> s.heard, is_delta |-> s.is_delta, threw |-> s.threw]
        /\ s.is_delta \in BOOLEAN
    BY DEF States
  <1>3. /\ Deltas(a, q + 1) <=> Deltas(a, q) \/ events[q + 1] = "delta"
        /\ Deltas(a, q) \in BOOLEAN /\ Deltas(a, q + 1) \in BOOLEAN
    BY <1>1, DeltasNext
  <1>. HIDE DEF n
  <1>4. Len(s.line) = 1 /\ s.line[1] = T("ev", n)
    BY <1>1
  <1>5. ~IsData(s.line)
    BY <1>4 DEF IsData
  <1>6. s.line[1][1] = "ev" /\ s.line[1][2] = n
    BY <1>4 DEF T
  <1>7. t = IF events[n] = "delta" THEN [s EXCEPT !.is_delta = TRUE] ELSE s
    BY <1>1, <1>4, <1>5, <1>6 DEF CozeLine
  <1>. HIDE DEF t
  <1>8. CASE events[n] = "delta"
    <2>1. t = [s EXCEPT !.is_delta = TRUE]
      BY <1>7, <1>8
    <2>2. t \in States /\ t.threw = s.threw /\ t.heard = s.heard /\ t.is_delta = TRUE
      BY <1>2, <2>1 DEF States
    <2>3. Deltas(a, q + 1) = TRUE
      BY <1>3, <1>8 DEF n
    <2>. QED  BY <1>1, <2>2, <2>3 DEF t
  <1>9. CASE events[n] # "delta"
    <2>1. t = s
      BY <1>7, <1>9
    <2>2. Deltas(a, q + 1) = Deltas(a, q)
      BY <1>3, <1>9 DEF n
    <2>. QED  BY <1>1, <2>1, <2>2 DEF t
  <1>. QED  BY <1>8, <1>9

\* The end of Coze's data.
LEMMA CozeEnd ==
    ASSUME Settled, provider = "CozeV3",
           \A i \in 1..Len(events) : events[i] \in {"chat", "delta", "completed", "done"},
           NEW s \in States, NEW a, NEW q, CozeIn(s, a, q, 6), q < Len(events),
           Deltas(a, q + 1) => events[q + 1] = "delta"
    PROVE  /\ CozeLine(s, s.line) \in States /\ ~CozeLine(s, s.line).threw
           /\ Caught(CozeLine(s, s.line).heard, q + 1)
           /\ CozeLine(s, s.line).is_delta = Deltas(a, q + 1)
  <1>. DEFINE n == q + 1
              t == CozeLine(s, s.line)
  <1>1. Len(events) \in Nat /\ DOMAIN events = 1..Len(events) /\ DOMAIN events \subseteq Nat
    BY DEF Settled
  <1>2. q \in Nat /\ n \in 0..Len(events) /\ n \in 1..Len(events) /\ n \in Nat /\ a \in Nat /\ a <= q
    BY <1>1 DEF CozeIn
  <1>3. /\ ~s.threw /\ Caught(s.heard, q) /\ Piece(s.line, n, 0, 4) /\ s.is_delta = Deltas(a, n)
    <2>1. 6 \in 2..6 /\ 6 - 2 = 4 /\ 6 \notin {0, 1}
      OBVIOUS
    <2>. QED  BY <2>1 DEF CozeIn
  <1>4. /\ s.heard \in Seq(DOMAIN events) /\ s.is_delta \in BOOLEAN
        /\ s = [line |-> s.line, last_line |-> s.last_line, is_active |-> s.is_active,
                heard |-> s.heard, is_delta |-> s.is_delta, threw |-> s.threw]
    BY DEF States
  <1>5. /\ q + 1 \in Expected => Caught(Append(s.heard, q + 1), q + 1)
        /\ q + 1 \notin Expected => Caught(s.heard, q + 1)
    BY <1>2, <1>3, <1>4, CaughtNext
  <1>6. Deltas(a, n) <=> Deltas(a, q) \/ events[n] = "delta"
    BY <1>2, DeltasNext
  <1>7. Deltas(a, n) => events[n] = "delta"
    OBVIOUS
  <1>. HIDE DEF n
  <1>8. n \in Expected <=> events[n] = "delta"
    <2>1. \A k \in 1..Len(events) : events[k] # "open"
      OBVIOUS
    <2>2. n \in Expected <=> events[n] \in {"text", "close", "delta"}
      BY <1>1, <1>2, <2>1, NoThought
    <2>3. events[n] \in {"chat", "delta", "completed", "done"}
      BY <1>2
    <2>. QED  BY <2>2, <2>3
  <1>9. s.is_delta <=> events[n] = "delta"
    BY <1>3, <1>6, <1>7
  <1>10. IsData(s.line)
    BY <1>2, <1>3, PieceIsData
  <1>11. Parsed(s.line) = n /\ n # Invalid
    BY <1>1, <1>2, <1>3, PieceParsed DEF Invalid
  <1>12. Len(s.line) # 1
    <2>1. Len(s.line) = 4 - 0
      BY <1>3 DEF Piece
    <2>. QED  BY <2>1
  <1>13. t = IF events[n] = "delta" THEN [s EXCEPT !.heard = Append(s.heard, n)] ELSE s
    <2>1. CASE events[n] = "delta"
      <3>1. s.is_delta
        BY <1>9, <2>1
      <3>. QED  BY <1>3, <1>10, <1>11, <1>12, <2>1, <3>1 DEF CozeLine
    <2>2. CASE events[n] # "delta"
      <3>1. ~s.is_delta
        BY <1>9, <2>2
      <3>. QED  BY <1>3, <1>12, <2>2, <3>1 DEF CozeLine
    <2>. QED  BY <2>1, <2>2
  <1>. HIDE DEF t
  <1>14. CASE events[n] = "delta"
    <2>. DEFINE more == Append(s.heard, n)
    <2>1. more \in Seq(DOMAIN events)
      BY <1>1, <1>2, <1>4, AppendProperties
    <2>2. t = [s EXCEPT !.heard = more]
      BY <1>13, <1>14
    <2>3. Caught(more, n)
      BY <1>5, <1>8, <1>14 DEF n
    <2>. HIDE DEF more
    <2>4. t \in States /\ t.threw = s.threw /\ t.heard = more /\ t.is_delta = s.is_delta
      BY <1>4, <2>1, <2>2 DEF States
    <2>. QED  BY <1>3, <2>3, <2>4 DEF t, n
  <1>15. CASE events[n] # "delta"
    <2>1. t = s
      BY <1>13, <1>15
    <2>2. Caught(s.heard, n)
      BY <1>5, <1>8, <1>15 DEF n
    <2>. QED  BY <1>3, <2>1, <2>2 DEF t, n
  <1>. QED  BY <1>14, <1>15

\* A token more, of the name or of the data.
LEMMA CozeToken ==
    ASSUME Settled, provider = "CozeV3",
           \A i \in 1..Len(events) : events[i] \in {"chat", "delta", "completed", "done"},
           NEW s \in States, NEW a, NEW q, NEW v, CozeIn(s, a, q, v), q < Len(events),
           NEW res \in Seq(Token), NEW i \in 1..Len(res),
           v = 0 => res[i] = T("ev", q + 1),
           v = 1 => res[i] = Newline,
           v \in 2..6 => res[i] = Line(q + 1)[(v - 2) + 1],
           v = 6 /\ Deltas(a, q + 1) => events[q + 1] = "delta"
    PROVE  \/ v < 6 /\ CozeIn(NextState(res, i, s), a, q, v + 1)
           \/ v = 6 /\ CozeIn(NextState(res, i, s), a, q + 1, 0)
  <1>. DEFINE n == q + 1
              e == res[i]
              t == NextState(res, i, s)
              r == CozeLine(s, s.line)
  <1>1. Len(events) \in Nat /\ Len(res) \in Nat /\ i <= Len(res)
    BY LenProperties DEF Settled
  <1>2. /\ q \in Nat /\ n \in Nat /\ v \in 0..6 /\ ~s.threw /\ q \in 0..Len(events)
        /\ n \in 0..Len(events) /\ a \in Nat /\ a <= q /\ a <= n /\ Caught(s.heard, q)
    BY <1>1 DEF CozeIn
  <1>3. s = [line |-> s.line, last_line |-> s.last_line, is_active |-> s.is_active,
             heard |-> s.heard, is_delta |-> s.is_delta, threw |-> s.threw]
    BY DEF States
  <1>4. s.is_delta = Deltas(a, IF v \in {0, 1} THEN q ELSE n)
    BY DEF CozeIn
  <1>5. ASSUME NEW w, e # Newline, w = Append(s.line, e)
        PROVE  t.line = w /\ t.heard = s.heard /\ ~t.threw /\ t.is_delta = s.is_delta
    <2>1. t = [s EXCEPT !.line = w]
      BY <1>1, <1>5 DEF NextState
    <2>. HIDE DEF t, e
    <2>. QED  BY <1>2, <1>3, <2>1
  <1>6. ASSUME e = Newline, r \in States
        PROVE  t.line = <<>> /\ t.heard = r.heard /\ t.threw = r.threw /\ t.is_delta = r.is_delta
    <2>1. t = [r EXCEPT !.line = <<>>]
      <3>1. t = [TakeLine(s, s.line) EXCEPT !.line = <<>>]
        BY <1>6 DEF NextState
      <3>2. TakeLine(s, s.line) = r
        BY DEF TakeLine
      <3>. HIDE DEF r
      <3>. QED  BY <3>1, <3>2
    <2>. HIDE DEF t, e, r
    <2>. QED  BY <1>6, <2>1 DEF States
  <1>. HIDE DEF t
  <1>7. CASE v = 0
    <2>1. e = T("ev", n) /\ s.line = <<>> /\ 0 \in {0, 1} /\ 1 \in {0, 1}
      BY <1>7 DEF CozeIn
    <2>2. e # Newline
      BY <2>1 DEF T, Newline
    <2>3. Append(s.line, e) = <<T("ev", n)>>
      <3>. HIDE DEF e, n
      <3>. QED  BY <2>1
    <2>. HIDE DEF e
    <2>4. t.line = <<T("ev", n)>> /\ t.heard = s.heard /\ ~t.threw /\ t.is_delta = s.is_delta
      BY <1>5, <2>2, <2>3
    <2>5. t.is_delta = Deltas(a, q)
      BY <1>4, <1>7, <2>4
    <2>6. CozeIn(t, a, q, 1)
      <3>1. 1 \in 0..6 /\ 1 # 0 /\ 1 \notin 2..6 /\ 1 \in {0, 1}
        OBVIOUS
      <3>2. Caught(t.heard, q)
        BY <1>2, <2>4
      <3>3. t.line = <<T("ev", q + 1)>>
        BY <2>4
      <3>. HIDE DEF n
      <3>. QED  BY <1>2, <2>4, <2>5, <3>1, <3>2, <3>3, Zenon DEF CozeIn
    <2>7. v + 1 = 1 /\ v < 6
      BY <1>7
    <2>. QED  BY <2>6, <2>7 DEF t
  <1>8. CASE v = 1
    <2>1. e = Newline
      BY <1>8
    <2>2. r \in States /\ ~r.threw /\ r.heard = s.heard /\ r.is_delta = Deltas(a, q + 1)
      <3>1. CozeIn(s, a, q, 1)
        BY <1>8
      <3>. QED  BY <3>1, CozeName
    <2>. HIDE DEF e, r
    <2>3. t.line = <<>> /\ t.heard = s.heard /\ ~t.threw /\ t.is_delta = Deltas(a, q + 1)
      BY <1>6, <2>1, <2>2
    <2>4. Piece(t.line, q + 1, 0, 2 - 2)
      <3>1. 2 - 2 = 0
        OBVIOUS
      <3>2. Piece(<<>>, q + 1, 0, 0)
        BY EmptyPiece
      <3>. QED  BY <2>3, <3>1, <3>2
    <2>5. CozeIn(t, a, q, 2)
      <3>1. 2 \in 0..6 /\ 2 # 0 /\ 2 # 1 /\ 2 \notin {0, 1}
        OBVIOUS
      <3>2. Caught(t.heard, q)
        BY <1>2, <2>3
      <3>. QED  BY <1>2, <2>3, <2>4, <3>1, <3>2, Zenon DEF CozeIn
    <2>6. v + 1 = 2 /\ v < 6
      BY <1>8
    <2>. QED  BY <2>5, <2>6 DEF t
  <1>9. CASE v \in 2..5
    <2>1. /\ v \in 2..6 /\ v - 2 \in 0..4 /\ v - 2 # 4 /\ 0 <= v - 2 /\ v + 1 \in 2..6 /\ v + 1 \in 0..6
          /\ v + 1 # 0 /\ v + 1 # 1 /\ v + 1 \notin {0, 1} /\ v \notin {0, 1} /\ v < 6
          /\ (v - 2) + 1 = (v + 1) - 2
      BY <1>9
    <2>2. e = Line(n)[(v - 2) + 1] /\ Piece(s.line, n, 0, v - 2)
      BY <2>1 DEF CozeIn
    <2>3. e # Newline
      <3>. HIDE DEF n, e
      <3>. QED  BY <1>2, <2>1, <2>2, LineEnds
    <2>4. Piece(Append(s.line, e), n, 0, (v - 2) + 1)
      <3>. HIDE DEF n, e
      <3>1. Piece(Append(s.line, Line(n)[(v - 2) + 1]), n, 0, (v - 2) + 1)
        <4>1. 0 \in Nat
          OBVIOUS
        <4>. QED  BY <1>2, <2>1, <2>2, <4>1, PieceGrows
      <3>. QED  BY <2>2, <3>1
    <2>. HIDE DEF e
    <2>5. t.line = Append(s.line, e) /\ t.heard = s.heard /\ ~t.threw /\ t.is_delta = s.is_delta
      BY <1>5, <2>3
    <2>6. Piece(t.line, n, 0, (v + 1) - 2) /\ Caught(t.heard, q) /\ t.is_delta = Deltas(a, n)
      <3>1. Piece(t.line, n, 0, (v - 2) + 1)
        BY <2>4, <2>5
      <3>2. Piece(t.line, n, 0, (v + 1) - 2)
        <4>. HIDE DEF n
        <4>. QED  BY <2>1, <3>1
      <3>3. t.is_delta = Deltas(a, n)
        BY <1>4, <2>1, <2>5, Zenon
      <3>. QED  BY <1>2, <2>5, <3>2, <3>3
    <2>7. CozeIn(t, a, q, v + 1)
      BY <1>2, <2>1, <2>5, <2>6, Zenon DEF CozeIn, n
    <2>. QED  BY <2>1, <2>7 DEF t
  <1>10. CASE v = 6
    <2>1. 6 \in 2..6 /\ (6 - 2) + 1 = 4 + 1 /\ 4 \in 0..4
      OBVIOUS
    <2>2. e = Newline
      <3>1. e = Line(n)[4 + 1]
        BY <1>10, <2>1
      <3>. HIDE DEF n, e
      <3>. QED  BY <1>2, <2>1, <3>1, LineEnds
    <2>3. r \in States /\ ~r.threw /\ Caught(r.heard, q + 1) /\ r.is_delta = Deltas(a, q + 1)
      <3>1. CozeIn(s, a, q, 6) /\ (Deltas(a, q + 1) => events[q + 1] = "delta")
        BY <1>10
      <3>. QED  BY <3>1, CozeEnd
    <2>. HIDE DEF e, r
    <2>4. t.line = <<>> /\ Caught(t.heard, q + 1) /\ ~t.threw /\ t.is_delta = Deltas(a, q + 1)
      BY <1>6, <2>2, <2>3
    <2>5. 0 \in 0..6 /\ 0 # 1 /\ 0 \notin 2..6 /\ 0 \in {0, 1}
      OBVIOUS
    <2>6. CozeIn(t, a, q + 1, 0)
      <3>1. q + 1 \in 0..Len(events) /\ a <= q + 1
        BY <1>2
      <3>. HIDE DEF n
      <3>. QED  BY <1>2, <2>4, <2>5, <3>1, Zenon DEF CozeIn
    <2>. QED  BY <1>10, <2>6 DEF t
  <1>. QED  BY <1>2, <1>7, <1>8, <1>9, <1>10

\* The next token of the body, when no event follows a delta in the piece that is none.
LEMMA CozeNext ==
    ASSUME Settled, provider = "CozeV3",
           \A i \in 1..Len(events) : events[i] \in {"chat", "delta", "completed", "done"},
           NEW body, CozeBody(body, Len(events)), NEW p \in Nat, p < Len(body),
           NEW res \in Seq(Token), NEW i \in 1..Len(res), res[i] = body[p + 1],
           NEW a, \A q \in Nat : 7 * q < p /\ Deltas(a, q + 1) => events[q + 1] = "delta",
           NEW s \in States, CozeMid(s, a, p)
    PROVE  CozeMid(NextState(res, i, s), a, p + 1)
  <1>. DEFINE t == NextState(res, i, s)
              l == Len(events)
  <1>1. l \in Nat
    BY DEF Settled
  <1>2. PICK q, v : p = 7 * q + v /\ CozeIn(s, a, q, v)
    BY DEF CozeMid
  <1>3. q \in 0..l /\ v \in 0..6
    BY <1>2 DEF CozeIn
  <1>4. Len(body) = 7 * l
        /\ \A k \in 1..l : /\ DataAt(body, 7 * k - 5, k) /\ body[7 * k - 6] = T("ev", k)
                           /\ body[7 * k - 5] = Newline
    BY DEF CozeBody
  <1>5. /\ q < l /\ q + 1 \in 1..l /\ q + 1 \in Nat /\ q \in Nat
        /\ 7 * (q + 1) - 5 = 7 * q + 2 /\ 7 * q + 2 \in Nat /\ 7 * (q + 1) - 6 = 7 * q + 1
    <2>. HIDE DEF l
    <2>1. p < 7 * l
      BY <1>4
    <2>2. \A x, y, z \in Nat : 7 * y + z < 7 * x => y < x
      OBVIOUS
    <2>3. q \in Nat /\ v \in Nat
      BY <1>1, <1>3
    <2>4. q < l
      BY <1>1, <1>2, <2>1, <2>2, <2>3
    <2>. QED  BY <1>1, <2>3, <2>4
  <1>6. /\ DataAt(body, 7 * q + 2, q + 1) /\ body[7 * q + 1] = T("ev", q + 1)
        /\ body[7 * q + 2] = Newline
    BY <1>4, <1>5
  <1>7. p + 1 = 7 * q + (v + 1)
    BY <1>2, <1>3, <1>5
  <1>8. ASSUME v = 0 PROVE res[i] = T("ev", q + 1)
    <2>1. p + 1 = 7 * q + 1
      BY <1>7, <1>8
    <2>. QED  BY <1>6, <2>1
  <1>9. ASSUME v = 1 PROVE res[i] = Newline
    <2>1. p + 1 = 7 * q + 2
      BY <1>7, <1>9
    <2>. QED  BY <1>6, <2>1
  <1>10. ASSUME v \in 2..6 PROVE res[i] = Line(q + 1)[(v - 2) + 1]
    <2>1. v - 2 \in 0..4 /\ (7 * q + 2) + ((v - 2) + 1) = 7 * q + (v + 1)
      BY <1>5, <1>10
    <2>2. body[(7 * q + 2) + ((v - 2) + 1)] = Line(q + 1)[(v - 2) + 1]
      <3>. DEFINE x == 7 * q + 2
                  y == v - 2
                  n == q + 1
      <3>1. x \in Nat /\ n \in Nat /\ y \in 0..4 /\ DataAt(body, x, n)
        BY <1>5, <1>6, <2>1
      <3>. HIDE DEF x, y, n
      <3>2. body[x + (y + 1)] = Line(n)[y + 1]
        BY <3>1, DataAre
      <3>. QED  BY <3>2 DEF x, y, n
    <2>. QED  BY <1>7, <2>1, <2>2
  <1>11. ASSUME v = 6, Deltas(a, q + 1) PROVE events[q + 1] = "delta"
    <2>1. 7 * q < p
      BY <1>2, <1>5, <1>11
    <2>. QED  BY <1>5, <1>11, <2>1
  <1>12. \/ v < 6 /\ CozeIn(t, a, q, v + 1)
         \/ v = 6 /\ CozeIn(t, a, q + 1, 0)
    BY <1>2, <1>5, <1>8, <1>9, <1>10, <1>11, CozeToken
  <1>. HIDE DEF t
  <1>13. CASE v < 6 /\ CozeIn(t, a, q, v + 1)
    BY <1>7, <1>13 DEF CozeMid, t
  <1>14. CASE v = 6 /\ CozeIn(t, a, q + 1, 0)
    <2>1. p + 1 = 7 * (q + 1) + 0
      BY <1>3, <1>5, <1>7, <1>14
    <2>. QED  BY <1>14, <2>1 DEF CozeMid, t
  <1>. QED  BY <1>12, <1>13, <1>14

-----------------------------------------------------------------------------
(* A callback gets what the body has next *)

\* What the caller has been told of the first b tokens of the body.
Told(s, b) ==
    /\ provider = "Openai" => \E q \in 0..Len(events) + 1 : \E u \in {0, 2, 3, 4} :
                                b = 5 * q + u /\ OpenaiAt(s, q, u)
    /\ provider = "Dify" => \E q \in 0..Len(events) : \E u \in {0, 5} :
                              b = 6 * q + u /\ Caught(s.heard, IF u = 5 THEN q + 1 ELSE q)
    /\ provider = "CozeV3" => \E q \in 0..Len(events) : b = 7 * q /\ Caught(s.heard, q)

\* It depends on three variables.
LEMMA ToldSame ==
    ASSUME NEW s, NEW t, NEW b, Told(s, b), t.last_line = s.last_line,
           t.is_active = s.is_active, t.heard = s.heard
    PROVE  Told(t, b)
  <1>1. \A q, u : OpenaiAt(s, q, u) => OpenaiAt(t, q, u)
    BY DEF OpenaiAt, Kept, Heeds
  <1>. QED  BY <1>1, Zenon DEF Told

\* The end of a piece.
LEMMA SliceEnds ==
    ASSUME NEW body, NEW b \in Nat, NEW c \in Nat, b <= c, NEW res, Slice(res, body, b, c)
    PROVE  /\ Len(res) = c - b /\ res \in Seq(Token) /\ Len(res) \in Nat
           /\ res = <<>> <=> b = c
           /\ b # c => Last(res) = body[c] /\ Len(res) \in 1..Len(res)
           /\ \A i \in 1..Len(res) : res[i] = body[b + i] /\ b + i <= c /\ b + (i - 1) \in Nat
  <1>1. res \in Seq(Token) /\ Len(res) = c - b /\ \A i \in 1..c - b : res[i] = body[b + i]
    BY DEF Slice
  <1>2. res = <<>> <=> b = c
    <2>1. Len(res) = 0 <=> b = c
      BY <1>1
    <2>. QED  BY <1>1, <2>1, EmptySeq
  <1>3. ASSUME b # c PROVE Last(res) = body[c] /\ Len(res) \in 1..Len(res)
    <2>1. c - b \in 1..c - b /\ b + (c - b) = c
      BY <1>3
    <2>2. res[c - b] = body[c]
      BY <1>1, <2>1
    <2>. QED  BY <1>1, <2>1, <2>2 DEF Last
  <1>4. Len(res) \in Nat
    BY <1>1
  <1>5. \A i \in 1..Len(res) : res[i] = body[b + i] /\ b + i <= c /\ b + (i - 1) \in Nat
    <2>1. ASSUME NEW i \in 1..c - b PROVE b + i <= c /\ b + (i - 1) \in Nat
      OBVIOUS
    <2>. QED  BY <1>1, <2>1
  <1>. QED  BY <1>1, <1>2, <1>3, <1>4, <1>5, Zenon

\* The end of a callback.
LEMMA CallEnds ==
    ASSUME Settled, NEW res \in Seq(Token), NEW s, Sound(s), NEW r, TakeLine(s, s.line) = r,
           NEW t, t = NextState(res, Len(res) + 1, s)
    PROVE  t.last_line = r.last_line /\ t.is_active = r.is_active /\ t.heard = r.heard
           /\ t.threw = r.threw
  <1>1. Len(res) \in Nat /\ ~(Len(res) + 1 <= Len(res))
    BY LenProperties
  <1>2. t = [TakeLine(s, s.line) EXCEPT !.line = <<>>]
    BY <1>1 DEF NextState
  <1>3. t = [r EXCEPT !.line = <<>>]
    BY <1>2
  <1>4. r \in States
    <2>1. s \in States /\ Numbered(provider, s.line) /\ s.line \in Seq(Token)
      BY DEF Sound, States
    <2>2. Takes(s, TakeLine(s, s.line), s.line)
      BY <2>1, TakesTheLine DEF Settled
    <2>. QED  BY <2>2 DEF Takes
  <1>. QED  BY <1>3, <1>4 DEF States

\* Openai's callback never throws.
LEMMA OpenaiKeeps ==
    ASSUME NEW s \in States
    PROVE  OpenaiLine(s, s.line).threw = s.threw
  <1>. DEFINE j == Joined(s, s.line)
              k == Parsed(j.line)
              on == Active(s, k)
              t == OpenaiLine(s, s.line)
              more == IF on THEN Append(s.heard, k) ELSE s.heard
  <1>1. s = [line |-> s.line, last_line |-> s.last_line, is_active |-> s.is_active,
             heard |-> s.heard, is_delta |-> s.is_delta, threw |-> s.threw]
    BY DEF States
  <1>2. t = IF s.line = <<>> THEN s
            ELSE IF ~IsData(j.line) THEN [s EXCEPT !.last_line = j.last_line]
            ELSE IF k = Invalid THEN [s EXCEPT !.last_line = j.line]
            ELSE IF k = 0 THEN [s EXCEPT !.last_line = j.last_line]
            ELSE [s EXCEPT !.last_line = j.last_line, !.is_active = on, !.heard = more]
    BY DEF OpenaiLine
  <1>. HIDE DEF j, k, on, more, t
  <1>3. \A x, y, z : /\ [s EXCEPT !.last_line = x].threw = s.threw
                    /\ [s EXCEPT !.last_line = x, !.is_active = y, !.heard = z].threw = s.threw
    BY <1>1
  <1>4. t.threw = s.threw
    BY <1>2, <1>3
  <1>. QED  BY <1>4 DEF t

\* The callback of openai.cpp throws at no token: it only skips what it cannot parse.
LEMMA OpenaiNever ==
    ASSUME provider = "Openai", NEW s \in States, NEW res \in Seq(Token), NEW i \in 1..Len(res),
           ~s.threw, OpenaiLine(s, s.line) \in States
    PROVE  ~NextState(res, i, s).threw
  <1>. DEFINE r == OpenaiLine(s, s.line)
              t == NextState(res, i, s)
              w == Append(s.line, res[i])
  <1>1. s = [line |-> s.line, last_line |-> s.last_line, is_active |-> s.is_active,
             heard |-> s.heard, is_delta |-> s.is_delta, threw |-> s.threw]
    BY DEF States
  <1>2. r.threw = s.threw
    BY OpenaiKeeps
  <1>3. TakeLine(s, s.line) = r
    BY DEF TakeLine
  <1>4. t = [s EXCEPT !.line = w] \/ t = [r EXCEPT !.line = <<>>]
    <2>. HIDE DEF r
    <2>. QED  BY <1>3 DEF NextState
  <1>5. r \in States
    OBVIOUS
  <1>. HIDE DEF r, t, w
  <1>6. CASE t = [s EXCEPT !.line = w]
    BY <1>1, <1>6 DEF t
  <1>7. CASE t = [r EXCEPT !.line = <<>>]
    <2>1. t.threw = r.threw
      BY <1>5, <1>7 DEF States
    <2>. QED  BY <1>2, <2>1 DEF t
  <1>. QED  BY <1>4, <1>6, <1>7

\* Openai: whatever piece it is, unless it ends in the middle of "data:".
LEMMA OpenaiCalled ==
    ASSUME Settled, provider = "Openai",
           \A i \in 1..Len(events) : events[i] \in {"text", "open", "close"},
           NEW body, OpenaiBody(body, Len(events)), NEW b \in Nat, NEW c \in Nat, b <= c,
           c <= Len(body), NEW res, Slice(res, body, b, c), Numbered(provider, res),
           Told(FirstState, b), res # <<>> => ~Harmful(res)
    PROVE  Told(Callback(res), c) /\ ~Callback(res).threw
  <1>1. /\ res \in Seq(Token) /\ Len(res) = c - b /\ Len(res) \in Nat
        /\ res = <<>> <=> b = c
        /\ b # c => Last(res) = body[c]
        /\ \A i \in 1..Len(res) : res[i] = body[b + i] /\ b + i <= c /\ b + (i - 1) \in Nat
    BY SliceEnds
  <1>2. PICK after : StatesOf(after, res) /\ \A i \in 0..Len(res) + 1 : Sound(after[i])
    BY <1>1, Calling
  <1>3. PICK n \in Nat : n = Len(res)
    BY <1>1
  <1>4. Len(events) \in Nat /\ Len(body) = 5 * Len(events) + 5
        /\ \A k \in 1..Len(events) + 1 : DataAt(body, 5 * k - 5, EventOf(Len(events), k))
    BY DEF Settled, OpenaiBody
  <1>5. PICK q0 \in 0..Len(events) + 1, u0 \in {0, 2, 3, 4} :
          b = 5 * q0 + u0 /\ OpenaiAt(FirstState, q0, u0)
    BY DEF Told
  <1>. DEFINE Holds == {i \in 0..n : OpenaiMid(after[i], b + i) /\ ~after[i].threw}
  <1>6. 0 \in Holds
    <2>1. after[0] = FirstState
      BY <1>2 DEF StatesOf
    <2>2. FirstState.line = <<>> /\ ~FirstState.threw
      BY DEF FirstState
    <2>3. u0 \in Nat /\ u0 \in 0..4 /\ u0 <= u0
      OBVIOUS
    <2>4. Piece(FirstState.line, EventOf(Len(events), q0 + 1), u0, u0)
      BY <2>2, <2>3, EmptyPiece
    <2>5. OpenaiIn(FirstState, q0, u0, u0)
      BY <1>5, <2>3, <2>4, Zenon DEF OpenaiIn
    <2>6. OpenaiMid(FirstState, b)
      BY <1>5, <2>5 DEF OpenaiMid
    <2>7. b + 0 = b /\ 0 \in 0..n
      OBVIOUS
    <2>. QED  BY <2>1, <2>2, <2>6, <2>7
  <1>7. ASSUME NEW i \in 1..n, i - 1 \in Holds PROVE i \in Holds
    <2>1. i \in 1..Len(res) /\ i \in 1..Len(res) + 1 /\ i - 1 \in 0..Len(res) + 1 /\ i \in 0..n
      BY <1>3
    <2>. DEFINE p == b + (i - 1)
                s == after[i - 1]
    <2>2. after[i] = NextState(res, i, s) /\ s \in States
      BY <1>2, <2>1 DEF StatesOf, Sound
    <2>3. p \in Nat /\ p + 1 = b + i /\ p < Len(body) /\ res[i] = body[p + 1]
      <3>1. res[i] = body[b + i] /\ b + i <= c /\ b + (i - 1) \in Nat
        BY <1>1, <2>1
      <3>2. b + (i - 1) + 1 = b + i /\ (b + (i - 1)) + 1 = b + i
        OBVIOUS
      <3>3. p + 1 = b + i
        BY <3>2
      <3>4. p < Len(body)
        <4>1. p + 1 <= c /\ p \in Nat /\ c <= 5 * Len(events) + 5
          BY <1>4, <3>1, <3>3
        <4>. HIDE DEF p
        <4>. QED  BY <1>4, <4>1
      <3>. QED  BY <3>1, <3>3, <3>4
    <2>4. OpenaiMid(s, p) /\ ~s.threw
      BY <1>7
    <2>. HIDE DEF s, p
    <2>5. OpenaiMid(NextState(res, i, s), p + 1)
      BY <1>1, <2>1, <2>2, <2>3, <2>4, OpenaiNext
    <2>6. ~NextState(res, i, s).threw
      <3>1. OpenaiLine(s, s.line) \in States
        <4>1. s.line \in Seq(Token)
          BY <2>2 DEF States
        <4>. QED  BY <2>2, <4>1, TakesOpenai DEF Takes, Settled
      <3>. QED  BY <1>1, <2>1, <2>2, <2>4, <3>1, OpenaiNever
    <2>. QED  BY <2>1, <2>2, <2>3, <2>5, <2>6
  <1>8. 0..n \subseteq Holds
    <2>. HIDE DEF Holds
    <2>. QED  BY <1>6, <1>7, UpTo
  <1>. DEFINE s == after[n]
              t == Callback(res)
              r == OpenaiLine(s, s.line)
  <1>9. OpenaiMid(s, c) /\ ~s.threw
    <2>1. n \in 0..n /\ b + n = c
      BY <1>1, <1>3
    <2>. QED  BY <1>8, <2>1
  <1>10. Sound(s) /\ s \in States /\ t = NextState(res, Len(res) + 1, s)
    <2>1. Len(res) + 1 \in 1..Len(res) + 1 /\ (Len(res) + 1) - 1 = n /\ n \in 0..Len(res) + 1
      BY <1>3
    <2>. QED  BY <1>2, <2>1 DEF StatesOf, Sound
  <1>11. PICK q, u, v : c = 5 * q + v /\ OpenaiIn(s, q, u, v)
    BY <1>9 DEF OpenaiMid
  <1>. HIDE DEF s, t
  <1>12. q \in 0..Len(events) + 1 /\ q \in Nat /\ v \in 0..4 /\ u \in {0, 2, 3, 4} /\ u <= v
    BY <1>4, <1>11 DEF OpenaiIn
  <1>13. v > 0 => q <= Len(events)
    <2>1. \A x, y, z \in Nat : z > 0 /\ 5 * y + z <= 5 * x + 5 => y <= x
      OBVIOUS
    <2>2. 5 * q + v <= 5 * Len(events) + 5
      BY <1>4, <1>11
    <2>. QED  BY <1>4, <1>12, <2>1, <2>2
  <1>14. v # 1
    <2>1. SUFFICES ASSUME v = 1 PROVE FALSE
      OBVIOUS
    <2>2. CASE b = c
      <3>1. \A x, y \in Nat : \A z \in {0, 2, 3, 4} : 5 * x + z # 5 * y + 1
        OBVIOUS
      <3>2. q0 \in Nat
        BY <1>4
      <3>. QED  BY <1>5, <1>11, <1>12, <2>1, <2>2, <3>1, <3>2
    <2>3. CASE b # c
      <3>1. q + 1 \in 1..Len(events) + 1 /\ 5 * (q + 1) - 5 = 5 * q
        BY <1>4, <1>12, <1>13, <2>1
      <3>2. DataAt(body, 5 * q, EventOf(Len(events), q + 1))
        BY <1>4, <3>1
      <3>3. body[5 * q + 1] = T("da", 0)
        BY <3>2 DEF DataAt
      <3>4. c = 5 * q + 1
        BY <1>11, <2>1
      <3>5. Last(res) = T("da", 0) /\ res # <<>>
        BY <1>1, <2>3, <3>3, <3>4
      <3>6. Harmful(res)
        BY <3>5 DEF Harmful, T
      <3>. QED  BY <3>5, <3>6
    <2>. QED  BY <2>2, <2>3
  <1>15. OpenaiAt(r, q, v)
    <2>1. u # v => q <= Len(events)
      <3>1. u # v => v > 0
        BY <1>12
      <3>. QED  BY <1>13, <3>1
    <2>. QED  BY <1>10, <1>11, <1>14, <2>1, OpenaiEnd
  <1>16. r.threw = s.threw
    BY <1>10, OpenaiKeeps
  <1>17. TakeLine(s, s.line) = r
    BY DEF TakeLine
  <1>. HIDE DEF r
  <1>18. /\ t.last_line = r.last_line /\ t.is_active = r.is_active /\ t.heard = r.heard
         /\ t.threw = r.threw
    BY <1>1, <1>10, <1>17, CallEnds
  <1>19. Told(r, c)
    <2>1. v \in {0, 2, 3, 4} /\ q \in 0..Len(events) + 1
      BY <1>12, <1>14
    <2>2. provider # "Dify" /\ provider # "CozeV3"
      OBVIOUS
    <2>. QED  BY <1>11, <1>15, <2>1, <2>2, Zenon DEF Told
  <1>20. Told(t, c)
    BY <1>18, <1>19, ToldSame
  <1>. QED  BY <1>9, <1>16, <1>18, <1>20 DEF t

\* Dify: a piece that ends with a line.
LEMMA DifyCalled ==
    ASSUME Settled, provider = "Dify", \A i \in 1..Len(events) : events[i] \in {"text", "error"},
           NEW body, DifyBody(body, Len(events)), NEW b \in Nat, NEW c \in Nat, b <= c,
           c <= Len(body), NEW res, Slice(res, body, b, c), Numbered(provider, res),
           Told(FirstState, b), res # <<>> => ~Harmful(res)
    PROVE  Told(Callback(res), c) /\ ~Callback(res).threw
  <1>1. /\ res \in Seq(Token) /\ Len(res) = c - b /\ Len(res) \in Nat
        /\ res = <<>> <=> b = c
        /\ b # c => Last(res) = body[c]
        /\ \A i \in 1..Len(res) : res[i] = body[b + i] /\ b + i <= c /\ b + (i - 1) \in Nat
    BY SliceEnds
  <1>2. PICK after : StatesOf(after, res) /\ \A i \in 0..Len(res) + 1 : Sound(after[i])
    BY <1>1, Calling
  <1>3. PICK n \in Nat : n = Len(res)
    BY <1>1
  <1>4. Len(events) \in Nat /\ Len(body) = 6 * Len(events)
        /\ \A k \in 1..Len(events) : DataAt(body, 6 * k - 6, k)
    BY DEF Settled, DifyBody
  <1>5. PICK q0 \in 0..Len(events), u0 \in {0, 5} :
          b = 6 * q0 + u0 /\ Caught(heard, IF u0 = 5 THEN q0 + 1 ELSE q0)
    BY DEF Told, FirstState
  <1>. DEFINE Holds == {i \in 0..n : DifyMid(after[i], b + i)}
  <1>6. 0 \in Holds
    <2>1. after[0] = FirstState
      BY <1>2 DEF StatesOf
    <2>2. FirstState.line = <<>> /\ ~FirstState.threw /\ FirstState.heard = heard
      BY DEF FirstState
    <2>3. u0 \in 0..5 /\ (u0 = 0 \/ u0 = 5)
      OBVIOUS
    <2>4. Piece(FirstState.line, q0 + 1, 0, 0)
      BY <2>2, EmptyPiece
    <2>5. DifyIn(FirstState, q0, u0)
      BY <1>5, <2>2, <2>3, <2>4, Zenon DEF DifyIn
    <2>6. DifyMid(FirstState, b)
      BY <1>5, <2>5 DEF DifyMid
    <2>7. b + 0 = b /\ 0 \in 0..n
      OBVIOUS
    <2>. QED  BY <2>1, <2>6, <2>7
  <1>7. ASSUME NEW i \in 1..n, i - 1 \in Holds PROVE i \in Holds
    <2>1. i \in 1..Len(res) /\ i \in 1..Len(res) + 1 /\ i - 1 \in 0..Len(res) + 1 /\ i \in 0..n
      BY <1>3
    <2>. DEFINE p == b + (i - 1)
                s == after[i - 1]
    <2>2. after[i] = NextState(res, i, s) /\ s \in States
      BY <1>2, <2>1 DEF StatesOf, Sound
    <2>3. p \in Nat /\ p + 1 = b + i /\ p < Len(body) /\ res[i] = body[p + 1]
      <3>1. res[i] = body[b + i] /\ b + i <= c /\ b + (i - 1) \in Nat
        BY <1>1, <2>1
      <3>2. (b + (i - 1)) + 1 = b + i
        OBVIOUS
      <3>3. p + 1 = b + i
        BY <3>2
      <3>4. p < Len(body)
        <4>1. p + 1 <= c /\ p \in Nat /\ c <= 6 * Len(events)
          BY <1>4, <3>1, <3>3
        <4>. HIDE DEF p
        <4>. QED  BY <1>4, <4>1
      <3>. QED  BY <3>1, <3>3, <3>4
    <2>4. DifyMid(s, p)
      BY <1>7
    <2>. HIDE DEF s, p
    <2>5. DifyMid(NextState(res, i, s), p + 1)
      BY <1>1, <2>1, <2>2, <2>3, <2>4, DifyNext
    <2>. QED  BY <2>1, <2>2, <2>3, <2>5
  <1>8. 0..n \subseteq Holds
    <2>. HIDE DEF Holds
    <2>. QED  BY <1>6, <1>7, UpTo
  <1>. DEFINE s == after[n]
              t == Callback(res)
  <1>9. DifyMid(s, c)
    <2>1. n \in 0..n /\ b + n = c
      BY <1>1, <1>3
    <2>. QED  BY <1>8, <2>1
  <1>10. Sound(s) /\ s \in States /\ t = NextState(res, Len(res) + 1, s)
    <2>1. Len(res) + 1 \in 1..Len(res) + 1 /\ (Len(res) + 1) - 1 = n /\ n \in 0..Len(res) + 1
      BY <1>3
    <2>. QED  BY <1>2, <2>1 DEF StatesOf, Sound
  <1>11. PICK q, v : c = 6 * q + v /\ DifyIn(s, q, v)
    BY <1>9 DEF DifyMid
  <1>. HIDE DEF s, t
  <1>12. q \in 0..Len(events) /\ q \in Nat /\ v \in 0..5 /\ ~s.threw
    BY <1>4, <1>11 DEF DifyIn
  <1>13. v \in {0, 5}
    <2>1. SUFFICES ASSUME v \in 1..4 PROVE FALSE
      BY <1>12
    <2>2. CASE b = c
      <3>1. \A x, y \in Nat : \A z \in {0, 5} : \A w \in 1..4 : 6 * x + z # 6 * y + w
        OBVIOUS
      <3>2. q0 \in Nat
        BY <1>4
      <3>. QED  BY <1>5, <1>11, <1>12, <2>1, <2>2, <3>1, <3>2
    <2>3. CASE b # c
      <3>1. q + 1 \in 1..Len(events)
        <4>1. \A x, y \in Nat : \A z \in 1..4 : 6 * y + z <= 6 * x => y < x
          OBVIOUS
        <4>2. 6 * q + v <= 6 * Len(events)
          BY <1>4, <1>11
        <4>3. q < Len(events)
          BY <1>4, <1>12, <2>1, <4>1, <4>2
        <4>. QED  BY <1>4, <1>12, <4>3
      <3>2. 6 * (q + 1) - 6 = 6 * q /\ 6 * q \in Nat /\ q + 1 \in Nat
        BY <1>12
      <3>3. DataAt(body, 6 * q, q + 1)
        BY <1>4, <3>1, <3>2
      <3>4. v - 1 \in 0..4 /\ (v - 1) + 1 = v /\ v - 1 # 4
        BY <2>1
      <3>5. body[6 * q + ((v - 1) + 1)] = Line(q + 1)[(v - 1) + 1]
        <4>. DEFINE x == 6 * q
                    y == v - 1
                    n1 == q + 1
        <4>1. x \in Nat /\ n1 \in Nat /\ y \in 0..4 /\ DataAt(body, x, n1)
          BY <3>2, <3>3, <3>4
        <4>. HIDE DEF x, y, n1
        <4>2. body[x + (y + 1)] = Line(n1)[y + 1]
          BY <4>1, DataAre
        <4>. QED  BY <4>2 DEF x, y, n1
      <3>6. Line(q + 1)[(v - 1) + 1] # Newline
        <4>. DEFINE y == v - 1
                    n1 == q + 1
        <4>1. n1 \in Nat /\ y \in 0..4 /\ y # 4
          BY <3>2, <3>4
        <4>. HIDE DEF y, n1
        <4>2. Line(n1)[y + 1] # Newline
          BY <4>1, LineEnds
        <4>. QED  BY <4>2 DEF y, n1
      <3>7. body[c] # Newline
        BY <1>11, <3>4, <3>5, <3>6
      <3>8. Last(res) # Newline /\ res # <<>>
        BY <1>1, <2>3, <3>7
      <3>9. Harmful(res)
        BY <3>8 DEF Harmful
      <3>. QED  BY <3>8, <3>9
    <2>. QED  BY <2>2, <2>3
  <1>14. s.line = <<>> /\ Caught(s.heard, IF v = 5 THEN q + 1 ELSE q)
    <2>1. CASE v = 5
      BY <1>11, <2>1 DEF DifyIn
    <2>2. CASE v = 0
      <3>1. Piece(s.line, q + 1, 0, 0) /\ Caught(s.heard, q)
        BY <1>11, <2>2 DEF DifyIn
      <3>2. s.line = <<>>
        BY <3>1, PieceEmpty
      <3>. QED  BY <2>2, <3>1, <3>2
    <2>. QED  BY <1>13, <2>1, <2>2
  <1>15. TakeLine(s, s.line) = s
    <2>1. DifyLine(s, s.line) = s
      BY <1>14, EmptyNotData DEF DifyLine
    <2>. QED  BY <2>1 DEF TakeLine
  <1>16. /\ t.last_line = s.last_line /\ t.is_active = s.is_active /\ t.heard = s.heard
         /\ t.threw = s.threw
    BY <1>1, <1>10, <1>15, CallEnds
  <1>17. Told(s, c)
    <2>1. provider # "Openai" /\ provider # "CozeV3"
      OBVIOUS
    <2>. QED  BY <1>11, <1>12, <1>13, <1>14, <2>1, Zenon DEF Told
  <1>18. Told(t, c)
    BY <1>16, <1>17, ToldSame
  <1>. QED  BY <1>12, <1>16, <1>18 DEF t

\* What of a piece of Coze's is harmful.
LEMMA CozeHarms ==
    ASSUME provider = "CozeV3", NEW res \in Seq(Token), Len(res) \in Nat, ~Harmful(res)
    PROVE  /\ Last(res) = Newline
           /\ Len(res) > 1 => res[Len(res) - 1][1] # "ev"
           /\ \A i, k \in 1..Len(res) :
                i < k /\ res[i][1] = "ev" /\ res[k][1] = "ev" /\ events[res[i][2]] = "delta"
                  => events[res[k][2]] = "delta"
  <1>1. DOMAIN res = 1..Len(res)
    BY LenProperties
  <1>2. /\ Last(res) = Newline /\ ~(Len(res) > 1 /\ Last(Front(res))[1] = "ev")
        /\ ~\E i, k \in DOMAIN res :
              /\ i < k /\ res[i][1] = "ev" /\ res[k][1] = "ev"
              /\ events[res[i][2]] = "delta" /\ events[res[k][2]] # "delta"
    BY DEF Harmful
  <1>3. ASSUME Len(res) > 1 PROVE Last(Front(res)) = res[Len(res) - 1]
    <2>. DEFINE l == Len(res) - 1
                f == SubSeq(res, 0 + 1, l)
    <2>1. l \in Nat /\ 0 <= l /\ l <= Len(res) /\ l \in 1..l - 0 /\ l - 0 = l /\ 0 + l = l /\ 0 + 1 = 1
      BY <1>3
    <2>2. Front(res) = f
      <3>1. Front(res) = SubSeq(res, 1, Len(res) - 1)
        BY DEF Front
      <3>. QED  BY <2>1, <3>1
    <2>. HIDE DEF l
    <2>3. Len(f) = l - 0 /\ \A k \in 1..l - 0 : f[k] = res[0 + k]
      BY <2>1, ViewTokens
    <2>. HIDE DEF f
    <2>4. f[Len(f)] = res[l]
      BY <2>1, <2>3
    <2>. QED  BY <2>2, <2>4 DEF Last, l
  <1>4. Len(res) > 1 => res[Len(res) - 1][1] # "ev"
    BY <1>2, <1>3
  <1>. QED  BY <1>1, <1>2, <1>4

\* In a piece of Coze's that is not harmful no other event follows a delta.
LEMMA CozeUnmixed ==
    ASSUME provider = "CozeV3", Len(events) \in Nat, NEW body, CozeBody(body, Len(events)),
           NEW a \in Nat, NEW c \in Nat, 7 * a < c, c <= Len(body), NEW res,
           Slice(res, body, 7 * a, c), ~Harmful(res),
           NEW q \in Nat, 7 * q < c, Deltas(a, q + 1)
    PROVE  events[q + 1] = "delta"
  <1>0. 7 * a \in Nat /\ 7 * a <= c /\ 7 * a # c
    OBVIOUS
  <1>1. /\ res \in Seq(Token) /\ Len(res) = c - 7 * a /\ Len(res) \in Nat
        /\ \A i \in 1..Len(res) : res[i] = body[7 * a + i]
    <2>. DEFINE b == 7 * a
    <2>1. b \in Nat /\ b <= c /\ Slice(res, body, b, c)
      BY <1>0
    <2>. HIDE DEF b
    <2>2. /\ res \in Seq(Token) /\ Len(res) = c - b /\ Len(res) \in Nat
          /\ \A i \in 1..Len(res) : res[i] = body[b + i]
      BY <2>1, SliceEnds
    <2>. QED  BY <2>2 DEF b
  <1>2. PICK k \in a + 1..q + 1 : events[k] = "delta"
    BY DEF Deltas
  <1>3. SUFFICES ASSUME k # q + 1 PROVE events[q + 1] = "delta"
    BY <1>2
  <1>4. Len(body) = 7 * Len(events)
        /\ \A j \in 1..Len(events) : body[7 * j - 6] = T("ev", j)
    BY DEF CozeBody
  <1>5. q + 1 \in 1..Len(events) /\ k \in 1..Len(events) /\ k \in Nat /\ a < k /\ k <= q
    <2>1. \A x \in Nat : 7 * q < 7 * x => q < x
      OBVIOUS
    <2>2. q < Len(events)
      BY <1>4, <2>1
    <2>3. k \in Nat /\ a < k /\ k <= q
      BY <1>3
    <2>. QED  BY <2>2, <2>3
  <1>. DEFINE i1 == (7 * k - 6) - 7 * a
              i2 == (7 * (q + 1) - 6) - 7 * a
  <1>6. /\ i1 \in 1..Len(res) /\ i2 \in 1..Len(res) /\ i1 < i2
        /\ 7 * a + i1 = 7 * k - 6 /\ 7 * a + i2 = 7 * (q + 1) - 6
    <2>1. 7 * (q + 1) - 6 = 7 * q + 1
      OBVIOUS
    <2>2. i2 <= c - 7 * a /\ i1 >= 1 /\ i1 < i2 /\ i1 \in Int /\ i2 \in Int
      BY <1>5
    <2>3. 7 * a + i1 = 7 * k - 6 /\ 7 * a + i2 = 7 * (q + 1) - 6
      BY <1>5
    <2>. HIDE DEF i1, i2
    <2>4. i1 \in 1..c - 7 * a /\ i2 \in 1..c - 7 * a
      BY <2>2
    <2>. QED  BY <1>1, <2>2, <2>3, <2>4
  <1>. HIDE DEF i1, i2
  <1>7. res[i1] = T("ev", k) /\ res[i2] = T("ev", q + 1)
    <2>1. res[i1] = body[7 * k - 6] /\ res[i2] = body[7 * (q + 1) - 6]
      BY <1>1, <1>6
    <2>. QED  BY <1>4, <1>5, <2>1
  <1>8. \A i, j \in 1..Len(res) :
          i < j /\ res[i][1] = "ev" /\ res[j][1] = "ev" /\ events[res[i][2]] = "delta"
            => events[res[j][2]] = "delta"
    BY <1>1, CozeHarms
  <1>9. res[i1][1] = "ev" /\ res[i1][2] = k /\ res[i2][1] = "ev" /\ res[i2][2] = q + 1
    BY <1>7 DEF T
  <1>10. events[res[i1][2]] = "delta"
    BY <1>2, <1>9
  <1>11. events[res[i2][2]] = "delta"
    BY <1>6, <1>8, <1>9, <1>10, Zenon
  <1>. QED  BY <1>9, <1>11

\* CozeV3: a piece that ends with an event.
LEMMA CozeCalled ==
    ASSUME Settled, provider = "CozeV3",
           \A i \in 1..Len(events) : events[i] \in {"chat", "delta", "completed", "done"},
           NEW body, CozeBody(body, Len(events)), NEW b \in Nat, NEW c \in Nat, b <= c,
           c <= Len(body), NEW res, Slice(res, body, b, c), Numbered(provider, res),
           Told(FirstState, b), res # <<>> => ~Harmful(res)
    PROVE  Told(Callback(res), c) /\ ~Callback(res).threw
  <1>1. /\ res \in Seq(Token) /\ Len(res) = c - b /\ Len(res) \in Nat
        /\ res = <<>> <=> b = c
        /\ b # c => Last(res) = body[c]
        /\ \A i \in 1..Len(res) : res[i] = body[b + i] /\ b + i <= c /\ b + (i - 1) \in Nat
    <2>1. /\ Len(res) = c - b /\ res \in Seq(Token) /\ Len(res) \in Nat
          /\ res = <<>> <=> b = c
          /\ b # c => Last(res) = body[c] /\ Len(res) \in 1..Len(res)
          /\ \A i \in 1..Len(res) : res[i] = body[b + i] /\ b + i <= c /\ b + (i - 1) \in Nat
      BY SliceEnds, Zenon
    <2>. QED  BY <2>1, Zenon
  <1>2. PICK after : StatesOf(after, res) /\ \A i \in 0..Len(res) + 1 : Sound(after[i])
    BY <1>1, Calling
  <1>3. PICK n \in Nat : n = Len(res)
    BY <1>1
  <1>4. Len(events) \in Nat /\ Len(body) = 7 * Len(events)
        /\ \A k \in 1..Len(events) : /\ DataAt(body, 7 * k - 5, k)
                                     /\ body[7 * k - 6] = T("ev", k)
    BY DEF Settled, CozeBody
  <1>5. PICK a \in 0..Len(events) : b = 7 * a /\ Caught(heard, a)
    BY DEF Told, FirstState
  <1>6. a \in Nat
    BY <1>4
  <1>7. ASSUME NEW q \in Nat, 7 * q < c, b # c, Deltas(a, q + 1) PROVE events[q + 1] = "delta"
    <2>1. ~Harmful(res) /\ 7 * a < c /\ Slice(res, body, 7 * a, c)
      BY <1>1, <1>5, <1>7
    <2>. QED  BY <1>4, <1>6, <1>7, <2>1, CozeUnmixed
  <1>. DEFINE Holds == {i \in 0..n : CozeMid(after[i], a, b + i)}
  <1>8. 0 \in Holds
    <2>1. after[0] = FirstState
      BY <1>2 DEF StatesOf
    <2>2. /\ FirstState.line = <<>> /\ ~FirstState.threw /\ FirstState.heard = heard
          /\ FirstState.is_delta = FALSE
      BY DEF FirstState
    <2>3. 0 \in 0..6 /\ 0 # 1 /\ 0 \notin 2..6 /\ 0 \in {0, 1} /\ a <= a
      BY <1>6
    <2>4. Deltas(a, a) = FALSE
      <3>1. \A k \in a + 1..a : FALSE
        BY <1>6
      <3>. QED  BY <3>1 DEF Deltas
    <2>5. CozeIn(FirstState, a, a, 0)
      BY <1>5, <1>6, <2>2, <2>3, <2>4, Zenon DEF CozeIn
    <2>6. b = 7 * a + 0
      BY <1>5, <1>6
    <2>7. CozeMid(FirstState, a, b)
      BY <2>5, <2>6 DEF CozeMid
    <2>8. b + 0 = b /\ 0 \in 0..n
      OBVIOUS
    <2>. QED  BY <2>1, <2>7, <2>8
  <1>9. ASSUME NEW i \in 1..n, i - 1 \in Holds PROVE i \in Holds
    <2>1. i \in 1..Len(res) /\ i \in 1..Len(res) + 1 /\ i - 1 \in 0..Len(res) + 1 /\ i \in 0..n
      BY <1>3
    <2>. DEFINE p == b + (i - 1)
                s == after[i - 1]
    <2>2. after[i] = NextState(res, i, s) /\ s \in States
      BY <1>2, <2>1 DEF StatesOf, Sound
    <2>3. p \in Nat /\ p + 1 = b + i /\ p < c /\ p < Len(body) /\ res[i] = body[p + 1] /\ b # c
      <3>1. res[i] = body[b + i] /\ b + i <= c /\ b + (i - 1) \in Nat
        BY <1>1, <2>1
      <3>2. (b + (i - 1)) + 1 = b + i
        OBVIOUS
      <3>3. p + 1 = b + i
        BY <3>2
      <3>4. p < c /\ p < Len(body)
        <4>1. p + 1 <= c /\ p \in Nat /\ c <= 7 * Len(events)
          BY <1>4, <3>1, <3>3
        <4>. HIDE DEF p
        <4>. QED  BY <1>4, <4>1
      <3>5. b # c
        BY <3>1
      <3>. QED  BY <3>1, <3>3, <3>4, <3>5
    <2>4. CozeMid(s, a, p)
      BY <1>9
    <2>. HIDE DEF s, p
    <2>5. \A q \in Nat : 7 * q < p /\ Deltas(a, q + 1) => events[q + 1] = "delta"
      <3>1. ASSUME NEW q \in Nat, 7 * q < p, Deltas(a, q + 1) PROVE events[q + 1] = "delta"
        <4>1. 7 * q < c
          BY <2>3, <3>1
        <4>. QED  BY <1>7, <2>3, <3>1, <4>1
      <3>. QED  BY <3>1
    <2>6. CozeMid(NextState(res, i, s), a, p + 1)
      BY <1>1, <2>1, <2>2, <2>3, <2>4, <2>5, CozeNext
    <2>. QED  BY <2>1, <2>2, <2>3, <2>6
  <1>10. 0..n \subseteq Holds
    <2>. HIDE DEF Holds
    <2>. QED  BY <1>8, <1>9, UpTo
  <1>. DEFINE s == after[n]
              t == Callback(res)
  <1>11. CozeMid(s, a, c)
    <2>1. n \in 0..n /\ b + n = c
      BY <1>1, <1>3
    <2>. QED  BY <1>10, <2>1
  <1>12. Sound(s) /\ s \in States /\ t = NextState(res, Len(res) + 1, s)
    <2>1. Len(res) + 1 \in 1..Len(res) + 1 /\ (Len(res) + 1) - 1 = n /\ n \in 0..Len(res) + 1
      BY <1>3
    <2>. QED  BY <1>2, <2>1 DEF StatesOf, Sound
  <1>13. PICK q, v : c = 7 * q + v /\ CozeIn(s, a, q, v)
    BY <1>11 DEF CozeMid
  <1>. HIDE DEF s, t
  <1>14. q \in 0..Len(events) /\ q \in Nat /\ v \in 0..6 /\ ~s.threw /\ a <= q
    BY <1>4, <1>13 DEF CozeIn
  <1>15. v = 0
    <2>1. SUFFICES ASSUME v \in 1..6 PROVE FALSE
      BY <1>14
    <2>2. b # c
      <3>1. \A x, y \in Nat : \A w \in 1..6 : 7 * x # 7 * y + w
        OBVIOUS
      <3>. QED  BY <1>5, <1>6, <1>13, <1>14, <2>1, <3>1
    <2>3. ~Harmful(res)
      BY <1>1, <2>2
    <2>4. Last(res) = Newline /\ (Len(res) > 1 => res[Len(res) - 1][1] # "ev")
      BY <1>1, <2>3, CozeHarms
    <2>5. body[c] = Newline
      BY <1>1, <2>2, <2>4
    <2>6. q + 1 \in 1..Len(events)
      <3>1. \A x, y \in Nat : \A z \in 1..6 : 7 * y + z <= 7 * x => y < x
        OBVIOUS
      <3>2. 7 * q + v <= 7 * Len(events)
        BY <1>4, <1>13
      <3>3. q < Len(events)
        BY <1>4, <1>14, <2>1, <3>1, <3>2
      <3>. QED  BY <1>4, <1>14, <3>3
    <2>7. 7 * (q + 1) - 5 = 7 * q + 2 /\ 7 * (q + 1) - 6 = 7 * q + 1
      BY <1>14
    <2>8. DataAt(body, 7 * q + 2, q + 1) /\ body[7 * q + 1] = T("ev", q + 1)
      BY <1>4, <2>6, <2>7
    <2>9. CASE v = 1
      <3>1. body[c] = T("ev", q + 1)
        BY <1>13, <2>8, <2>9
      <3>. QED  BY <2>5, <3>1 DEF T, Newline
    <2>10. CASE v = 2
      <3>1. Len(res) - 1 \in 1..Len(res) /\ Len(res) > 1 /\ b + (Len(res) - 1) = 7 * q + 1
        <4>1. \A x, y \in Nat : x <= y => /\ ((7 * y + 2) - 7 * x) - 1 \in 1..(7 * y + 2) - 7 * x
                                          /\ (7 * y + 2) - 7 * x > 1
                                          /\ 7 * x + (((7 * y + 2) - 7 * x) - 1) = 7 * y + 1
          OBVIOUS
        <4>2. Len(res) = (7 * q + 2) - 7 * a
          BY <1>1, <1>5, <1>13, <2>10
        <4>3. /\ ((7 * q + 2) - 7 * a) - 1 \in 1..(7 * q + 2) - 7 * a
              /\ (7 * q + 2) - 7 * a > 1
              /\ 7 * a + (((7 * q + 2) - 7 * a) - 1) = 7 * q + 1
          BY <1>6, <1>14, <4>1
        <4>. QED  BY <1>5, <4>2, <4>3
      <3>2. res[Len(res) - 1] = body[7 * q + 1]
        BY <1>1, <3>1
      <3>. QED  BY <2>4, <2>8, <3>1, <3>2 DEF T
    <2>11. CASE v \in 3..6
      <3>. DEFINE x == 7 * q + 2
                  y == v - 3
                  n1 == q + 1
      <3>1. x \in Nat /\ n1 \in Nat /\ y \in 0..4 /\ y # 4 /\ DataAt(body, x, n1) /\ c = x + (y + 1)
        BY <1>13, <1>14, <2>8, <2>11
      <3>. HIDE DEF x, y, n1
      <3>2. body[x + (y + 1)] = Line(n1)[y + 1]
        BY <3>1, DataAre
      <3>3. Line(n1)[y + 1] # Newline
        BY <3>1, LineEnds
      <3>. QED  BY <2>5, <3>1, <3>2, <3>3
    <2>. QED  BY <2>1, <2>9, <2>10, <2>11
  <1>16. s.line = <<>> /\ Caught(s.heard, q)
    BY <1>13, <1>15 DEF CozeIn
  <1>17. TakeLine(s, s.line) = s
    <2>1. Len(<<>>) # 1
      OBVIOUS
    <2>2. CozeLine(s, s.line) = s
      BY <1>14, <1>16, <2>1, EmptyNotData DEF CozeLine
    <2>. QED  BY <2>2 DEF TakeLine
  <1>18. /\ t.last_line = s.last_line /\ t.is_active = s.is_active /\ t.heard = s.heard
         /\ t.threw = s.threw
    BY <1>1, <1>12, <1>17, CallEnds
  <1>19. Told(s, c)
    <2>1. provider # "Openai" /\ provider # "Dify"
      OBVIOUS
    <2>2. c = 7 * q
      BY <1>13, <1>14, <1>15
    <2>. QED  BY <1>14, <1>16, <2>1, <2>2, Zenon DEF Told
  <1>20. Told(t, c)
    BY <1>18, <1>19, ToldSame
  <1>. QED  BY <1>14, <1>18, <1>20 DEF t

\* Whichever provider's callback it is.
LEMMA CalledWhole ==
    ASSUME Settled, events \in Seq(Events(provider)),
           NEW body, IsBody(provider, body, Len(events)), NEW b \in Nat, NEW c \in Nat, b <= c,
           c <= Len(body), NEW res, Slice(res, body, b, c), Numbered(provider, res),
           Told(FirstState, b), res # <<>> => ~Harmful(res)
    PROVE  Told(Callback(res), c) /\ ~Callback(res).threw
  <1>1. \A i \in 1..Len(events) : events[i] \in Events(provider)
    BY ElementOfSeq
  <1>2. CASE provider = "Openai"
    <2>1. \A i \in 1..Len(events) : events[i] \in {"text", "open", "close"}
      BY <1>1, <1>2 DEF Events
    <2>2. OpenaiBody(body, Len(events))
      BY <1>2 DEF IsBody
    <2>. QED  BY <1>2, <2>1, <2>2, OpenaiCalled
  <1>3. CASE provider = "Dify"
    <2>1. \A i \in 1..Len(events) : events[i] \in {"text", "error"}
      BY <1>1, <1>3 DEF Events
    <2>2. DifyBody(body, Len(events))
      BY <1>3 DEF IsBody
    <2>. QED  BY <1>3, <2>1, <2>2, DifyCalled
  <1>4. CASE provider = "CozeV3"
    <2>1. \A i \in 1..Len(events) : events[i] \in {"chat", "delta", "completed", "done"}
      BY <1>1, <1>4 DEF Events
    <2>2. CozeBody(body, Len(events))
      BY <1>4 DEF IsBody
    <2>. QED  BY <1>4, <2>1, <2>2, CozeCalled
  <1>. QED  BY <1>2, <1>3, <1>4 DEF Settled, Providers

\* What a callback has told is in the variables after the read.
LEMMA ToldThen ==
    ASSUME UNCHANGED <<provider, events>>, NEW t, NEW b, Told(t, b),
           last_line' = t.last_line, is_active' = t.is_active, heard' = t.heard
    PROVE  Told(FirstState, b)'
  <1>. DEFINE f == FirstState
  <1>1. f'.last_line = t.last_line /\ f'.is_active = t.is_active /\ f'.heard = t.heard
    BY DEF FirstState
  <1>. HIDE DEF f
  <1>2. \A n : Thinking(n)' = Thinking(n)
    BY DEF Thinking
  <1>3. Expected' = Expected
    BY DEF Expected
  <1>4. events' = events /\ provider' = provider
    OBVIOUS
  <1>5. ASSUME NEW n, NEW u, Kept(t, n, u) PROVE Kept(f, n, u)'
    BY <1>1, <1>5 DEF Kept, Piece
  <1>6. ASSUME NEW c, Caught(t.heard, c) PROVE Caught(f.heard, c)'
    BY <1>1, <1>3, <1>6 DEF Caught
  <1>7. ASSUME NEW c, Heeds(t, c) PROVE Heeds(f, c)'
    <2>1. Caught(f.heard, c)'
      BY <1>6, <1>7 DEF Heeds
    <2>2. c <= Len(events) => t.is_active = ~Thinking(c)
      BY <1>7 DEF Heeds
    <2>3. c <= Len(events') => f'.is_active = ~Thinking(c)'
      BY <1>1, <1>2, <1>4, <2>2
    <2>. QED  BY <2>1, <2>3 DEF Heeds
  <1>8. ASSUME NEW q, NEW u, OpenaiAt(t, q, u) PROVE OpenaiAt(f, q, u)'
    <2>. DEFINE n == EventOf(Len(events), q + 1)
                c == IF u = 4 THEN q + 1 ELSE q
    <2>1. Kept(t, n, u) /\ Heeds(t, c)
      BY <1>8 DEF OpenaiAt
    <2>2. Kept(f, n, u)' /\ n' = n
      <3>1. n' = n
        BY <1>4
      <3>. HIDE DEF n
      <3>2. PICK n1 : n1 = n
        OBVIOUS
      <3>3. Kept(t, n1, u)
        BY <2>1, <3>2
      <3>4. Kept(f, n1, u)'
        BY <1>5, <3>3
      <3>5. Kept(f', n1, u)
        BY <3>4 DEF Kept, Piece
      <3>6. Kept(f', n', u)
        BY <3>1, <3>2, <3>5
      <3>. QED  BY <3>1, <3>6 DEF Kept, Piece
    <2>3. Heeds(f, c)'
      <3>. HIDE DEF c
      <3>. QED  BY <1>7, <2>1
    <2>. HIDE DEF f
    <2>. QED  BY <2>2, <2>3 DEF OpenaiAt
  <1>9. (Told(f, b))'
    <2>1. ASSUME provider' = "Openai"
          PROVE  \E q \in 0..Len(events') + 1 : \E u \in {0, 2, 3, 4} :
                   b = 5 * q + u /\ OpenaiAt(f, q, u)'
      <3>1. PICK q \in 0..Len(events) + 1, u \in {0, 2, 3, 4} : b = 5 * q + u /\ OpenaiAt(t, q, u)
        BY <1>4, <2>1 DEF Told
      <3>2. OpenaiAt(f, q, u)'
        BY <1>8, <3>1
      <3>3. q \in 0..Len(events') + 1
        BY <1>4
      <3>. QED  BY <3>1, <3>2, <3>3, Zenon
    <2>2. ASSUME provider' = "Dify"
          PROVE  \E q \in 0..Len(events') : \E u \in {0, 5} :
                   b = 6 * q + u /\ Caught(f.heard, IF u = 5 THEN q + 1 ELSE q)'
      <3>1. PICK q \in 0..Len(events), u \in {0, 5} :
              b = 6 * q + u /\ Caught(t.heard, IF u = 5 THEN q + 1 ELSE q)
        BY <1>4, <2>2 DEF Told
      <3>. DEFINE c == IF u = 5 THEN q + 1 ELSE q
      <3>2. Caught(f.heard, c)'
        <4>1. Caught(t.heard, c)
          BY <3>1
        <4>. HIDE DEF c
        <4>. QED  BY <1>6, <4>1
      <3>3. q \in 0..Len(events')
        BY <1>4
      <3>. QED  BY <3>1, <3>2, <3>3, Zenon
    <2>3. ASSUME provider' = "CozeV3"
          PROVE  \E q \in 0..Len(events') : b = 7 * q /\ Caught(f.heard, q)'
      <3>1. PICK q \in 0..Len(events) : b = 7 * q /\ Caught(t.heard, q)
        BY <1>4, <2>3 DEF Told
      <3>2. Caught(f.heard, q)'
        BY <1>6, <3>1
      <3>3. q \in 0..Len(events')
        BY <1>4
      <3>. QED  BY <3>1, <3>2, <3>3, Zenon
    <2>. QED  BY <2>1, <2>2, <2>3, Zenon DEF Told
  <1>. QED  BY <1>9 DEF f

-----------------------------------------------------------------------------
(* The whole answer *)

\* The response is the body in m chunks, the first j of which have been taken: their
\* content is told, and as long as there is more to read nothing else is consumed.
TakenTo(body, E, m, j) ==
    /\ j \in 0..m /\ Cuts(E, m, Len(body)) /\ Response(wire, body, E, m)
    /\ Told(FirstState, E[j])
    /\ pc \in {"connect", "send", "read"} => Placed(E, j, arrived, consumed)
    /\ pc \in {"over", "answered"} => j = m

\* As long as nothing has gone wrong, some number of chunks has been taken.
Whole ==
    ~torn /\ ~split =>
      \E m \in Nat : \E E : \E j : TakenTo(Body(provider, events), E, m, j)

\* It holds at the start.
LEMMA WholeInit == ASSUME Init PROVE Whole
  <1>. DEFINE body == Body(provider, events)
  <1>1. Inv
    BY InvInit
  <1>2. /\ provider \in Providers /\ Len(events) \in Nat
    BY <1>1, MadeInOrder DEF Inv, Made
  <1>3. PICK m \in Nat : \E E : Cuts(E, m, Len(body)) /\ Response(wire, body, E, m)
    BY <1>1 DEF Inv, Made
  <1>4. PICK E : Cuts(E, m, Len(body)) /\ Response(wire, body, E, m)
    BY <1>3
  <1>. HIDE DEF body
  <1>5. /\ pc = "connect" /\ arrived = 0 /\ consumed = 0 /\ last_line = <<>>
        /\ is_active = TRUE /\ heard = <<>>
    BY DEF Init
  <1>6. Caught(heard, 0)
    <2>1. 1..0 = {} /\ ToSet(<<>>) = {}
      BY DEF ToSet
    <2>. QED  BY <1>5, <2>1 DEF Caught
  <1>7. ~Thinking(0)
    <2>1. 1..0 = {}
      OBVIOUS
    <2>. QED  BY <2>1 DEF Thinking
  <1>8. FirstState.last_line = <<>> /\ FirstState.is_active = TRUE /\ FirstState.heard = heard
    BY <1>5 DEF FirstState
  <1>9. OpenaiAt(FirstState, 0, 0)
    <2>1. Heeds(FirstState, 0)
      BY <1>6, <1>7, <1>8 DEF Heeds
    <2>2. 0 \notin {2, 3} /\ 0 # 4
      OBVIOUS
    <2>. QED  BY <1>8, <2>1, <2>2 DEF OpenaiAt, Kept
  <1>10. Told(FirstState, 0)
    <2>1. /\ 0 \in 0..Len(events) + 1 /\ 0 \in 0..Len(events) /\ 0 \in {0, 2, 3, 4} /\ 0 \in {0, 5}
          /\ 0 = 5 * 0 + 0 /\ 0 = 6 * 0 + 0 /\ 0 = 7 * 0 /\ 0 # 5
      BY <1>2
    <2>2. Caught(FirstState.heard, 0)
      BY <1>6, <1>8
    <2>. QED  BY <1>9, <2>1, <2>2, Zenon DEF Told
  <1>11. E[0] = 0 /\ 0 \in 0..m
    BY <1>4 DEF Cuts
  <1>12. Told(FirstState, E[0])
    BY <1>10, <1>11
  <1>13. Placed(E, 0, arrived, consumed)
    BY <1>5 DEF Placed
  <1>14. TakenTo(body, E, m, 0)
    <2>1. pc \notin {"over", "answered"}
      BY <1>5
    <2>. QED  BY <1>4, <1>11, <1>12, <1>13, <2>1, Zenon DEF TakenTo
  <1>. QED  BY <1>14, Zenon DEF Whole, body

\* A read keeps it.
LEMMA WholeReads ==
    ASSUME Inv, Whole, Reads
    PROVE  Whole'
  <1>. DEFINE body == Body(provider, events)
  <1>1. PICK upTo, g, p, s : ReadBy(upTo, g, p, s)
    BY ReadsAre
  <1>2. pc = "read"
    BY ReadsAre
  <1>3. SUFFICES ASSUME ~torn', ~split'
                 PROVE  \E m \in Nat : \E E : \E j : TakenTo(body, E, m, j)'
    BY Zenon DEF Whole
  <1>4. ~torn /\ ~InChunk(upTo) /\ ~split /\ (p.body # <<>> => ~Harmful(p.body))
    <2>1. torn' = (torn \/ InChunk(upTo)) /\ split' = (split \/ (p.body # <<>> /\ Harmful(p.body)))
      BY <1>1 DEF ReadBy
    <2>. QED  BY <1>3, <2>1
  <1>5. PICK m \in Nat : \E E : \E j : TakenTo(body, E, m, j)
    BY <1>4 DEF Whole
  <1>6. PICK E : \E j : TakenTo(body, E, m, j)
    BY <1>5
  <1>7. PICK j : TakenTo(body, E, m, j)
    BY <1>6
  <1>8. /\ j \in 0..m /\ Cuts(E, m, Len(body)) /\ Response(wire, body, E, m)
        /\ Told(FirstState, E[j]) /\ Placed(E, j, arrived, consumed)
    BY <1>2, <1>7 DEF TakenTo
  <1>9. /\ wire \in Seq(Token) /\ Len(wire) \in Nat /\ Len(events) \in Nat
        /\ DOMAIN events = 1..Len(events)
    BY MadeInOrder DEF Inv
  <1>10. /\ arrived \in Nat /\ consumed \in Nat /\ upTo \in Nat /\ arrived < upTo
         /\ upTo <= Len(wire) /\ consumed < upTo /\ consumed <= upTo
    <2>1. arrived \in 0..Len(wire) /\ consumed \in 0..arrived /\ upTo \in arrived + 1..Len(wire)
      BY <1>1 DEF Inv, TypeOK, ReadBy
    <2>. QED  BY <1>9, <2>1
  <1>11. Settled /\ events \in Seq(Events(provider)) /\ provider \in Providers
    BY <1>9 DEF Settled, Inv, Made, TypeOK
  <1>12. IsBody(provider, body, Len(events))
    BY <1>11, BodyTokens
  <1>. HIDE DEF body
  <1>13. body \in Seq(Token) /\ Numbered(provider, body)
    BY <1>9, <1>11, <1>12, BodyOrder
  <1>14. Reading(body, E, m, j, upTo)
    BY <1>4, <1>8, <1>10, <1>13 DEF Reading
  <1>. DEFINE view == SubSeq(wire, consumed + 1, upTo)
  <1>15. ViewOf(view, upTo)
    <2>1. view \in Seq(Token) /\ Len(view) = upTo - consumed
          /\ \A k \in 1..upTo - consumed : view[k] = wire[consumed + k]
      BY <1>9, <1>10, ViewTokens
    <2>. HIDE DEF view
    <2>. QED  BY <2>1 DEF ViewOf
  <1>16. /\ p = parse_chunk(view, g) /\ g \in Numbers /\ s = Callback(p.body)
         /\ consumed' = consumed + p.pos /\ arrived' = upTo
         /\ last_line' = s.last_line /\ is_active' = s.is_active /\ heard' = s.heard
         /\ provider' = provider /\ events' = events /\ wire' = wire
         /\ pc' = CASE p.result = "throws" \/ s.threw -> "thrown"
                    [] p.result = "over" -> "over"
                    [] OTHER -> "read"
    BY <1>1 DEF ReadBy
  <1>. HIDE DEF view
  <1>17. Parses(p, body, E, m, j, upTo)
    <2>1. Parses(parse_chunk(view, g), body, E, m, j, upTo)
      BY <1>8, <1>10, <1>14, <1>15, <1>16, ParsedWhole
    <2>. QED  BY <1>16, <2>1
  <1>18. ASSUME NEW k \in j..m, Slice(p.body, body, E[j], E[k])
         PROVE  Told(s, E[k]) /\ ~s.threw
    <2>1. m \in Nat /\ j \in 0..m /\ k \in 0..m /\ j <= k /\ m \in 0..m /\ k <= m
      BY <1>8
    <2>2. E[j] \in Nat /\ E[k] \in Nat /\ E[j] <= E[k] /\ E[k] <= Len(body)
      BY <1>8, <2>1 DEF Cuts
    <2>3. Numbered(provider, p.body)
      <3>1. Len(body) \in Nat
        BY <1>13, LenProperties
      <3>2. ASSUME NEW i \in 1..Len(p.body)
            PROVE  \E r \in 1..Len(body) : p.body[i] = body[r]
        <4>1. Len(p.body) = E[k] - E[j] /\ \A r \in 1..E[k] - E[j] : p.body[r] = body[E[j] + r]
          BY <1>18 DEF Slice
        <4>2. i \in 1..E[k] - E[j]
          BY <4>1
        <4>3. E[j] + i \in 1..Len(body)
          BY <2>2, <3>1, <4>2
        <4>. QED  BY <4>1, <4>2, <4>3
      <3>. QED  BY <1>13, <3>2 DEF Numbered
    <2>4. Told(Callback(p.body), E[k]) /\ ~Callback(p.body).threw
      BY <1>4, <1>8, <1>11, <1>12, <1>18, <2>2, <2>3, CalledWhole
    <2>. QED  BY <1>16, <2>4
  <1>19. ASSUME NEW k \in j..m, Told(s, E[k]),
                pc' \in {"read", "over"},
                pc' = "read" => Placed(E, k, upTo, consumed + p.pos),
                pc' = "over" => k = m
         PROVE  TakenTo(body, E, m, k)'
    <2>1. Told(FirstState, E[k])'
      BY <1>16, <1>19, ToldThen
    <2>2. k \in 0..m
      BY <1>8
    <2>3. Response(wire, body, E, m)'
      <3>1. body' = body
        BY <1>16 DEF body
      <3>. QED  BY <1>8, <1>16, <3>1 DEF Response
    <2>4. Cuts(E, m, Len(body))'
      <3>1. body' = body
        BY <1>16 DEF body
      <3>. QED  BY <1>8, <3>1
    <2>5. pc' \in {"connect", "send", "read"} => Placed(E, k, arrived, consumed)'
      <3>1. pc' = "read" => Placed(E, k, arrived', consumed')
        BY <1>16, <1>19
      <3>. QED  BY <1>19, <3>1 DEF Placed
    <2>6. pc' \in {"over", "answered"} => k = m
      BY <1>19
    <2>. QED  BY <2>1, <2>2, <2>3, <2>4, <2>5, <2>6 DEF TakenTo
  <1>20. \E k : TakenTo(body, E, m, k)'
    <2>1. CASE p.result = "over" /\ Slice(p.body, body, E[j], E[m])
      <3>1. m \in j..m
        BY <1>8
      <3>2. Told(s, E[m]) /\ ~s.threw
        BY <1>18, <2>1, <3>1
      <3>3. pc' = "over"
        BY <1>16, <2>1, <3>2
      <3>4. TakenTo(body, E, m, m)'
        BY <1>19, <3>1, <3>2, <3>3
      <3>. QED  BY <3>4
    <2>2. ASSUME p.result = "more", NEW k \in j..m, Slice(p.body, body, E[j], E[k]),
                 Placed(E, k, upTo, consumed + p.pos)
          PROVE  \E k1 : TakenTo(body, E, m, k1)'
      <3>1. Told(s, E[k]) /\ ~s.threw
        BY <1>18, <2>2
      <3>2. pc' = "read"
        BY <1>16, <2>2, <3>1
      <3>3. TakenTo(body, E, m, k)'
        BY <1>19, <2>2, <3>1, <3>2
      <3>. QED  BY <3>3
    <2>. QED  BY <1>17, <2>1, <2>2 DEF Parses
  <1>. QED  BY <1>20

\* So does every step.
LEMMA WholeStep ==
    ASSUME Inv, Whole, [Next]_vars
    PROVE  Whole'
  <1>1. ASSUME UNCHANGED <<provider, events, wire, Progress>>,
               pc' \in {"connect", "send", "read"} =>
                 pc \in {"connect", "send", "read"},
               pc' \in {"over", "answered"} => pc \in {"over", "answered"}
        PROVE  Whole'
    <2>1. /\ provider' = provider /\ events' = events /\ wire' = wire
          /\ arrived' = arrived /\ consumed' = consumed /\ last_line' = last_line
          /\ is_active' = is_active /\ heard' = heard /\ torn' = torn /\ split' = split
      BY <1>1 DEF Progress
    <2>. DEFINE body == Body(provider, events)
    <2>2. SUFFICES ASSUME ~torn, ~split
                   PROVE  \E m \in Nat : \E E : \E j : TakenTo(body, E, m, j)'
      BY <2>1, Zenon DEF Whole
    <2>3. PICK m \in Nat : \E E : \E j : TakenTo(body, E, m, j)
      BY <2>2 DEF Whole
    <2>4. PICK E : \E j : TakenTo(body, E, m, j)
      BY <2>3
    <2>5. PICK j : TakenTo(body, E, m, j)
      BY <2>4
    <2>6. body' = body
      BY <2>1
    <2>. HIDE DEF body
    <2>7. /\ j \in 0..m /\ Cuts(E, m, Len(body)) /\ Response(wire, body, E, m)
          /\ Told(FirstState, E[j])
          /\ pc \in {"connect", "send", "read"} => Placed(E, j, arrived, consumed)
          /\ pc \in {"over", "answered"} => j = m
      BY <2>5 DEF TakenTo
    <2>8. Told(FirstState, E[j])'
      <3>1. /\ FirstState.last_line = last_line /\ FirstState.is_active = is_active
            /\ FirstState.heard = heard
        BY DEF FirstState
      <3>. QED  BY <2>1, <2>7, <3>1, ToldThen
    <2>9. Response(wire, body, E, m)'
      BY <2>1, <2>6, <2>7 DEF Response
    <2>10. Cuts(E, m, Len(body))'
      BY <2>6, <2>7
    <2>11. pc' \in {"connect", "send", "read"} => Placed(E, j, arrived, consumed)'
      BY <1>1, <2>1, <2>7 DEF Placed
    <2>12. TakenTo(body, E, m, j)'
      BY <1>1, <2>7, <2>8, <2>9, <2>10, <2>11 DEF TakenTo
    <2>. QED  BY <2>12
  <1>2. CASE UNCHANGED vars
    BY <1>1, <1>2 DEF vars, Progress
  <1>3. CASE Opens
    BY <1>1, <1>3 DEF Opens
  <1>4. CASE Reads
    BY <1>4, WholeReads
  <1>5. CASE ReadFails
    BY <1>1, <1>5 DEF ReadFails
  <1>6. CASE Closes
    BY <1>1, <1>6 DEF Closes
  <1>7. CASE Ended
    BY <1>2, <1>7 DEF Ended
  <1>. QED  BY <1>2, <1>3, <1>4, <1>5, <1>6, <1>7 DEF Next

\* What is told of b tokens is what should be heard of some first events, and of all of
\* them when there are no more tokens.
LEMMA ToldOf ==
    ASSUME provider \in Providers, Len(events) \in Nat, DOMAIN events = 1..Len(events),
           NEW body, IsBody(provider, body, Len(events)), NEW b, Told(FirstState, b)
    PROVE  \E n \in 0..Len(events) :
             Caught(heard, n) /\ (b = Len(body) => n = Len(events))
  <1>. DEFINE l == Len(events)
  <1>1. FirstState.heard = heard
    BY DEF FirstState
  <1>2. Caught(heard, l + 1) => Caught(heard, l)
    <2>1. \A n \in Expected : n \in 1..l
      BY ExpectedAre
    <2>2. 1..l \subseteq 1..l + 1
      OBVIOUS
    <2>. HIDE DEF l
    <2>3. Expected \cap 1..l + 1 = Expected \cap 1..l
      BY <2>1, <2>2, Zenon
    <2>. QED  BY <2>3 DEF Caught
  <1>3. \A n \in 0..l + 1 : n \in 0..l \/ n = l + 1
    OBVIOUS
  <1>4. l \in 0..l
    OBVIOUS
  <1>. HIDE DEF l
  <1>5. ASSUME NEW n \in 0..l + 1, Caught(heard, n), b = Len(body) => n \in {l, l + 1}
        PROVE  \E k \in 0..l : Caught(heard, k) /\ (b = Len(body) => k = l)
    <2>1. CASE n = l + 1
      BY <1>2, <1>4, <1>5, <2>1
    <2>2. CASE n # l + 1
      <3>1. n \in 0..l
        BY <1>3, <2>2
      <3>. QED  BY <1>5, <2>2, <3>1
    <2>. QED  BY <2>1, <2>2
  <1>6. l \in Nat
    BY DEF l
  <1>7. CASE provider = "Openai"
    <2>1. PICK q \in 0..l + 1, u \in {0, 2, 3, 4} : b = 5 * q + u /\ OpenaiAt(FirstState, q, u)
      BY <1>7 DEF Told, l
    <2>. DEFINE n == IF u = 4 THEN q + 1 ELSE q
    <2>2. Caught(heard, n)
      BY <1>1, <2>1 DEF OpenaiAt, Heeds
    <2>3. Len(body) = 5 * l + 5
      BY <1>7 DEF IsBody, OpenaiBody, l
    <2>4. b = Len(body) => q = l + 1 /\ u = 0
      <3>1. \A x, y \in Nat : \A z \in {0, 2, 3, 4} : 5 * y + z = 5 * x + 5 => y = x + 1 /\ z = 0
        OBVIOUS
      <3>2. q \in Nat
        BY <1>6
      <3>. QED  BY <1>6, <2>1, <2>3, <3>1, <3>2
    <2>5. b = Len(body) => n \in {l, l + 1}
      BY <2>4
    <2>6. CASE n \in 0..l + 1
      <3>. HIDE DEF n
      <3>1. \E k \in 0..l : Caught(heard, k) /\ (b = Len(body) => k = l)
        BY <1>5, <2>2, <2>5, <2>6
      <3>. QED  BY <3>1 DEF l
    <2>7. CASE n \notin 0..l + 1
      <3>1. q = l + 1 /\ u = 4
        BY <1>6, <2>7
      <3>2. Caught(heard, l)
        <4>1. n = (l + 1) + 1
          BY <3>1
        <4>2. Caught(heard, (l + 1) + 1)
          BY <2>2, <4>1
        <4>3. \A k \in Expected : k \in 1..l
          BY ExpectedAre DEF l
        <4>4. 1..l \subseteq 1..(l + 1) + 1
          BY <1>6
        <4>5. Expected \cap 1..(l + 1) + 1 = Expected \cap 1..l
          BY <4>3, <4>4, Zenon
        <4>. QED  BY <4>2, <4>5 DEF Caught
      <3>3. \E k \in 0..l : Caught(heard, k) /\ (b = Len(body) => k = l)
        <4>1. l \in 0..l
          BY <1>6
        <4>. QED  BY <3>2, <4>1
      <3>. QED  BY <3>3 DEF l
    <2>. QED  BY <2>6, <2>7
  <1>8. CASE provider = "Dify"
    <2>1. PICK q \in 0..l, u \in {0, 5} :
            b = 6 * q + u /\ Caught(heard, IF u = 5 THEN q + 1 ELSE q)
      BY <1>1, <1>8 DEF Told, l
    <2>. DEFINE n == IF u = 5 THEN q + 1 ELSE q
    <2>2. Caught(heard, n) /\ n \in 0..l + 1
      BY <1>6, <2>1
    <2>3. Len(body) = 6 * l
      BY <1>8 DEF IsBody, DifyBody, l
    <2>4. b = Len(body) => q = l /\ u = 0
      <3>1. \A x, y \in Nat : \A z \in {0, 5} : 6 * y + z = 6 * x => y = x /\ z = 0
        OBVIOUS
      <3>2. q \in Nat
        BY <1>6
      <3>. QED  BY <1>6, <2>1, <2>3, <3>1, <3>2
    <2>5. b = Len(body) => n \in {l, l + 1}
      BY <2>4
    <2>. HIDE DEF n
    <2>6. \E k \in 0..l : Caught(heard, k) /\ (b = Len(body) => k = l)
      BY <1>5, <2>2, <2>5
    <2>. QED  BY <2>6 DEF l
  <1>9. CASE provider = "CozeV3"
    <2>1. PICK q \in 0..l : b = 7 * q /\ Caught(heard, q)
      BY <1>1, <1>9 DEF Told, l
    <2>2. Len(body) = 7 * l
      BY <1>9 DEF IsBody, CozeBody, l
    <2>3. b = Len(body) => q = l
      BY <1>6, <2>1, <2>2
    <2>4. \E k \in 0..l : Caught(heard, k) /\ (b = Len(body) => k = l)
      BY <2>1, <2>3
    <2>. QED  BY <2>4 DEF l
  <1>. QED  BY <1>7, <1>8, <1>9 DEF Providers

\* However the answer is cut into chunks and reads, as long as no read ends inside a
\* chunk and no callback gets a piece its provider cannot use: the caller hears the
\* answer from its beginning and, when the response is over, all of it.
THEOREM AnswerHeardWhole == Spec => []AnswerIsWhole
  <1>. DEFINE All == Inv /\ Whole
  <1>1. Init => All
    BY InvInit, WholeInit
  <1>2. All /\ [Next]_vars => All'
    BY InvStep, WholeStep
  <1>3. ASSUME All PROVE AnswerIsWhole
    <2>. DEFINE body == Body(provider, events)
    <2>1. SUFFICES ASSUME ~torn, ~split
                   PROVE  /\ HeardInOrder
                          /\ \E n \in 0..Len(events) :
                               /\ ToSet(heard) = Expected \cap 1..n
                               /\ pc \in {"over", "answered"} => n = Len(events)
      BY DEF AnswerIsWhole
    <2>2. HeardInOrder
      BY <1>3, InvInOrder
    <2>3. /\ Len(events) \in Nat /\ DOMAIN events = 1..Len(events)
          /\ provider \in Providers /\ events \in Seq(Events(provider))
      BY <1>3, MadeInOrder DEF Inv, Made
    <2>4. IsBody(provider, body, Len(events))
      BY <2>3, BodyTokens
    <2>5. PICK m \in Nat : \E E : \E j : TakenTo(body, E, m, j)
      BY <1>3, <2>1 DEF Whole
    <2>6. PICK E : \E j : TakenTo(body, E, m, j)
      BY <2>5
    <2>7. PICK j : TakenTo(body, E, m, j)
      BY <2>6
    <2>. HIDE DEF body
    <2>8. /\ Told(FirstState, E[j]) /\ E[m] = Len(body)
          /\ pc \in {"over", "answered"} => j = m
      BY <2>7 DEF TakenTo, Cuts
    <2>9. PICK n \in 0..Len(events) : Caught(heard, n) /\ (E[j] = Len(body) => n = Len(events))
      BY <2>3, <2>4, <2>8, ToldOf
    <2>10. pc \in {"over", "answered"} => n = Len(events)
      BY <2>8, <2>9
    <2>. QED  BY <2>2, <2>9, <2>10 DEF Caught
  <1>. HIDE DEF All
  <1>. QED  BY <1>1, <1>2, <1>3, PTL DEF Spec

\* The caller is told nothing twice: no event is heard twice or before an earlier one,
\* whatever goes wrong, and the event that repeats Coze's whole answer is heard only
\* after a read ended inside a chunk or a callback got what CozeV3 cannot cope with.
THEOREM NothingRepeated == Spec => []NothingIsRepeated
  <1>1. ASSUME Inv, AnswerIsWhole PROVE NothingIsRepeated
    <2>1. HeardInOrder
      BY <1>1, InvInOrder
    <2>2. ASSUME ~torn, ~split, NEW i \in DOMAIN heard PROVE events[heard[i]] # "completed"
      <3>1. heard[i] \in ToSet(heard)
        BY DEF ToSet
      <3>2. heard[i] \in Expected
        BY <1>1, <2>2, <3>1 DEF AnswerIsWhole
      <3>. QED  BY <3>2 DEF Expected
    <2>. QED  BY <2>1, <2>2 DEF NothingIsRepeated
  <1>2. Spec => []Inv
    BY InvInit, InvStep, PTL DEF Spec
  <1>. QED  BY <1>1, <1>2, AnswerHeardWhole, PTL
=============================================================================
