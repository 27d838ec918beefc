----------------------------- MODULE DataLemmas -----------------------------
(***************************************************************************)
(* What the proofs need of induction and of the operators the models are   *)
(* built from: concatenations, selections and sums.                        *)
(***************************************************************************)
EXTENDS Integers, FiniteSets, Lists, Functions, SequenceTheorems, FiniteSetTheorems,
        WellFoundedInduction, TLAPS

(***************************************************************************)
(* Induction.  The library's induction theorems take a predicate; these    *)
(* take a set, and follow from the well-foundedness of < on Nat.           *)
(***************************************************************************)
\* A non-empty set of numbers has a least one.
LEMMA Least ==
  ASSUME NEW T, T \subseteq Nat, T # {}
  PROVE  \E x \in T : \A y \in T : x <= y
<1> DEFINE R == OpToRel(<, Nat)
<1>1. IsWellFoundedOn(R, Nat)
  BY NatLessThanWellFounded
<1>2. \A x, y \in Nat : x < y => <<x, y>> \in R
  BY DEF OpToRel
<1> HIDE DEF R
<1>3. PICK x \in T : \A y \in T : ~ (<<y, x>> \in R)
  BY <1>1, WFMin
<1>4. \A y \in T : ~ (y < x) /\ y \in Nat /\ x \in Nat
  BY <1>2, <1>3
<1>5. \A y \in T : x <= y
  BY <1>4
<1> QED
  BY <1>5

\* Induction up to n, on a set instead of a predicate.
LEMMA Induction ==
  ASSUME NEW n \in Nat, NEW S, 0 \in S, \A i \in 1..n : i - 1 \in S => i \in S
  PROVE  \A i \in 0..n : i \in S
<1> SUFFICES ASSUME NEW j \in 0..n, j \notin S PROVE FALSE
  OBVIOUS
<1> DEFINE T == {i \in 0..n : i \notin S}
<1>1. T \subseteq Nat /\ T # {}
  OBVIOUS
<1>2. PICK x \in T : \A y \in T : x <= y
  <2> HIDE DEF T
  <2> QED BY <1>1, Least
<1>3. x \in 1..n /\ x - 1 \in 0..n /\ x - 1 \notin T
  BY <1>2
<1> QED
  BY <1>3

\* f is what a loop over 1..n computes that starts with b and takes x to
\* G[<<x, i>>] in round i.
Iterates(f, n, b, G) ==
  f[0] = b /\ \A i \in 1..n : f[i] = G[<<f[i - 1], i>>]

\* Such a loop has a result.
LEMMA Iteration ==
  ASSUME NEW n \in Nat, NEW X, NEW b \in X, NEW G \in [X \X (1..n) -> X]
  PROVE  \E f \in [0..n -> X] : Iterates(f, n, b, G)
<1> DEFINE S == {m \in 0..n : \E f \in [0..m -> X] : Iterates(f, m, b, G)}
<1>1. 0 \in S
  <2> DEFINE f == [i \in 0..0 |-> b]
  <2>1. f \in [0..0 -> X] /\ Iterates(f, 0, b, G)
    BY DEF Iterates
  <2> QED
    BY <2>1
<1>2. ASSUME NEW m \in 1..n, m - 1 \in S PROVE m \in S
  <2>1. PICK f \in [0..(m - 1) -> X] : Iterates(f, m - 1, b, G)
    BY <1>2
  <2> DEFINE x == G[<<f[m - 1], m>>]
             g == [i \in 0..m |-> IF i = m THEN x ELSE f[i]]
  <2>2. x \in X
    BY <2>1
  <2> HIDE DEF x
  <2>3. g \in [0..m -> X] /\ g[0] = b /\ g[m] = x
    BY <2>1, <2>2 DEF Iterates
  <2>4. \A i \in 0..(m - 1) : g[i] = f[i]
    OBVIOUS
  <2> HIDE DEF g
  <2>5. ASSUME NEW i \in 1..m PROVE g[i] = G[<<g[i - 1], i>>]
    <3>1. CASE i = m
      BY <2>3, <2>4, <3>1 DEF x
    <3>2. CASE i # m
      BY <2>1, <2>4, <3>2 DEF Iterates
    <3> QED
      BY <3>1, <3>2
  <2> QED
    BY <2>3, <2>5 DEF Iterates
<1> HIDE DEF S
<1>3. \A i \in 0..n : i \in S
  BY <1>1, <1>2, Induction
<1> QED
  BY <1>3 DEF S

-----------------------------------------------------------------------------
(***************************************************************************)
(* Concatenations                                                          *)
(***************************************************************************)
\* The concatenations behind FlattenSeq.
Concats(f, ss, A) ==
  /\ f \in [1..Len(ss) -> Seq(A)]
  /\ f[1] = ss[1] /\ \A i \in 2..Len(ss) : f[i] = f[i - 1] \o ss[i]

LEMMA FlattenSeqIsConcat ==
  ASSUME NEW A, NEW ss \in Seq(Seq(A)), ss # << >>
  PROVE  \E f : Concats(f, ss, A) /\ FlattenSeq(ss) = f[Len(ss)]
<1> DEFINE n == Len(ss)
           X == Seq(A)
           G == [a \in X \X (1..n) |-> IF a[2] = 1 THEN ss[1] ELSE a[1] \o ss[a[2]]]
           Is(f) == f = [i \in 1..n |-> IF i = 1 THEN ss[i] ELSE f[i - 1] \o ss[i]]
           flat == CHOOSE f : Is(f)
<1>1. n \in Nat /\ n >= 1 /\ \A i \in 1..n : ss[i] \in X
  BY EmptySeq, ElementOfSeq
<1>2. FlattenSeq(ss) = flat[n]
  BY <1>1 DEF FlattenSeq
<1>3. G \in [X \X (1..n) -> X]
  <2>1. ASSUME NEW x \in X, NEW y \in X PROVE x \o y \in X
    BY ConcatProperties
  <2> HIDE DEF X, n
  <2>2. ASSUME NEW a \in X \X (1..n) PROVE (IF a[2] = 1 THEN ss[1] ELSE a[1] \o ss[a[2]]) \in X
    <3>1. a[1] \in X /\ a[2] \in 1..n /\ 1 \in 1..n
      BY <1>1
    <3> QED
      BY <1>1, <2>1, <3>1
  <2> QED
    BY <2>2
<1>4. << >> \in X
  OBVIOUS
<1>5. PICK h \in [0..n -> X] : Iterates(h, n, << >>, G)
  <2> HIDE DEF G, X
  <2> QED
    BY <1>1, <1>3, <1>4, Iteration
<1> DEFINE f == [i \in 1..n |-> h[i]]
<1> HIDE DEF n, X, flat
<1>6. ASSUME NEW i \in 1..n
      PROVE  f[i] \in X /\ f[i] = IF i = 1 THEN ss[i] ELSE f[i - 1] \o ss[i]
  <2>1. i - 1 \in 0..n /\ i \in 0..n /\ (i # 1 => i - 1 \in 1..n)
    BY <1>1
  <2>2. h[i - 1] \in X /\ h[i] \in X
    BY <1>5, <2>1
  <2>3. h[i] = G[<<h[i - 1], i>>]
    BY <1>5 DEF Iterates
  <2>4. h[i] = IF i = 1 THEN ss[i] ELSE h[i - 1] \o ss[i]
    BY <2>2, <2>3
  <2> QED
    BY <2>1, <2>2, <2>4
<1>7. f = [i \in 1..n |-> f[i]]
  OBVIOUS
<1> HIDE DEF f
<1>8. Is(f)
  BY <1>6, <1>7
<1>9. Is(flat)
  BY <1>8 DEF flat
<1>10. \A i \in 1..n : flat[i] = IF i = 1 THEN ss[i] ELSE flat[i - 1] \o ss[i]
  BY <1>9
<1>11. flat = [i \in 1..n |-> flat[i]]
  BY <1>9, <1>10
<1>12. \A i \in 0..n : i = 0 \/ flat[i] \in X
  <2> DEFINE S == {i \in 0..n : i = 0 \/ flat[i] \in X}
  <2>1. 0 \in S
    BY <1>1
  <2>2. ASSUME NEW i \in 1..n, i - 1 \in S PROVE i \in S
    <3>1. CASE i = 1
      BY <1>1, <1>10, <3>1
    <3>2. CASE i # 1
      <4>1. flat[i - 1] \in X /\ ss[i] \in X
        BY <1>1, <2>2, <3>2
      <4>2. flat[i] = flat[i - 1] \o ss[i]
        BY <1>10, <3>2
      <4>3. flat[i] \in X
        BY <4>1, <4>2, ConcatProperties DEF X
      <4> QED
        BY <1>1, <4>3
    <3> QED
      BY <3>1, <3>2
  <2> HIDE DEF S
  <2>3. \A i \in 0..n : i \in S
    BY <1>1, <2>1, <2>2, Induction
  <2> QED
    BY <2>3 DEF S
<1>13. flat \in [1..n -> X]
  <2>1. \A i \in 1..n : i \in 0..n /\ i # 0
    BY <1>1
  <2>2. \A i \in 1..n : flat[i] \in X
    BY <1>12, <2>1
  <2> QED
    BY <1>11, <2>2
<1>14. flat[1] = ss[1] /\ \A i \in 2..n : flat[i] = flat[i - 1] \o ss[i]
  <2>1. 1 \in 1..n /\ \A i \in 2..n : i \in 1..n /\ i # 1
    BY <1>1
  <2> QED
    BY <1>10, <2>1
<1>15. Concats(flat, ss, A)
  BY <1>13, <1>14 DEF Concats, n, X
<1> QED
  BY <1>2, <1>15 DEF n

LEMMA FlattenSeqOfOne ==
  ASSUME NEW A, NEW t \in Seq(A)
  PROVE  FlattenSeq(<<t>>) = t
<1>1. <<t>> \in Seq(Seq(A)) /\ <<t>> # << >> /\ Len(<<t>>) = 1 /\ <<t>>[1] = t
  OBVIOUS
<1>2. PICK f : Concats(f, <<t>>, A) /\ FlattenSeq(<<t>>) = f[Len(<<t>>)]
  BY <1>1, FlattenSeqIsConcat
<1>3. f[1] = <<t>>[1]
  BY <1>2 DEF Concats
<1> QED
  BY <1>1, <1>2, <1>3

\* Flattening one more sequence is flattening the others and adding it.
LEMMA FlattenSeqOfAppend ==
  ASSUME NEW A, NEW ss \in Seq(Seq(A)), NEW t \in Seq(A)
  PROVE  /\ FlattenSeq(ss) \in Seq(A)
         /\ FlattenSeq(Append(ss, t)) = FlattenSeq(ss) \o t
<1>1. CASE ss = << >>
  <2>1. FlattenSeq(ss) = << >> /\ Append(ss, t) = <<t>>
    BY <1>1 DEF FlattenSeq
  <2>2. << >> \in Seq(A) /\ << >> \o t = t
    BY ConcatEmptySeq
  <2> QED
    BY <2>1, <2>2, FlattenSeqOfOne
<1>2. CASE ss # << >>
  <2> DEFINE n == Len(ss)
             longer == Append(ss, t)
  <2>1. /\ longer \in Seq(Seq(A)) /\ longer # << >> /\ Len(longer) = n + 1
        /\ longer[n + 1] = t /\ \A i \in 1..n : longer[i] = ss[i]
    BY AppendProperties
  <2>2. n \in Nat /\ n >= 1
    BY <1>2, EmptySeq
  <2>3. PICK f : Concats(f, ss, A) /\ FlattenSeq(ss) = f[n]
    BY <1>2, FlattenSeqIsConcat
  <2> HIDE DEF longer
  <2>4. PICK g : Concats(g, longer, A) /\ FlattenSeq(longer) = g[n + 1]
    BY <2>1, FlattenSeqIsConcat
  <2> HIDE DEF n
  <2>5. \A i \in 0..n : i = 0 \/ g[i] = f[i]
    <3> DEFINE S == {i \in 0..n : i = 0 \/ g[i] = f[i]}
    <3>1. 0 \in S
      BY <2>2
    <3>2. ASSUME NEW i \in 1..n, i - 1 \in S PROVE i \in S
      <4>1. CASE i = 1
        <5>1. g[1] = longer[1] /\ f[1] = ss[1] /\ longer[1] = ss[1]
          BY <2>1, <2>2, <2>3, <2>4 DEF Concats
        <5> QED
          BY <2>2, <4>1, <5>1
      <4>2. CASE i # 1
        <5>1. i \in 2..n /\ i \in 2..(n + 1) /\ g[i - 1] = f[i - 1]
          BY <2>2, <3>2, <4>2
        <5>2. /\ g[i] = g[i - 1] \o longer[i] /\ longer[i] = ss[i]
              /\ f[i] = f[i - 1] \o ss[i]
          BY <2>1, <2>3, <2>4, <5>1 DEF Concats, n
        <5>3. g[i] = f[i]
          BY <5>1, <5>2
        <5> QED
          BY <2>2, <5>3
      <4> QED
        BY <4>1, <4>2
    <3> HIDE DEF S
    <3>3. \A i \in 0..n : i \in S
      BY <2>2, <3>1, <3>2, Induction
    <3> QED
      BY <3>3 DEF S
  <2>6. n + 1 \in 2..Len(longer) /\ (n + 1) - 1 = n /\ n \in 1..n
    BY <2>1, <2>2
  <2>7. g[n + 1] = g[(n + 1) - 1] \o longer[n + 1]
    BY <2>4, <2>6 DEF Concats
  <2>8. g[n] = f[n]
    <3>1. n \in 0..n /\ n # 0
      BY <2>2
    <3> QED
      BY <2>5, <3>1
  <2>9. f[n] \in Seq(A)
    BY <2>3, <2>6 DEF Concats, n
  <2> QED
    BY <2>1, <2>3, <2>4, <2>6, <2>7, <2>8, <2>9 DEF longer
<1> QED
  BY <1>1, <1>2

-----------------------------------------------------------------------------
(***************************************************************************)
(* Selections                                                              *)
(***************************************************************************)
\* Induction over sequences, by their prefixes.
LEMMA PrefixInduction ==
  ASSUME NEW A, NEW s \in Seq(A), NEW P, << >> \in P,
         \A t \in Seq(A), x \in A : t \in P => Append(t, x) \in P
  PROVE  s \in P
<1> DEFINE n == Len(s)
           prefix(i) == SubSeq(s, 1, i)
           I == {i \in 0..n : prefix(i) \in P}
<1>1. n \in Nat /\ \A i \in 1..n : s[i] \in A
  BY LenProperties, ElementOfSeq
<1>2. 0 \in I
  <2>1. prefix(0) = << >>
    OBVIOUS
  <2> HIDE DEF prefix
  <2> QED
    BY <1>1, <2>1
<1>3. ASSUME NEW i \in 1..n, i - 1 \in I PROVE i \in I
  <2> DEFINE t == prefix(i - 1)
             u == prefix(i)
  <2>1. t \in Seq(A) /\ Len(t) = i - 1 /\ \A j \in 1..(i - 1) : t[j] = s[j]
    BY <1>1
  <2>2. u \in Seq(A) /\ Len(u) = i /\ \A j \in 1..i : u[j] = s[j]
    BY <1>1
  <2> HIDE DEF t, u, prefix
  <2>3. Append(t, s[i]) = u
    <3>1. Append(t, s[i]) \in Seq(A) /\ Len(Append(t, s[i])) = i
      BY <1>1, <2>1
    <3>2. \A j \in 1..i : Append(t, s[i])[j] = u[j]
      BY <1>1, <2>1, <2>2
    <3> QED
      BY <2>2, <3>1, <3>2, SeqEqual
  <2>4. u \in P
    BY <1>1, <1>3, <2>1, <2>3 DEF t
  <2> QED
    BY <1>1, <2>4 DEF u
<1> HIDE DEF I
<1>4. \A i \in 0..n : i \in I
  BY <1>1, <1>2, <1>3, Induction
<1>5. prefix(n) = s
  BY <1>1
<1> HIDE DEF prefix
<1> QED
  BY <1>1, <1>4, <1>5 DEF I

\* Flattening two lists of sequences, one behind the other.
LEMMA FlattenSeqOfConcat ==
  ASSUME NEW A, NEW ss \in Seq(Seq(A)), NEW tt \in Seq(Seq(A))
  PROVE  FlattenSeq(ss \o tt) = FlattenSeq(ss) \o FlattenSeq(tt)
<1> DEFINE P == {u \in Seq(Seq(A)) : FlattenSeq(ss \o u) = FlattenSeq(ss) \o FlattenSeq(u)}
<1>1. \A u \in Seq(Seq(A)) : FlattenSeq(u) \in Seq(A)
  <2>1. << >> \in Seq(A)
    OBVIOUS
  <2> QED
    BY <2>1, FlattenSeqOfAppend
<1>2. << >> \in P
  <2>1. FlattenSeq(<< >>) = << >>
    BY DEF FlattenSeq
  <2>2. ss \o << >> = ss /\ FlattenSeq(ss) \o << >> = FlattenSeq(ss)
    BY <1>1, ConcatEmptySeq
  <2>3. << >> \in Seq(Seq(A))
    OBVIOUS
  <2> QED
    BY <2>1, <2>2, <2>3
<1>3. ASSUME NEW u \in Seq(Seq(A)), NEW t \in Seq(A), u \in P PROVE Append(u, t) \in P
  <2>1. ss \o Append(u, t) = Append(ss \o u, t) /\ ss \o u \in Seq(Seq(A))
    BY SMTT(30)
  <2>2. FlattenSeq(Append(ss \o u, t)) = FlattenSeq(ss \o u) \o t
    BY <2>1, FlattenSeqOfAppend
  <2>3. FlattenSeq(Append(u, t)) = FlattenSeq(u) \o t
    BY FlattenSeqOfAppend
  <2>4. (FlattenSeq(ss) \o FlattenSeq(u)) \o t = FlattenSeq(ss) \o (FlattenSeq(u) \o t)
    <3>1. FlattenSeq(ss) \in Seq(A) /\ FlattenSeq(u) \in Seq(A)
      BY <1>1
    <3> QED
      BY <3>1, ConcatAssociative, SMTT(30)
  <2>5. Append(u, t) \in Seq(Seq(A))
    OBVIOUS
  <2> QED
    BY <1>3, <2>1, <2>2, <2>3, <2>4, <2>5
<1>4. tt \in P
  BY <1>2, <1>3, PrefixInduction
<1> QED
  BY <1>4

\* An element more is selected or left out.
LEMMA SelectedOfAppend ==
  ASSUME NEW A, NEW S, NEW s \in Seq(A), NEW x \in A
  PROVE  /\ Selected(s, S) \in Seq(A)
         /\ Selected(Append(s, x), S) =
              IF x \in S THEN Append(Selected(s, S), x) ELSE Selected(s, S)
<1> DEFINE each(t) == [i \in DOMAIN t |-> IF t[i] \in S THEN <<t[i]>> ELSE << >>]
           last == IF x \in S THEN <<x>> ELSE << >>
<1>1. ASSUME NEW t \in Seq(A) PROVE each(t) \in Seq(Seq(A)) /\ Len(each(t)) = Len(t)
  <2>1. \A i \in 1..Len(t) : (IF t[i] \in S THEN <<t[i]>> ELSE << >>) \in Seq(A)
    BY ElementOfSeq
  <2>2. DOMAIN t = 1..Len(t) /\ Len(t) \in Nat
    OBVIOUS
  <2>3. each(t) \in [1..Len(t) -> Seq(A)]
    BY <2>1, <2>2
  <2> HIDE DEF each
  <2> QED
    BY <2>2, <2>3
<1>2. last \in Seq(A)
  OBVIOUS
<1>3. Append(s, x) \in Seq(A) /\ Len(Append(s, x)) = Len(s) + 1
  OBVIOUS
<1>4. each(Append(s, x)) = Append(each(s), last)
  <2>1. each(Append(s, x)) \in Seq(Seq(A)) /\ Len(each(Append(s, x))) = Len(s) + 1
    BY <1>1, <1>3
  <2>2. Append(each(s), last) \in Seq(Seq(A)) /\ Len(Append(each(s), last)) = Len(s) + 1
    BY <1>1, <1>2
  <2>3. ASSUME NEW i \in 1..(Len(s) + 1)
        PROVE  each(Append(s, x))[i] = Append(each(s), last)[i]
    <3>1. CASE i = Len(s) + 1
      <4>1. Append(s, x)[i] = x /\ i \in DOMAIN Append(s, x)
        BY <1>3, <3>1
      <4>2. each(Append(s, x))[i] = last
        BY <4>1
      <4>3. Append(each(s), last)[i] = last
        <5> HIDE DEF each, last
        <5> QED
          BY <1>1, <1>2, <3>1
      <4> QED
        BY <4>2, <4>3
    <3>2. CASE i # Len(s) + 1
      <4>1. i \in 1..Len(s) /\ Append(s, x)[i] = s[i] /\ i \in DOMAIN Append(s, x)
        BY <1>3, <3>2
      <4>2. each(Append(s, x))[i] = each(s)[i]
        BY <4>1
      <4>3. Append(each(s), last)[i] = each(s)[i]
        <5> HIDE DEF each, last
        <5> QED
          BY <1>1, <1>2, <4>1
      <4> QED
        BY <4>2, <4>3
    <3> QED
      BY <3>1, <3>2
  <2> HIDE DEF each, last
  <2> QED
    BY <2>1, <2>2, <2>3, SeqEqual
<1>5. Selected(s, S) = FlattenSeq(each(s))
  BY DEF Selected
<1>6. Selected(Append(s, x), S) = FlattenSeq(each(Append(s, x)))
  BY DEF Selected
<1> HIDE DEF each
<1>7. /\ Selected(s, S) \in Seq(A)
      /\ Selected(Append(s, x), S) = Selected(s, S) \o last
  <2> HIDE DEF last
  <2> QED
    BY <1>1, <1>2, <1>4, <1>5, <1>6, FlattenSeqOfAppend
<1>8. CASE x \in S
  BY <1>7, <1>8, AppendIsConcat
<1>9. CASE x \notin S
  BY <1>7, <1>9, ConcatEmptySeq
<1> QED
  BY <1>7, <1>8, <1>9

LEMMA SelectedOfEmpty == \A S : Selected(<< >>, S) = << >>
BY DEF Selected, FlattenSeq

\* The elements of a sequence, and an element more.
LEMMA RangeProperties ==
  ASSUME NEW A, NEW s \in Seq(A)
  PROVE  /\ IsFiniteSet(Range(s)) /\ Range(s) \subseteq A
         /\ \A x \in A : Range(Append(s, x)) = Range(s) \union {x}
         /\ \A i \in 1..Len(s) : s[i] \in Range(s)
<1>1. Len(s) \in Nat /\ DOMAIN s = 1..Len(s) /\ \A i \in 1..Len(s) : s[i] \in A
  BY ElementOfSeq
<1>2. IsFiniteSet(Range(s))
  <2>1. IsFiniteSet(1..Len(s))
    BY <1>1, FS_Interval
  <2>2. s \in Surjection(1..Len(s), Range(s))
    BY <1>1 DEF Surjection, Range
  <2> QED
    BY <2>1, <2>2, FS_Surjection
<1>3. ASSUME NEW x \in A PROVE Range(Append(s, x)) = Range(s) \union {x}
  <2>1. /\ DOMAIN Append(s, x) = 1..(Len(s) + 1)
        /\ Append(s, x)[Len(s) + 1] = x /\ \A i \in 1..Len(s) : Append(s, x)[i] = s[i]
    OBVIOUS
  <2> QED
    BY <1>1, <2>1 DEF Range
<1> QED
  BY <1>1, <1>2, <1>3 DEF Range

\* What is selected are the elements of s in S, each once if it is once in s.
LEMMA SelectedProperties ==
  ASSUME NEW A, NEW S, NEW s \in Seq(A)
  PROVE  /\ Selected(s, S) \in Seq(A)
         /\ Range(Selected(s, S)) = Range(s) \intersect S
         /\ IsInjective(s) => IsInjective(Selected(s, S))
<1> DEFINE Good(t) == /\ Selected(t, S) \in Seq(A)
                      /\ Range(Selected(t, S)) = Range(t) \intersect S
                      /\ IsInjective(t) => IsInjective(Selected(t, S))
           P == {t \in Seq(A) : Good(t)}
<1>1. ASSUME NEW t \in Seq(A), NEW x \in A
      PROVE  /\ Range(Append(t, x)) = Range(t) \union {x}
             /\ IsInjective(Append(t, x)) <=> IsInjective(t) /\ x \notin Range(t)
  <2>1. /\ DOMAIN t = 1..Len(t) /\ DOMAIN Append(t, x) = 1..(Len(t) + 1) /\ Len(t) \in Nat
        /\ Append(t, x)[Len(t) + 1] = x /\ \A i \in 1..Len(t) : Append(t, x)[i] = t[i]
    OBVIOUS
  <2>2. Range(Append(t, x)) = Range(t) \union {x}
    BY <2>1 DEF Range
  <2>3. ASSUME IsInjective(Append(t, x)) PROVE IsInjective(t) /\ x \notin Range(t)
    BY <2>1, <2>3 DEF Range, IsInjective
  <2>4. ASSUME IsInjective(t), x \notin Range(t) PROVE IsInjective(Append(t, x))
    <3> SUFFICES ASSUME NEW i \in 1..(Len(t) + 1), NEW j \in 1..(Len(t) + 1),
                        Append(t, x)[i] = Append(t, x)[j]
                 PROVE  i = j
      BY <2>1 DEF IsInjective
    <3>1. \A k \in 1..(Len(t) + 1) : k = Len(t) + 1 \/ k \in 1..Len(t)
      BY <2>1
    <3>2. \A k \in 1..Len(t) : t[k] # x
      BY <2>1, <2>4 DEF Range
    <3> QED
      BY <2>1, <2>4, <3>1, <3>2 DEF IsInjective
  <2> QED
    BY <2>2, <2>3, <2>4
<1>2. << >> \in P
  <2>1. << >> \in Seq(A) /\ Selected(<< >>, S) = << >>
    BY SelectedOfEmpty
  <2>2. Range(<< >>) = {}
    BY DEF Range
  <2> QED
    BY <2>1, <2>2
<1>3. ASSUME NEW t \in Seq(A), NEW x \in A, t \in P PROVE Append(t, x) \in P
  <2>1. Append(t, x) \in Seq(A)
    OBVIOUS
  <2>2. CASE x \in S
    <3>1. Selected(Append(t, x), S) = Append(Selected(t, S), x) /\ Selected(t, S) \in Seq(A)
      BY <2>2, SelectedOfAppend
    <3>2. Append(Selected(t, S), x) \in Seq(A)
      BY <3>1
    <3>3. /\ Range(Append(Selected(t, S), x)) = Range(Selected(t, S)) \union {x}
          /\ IsInjective(Append(Selected(t, S), x)) <=>
               IsInjective(Selected(t, S)) /\ x \notin Range(Selected(t, S))
      BY <1>1, <3>1
    <3>4. /\ Range(Selected(t, S)) = Range(t) \intersect S
          /\ IsInjective(t) => IsInjective(Selected(t, S))
      BY <1>3
    <3>5. /\ Range(Append(t, x)) = Range(t) \union {x}
          /\ IsInjective(Append(t, x)) <=> IsInjective(t) /\ x \notin Range(t)
      BY <1>1
    <3>6. Range(Selected(Append(t, x), S)) = Range(Append(t, x)) \intersect S
      BY <2>2, <3>1, <3>3, <3>4, <3>5
    <3>7. IsInjective(Append(t, x)) => IsInjective(Selected(Append(t, x), S))
      BY <3>1, <3>3, <3>4, <3>5
    <3> QED
      BY <2>1, <3>1, <3>2, <3>6, <3>7
  <2>3. CASE x \notin S
    <3>1. Selected(Append(t, x), S) = Selected(t, S)
      BY <2>3, SelectedOfAppend
    <3> QED
      BY <1>1, <1>3, <2>1, <2>3, <3>1
  <2> QED
    BY <2>2, <2>3
<1> HIDE DEF P
<1>4. s \in P
  BY <1>2, <1>3, PrefixInduction
<1> QED
  BY <1>4 DEF P

\* Selecting everything changes nothing.
LEMMA SelectedAll ==
  ASSUME NEW A, NEW S, NEW s \in Seq(A), Range(s) \subseteq S
  PROVE  Selected(s, S) = s
<1> DEFINE P == {t \in Seq(A) : Range(t) \subseteq S => Selected(t, S) = t}
<1>1. << >> \in P
  BY SelectedOfEmpty
<1>2. ASSUME NEW t \in Seq(A), NEW x \in A, t \in P PROVE Append(t, x) \in P
  <2>1. Range(Append(t, x)) = Range(t) \union {x} /\ Append(t, x) \in Seq(A)
    BY RangeProperties
  <2>2. Selected(Append(t, x), S) = IF x \in S THEN Append(Selected(t, S), x) ELSE Selected(t, S)
    BY SelectedOfAppend
  <2> QED
    BY <1>2, <2>1, <2>2
<1>3. s \in P
  BY <1>1, <1>2, PrefixInduction
<1> QED
  BY <1>3

\* Selecting from a selection.
LEMMA SelectedTwice ==
  ASSUME NEW A, NEW S, NEW T, NEW s \in Seq(A)
  PROVE  Selected(Selected(s, S), T) = Selected(s, S \intersect T)
<1> DEFINE P == {t \in Seq(A) : Selected(Selected(t, S), T) = Selected(t, S \intersect T)}
<1>1. << >> \in P
  BY SelectedOfEmpty
<1>2. ASSUME NEW t \in Seq(A), NEW x \in A, t \in P PROVE Append(t, x) \in P
  <2>1. /\ Selected(t, S) \in Seq(A)
        /\ Selected(Append(t, x), S) = IF x \in S THEN Append(Selected(t, S), x) ELSE Selected(t, S)
    BY SelectedOfAppend
  <2>2. Selected(Append(t, x), S \intersect T) =
          IF x \in S \intersect T THEN Append(Selected(t, S \intersect T), x)
                                  ELSE Selected(t, S \intersect T)
    BY SelectedOfAppend
  <2>3. Selected(Append(Selected(t, S), x), T) =
          IF x \in T THEN Append(Selected(Selected(t, S), T), x) ELSE Selected(Selected(t, S), T)
    BY <2>1, SelectedOfAppend
  <2>4. Append(t, x) \in Seq(A)
    OBVIOUS
  <2>5. Selected(Selected(t, S), T) = Selected(t, S \intersect T)
    BY <1>2
  <2>6. Selected(Selected(Append(t, x), S), T) = Selected(Append(t, x), S \intersect T)
    <3>1. CASE x \notin S
      <4>1. Selected(Append(t, x), S) = Selected(t, S)
        BY <2>1, <3>1
      <4>2. Selected(Append(t, x), S \intersect T) = Selected(t, S \intersect T)
        BY <2>2, <3>1
      <4> QED
        BY <2>5, <4>1, <4>2
    <3>2. CASE x \in S
      <4>1. Selected(Append(t, x), S) = Append(Selected(t, S), x) /\ (x \in S \intersect T <=> x \in T)
        BY <2>1, <3>2
      <4> QED
        BY <2>2, <2>3, <2>5, <4>1
    <3> QED
      BY <3>1, <3>2
  <2> QED
    BY <2>4, <2>6
<1>3. s \in P
  BY <1>1, <1>2, PrefixInduction
<1> QED
  BY <1>3

\* How many elements are selected.
LEMMA LenOfSelected ==
  ASSUME NEW A, NEW S, NEW s \in Seq(A)
  PROVE  /\ IsFiniteSet({i \in DOMAIN s : s[i] \in S})
         /\ Len(Selected(s, S)) = Cardinality({i \in DOMAIN s : s[i] \in S})
<1> DEFINE At(t) == {i \in DOMAIN t : t[i] \in S}
           P == {t \in Seq(A) : Len(Selected(t, S)) = Cardinality(At(t))}
<1>1. \A t \in Seq(A) : IsFiniteSet(At(t)) /\ At(t) \subseteq 1..Len(t)
  <2> SUFFICES ASSUME NEW t \in Seq(A) PROVE IsFiniteSet(At(t)) /\ At(t) \subseteq 1..Len(t)
    OBVIOUS
  <2>1. At(t) \subseteq 1..Len(t) /\ Len(t) \in Nat
    OBVIOUS
  <2>2. IsFiniteSet(1..Len(t))
    BY <2>1, FS_Interval
  <2> QED
    BY <2>1, <2>2, FS_Subset
<1>2. << >> \in P
  <2>1. At(<< >>) = {}
    OBVIOUS
  <2>2. Cardinality(At(<< >>)) = 0
    BY <2>1, FS_EmptySet
  <2>3. << >> \in Seq(A) /\ Len(Selected(<< >>, S)) = 0
    BY SelectedOfEmpty
  <2> QED
    BY <2>2, <2>3
<1>3. ASSUME NEW t \in Seq(A), NEW x \in A, t \in P PROVE Append(t, x) \in P
  <2>1. /\ Selected(t, S) \in Seq(A) /\ Append(t, x) \in Seq(A)
        /\ Selected(Append(t, x), S) = IF x \in S THEN Append(Selected(t, S), x) ELSE Selected(t, S)
    BY SelectedOfAppend
  <2>2. /\ DOMAIN t = 1..Len(t) /\ DOMAIN Append(t, x) = 1..(Len(t) + 1) /\ Len(t) \in Nat
        /\ Append(t, x)[Len(t) + 1] = x /\ \A i \in 1..Len(t) : Append(t, x)[i] = t[i]
    OBVIOUS
  <2>3. Cardinality(At(t)) = Len(Selected(t, S)) /\ Len(Selected(t, S)) \in Nat
    BY <1>3, <2>1
  <2>4. CASE x \in S
    <3>1. At(Append(t, x)) = At(t) \union {Len(t) + 1} /\ Len(t) + 1 \notin At(t)
      BY <2>2, <2>4
    <3>2. Cardinality(At(t) \union {Len(t) + 1}) = Cardinality(At(t)) + 1
      BY <1>1, <3>1, FS_AddElement
    <3>3. Len(Append(Selected(t, S), x)) = Len(Selected(t, S)) + 1
      BY <2>1
    <3> HIDE DEF At
    <3> QED
      BY <2>1, <2>3, <2>4, <3>1, <3>2, <3>3
  <2>5. CASE x \notin S
    <3>1. At(Append(t, x)) = At(t)
      BY <2>2, <2>5
    <3> HIDE DEF At
    <3> QED
      BY <2>1, <2>3, <2>5, <3>1
  <2> QED
    BY <2>4, <2>5
<1>4. s \in P
  BY <1>2, <1>3, PrefixInduction
<1> QED
  BY <1>1, <1>4

\* Sets that agree on s select the same.
LEMMA SelectedAgrees ==
  ASSUME NEW A, NEW S, NEW T, NEW s \in Seq(A), Range(s) \intersect S = Range(s) \intersect T
  PROVE  Selected(s, S) = Selected(s, T)
<1>1. \A i \in DOMAIN s : s[i] \in S <=> s[i] \in T
  BY DEF Range
<1>2. [i \in DOMAIN s |-> IF s[i] \in S THEN <<s[i]>> ELSE << >>] =
      [i \in DOMAIN s |-> IF s[i] \in T THEN <<s[i]>> ELSE << >>]
  BY <1>1
<1> QED
  BY <1>2 DEF Selected

-----------------------------------------------------------------------------
(***************************************************************************)
(* Sums over finite sets                                                   *)
(***************************************************************************)
\* Induction over the subsets of a finite set.
LEMMA SubsetInduction ==
  ASSUME NEW S, IsFiniteSet(S), NEW P,
         \A T \in SUBSET S : (\A x \in T : T \ {x} \in P) => T \in P
  PROVE  \A T \in SUBSET S : T \in P
<1> DEFINE n == Cardinality(S)
           I == {i \in 0..n : \A T \in SUBSET S : Cardinality(T) = i => T \in P}
<1>1. n \in Nat
  BY FS_CardinalityType
<1>2. \A T \in SUBSET S : IsFiniteSet(T) /\ Cardinality(T) \in 0..n
  <2> SUFFICES ASSUME NEW T \in SUBSET S PROVE IsFiniteSet(T) /\ Cardinality(T) \in 0..n
    OBVIOUS
  <2>1. IsFiniteSet(T) /\ Cardinality(T) <= n
    BY FS_Subset
  <2>2. Cardinality(T) \in Nat
    BY <2>1, FS_CardinalityType
  <2> QED
    BY <1>1, <2>1, <2>2
<1> HIDE DEF n
<1>3. 0 \in I
  <2>1. \A T \in SUBSET S : Cardinality(T) = 0 => T = {}
    BY <1>2, FS_EmptySet
  <2> QED
    BY <1>1, <2>1
<1>4. ASSUME NEW i \in 1..n, i - 1 \in I PROVE i \in I
  <2> SUFFICES ASSUME NEW T \in SUBSET S, Cardinality(T) = i PROVE T \in P
    BY <1>1
  <2>1. ASSUME NEW x \in T PROVE T \ {x} \in P
    <3>1. T \ {x} \in SUBSET S /\ Cardinality(T \ {x}) = i - 1
      BY <1>2, FS_RemoveElement
    <3> QED
      BY <1>4, <3>1
  <2> QED
    BY <2>1
<1> HIDE DEF I
<1>5. \A i \in 0..n : i \in I
  BY <1>1, <1>3, <1>4, Induction
<1> QED
  BY <1>2, <1>5 DEF I

\* f adds up w over every subset of S, one element of the subset first.
First(T) == CHOOSE x \in T : TRUE
AddsUp(f, w, S) ==
  f = [T \in SUBSET S |-> IF T = {} THEN 0 ELSE w[First(T)] + f[T \ {First(T)}]]
Ints(w, S) == \A x \in S : w[x] \in Int

LEMMA SumIsChosen ==
  ASSUME NEW S, NEW w
  PROVE  SumFunctionOnSet(w, S) = (CHOOSE f : AddsUp(f, w, S))[S]
BY DEF SumFunctionOnSet, FoldFunctionOnSet, MapThenFoldSet, AddsUp, First

LEMMA FirstIsIn == ASSUME NEW T, T # {} PROVE First(T) \in T
BY DEF First

LEMMA AddsUpStep ==
  ASSUME NEW S, NEW w, Ints(w, S), NEW f, AddsUp(f, w, S)
  PROVE  /\ f[{}] = 0
         /\ \A T \in SUBSET S : T # {} =>
              /\ First(T) \in T /\ w[First(T)] \in Int /\ T \ {First(T)} \in SUBSET S
              /\ f[T] = w[First(T)] + f[T \ {First(T)}]
<1>1. \A T \in SUBSET S : f[T] = IF T = {} THEN 0 ELSE w[First(T)] + f[T \ {First(T)}]
  BY DEF AddsUp
<1>2. ASSUME NEW T \in SUBSET S, T # {}
      PROVE  First(T) \in T /\ w[First(T)] \in Int /\ T \ {First(T)} \in SUBSET S
  BY <1>2, FirstIsIn DEF Ints
<1>3. {} \in SUBSET S
  OBVIOUS
<1> QED
  BY <1>1, <1>2, <1>3

\* Such a function exists: it is built up from the small subsets on.
LEMMA SumExists ==
  ASSUME NEW S, IsFiniteSet(S), NEW w, Ints(w, S)
  PROVE  \E f : AddsUp(f, w, S)
<1> DEFINE Small(i) == {T \in SUBSET S : Cardinality(T) <= i}
           Ok(f, i) == /\ f \in [Small(i) -> Int]
                       /\ \A T \in Small(i) :
                            f[T] = IF T = {} THEN 0 ELSE w[First(T)] + f[T \ {First(T)}]
           n == Cardinality(S)
           I == {i \in 0..n : \E f : Ok(f, i)}
<1>1. n \in Nat
  BY FS_CardinalityType
<1>2. \A T \in SUBSET S : IsFiniteSet(T) /\ Cardinality(T) \in 0..n
  <2> SUFFICES ASSUME NEW T \in SUBSET S PROVE IsFiniteSet(T) /\ Cardinality(T) \in 0..n
    OBVIOUS
  <2>1. IsFiniteSet(T) /\ Cardinality(T) <= n
    BY FS_Subset
  <2>2. Cardinality(T) \in Nat
    BY <2>1, FS_CardinalityType
  <2> QED
    BY <1>1, <2>1, <2>2
<1> HIDE DEF n
<1>3. 0 \in I
  <2>1. \A T \in Small(0) : T = {}
    BY <1>2, FS_EmptySet
  <2>2. PICK f : f = [T \in Small(0) |-> 0]
    OBVIOUS
  <2>3. Ok(f, 0)
    <3> HIDE DEF Small
    <3> QED
      BY <2>1, <2>2
  <2> HIDE DEF Ok
  <2> QED
    BY <1>1, <2>3
<1>4. ASSUME NEW i \in 1..n, i - 1 \in I PROVE i \in I
  <2>1. PICK f : Ok(f, i - 1)
    BY <1>4
  <2>2. ASSUME NEW T \in Small(i), T # {}
        PROVE  First(T) \in S /\ w[First(T)] \in Int /\ T \ {First(T)} \in Small(i - 1)
    <3>1. First(T) \in T
      BY <2>2, FirstIsIn
    <3>2. Cardinality(T \ {First(T)}) = Cardinality(T) - 1
      BY <1>2, <2>2, <3>1, FS_RemoveElement
    <3> QED
      BY <1>1, <1>2, <2>2, <3>1, <3>2 DEF Ints
  <2>3. \A T \in Small(i - 1) : T \in Small(i) /\ f[T] \in Int
    BY <1>1, <1>2, <2>1
  <2>4. PICK g : g = [T \in Small(i) |->
                        IF T = {} THEN 0 ELSE w[First(T)] + f[T \ {First(T)}]]
    OBVIOUS
  <2> HIDE DEF Small
  <2>5. \A T \in Small(i) : g[T] = IF T = {} THEN 0 ELSE w[First(T)] + f[T \ {First(T)}]
    BY <2>4
  <2>6. \A T \in Small(i - 1) : g[T] = f[T]
    BY <2>1, <2>3, <2>5
  <2>7. \A T \in Small(i) : g[T] \in Int
    <3> SUFFICES ASSUME NEW T \in Small(i) PROVE g[T] \in Int
      OBVIOUS
    <3>1. CASE T = {}
      BY <2>5, <3>1
    <3>2. CASE T # {}
      <4>1. w[First(T)] \in Int /\ f[T \ {First(T)}] \in Int
        BY <2>2, <2>3, <3>2
      <4> QED
        BY <2>5, <3>2, <4>1
    <3> QED
      BY <3>1, <3>2
  <2>8. g \in [Small(i) -> Int]
    BY <2>4, <2>5, <2>7
  <2>9. ASSUME NEW T \in Small(i)
        PROVE  g[T] = IF T = {} THEN 0 ELSE w[First(T)] + g[T \ {First(T)}]
    BY <2>2, <2>5, <2>6
  <2>10. Ok(g, i)
    BY <2>8, <2>9
  <2> HIDE DEF Ok
  <2> QED
    BY <2>10
<1> HIDE DEF I
<1>5. \A i \in 0..n : i \in I
  BY <1>1, <1>3, <1>4, Induction
<1>6. PICK f : Ok(f, n)
  <2>1. n \in I
    BY <1>1, <1>5
  <2> HIDE DEF Ok
  <2> QED
    BY <2>1 DEF I
<1>7. Small(n) = SUBSET S
  BY <1>1, <1>2
<1>8. AddsUp(f, w, S)
  BY <1>6, <1>7 DEF AddsUp
<1> QED
  BY <1>8

\* What it says of a subset is the sum over that subset.
LEMMA SumOfSubset ==
  ASSUME NEW S, IsFiniteSet(S), NEW w, Ints(w, S), NEW f, AddsUp(f, w, S)
  PROVE  \A T \in SUBSET S : f[T] = SumFunctionOnSet(w, T) /\ f[T] \in Int
<1>1. ASSUME NEW U \in SUBSET S, NEW g, AddsUp(g, w, U)
      PROVE  \A T \in SUBSET U : g[T] = f[T] /\ g[T] \in Int
  <2> DEFINE P == {T \in SUBSET U : g[T] = f[T] /\ g[T] \in Int}
  <2>1. IsFiniteSet(U) /\ Ints(w, U)
    BY FS_Subset DEF Ints
  <2>2. ASSUME NEW T \in SUBSET U, \A x \in T : T \ {x} \in P PROVE T \in P
    <3>1. CASE T = {}
      <4>1. g[{}] = 0 /\ f[{}] = 0
        BY <1>1, <2>1, AddsUpStep
      <4> QED
        BY <3>1, <4>1
    <3>2. CASE T # {}
      <4>1. /\ First(T) \in T /\ w[First(T)] \in Int
            /\ g[T] = w[First(T)] + g[T \ {First(T)}]
        BY <1>1, <2>1, <3>2, AddsUpStep
      <4>2. T \in SUBSET S
        OBVIOUS
      <4>3. f[T] = w[First(T)] + f[T \ {First(T)}]
        BY <3>2, <4>2, AddsUpStep
      <4>4. T \ {First(T)} \in P
        BY <2>2, <4>1
      <4> QED
        BY <4>1, <4>3, <4>4
    <3> QED
      BY <3>1, <3>2
  <2> HIDE DEF P
  <2>3. \A T \in SUBSET U : T \in P
    BY <2>1, <2>2, SubsetInduction
  <2> QED
    BY <2>3 DEF P
<1> SUFFICES ASSUME NEW T \in SUBSET S PROVE f[T] = SumFunctionOnSet(w, T) /\ f[T] \in Int
  OBVIOUS
<1> DEFINE g == CHOOSE h : AddsUp(h, w, T)
<1>2. IsFiniteSet(T) /\ Ints(w, T)
  BY FS_Subset DEF Ints
<1>3. AddsUp(g, w, T)
  BY <1>2, SumExists
<1>4. SumFunctionOnSet(w, T) = g[T]
  BY SumIsChosen
<1> HIDE DEF g
<1> QED
  BY <1>1, <1>3, <1>4

\* The sum over nothing,
LEMMA SumOfNone == ASSUME NEW w PROVE SumFunctionOnSet(w, {}) = 0
<1>1. IsFiniteSet({}) /\ Ints(w, {})
  BY FS_EmptySet DEF Ints
<1>2. PICK f : AddsUp(f, w, {})
  BY <1>1, SumExists
<1>3. f[{}] = 0
  BY <1>1, <1>2, AddsUpStep
<1>4. \A T \in SUBSET {} : f[T] = SumFunctionOnSet(w, T)
  BY <1>1, <1>2, SumOfSubset
<1> QED
  BY <1>3, <1>4

\* and any one element taken out of a sum.
LEMMA SumTakesOut ==
  ASSUME NEW S, IsFiniteSet(S), NEW w, Ints(w, S)
  PROVE  /\ SumFunctionOnSet(w, S) \in Int
         /\ \A x \in S : /\ SumFunctionOnSet(w, S \ {x}) \in Int
                         /\ SumFunctionOnSet(w, S) = w[x] + SumFunctionOnSet(w, S \ {x})
<1>1. PICK f : AddsUp(f, w, S)
  BY SumExists
<1>2. \A T \in SUBSET S : f[T] = SumFunctionOnSet(w, T) /\ f[T] \in Int
  BY <1>1, SumOfSubset
<1> DEFINE P == {T \in SUBSET S : \A y \in T : f[T] = w[y] + f[T \ {y}]}
<1>3. ASSUME NEW T \in SUBSET S, \A x \in T : T \ {x} \in P PROVE T \in P
  <2> SUFFICES ASSUME NEW y \in T PROVE f[T] = w[y] + f[T \ {y}]
    OBVIOUS
  <2>1. PICK c \in T : w[c] \in Int /\ f[T] = w[c] + f[T \ {c}]
    <3>1. T # {} /\ T \in SUBSET S
      OBVIOUS
    <3>2. /\ First(T) \in T /\ w[First(T)] \in Int
          /\ f[T] = w[First(T)] + f[T \ {First(T)}]
      BY <1>1, <3>1, AddsUpStep
    <3> QED
      BY <3>2
  <2>2. CASE y = c
    BY <2>1, <2>2
  <2>3. CASE y # c
    <3> DEFINE R == (T \ {c}) \ {y}
    <3>1. w[y] \in Int
      BY DEF Ints
    <3>2. T \ {c} \in P /\ T \ {y} \in P
      BY <1>3
    <3>3. f[T \ {c}] = w[y] + f[R]
      BY <2>3, <3>2
    <3>4. (T \ {y}) \ {c} = R
      OBVIOUS
    <3>5. f[T \ {y}] = w[c] + f[R]
      BY <2>3, <3>2, <3>4
    <3>6. f[R] \in Int
      BY <1>2
    <3> HIDE DEF R
    <3> QED
      BY <2>1, <3>1, <3>3, <3>5, <3>6
  <2> QED
    BY <2>2, <2>3
<1> HIDE DEF P
<1>4. S \in P
  BY <1>3, SubsetInduction, ZenonT(40)
<1>5. \A x \in S : f[S] = w[x] + f[S \ {x}]
  BY <1>4 DEF P
<1>6. \A x \in S : S \ {x} \in SUBSET S
  OBVIOUS
<1> QED
  BY <1>2, <1>5, <1>6

\* An element more,
LEMMA SumAdds ==
  ASSUME NEW S, IsFiniteSet(S), NEW x, x \notin S, NEW w, Ints(w, S), w[x] \in Int
  PROVE  /\ SumFunctionOnSet(w, S) \in Int
         /\ SumFunctionOnSet(w, S \union {x}) = w[x] + SumFunctionOnSet(w, S)
<1> DEFINE T == S \union {x}
<1>1. IsFiniteSet(T)
  BY FS_AddElement
<1>2. Ints(w, T) /\ x \in T /\ T \ {x} = S
  BY DEF Ints
<1> HIDE DEF T
<1>3. SumFunctionOnSet(w, T) = w[x] + SumFunctionOnSet(w, S) /\ SumFunctionOnSet(w, S) \in Int
  BY <1>1, <1>2, SumTakesOut
<1> QED
  BY <1>3 DEF T

\* the same numbers,
LEMMA SumAgrees ==
  ASSUME NEW S, IsFiniteSet(S), NEW w, NEW v, Ints(w, S), \A x \in S : v[x] = w[x]
  PROVE  SumFunctionOnSet(v, S) = SumFunctionOnSet(w, S)
<1> DEFINE P == {T \in SUBSET S : SumFunctionOnSet(v, T) = SumFunctionOnSet(w, T)}
<1>1. ASSUME NEW T \in SUBSET S, \A x \in T : T \ {x} \in P PROVE T \in P
  <2>1. CASE T = {}
    BY <2>1, SumOfNone
  <2>2. CASE T # {}
    <3>1. PICK x \in T : TRUE
      BY <2>2
    <3>2. IsFiniteSet(T) /\ Ints(w, T) /\ Ints(v, T) /\ v[x] = w[x]
      BY FS_Subset DEF Ints
    <3>3. SumFunctionOnSet(w, T) = w[x] + SumFunctionOnSet(w, T \ {x})
      BY <3>2, SumTakesOut
    <3>4. SumFunctionOnSet(v, T) = v[x] + SumFunctionOnSet(v, T \ {x})
      BY <3>2, SumTakesOut
    <3> QED
      BY <1>1, <3>2, <3>3, <3>4
  <2> QED
    BY <2>1, <2>2
<1> HIDE DEF P
<1>2. \A T \in SUBSET S : T \in P
  BY <1>1, SubsetInduction
<1> QED
  BY <1>2 DEF P

\* and numbers that are not negative.
LEMMA SumIsNat ==
  ASSUME NEW S, IsFiniteSet(S), NEW w, \A x \in S : w[x] \in Nat
  PROVE  SumFunctionOnSet(w, S) \in Nat
<1> DEFINE P == {T \in SUBSET S : SumFunctionOnSet(w, T) \in Nat}
<1>1. ASSUME NEW T \in SUBSET S, \A x \in T : T \ {x} \in P PROVE T \in P
  <2>1. CASE T = {}
    BY <2>1, SumOfNone
  <2>2. CASE T # {}
    <3>1. PICK x \in T : TRUE
      BY <2>2
    <3>2. IsFiniteSet(T) /\ Ints(w, T) /\ w[x] \in Nat
      BY FS_Subset DEF Ints
    <3>3. SumFunctionOnSet(w, T) = w[x] + SumFunctionOnSet(w, T \ {x})
      BY <3>2, SumTakesOut
    <3> QED
      BY <1>1, <3>2, <3>3
  <2> QED
    BY <2>1, <2>2
<1> HIDE DEF P
<1>2. \A T \in SUBSET S : T \in P
  BY <1>1, SubsetInduction
<1> QED
  BY <1>2 DEF P

\* A finite set that is not empty has an element of greatest weight, a finite
\* set of numbers a greatest and a set of naturals a least one.
LEMMA Heaviest ==
  ASSUME NEW S, IsFiniteSet(S), S # {}, NEW w, Ints(w, S)
  PROVE  \E x \in S : \A y \in S : w[y] <= w[x]
<1> DEFINE P == {T \in SUBSET S : T # {} => \E x \in T : \A y \in T : w[y] <= w[x]}
<1>1. ASSUME NEW T \in SUBSET S, \A x \in T : T \ {x} \in P PROVE T \in P
  <2> SUFFICES ASSUME T # {} PROVE \E x \in T : \A y \in T : w[y] <= w[x]
    OBVIOUS
  <2>1. \A y \in T : w[y] \in Int
    BY DEF Ints
  <2>2. PICK c \in T : TRUE
    OBVIOUS
  <2>3. CASE T \ {c} = {}
    BY <2>1, <2>2, <2>3
  <2>4. CASE T \ {c} # {}
    <3>1. PICK x \in T \ {c} : \A y \in T \ {c} : w[y] <= w[x]
      BY <1>1, <2>4
    <3>2. CASE w[c] <= w[x]
      BY <3>1, <3>2
    <3>3. CASE ~(w[c] <= w[x])
      <4>1. \A y \in T : w[y] <= w[c]
        BY <2>1, <3>1, <3>3
      <4> QED
        BY <4>1
    <3> QED
      BY <3>2, <3>3
  <2> QED
    BY <2>3, <2>4
<1>2. \A T \in SUBSET S : T \in P
  BY <1>1, SubsetInduction
<1>3. S \in P
  BY <1>2
<1> QED
  BY <1>3

LEMMA MaxProperties ==
  ASSUME NEW S \in SUBSET Int, IsFiniteSet(S), S # {}
  PROVE  Max(S) \in S /\ \A y \in S : y <= Max(S)
<1> DEFINE w == [x \in S |-> x]
<1>1. Ints(w, S)
  BY DEF Ints
<1>2. PICK x \in S : \A y \in S : w[y] <= w[x]
  BY <1>1, Heaviest
<1>3. \A y \in S : x >= y
  BY <1>2
<1> QED
  BY <1>3 DEF Max

LEMMA MinProperties ==
  ASSUME NEW S \in SUBSET Nat, S # {}
  PROVE  Min(S) \in S /\ \A y \in S : Min(S) <= y
BY Least DEF Min
=============================================================================
