------------------------------ MODULE ListLemmas ------------------------------
(***************************************************************************)
(* Facts about lists that hold nobody twice, for the proofs about lists of *)
(* waiters and queues: std::list::remove and erase as RemoveFirst,         *)
(* push_back as Append, pop_front as Tail, push_front as <<t>> \o s; that   *)
(* naturals have a least one, where a loop looks for it; and what follows  *)
(* for a loop over a list: a recursive function on the numbers up to its   *)
(* length exists, is the only one, and is reasoned about by induction;     *)
(* that joining lists is associative; and that a finite set has a list     *)
(* that holds each of its elements once.                                   *)
(***************************************************************************)
EXTENDS Integers, SequencesExt, SequenceTheorems, FiniteSetTheorems, WellFoundedInduction, TLAPS

\* RemoveFirst removes the one occurrence of an element from a list.
LEMMA RemoveFirstProperties ==
    ASSUME NEW S, NEW s \in Seq(S), IsInjective(s), NEW t \in ToSet(s)
    PROVE  /\ RemoveFirst(s, t) \in Seq(S)
           /\ Len(RemoveFirst(s, t)) = Len(s) - 1
           /\ IsInjective(RemoveFirst(s, t))
           /\ ToSet(RemoveFirst(s, t)) = ToSet(s) \ {t}
  <1> DEFINE n == Len(s)
             w == RemoveFirst(s, t)
  <1>1. PICK i \in 1 .. n : s[i] = t
    BY DEF ToSet
  <1>2. n \in Nat /\ DOMAIN s = 1 .. n /\ \A k \in 1 .. n : s[k] = t <=> k = i
    BY <1>1 DEF IsInjective
  <1>9. \A k \in 1 .. n : s[k] \in S
    BY <1>1
  <1> DEFINE p == SubSeq(s, 1, i - 1)
             q == SubSeq(s, i + 1, n)
  <1>3. p \in Seq(S) /\ Len(p) = i - 1 /\ \A k \in 1 .. i - 1 : p[k] = s[k]
    BY <1>1, <1>9
  <1>4. q \in Seq(S) /\ Len(q) = n - i /\ \A k \in 1 .. n - i : q[k] = s[i + k]
    <2>1. i + 1 \in Int /\ n \in Int /\ \A k \in i + 1 .. n : s[k] \in S
      BY <1>1, <1>9
    <2>2. /\ q \in Seq(S) /\ Len(q) = IF i + 1 <= n THEN n - (i + 1) + 1 ELSE 0
          /\ \A k \in 1 .. n - (i + 1) + 1 : q[k] = s[i + 1 + k - 1]
      BY <2>1, SubSeqProperties
    <2> HIDE DEF q
    <2>3. Len(q) = n - i
      BY <1>1, <2>2
    <2>4. ASSUME NEW k \in 1 .. n - i PROVE q[k] = s[i + k]
      <3>1. i + 1 + k - 1 = i + k /\ k \in 1 .. n - (i + 1) + 1
        BY <1>1
      <3> QED
        BY <2>2, <3>1
    <2> QED
      BY <2>2, <2>3, <2>4
  <1>5. w = p \o q
    <2>1. {k \in 1 .. n : s[k] = t} = {i}
      BY <1>2
    <2>2. SelectInSeq(s, LAMBDA v : v = t) = i
      BY <2>1 DEF SelectInSeq, Min
    <2> QED
      BY <1>1, <2>2 DEF RemoveFirst, RemoveAt
  <1> HIDE DEF p, q, w
  <1>6. /\ w \in Seq(S) /\ Len(w) = n - 1
        /\ \A k \in 1 .. n - 1 : w[k] = IF k < i THEN s[k] ELSE s[k + 1]
    <2>1. /\ w \in Seq(S) /\ Len(w) = Len(p) + Len(q)
          /\ \A k \in 1 .. Len(p) + Len(q) : w[k] = IF k <= Len(p) THEN p[k] ELSE q[k - Len(p)]
      BY <1>3, <1>4, <1>5, ConcatProperties
    <2>2. Len(w) = n - 1 /\ Len(p) + Len(q) = n - 1 /\ Len(p) = i - 1
      BY <1>1, <1>3, <1>4, <2>1
    <2>3. ASSUME NEW k \in 1 .. n - 1, k < i PROVE w[k] = s[k]
      <3>1. k \in 1 .. i - 1 /\ k <= Len(p)
        BY <1>1, <2>2, <2>3
      <3>2. w[k] = p[k]
        BY <2>1, <2>2, <3>1
      <3> QED
        BY <1>3, <3>1, <3>2
    <2>4. ASSUME NEW k \in 1 .. n - 1, ~(k < i) PROVE w[k] = s[k + 1]
      <3>1. k - (i - 1) \in 1 .. n - i /\ i + (k - (i - 1)) = k + 1 /\ ~(k <= Len(p))
        BY <1>1, <2>2, <2>4
      <3>2. w[k] = q[k - (i - 1)]
        BY <2>1, <2>2, <3>1
      <3> QED
        BY <1>4, <3>1, <3>2
    <2> QED
      BY <2>1, <2>2, <2>3, <2>4
  <1>7. IsInjective(w)
    <2>1. DOMAIN w = 1 .. n - 1
      BY <1>2, <1>6
    <2>2. \A j, k \in 1 .. n : s[j] = s[k] => j = k
      BY <1>2 DEF IsInjective
    <2>3. ASSUME NEW j \in 1 .. n - 1, NEW k \in 1 .. n - 1, w[j] = w[k] PROVE j = k
      BY <1>1, <1>2, <1>6, <2>2, <2>3
    <2> QED
      BY <2>1, <2>3 DEF IsInjective
  <1>8. ToSet(w) = ToSet(s) \ {t}
    <2>1. DOMAIN w = 1 .. n - 1
      BY <1>6
    <2>2. ASSUME NEW x \in ToSet(w) PROVE x \in ToSet(s) \ {t}
      <3>1. PICK k \in 1 .. n - 1 : w[k] = x
        BY <2>1, <2>2 DEF ToSet
      <3>2. PICK j \in 1 .. n : s[j] = x /\ j # i
        BY <1>1, <1>2, <1>6, <3>1
      <3> QED
        BY <1>2, <3>2 DEF ToSet
    <2>3. ASSUME NEW x \in ToSet(s) \ {t} PROVE x \in ToSet(w)
      <3>1. PICK k \in 1 .. n : s[k] = x
        BY <1>1, <2>3 DEF ToSet
      <3>2. CASE k < i
        <4>1. k \in 1 .. n - 1 /\ w[k] = x
          BY <1>1, <1>6, <3>1, <3>2
        <4> QED
          BY <2>1, <4>1 DEF ToSet
      <3>3. CASE k > i
        <4>1. k - 1 \in 1 .. n - 1 /\ w[k - 1] = x
          BY <1>1, <1>6, <3>1, <3>3
        <4> QED
          BY <2>1, <4>1 DEF ToSet
      <3> QED
        BY <1>1, <2>3, <3>1, <3>2, <3>3
    <2> QED
      BY <2>2, <2>3
  <1> QED
    BY <1>6, <1>7, <1>8 DEF w

\* Append puts an element that was not in a list at its end.
LEMMA Appended ==
    ASSUME NEW S, NEW s \in Seq(S), IsInjective(s), NEW t \in S \ ToSet(s)
    PROVE  /\ Append(s, t) \in Seq(S) /\ Append(s, t) # <<>>
           /\ IsInjective(Append(s, t))
           /\ ToSet(Append(s, t)) = ToSet(s) \cup {t}
  <1> DEFINE w == Append(s, t)
             n == Len(s)
  <1>1. /\ w \in Seq(S) /\ w # <<>> /\ Len(w) = n + 1
        /\ \A k \in 1 .. n : w[k] = s[k]
        /\ w[n + 1] = t
    BY AppendProperties
  <1>2. n \in Nat /\ DOMAIN s = 1 .. n /\ \A k \in 1 .. n : s[k] # t
    BY DEF ToSet
  <1>3. DOMAIN w = 1 .. n + 1
    BY <1>1, LenProperties
  <1> HIDE DEF w
  <1>4. IsInjective(w)
    BY <1>1, <1>2 DEF IsInjective
  <1>5. ToSet(w) = ToSet(s) \cup {t}
    <2>1. ASSUME NEW x \in ToSet(w) PROVE x \in ToSet(s) \cup {t}
      <3>1. PICK k \in 1 .. n + 1 : w[k] = x
        BY <1>3, <2>1 DEF ToSet
      <3> QED
        BY <1>1, <1>2, <3>1 DEF ToSet
    <2>2. ASSUME NEW x \in ToSet(s) PROVE x \in ToSet(w)
      <3>1. PICK k \in 1 .. n : s[k] = x
        BY <1>2, <2>2 DEF ToSet
      <3>2. k \in 1 .. n + 1 /\ w[k] = x
        BY <1>1, <1>2, <3>1
      <3> QED
        BY <1>3, <3>2 DEF ToSet
    <2>3. n + 1 \in 1 .. n + 1 /\ w[n + 1] = t
      BY <1>1, <1>2
    <2>4. t \in ToSet(w)
      BY <1>3, <2>3 DEF ToSet
    <2> QED
      BY <2>1, <2>2, <2>4
  <1> QED
    BY <1>1, <1>4, <1>5 DEF w

\* Who is not in a list is not removed from it.
LEMMA RemoveFirstAbsent ==
    ASSUME NEW S, NEW s \in Seq(S), NEW t, t \notin ToSet(s)
    PROVE  RemoveFirst(s, t) = s
  <1>1. ~\E i \in 1 .. Len(s) : s[i] = t
    BY DEF ToSet
  <1> QED
    BY <1>1 DEF RemoveFirst

\* A list without repetition is as long as it has elements.
LEMMA DistinctCount ==
    ASSUME NEW S, NEW s \in Seq(S), IsInjective(s)
    PROVE  IsFiniteSet(ToSet(s)) /\ Cardinality(ToSet(s)) = Len(s)
  <1> DEFINE n == Len(s)
  <1>1. n \in Nat /\ DOMAIN s = 1 .. n /\ \A i \in 1 .. n : s[i] \in ToSet(s)
    BY DEF ToSet
  <1>2. s \in [1 .. n -> ToSet(s)]
    BY <1>1
  <1>3. s \in Bijection(1 .. n, ToSet(s))
    <2>1. \A x \in ToSet(s) : \E i \in 1 .. n : s[i] = x
      BY <1>1 DEF ToSet
    <2>2. \A i, j \in 1 .. n : s[i] = s[j] => i = j
      BY <1>1 DEF IsInjective
    <2> QED
      BY <1>2, <2>1, <2>2 DEF Bijection, Injection, Surjection, IsInjective
  <1>4. ExistsBijection(1 .. n, ToSet(s))
    BY <1>3 DEF ExistsBijection
  <1> QED
    BY <1>1, <1>4, FS_CountingElements, FS_NatBijection

\* The head of a list that is not empty goes with Tail, and nothing else.
LEMMA Popped ==
    ASSUME NEW S, NEW s \in Seq(S), s # <<>>, IsInjective(s)
    PROVE  /\ Head(s) \in ToSet(s) /\ Head(s) = s[1]
           /\ Tail(s) \in Seq(S) /\ IsInjective(Tail(s))
           /\ Len(Tail(s)) = Len(s) - 1
           /\ \A i \in 1 .. Len(s) - 1 : Tail(s)[i] = s[i + 1]
           /\ ToSet(Tail(s)) = ToSet(s) \ {Head(s)}
  <1> DEFINE n == Len(s)
             w == Tail(s)
  <1>1. n \in Nat \ {0} /\ DOMAIN s = 1 .. n /\ \A j, k \in 1 .. n : s[j] = s[k] => j = k
    BY EmptySeq, LenProperties DEF IsInjective
  <1>2. Head(s) = s[1] /\ s[1] \in ToSet(s)
    BY <1>1 DEF ToSet
  <1>3. /\ w \in Seq(S) /\ Len(w) = n - 1
        /\ \A i \in 1 .. n - 1 : w[i] = s[i + 1]
    BY HeadTailProperties
  <1>4. DOMAIN w = 1 .. n - 1
    BY <1>3, LenProperties
  <1> HIDE DEF w
  <1>5. IsInjective(w)
    <2>1. ASSUME NEW j \in 1 .. n - 1, NEW k \in 1 .. n - 1, w[j] = w[k] PROVE j = k
      <3>1. j + 1 \in 1 .. n /\ k + 1 \in 1 .. n /\ s[j + 1] = s[k + 1]
        BY <1>1, <1>3, <2>1
      <3> QED
        BY <1>1, <3>1
    <2> QED
      BY <1>4, <2>1 DEF IsInjective
  <1>6. ToSet(w) = ToSet(s) \ {s[1]}
    <2>1. ASSUME NEW x \in ToSet(w) PROVE x \in ToSet(s) \ {s[1]}
      <3>1. PICK k \in 1 .. n - 1 : w[k] = x
        BY <1>4, <2>1 DEF ToSet
      <3>2. k + 1 \in 1 .. n /\ 1 \in 1 .. n /\ k + 1 # 1 /\ s[k + 1] = x
        BY <1>1, <1>3, <3>1
      <3> QED
        BY <1>1, <3>2 DEF ToSet
    <2>2. ASSUME NEW x \in ToSet(s) \ {s[1]} PROVE x \in ToSet(w)
      <3>1. PICK k \in 1 .. n : s[k] = x /\ k # 1
        BY <1>1, <2>2 DEF ToSet
      <3>2. k - 1 \in 1 .. n - 1 /\ (k - 1) + 1 = k
        BY <1>1, <3>1
      <3>3. w[k - 1] = x
        BY <1>3, <3>1, <3>2
      <3> QED
        BY <1>4, <3>2, <3>3 DEF ToSet
    <2> QED
      BY <2>1, <2>2
  <1> QED
    BY <1>2, <1>3, <1>5, <1>6 DEF w

\* An element that was not in a list is put in front of it.
LEMMA Pushed ==
    ASSUME NEW S, NEW s \in Seq(S), IsInjective(s), NEW t \in S \ ToSet(s)
    PROVE  /\ <<t>> \o s \in Seq(S) /\ IsInjective(<<t>> \o s)
           /\ Len(<<t>> \o s) = Len(s) + 1
           /\ (<<t>> \o s)[1] = t
           /\ \A i \in 2 .. Len(s) + 1 : (<<t>> \o s)[i] = s[i - 1]
           /\ ToSet(<<t>> \o s) = ToSet(s) \cup {t}
  <1> DEFINE n == Len(s)
             w == <<t>> \o s
  <1>1. /\ n \in Nat /\ DOMAIN s = 1 .. n /\ \A j, k \in 1 .. n : s[j] = s[k] => j = k
        /\ \A k \in 1 .. n : s[k] # t
    BY LenProperties DEF IsInjective, ToSet
  <1>2. <<t>> \in Seq(S) /\ Len(<<t>>) = 1 /\ <<t>>[1] = t
    OBVIOUS
  <1>3. /\ w \in Seq(S) /\ Len(w) = 1 + n
        /\ \A i \in 1 .. 1 + n : w[i] = IF i <= 1 THEN <<t>>[i] ELSE s[i - 1]
    BY <1>2, ConcatProperties
  <1>4. DOMAIN w = 1 .. n + 1
    BY <1>1, <1>3, LenProperties
  <1> HIDE DEF w
  <1>5. w[1] = t /\ \A i \in 2 .. n + 1 : w[i] = s[i - 1] /\ i - 1 \in 1 .. n
    BY <1>1, <1>2, <1>3
  <1>6. IsInjective(w)
    <2>1. ASSUME NEW j \in 1 .. n + 1, NEW k \in 1 .. n + 1, w[j] = w[k] PROVE j = k
      <3>1. CASE j = 1 \/ k = 1
        BY <1>1, <1>5, <2>1, <3>1
      <3>2. CASE j # 1 /\ k # 1
        <4>1. j \in 2 .. n + 1 /\ k \in 2 .. n + 1
          BY <1>1, <3>2
        <4>2. j - 1 = k - 1
          BY <1>1, <1>5, <2>1, <4>1
        <4> QED
          BY <4>1, <4>2
      <3> QED
        BY <3>1, <3>2
    <2> QED
      BY <1>4, <2>1 DEF IsInjective
  <1>7. ToSet(w) = ToSet(s) \cup {t}
    <2>1. ASSUME NEW x \in ToSet(w) PROVE x \in ToSet(s) \cup {t}
      <3>1. PICK k \in 1 .. n + 1 : w[k] = x
        BY <1>4, <2>1 DEF ToSet
      <3>2. CASE k = 1
        BY <1>5, <3>1, <3>2
      <3>3. CASE k # 1
        <4>1. k \in 2 .. n + 1
          BY <1>1, <3>3
        <4> QED
          BY <1>1, <1>5, <3>1, <4>1 DEF ToSet
      <3> QED
        BY <3>2, <3>3
    <2>2. ASSUME NEW x \in ToSet(s) PROVE x \in ToSet(w)
      <3>1. PICK k \in 1 .. n : s[k] = x
        BY <1>1, <2>2 DEF ToSet
      <3>2. k + 1 \in 2 .. n + 1 /\ k + 1 \in 1 .. n + 1 /\ (k + 1) - 1 = k
        BY <1>1
      <3>3. w[k + 1] = x
        BY <1>5, <3>1, <3>2
      <3> QED
        BY <1>4, <3>2, <3>3 DEF ToSet
    <2>3. 1 \in 1 .. n + 1
      BY <1>1
    <2>4. t \in ToSet(w)
      BY <1>4, <1>5, <2>3 DEF ToSet
    <2> QED
      BY <2>1, <2>2, <2>4
  <1> QED
    BY <1>3, <1>5, <1>6, <1>7 DEF w

\* The list that SetToSeq chooses holds each element of a finite set once.
LEMMA SetAsList ==
    ASSUME NEW T, IsFiniteSet(T)
    PROVE  /\ SetToSeq(T) \in Seq(T) /\ IsInjective(SetToSeq(T)) /\ ToSet(SetToSeq(T)) = T
  <1> DEFINE n == Cardinality(T)
             q == SetToSeq(T)
  <1>1. n \in Nat /\ ExistsBijection(1 .. n, T)
    BY FS_CardinalityType
  <1>2. \E f \in [1 .. n -> T] : IsInjective(f)
    BY <1>1 DEF ExistsBijection, Bijection, Injection
  <1>3. q \in [1 .. n -> T] /\ IsInjective(q)
    BY <1>2 DEF SetToSeq
  <1> HIDE DEF q
  <1>4. q \in Seq(T)
    BY <1>1, <1>3
  <1>5. Cardinality(ToSet(q)) = n
    <2>1. Len(q) = n
      BY <1>1, <1>3, <1>4
    <2> QED
      BY <1>3, <1>4, <2>1, DistinctCount
  <1>6. ToSet(q) \subseteq T
    BY <1>3 DEF ToSet
  <1>7. ToSet(q) = T
    BY <1>5, <1>6, FS_Subset
  <1> QED
    BY <1>3, <1>4, <1>7 DEF q

\* Naturals, if there are any, have a least one.
LEMMA LeastNatural ==
    ASSUME NEW T \in SUBSET Nat, T # {}
    PROVE  \E n \in T : \A m \in T : n <= m
  <1> DEFINE R == OpToRel(<, Nat)
  <1>1. IsWellFoundedOn(R, Nat)
    BY NatLessThanWellFounded
  <1>2. \A m, n \in Nat : <<m, n>> \in R <=> m < n
    BY DEF OpToRel
  <1> HIDE DEF R
  <1>3. \E x \in T : \A y \in T : ~(<<y, x>> \in R)
    BY <1>1, WFMin
  <1>4. PICK n \in T : \A m \in T : ~(<<m, n>> \in R)
    BY <1>3
  <1>5. ASSUME NEW m \in T PROVE n <= m
    <2>1. m \in Nat /\ n \in Nat /\ ~(m < n)
      BY <1>2, <1>4
    <2> QED
      BY <2>1
  <1> QED
    BY <1>4, <1>5

\* A list is gone through step by step: what a recursive function on the numbers
\* up to its length gives is there.
StepsOf(g, n, a0, F) == g[0] = a0 /\ \A k \in 1 .. n : g[k] = F[<<k, g[k - 1]>>]
LEMMA RecursionOnList ==
    ASSUME NEW n \in Nat, NEW A, NEW a0 \in A, NEW F,
           \A k \in 1 .. n, a \in A : F[<<k, a>>] \in A
    PROVE  \E g \in [0 .. n -> A] : StepsOf(g, n, a0, F)
  <1> USE DEF StepsOf
  <1> DEFINE Reached(m) == \E g \in [0 .. m -> A] : StepsOf(g, m, a0, F)
             Bad == {m \in Nat : m <= n /\ ~Reached(m)}
  <1>1. SUFFICES ASSUME ~Reached(n) PROVE FALSE
    OBVIOUS
  <1>2. Bad \in SUBSET Nat /\ Bad # {}
    BY <1>1
  <1> HIDE DEF Bad
  <1>3. PICK m \in Bad : \A k \in Bad : m <= k
    BY <1>2, LeastNatural
  <1>4. m \in Nat /\ m <= n /\ ~Reached(m)
    BY <1>3 DEF Bad
  <1>5. m # 0
    <2>1. [i \in 0 .. 0 |-> a0] \in [0 .. 0 -> A] /\ [i \in 0 .. 0 |-> a0][0] = a0
      OBVIOUS
    <2>2. \A k \in 1 .. 0 : [i \in 0 .. 0 |-> a0][k] = F[<<k, [i \in 0 .. 0 |-> a0][k - 1]>>]
      OBVIOUS
    <2> QED
      BY <1>4, <2>1, <2>2
  <1>6. m - 1 \in Nat /\ m - 1 <= n /\ m - 1 \notin Bad
    BY <1>3, <1>4, <1>5
  <1>7. Reached(m - 1)
    BY <1>6 DEF Bad
  <1>8. PICK g \in [0 .. m - 1 -> A] : g[0] = a0 /\ \A k \in 1 .. m - 1 : g[k] = F[<<k, g[k - 1]>>]
    BY <1>7
  <1>9. F[<<m, g[m - 1]>>] \in A
    BY <1>4, <1>5, <1>8
  <1> DEFINE h == [i \in 0 .. m |-> IF i = m THEN F[<<m, g[m - 1]>>] ELSE g[i]]
  <1>10. h \in [0 .. m -> A] /\ h[0] = a0
    BY <1>4, <1>5, <1>8, <1>9
  <1>11. ASSUME NEW k \in 1 .. m PROVE h[k] = F[<<k, h[k - 1]>>]
    <2>1. k - 1 \in 0 .. m /\ k \in 0 .. m /\ k - 1 # m
      BY <1>4
    <2>2. h[k - 1] = g[k - 1]
      BY <2>1
    <2>3. CASE k = m
      BY <2>1, <2>2, <2>3
    <2>4. CASE k # m
      <3>1. k \in 1 .. m - 1 /\ h[k] = g[k]
        BY <1>4, <2>1, <2>4
      <3> QED
        BY <1>8, <2>2, <3>1
    <2> QED
      BY <2>3, <2>4
  <1> HIDE DEF h
  <1>12. Reached(m)
    BY <1>10, <1>11
  <1> QED
    BY <1>4, <1>12

\* Induction over the numbers up to n.
LEMMA InductionUpTo ==
    ASSUME NEW n \in Nat, NEW S, 0 \in S, \A k \in 1 .. n : k - 1 \in S => k \in S
    PROVE  \A k \in 0 .. n : k \in S
  <1> DEFINE Bad == {m \in Nat : m <= n /\ m \notin S}
  <1>1. SUFFICES ASSUME Bad # {} PROVE FALSE
    OBVIOUS
  <1>2. Bad \in SUBSET Nat
    OBVIOUS
  <1> HIDE DEF Bad
  <1>3. PICK m \in Bad : \A k \in Bad : m <= k
    BY <1>1, <1>2, LeastNatural
  <1>4. m \in Nat /\ m <= n /\ m \notin S /\ m # 0
    BY <1>3 DEF Bad
  <1>5. m - 1 \in Nat /\ m - 1 <= n /\ m - 1 \notin Bad /\ m \in 1 .. n
    BY <1>3, <1>4
  <1>6. m - 1 \in S
    BY <1>5 DEF Bad
  <1> QED
    BY <1>4, <1>5, <1>6

\* Two recursive functions with the same start and the same steps agree.
LEMMA RecursionUnique ==
    ASSUME NEW n \in Nat, NEW g, NEW h, g[0] = h[0],
           \A k \in 1 .. n : g[k - 1] = h[k - 1] => g[k] = h[k]
    PROVE  g[n] = h[n]
  <1> DEFINE S == {k \in 0 .. n : g[k] = h[k]}
  <1>1. 0 \in S
    OBVIOUS
  <1>2. \A k \in 1 .. n : k - 1 \in S => k \in S
    OBVIOUS
  <1>3. n \in 0 .. n
    OBVIOUS
  <1> HIDE DEF S
  <1>4. n \in S
    BY <1>1, <1>2, <1>3, InductionUpTo
  <1> QED
    BY <1>4 DEF S

\* What a list holds is of its kind.
LEMMA ItemOf ==
    ASSUME NEW S, NEW q \in Seq(S), NEW i \in DOMAIN q
    PROVE  q[i] \in S
  BY ElementOfSeq, LenProperties

\* Joining two lists, and that it is associative.
LEMMA JoinIsList ==
    ASSUME NEW S, NEW a \in Seq(S), NEW b \in Seq(S)
    PROVE  a \o b \in Seq(S) /\ Len(a \o b) = Len(a) + Len(b)
  BY ConcatProperties

LEMMA JoinItem ==
    ASSUME NEW S, NEW a \in Seq(S), NEW b \in Seq(S), NEW i \in 1 .. Len(a) + Len(b)
    PROVE  (a \o b)[i] = IF i <= Len(a) THEN a[i] ELSE b[i - Len(a)]
  BY ConcatProperties

LEMMA NatsAssociative == \A a, b, c \in Seq(Nat) : a \o (b \o c) = (a \o b) \o c
  <1> TAKE a, b, c \in Seq(Nat)
  <1> DEFINE ab == a \o b
             bc == b \o c
             left == a \o bc
             right == ab \o c
  <1>1. Len(a) \in Nat /\ Len(b) \in Nat /\ Len(c) \in Nat
    BY LenProperties
  <1>2. /\ ab \in Seq(Nat) /\ Len(ab) = Len(a) + Len(b)
        /\ bc \in Seq(Nat) /\ Len(bc) = Len(b) + Len(c)
    BY JoinIsList
  <1>3. /\ \A i \in 1 .. Len(a) + Len(b) : ab[i] = IF i <= Len(a) THEN a[i] ELSE b[i - Len(a)]
        /\ \A i \in 1 .. Len(b) + Len(c) : bc[i] = IF i <= Len(b) THEN b[i] ELSE c[i - Len(b)]
    BY JoinItem
  <1> HIDE DEF ab, bc
  <1>4. /\ left \in Seq(Nat) /\ Len(left) = Len(a) + Len(bc)
        /\ right \in Seq(Nat) /\ Len(right) = Len(ab) + Len(c)
    BY <1>2, JoinIsList
  <1>5. /\ \A i \in 1 .. Len(a) + Len(bc) : left[i] = IF i <= Len(a) THEN a[i] ELSE bc[i - Len(a)]
        /\ \A i \in 1 .. Len(ab) + Len(c) : right[i] = IF i <= Len(ab) THEN ab[i] ELSE c[i - Len(ab)]
    BY <1>2, JoinItem
  <1> HIDE DEF left, right
  <1>6. Len(left) = Len(right)
    BY <1>1, <1>2, <1>4
  <1>7. ASSUME NEW i \in 1 .. Len(left)
        PROVE  left[i] = right[i]
    <2>1. /\ i \in 1 .. Len(a) + Len(bc)
          /\ i \in 1 .. Len(ab) + Len(c)
      BY <1>1, <1>2, <1>4
    <2>2. /\ left[i] = IF i <= Len(a) THEN a[i] ELSE bc[i - Len(a)]
          /\ right[i] = IF i <= Len(a) + Len(b) THEN ab[i] ELSE c[i - (Len(a) + Len(b))]
      BY <1>2, <1>5, <2>1
    <2>3. i <= Len(a) + Len(b) => ab[i] = IF i <= Len(a) THEN a[i] ELSE b[i - Len(a)]
      BY <1>1, <1>3, <2>1
    <2>4. Len(a) < i => bc[i - Len(a)] = IF i - Len(a) <= Len(b) THEN b[i - Len(a)]
                                          ELSE c[(i - Len(a)) - Len(b)]
      <3>1. Len(a) < i => i - Len(a) \in 1 .. Len(b) + Len(c)
        BY <1>1, <1>2, <2>1
      <3> QED
        BY <1>3, <3>1
    <2>5. (i - Len(a)) - Len(b) = i - (Len(a) + Len(b))
      BY <1>1, <2>1
    <2> QED
      BY <1>1, <2>1, <2>2, <2>3, <2>4, <2>5
  <1>8. left = right
    BY <1>4, <1>6, <1>7, SeqEqual
  <1> QED
    BY <1>8 DEF left, right, ab, bc

=============================================================================
