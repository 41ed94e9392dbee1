----------------------------- MODULE CommonLemmas -----------------------------
(***************************************************************************)
(* What the proofs of several modules rest on: the least and the greatest  *)
(* of a set of numbers, lists without duplicates and what changes of such  *)
(* a list leave, and the pages a list is read in.                          *)
(***************************************************************************)
EXTENDS Integers, Sequences, FiniteSets, FiniteSetTheorems, SequenceTheorems,
        WellFoundedInduction, TLAPS

-----------------------------------------------------------------------------
(* Numbers. *)

\* Every set of natural numbers with an element has a least one.
LEMMA MinExists ==
    ASSUME NEW T, T \subseteq Nat, T # {}
    PROVE \E x \in T : \A y \in T : x <= y
<1> DEFINE R == OpToRel(<, Nat)
<1>1. IsWellFoundedOn(R, Nat) BY NatLessThanWellFounded
<1>2. R = {ss \in Nat \X Nat : ss[1] < ss[2]} BY DEF OpToRel
<1> HIDE DEF R
<1>3. PICK x \in T : \A y \in T : ~(<<y, x>> \in R) BY <1>1, WFMin
<1>4. \A y \in T : <<y, x>> \in R <=> y < x BY <1>2
<1>5. \A y \in T : ~(y < x) BY <1>3, <1>4
<1>6. QED BY <1>5

\* A set of numbers up to N with an element has a greatest one.
LEMMA MaxExists ==
    ASSUME NEW N \in Nat, NEW T, T \subseteq 0..N, T # {}
    PROVE \E x \in T : \A y \in T : y <= x
<1> DEFINE S == {N - y : y \in T}
<1>1. \A y \in T : y \in Nat /\ N - y \in Nat OBVIOUS
<1>2. S \subseteq Nat BY <1>1
<1>3. PICK t : t \in T OBVIOUS
<1>4. N - t \in S BY <1>3
<1>5. PICK x \in S : \A y \in S : x <= y BY <1>2, <1>4, MinExists
<1>6. PICK z \in T : x = N - z BY <1>5
<1>7. \A y \in T : x <= N - y BY <1>5
<1>8. \A y \in T : y <= z BY <1>1, <1>6, <1>7
<1>9. QED BY <1>8
-----------------------------------------------------------------------------
(* Lists without duplicates, without an entry or with one more. *)

Distinct(s) == \A i, j \in 1..Len(s) : s[i] = s[j] => i = j
Shorter(s, k) == SubSeq(s, 1, k - 1) \o SubSeq(s, k + 1, Len(s))
Longer(s, k, e) == SubSeq(s, 1, k - 1) \o <<e>> \o SubSeq(s, k, Len(s))

\* A list without duplicates is no longer than the set of its entries.
LEMMA AtMostAll ==
    ASSUME NEW S, IsFiniteSet(S), NEW s \in Seq(S), Distinct(s)
    PROVE  Len(s) <= Cardinality(S)
  <1>1. IsFiniteSet(S)
    OBVIOUS
  <1>2. s \in [1..Len(s) -> S] /\ Len(s) \in Nat
    OBVIOUS
  <1>3. s \in Injection(1..Len(s), S)
    BY <1>2 DEF Injection, IsInjective, Distinct
  <1>4. Cardinality(1..Len(s)) <= Cardinality(S)
    BY <1>1, <1>3, FS_Injection, Zenon
  <1>5. Cardinality(1..Len(s)) = Len(s)
    <2>1. Cardinality(1..Len(s)) = IF 1 > Len(s) THEN 0 ELSE Len(s) - 1 + 1
      BY <1>2, FS_Interval
    <2> QED BY <1>2, <2>1
  <1> QED
    BY <1>4, <1>5, Zenon

\* What a change of the server's list leaves is such a list again.
LEMMA ListWithout ==
    ASSUME NEW S, NEW s \in Seq(S), Distinct(s), NEW k \in 1..Len(s)
    PROVE  Shorter(s, k) \in Seq(S) /\ Distinct(Shorter(s, k))
  <1> DEFINE a == SubSeq(s, 1, k - 1)
             b == SubSeq(s, k + 1, Len(s))
  <1>1. Len(s) \in Nat /\ k \in Nat /\ k >= 1 /\ k <= Len(s)
    OBVIOUS
  <1>2. a \in Seq(S) /\ Len(a) = k - 1 /\ \A i \in 1..(k - 1) : a[i] = s[i]
    <2>1. \A i \in 1..(k - 1) : s[i] \in S
      BY <1>1
    <2> HIDE DEF a
    <2>2. /\ SubSeq(s, 1, k - 1) \in Seq(S)
          /\ Len(SubSeq(s, 1, k - 1)) = IF 1 <= k - 1 THEN k - 1 - 1 + 1 ELSE 0
          /\ \A i \in 1..(k - 1 - 1 + 1) : SubSeq(s, 1, k - 1)[i] = s[1 + i - 1]
      BY <1>1, <2>1, SubSeqProperties
    <2> QED BY <1>1, <2>2 DEF a
  <1>3. b \in Seq(S) /\ Len(b) = Len(s) - k /\ \A i \in 1..(Len(s) - k) : b[i] = s[k + i]
    <2>1. \A i \in (k + 1)..Len(s) : s[i] \in S
      BY <1>1
    <2> HIDE DEF b
    <2>2. /\ SubSeq(s, k + 1, Len(s)) \in Seq(S)
          /\ Len(SubSeq(s, k + 1, Len(s))) = IF k + 1 <= Len(s) THEN Len(s) - (k + 1) + 1 ELSE 0
          /\ \A i \in 1..(Len(s) - (k + 1) + 1) : SubSeq(s, k + 1, Len(s))[i] = s[k + 1 + i - 1]
      BY <1>1, <2>1, SubSeqProperties
    <2> QED BY <1>1, <2>2 DEF b
  <1> HIDE DEF a, b
  <1>4. /\ a \o b \in Seq(S) /\ Len(a \o b) = Len(s) - 1
        /\ \A i \in 1..(Len(s) - 1) : (a \o b)[i] = IF i <= k - 1 THEN a[i] ELSE b[i - (k - 1)]
    <2>1. /\ a \o b \in Seq(S) /\ Len(a \o b) = Len(a) + Len(b)
          /\ \A i \in 1..(Len(a) + Len(b)) :
                (a \o b)[i] = IF i <= Len(a) THEN a[i] ELSE b[i - Len(a)]
      BY <1>2, <1>3, ConcatProperties, Zenon
    <2>2. Len(a) = k - 1 /\ Len(a) + Len(b) = Len(s) - 1
      BY <1>1, <1>2, <1>3
    <2> QED BY <2>1, <2>2
  <1>5. \A i \in 1..(Len(s) - 1) : (a \o b)[i] = IF i <= k - 1 THEN s[i] ELSE s[i + 1]
    <2> SUFFICES ASSUME NEW i \in 1..(Len(s) - 1)
                 PROVE  (a \o b)[i] = IF i <= k - 1 THEN s[i] ELSE s[i + 1]
      OBVIOUS
    <2>1. CASE i <= k - 1
      BY <1>1, <1>2, <1>4, <2>1
    <2>2. CASE ~(i <= k - 1)
      <3>1. i - (k - 1) \in 1..(Len(s) - k) /\ k + (i - (k - 1)) = i + 1
        BY <1>1, <2>2
      <3> QED BY <1>3, <1>4, <2>2, <3>1
    <2> QED BY <2>1, <2>2
  <1>6. Distinct(a \o b)
    <2> SUFFICES ASSUME NEW i \in 1..(Len(s) - 1), NEW j \in 1..(Len(s) - 1),
                        (a \o b)[i] = (a \o b)[j]
                 PROVE  i = j
      BY <1>4 DEF Distinct
    <2>1. /\ i \in 1..Len(s) /\ i + 1 \in 1..Len(s)
          /\ j \in 1..Len(s) /\ j + 1 \in 1..Len(s)
      BY <1>1
    <2>2. \A x, y \in 1..Len(s) : s[x] = s[y] => x = y
      BY DEF Distinct
    <2>3. CASE i <= k - 1 /\ j <= k - 1
      BY <1>5, <2>1, <2>2, <2>3
    <2>4. CASE ~(i <= k - 1) /\ ~(j <= k - 1)
      <3>1. i + 1 = j + 1
        BY <1>5, <2>1, <2>2, <2>4
      <3> QED BY <3>1
    <2>5. CASE i <= k - 1 /\ ~(j <= k - 1)
      <3>1. i = j + 1
        BY <1>5, <2>1, <2>2, <2>5
      <3> QED BY <1>1, <2>5, <3>1
    <2>6. CASE ~(i <= k - 1) /\ j <= k - 1
      <3>1. i + 1 = j
        BY <1>5, <2>1, <2>2, <2>6
      <3> QED BY <1>1, <2>6, <3>1
    <2> QED BY <2>3, <2>4, <2>5, <2>6
  <1> QED
    BY <1>4, <1>6 DEF Shorter, a, b

\* So does an entry put anywhere into the list that does not have it.
LEMMA ListInserted ==
    ASSUME NEW S, NEW s \in Seq(S), Distinct(s), NEW k \in 1..(Len(s) + 1),
           NEW e \in S, \A i \in 1..Len(s) : s[i] # e
    PROVE  Longer(s, k, e) \in Seq(S) /\ Distinct(Longer(s, k, e))
  <1> DEFINE a == SubSeq(s, 1, k - 1)
             b == SubSeq(s, k, Len(s))
             c == a \o <<e>>
             g == c \o b
  <1>1. Len(s) \in Nat /\ k \in Nat /\ k >= 1 /\ k <= Len(s) + 1
    OBVIOUS
  <1>2. a \in Seq(S) /\ Len(a) = k - 1 /\ \A i \in 1..(k - 1) : a[i] = s[i]
    <2>1. \A i \in 1..(k - 1) : s[i] \in S
      BY <1>1
    <2> HIDE DEF a
    <2>2. /\ SubSeq(s, 1, k - 1) \in Seq(S)
          /\ Len(SubSeq(s, 1, k - 1)) = IF 1 <= k - 1 THEN k - 1 - 1 + 1 ELSE 0
          /\ \A i \in 1..(k - 1 - 1 + 1) : SubSeq(s, 1, k - 1)[i] = s[1 + i - 1]
      BY <1>1, <2>1, SubSeqProperties
    <2> QED BY <1>1, <2>2 DEF a
  <1>3. b \in Seq(S) /\ Len(b) = Len(s) - k + 1
        /\ \A i \in 1..(Len(s) - k + 1) : b[i] = s[k + i - 1]
    <2>1. \A i \in k..Len(s) : s[i] \in S
      BY <1>1
    <2> HIDE DEF b
    <2>2. /\ SubSeq(s, k, Len(s)) \in Seq(S)
          /\ Len(SubSeq(s, k, Len(s))) = IF k <= Len(s) THEN Len(s) - k + 1 ELSE 0
          /\ \A i \in 1..(Len(s) - k + 1) : SubSeq(s, k, Len(s))[i] = s[k + i - 1]
      BY <1>1, <2>1, SubSeqProperties
    <2> QED BY <1>1, <2>2 DEF b
  <1> HIDE DEF a, b
  <1>4. /\ <<e>> \in Seq(S) /\ Len(<<e>>) = 1 /\ <<e>>[1] = e
    OBVIOUS
  <1>5. /\ c \in Seq(S) /\ Len(c) = k
        /\ \A i \in 1..k : c[i] = IF i <= k - 1 THEN a[i] ELSE <<e>>[i - (k - 1)]
    <2>1. /\ c \in Seq(S) /\ Len(c) = Len(a) + Len(<<e>>)
          /\ \A i \in 1..(Len(a) + Len(<<e>>)) :
                c[i] = IF i <= Len(a) THEN a[i] ELSE <<e>>[i - Len(a)]
      BY <1>2, <1>4, ConcatProperties, Zenon
    <2>2. Len(a) = k - 1 /\ Len(a) + Len(<<e>>) = k
      BY <1>1, <1>2, <1>4
    <2> HIDE DEF c
    <2> QED BY <2>1, <2>2
  <1> HIDE DEF c
  <1>6. /\ g \in Seq(S) /\ Len(g) = Len(s) + 1
        /\ \A i \in 1..(Len(s) + 1) : g[i] = IF i <= k THEN c[i] ELSE b[i - k]
    <2>1. /\ g \in Seq(S) /\ Len(g) = Len(c) + Len(b)
          /\ \A i \in 1..(Len(c) + Len(b)) :
                g[i] = IF i <= Len(c) THEN c[i] ELSE b[i - Len(c)]
      BY <1>3, <1>5, ConcatProperties, Zenon
    <2>2. Len(c) = k /\ Len(c) + Len(b) = Len(s) + 1
      BY <1>1, <1>3, <1>5
    <2> HIDE DEF g
    <2> QED BY <2>1, <2>2
  <1> HIDE DEF g
  <1>7. \A i \in 1..(Len(s) + 1) : /\ i < k => g[i] = s[i]
                                   /\ i = k => g[i] = e
                                   /\ i > k => g[i] = s[i - 1]
    <2> SUFFICES ASSUME NEW i \in 1..(Len(s) + 1)
                 PROVE  /\ i < k => g[i] = s[i]
                        /\ i = k => g[i] = e
                        /\ i > k => g[i] = s[i - 1]
      OBVIOUS
    <2>1. CASE i < k
      <3>1. i \in 1..k /\ i <= k - 1 /\ i \in 1..(k - 1)
        BY <1>1, <2>1
      <3> QED BY <1>1, <1>2, <1>5, <1>6, <2>1, <3>1
    <2>2. CASE i = k
      <3>1. k \in 1..k /\ ~(k <= k - 1) /\ k - (k - 1) = 1
        BY <1>1
      <3> QED BY <1>1, <1>4, <1>5, <1>6, <2>2, <3>1
    <2>3. CASE i > k
      <3>1. i - k \in 1..(Len(s) - k + 1) /\ k + (i - k) - 1 = i - 1
            /\ ~(i <= k) /\ ~(i < k) /\ ~(i = k)
        BY <1>1, <2>3
      <3>2. g[i] = b[i - k]
        BY <1>6, <3>1
      <3>3. b[i - k] = s[k + (i - k) - 1]
        BY <1>3, <3>1
      <3> QED BY <3>1, <3>2, <3>3
    <2> QED BY <1>1, <2>1, <2>2, <2>3
  <1>8. \A i \in 1..Len(s) : s[i] # e
    OBVIOUS
  <1>9. Distinct(g)
    <2> SUFFICES ASSUME NEW i \in 1..(Len(s) + 1), NEW j \in 1..(Len(s) + 1), g[i] = g[j],
                        i < j
                 PROVE  FALSE
      <3>1. \A i, j \in 1..(Len(s) + 1) : g[i] = g[j] => ~(i < j) /\ ~(j < i)
        OBVIOUS
      <3> QED BY <1>1, <1>6, <3>1 DEF Distinct
    <2>1. \A x, y \in 1..Len(s) : s[x] = s[y] => x = y
      BY DEF Distinct
    <2>2. CASE j < k
      BY <1>1, <1>7, <2>1, <2>2
    <2>3. CASE j = k
      <3>1. i < k /\ i \in 1..Len(s)
        BY <1>1, <2>3
      <3> QED BY <1>7, <1>8, <2>3, <3>1
    <2>4. CASE j > k /\ i < k
      <3>1. i \in 1..Len(s) /\ j - 1 \in 1..Len(s) /\ i # j - 1
        BY <1>1, <2>4
      <3> QED BY <1>7, <2>1, <2>4, <3>1
    <2>5. CASE j > k /\ i = k
      <3>1. j - 1 \in 1..Len(s)
        BY <1>1, <2>5
      <3> QED BY <1>7, <1>8, <2>5, <3>1
    <2>6. CASE j > k /\ i > k
      <3>1. i - 1 \in 1..Len(s) /\ j - 1 \in 1..Len(s) /\ i - 1 # j - 1
        BY <1>1, <2>6
      <3> QED BY <1>7, <2>1, <2>6, <3>1
    <2> QED BY <1>1, <2>2, <2>3, <2>4, <2>5, <2>6
  <1> QED
    BY <1>6, <1>9 DEF Longer, a, b, c, g

-----------------------------------------------------------------------------
(* Pages. *)

\* A longer list has no fewer pages.
LEMMA PagesGrow ==
    ASSUME NEW size \in Nat \ {0}, NEW x \in Nat, NEW y \in Nat, x <= y
    PROVE  /\ (x + size - 1) \div size \in Nat /\ (y + size - 1) \div size \in Nat
           /\ (x + size - 1) \div size <= (y + size - 1) \div size
  <1> DEFINE a == x + size - 1
             b == y + size - 1
  <1>1. a \in Nat /\ b \in Nat /\ a <= b
    OBVIOUS
  <1> HIDE DEF a, b
  <1>2. \A c \in Nat : /\ c \div size \in Int
                       /\ size * (c \div size) <= c
                       /\ c < size * (c \div size) + size
    OBVIOUS
  <1>3. \A q, t \in Int : q + 1 <= t => size * q + size <= size * t
    OBVIOUS
  <1> DEFINE u == a \div size
             v == b \div size
  <1>4. /\ u \in Int /\ v \in Int
        /\ size * u <= a /\ b < size * v + size
    BY <1>1, <1>2
  <1> HIDE DEF u, v
  <1>5. ~(v + 1 <= u)
    <2> SUFFICES ASSUME v + 1 <= u PROVE FALSE
      OBVIOUS
    <2>1. size * v + size <= size * u
      BY <1>3, <1>4
    <2>2. size * v \in Int /\ size * u \in Int
      BY <1>4
    <2> QED BY <1>1, <1>4, <2>1, <2>2
  <1>6. u <= v
    BY <1>4, <1>5
  <1> QED
    BY <1>4, <1>6 DEF a, b, u, v
\* The page of the nth entry holds it.
LEMMA PageOfEntry ==
    ASSUME NEW size \in Nat \ {0}, NEW n \in Nat \ {0}
    PROVE  LET p == (n + size - 1) \div size
           IN  p \in Nat /\ p >= 1 /\ (p - 1) * size < n /\ n <= p * size
  <1> DEFINE a == n + size - 1
             p == a \div size
  <1>1. a \in Nat /\ a >= size
    OBVIOUS
  <1>2. \A c \in Nat : /\ c \div size \in Int
                       /\ size * (c \div size) <= c
                       /\ c < size * (c \div size) + size
    OBVIOUS
  <1>3. p \in Int /\ size * p <= a /\ a < size * p + size
    BY <1>1, <1>2
  <1> HIDE DEF p
  <1>4. p >= 1
    <2>1. \A q \in Int : q <= 0 => size * q <= 0
      OBVIOUS
    <2> QED BY <1>1, <1>3, <2>1
  <1>5. p * size = size * p /\ (p - 1) * size = size * p - size
    BY <1>3
  <1> QED
    BY <1>3, <1>4, <1>5 DEF p

=============================================================================
