------------------------ MODULE JustificationsProofs ------------------------
(***************************************************************************)
(* Writing votes into the two flat lists of a State and reading them back  *)
(* gives the same votes, for every number of validators and of roots.      *)
(***************************************************************************)
EXTENDS Justifications, FiniteSetTheorems, TLAPS

\* Least-element principle, the form of induction the proofs below use.
LEMMA LeastNatural ==
    ASSUME NEW T \in SUBSET Nat, T # {}
    PROVE  \E m \in T : \A k \in T : m <= k
<1>1. PICK m \in T : \A k \in T : ~(<<k, m>> \in OpToRel(<, Nat))
  BY NatLessThanWellFounded, WFMin
<1>2. ASSUME NEW k \in T PROVE m <= k
  <2>1. m \in Nat /\ k \in Nat
    OBVIOUS
  <2>2. ~(k < m)
    BY <1>1, <2>1 DEF OpToRel
  <2>3. QED BY <2>1, <2>2
<1>3. QED BY <1>2

\* s lists the elements of S in ascending order.
Sorts(s, S, n) ==
    /\ s \in [1..n -> S]
    /\ \A i, j \in 1..n : i < j => s[i] < s[j]
    /\ S = {s[i] : i \in 1..n}

\* Every finite set of roots can be sorted.
LEMMA SortedExists ==
    ASSUME NEW S \in SUBSET Nat, IsFiniteSet(S)
    PROVE  \E s : Sorts(s, S, Cardinality(S))
<1> DEFINE Bad(n) == \E U \in SUBSET Nat : /\ IsFiniteSet(U)
                                           /\ Cardinality(U) = n
                                           /\ ~\E s : Sorts(s, U, n)
           T == {n \in Nat : Bad(n)}
<1>1. SUFFICES T = {}
  BY FS_CardinalityType
<1>2. SUFFICES ASSUME T # {} PROVE FALSE
  OBVIOUS
<1>3. PICK n \in T : \A k \in T : n <= k
  BY <1>2, LeastNatural
<1>4. PICK U \in SUBSET Nat : IsFiniteSet(U) /\ Cardinality(U) = n /\ ~\E s : Sorts(s, U, n)
  BY <1>3
<1>5. n \in Nat
  OBVIOUS
<1>6. CASE n = 0
  <2>1. U = {}
    BY <1>4, <1>6, FS_EmptySet
  <2>2. Sorts([i \in 1..0 |-> 0], U, n)
    BY <2>1, <1>6 DEF Sorts
  <2>3. QED BY <2>2, <1>4
<1>7. CASE n # 0
  <2>1. U # {}
    BY <1>4, <1>7, FS_EmptySet
  <2>2. PICK x \in U : \A y \in U : x <= y
    BY <2>1, LeastNatural
  <2>3. IsFiniteSet(U \ {x}) /\ Cardinality(U \ {x}) = n - 1
    BY <1>4, <2>2, FS_RemoveElement
  <2>4. n - 1 \in Nat /\ n - 1 \notin T
    BY <1>3, <1>5, <1>7
  <2>5. PICK t : Sorts(t, U \ {x}, n - 1)
    BY <2>3, <2>4, U \ {x} \in SUBSET Nat
  <2> DEFINE s == [i \in 1..n |-> IF i = 1 THEN x ELSE t[i - 1]]
  <2>6. \A i \in 1..n : i # 1 => i - 1 \in 1..(n - 1)
    BY <1>5
  <2>7. \A i \in 1..(n - 1) : t[i] \in U /\ t[i] # x /\ t[i] > x
    <3> TAKE i \in 1..(n - 1)
    <3>1. t[i] \in U \ {x}
      BY <2>5 DEF Sorts
    <3>2. x <= t[i] /\ x \in Nat /\ t[i] \in Nat
      BY <3>1, <2>2
    <3>3. QED BY <3>1, <3>2
  <2>8. s \in [1..n -> U]
    BY <2>6, <2>7
  <2>9. \A i, j \in 1..n : i < j => s[i] < s[j]
    <3> TAKE i, j \in 1..n
    <3> HAVE i < j
    <3>1. j # 1 /\ j - 1 \in 1..(n - 1) /\ s[j] = t[j - 1]
      BY <2>6, <1>5
    <3>2. CASE i = 1
      BY <3>1, <3>2, <2>7
    <3>3. CASE i # 1
      <4>1. i - 1 \in 1..(n - 1) /\ s[i] = t[i - 1] /\ i - 1 < j - 1
        BY <3>3, <2>6, <1>5
      <4>2. QED BY <4>1, <3>1, <2>5 DEF Sorts
    <3>4. QED BY <3>2, <3>3
  <2>10. U \subseteq {s[i] : i \in 1..n}
    <3>1. SUFFICES ASSUME NEW u \in U PROVE \E i \in 1..n : s[i] = u
      OBVIOUS
    <3>2. CASE u = x
      <4>1. 1 \in 1..n /\ s[1] = u
        BY <3>2, <1>5, <1>7
      <4>2. QED BY <4>1
    <3>3. CASE u # x
      <4>1. PICK i \in 1..(n - 1) : t[i] = u
        BY <2>5, <3>3 DEF Sorts
      <4>2. i + 1 \in 1..n /\ i + 1 # 1 /\ (i + 1) - 1 = i
        BY <1>5
      <4>3. s[i + 1] = u
        BY <4>1, <4>2
      <4>4. QED BY <4>2, <4>3
    <3>4. QED BY <3>2, <3>3
  <2>11. U = {s[i] : i \in 1..n}
    BY <2>8, <2>10
  <2>12. Sorts(s, U, n)
    BY <2>8, <2>9, <2>11 DEF Sorts
  <2>13. QED BY <2>12, <1>4
<1>8. QED BY <1>6, <1>7

\* sorted_roots(S) is a sequence that lists S in ascending order, hence
\* without repetition.
LEMMA SortedRoots ==
    ASSUME NEW S \in SUBSET Nat, IsFiniteSet(S)
    PROVE  LET s == sorted_roots(S)
           IN  /\ s \in Seq(Nat)
               /\ Len(s) = Cardinality(S)
               /\ Sorts(s, S, Len(s))
               /\ \A i, j \in 1..Len(s) : s[i] = s[j] => i = j
<1> DEFINE s == sorted_roots(S)
           n == Cardinality(S)
<1>1. n \in Nat
  BY FS_CardinalityType
<1>2. Sorts(s, S, n)
  <2> DEFINE P(w) == /\ \A i, j \in 1..n : i < j => w[i] < w[j]
                     /\ S = {w[i] : i \in 1..n}
  <2>1. PICK w : Sorts(w, S, n)
    BY SortedExists
  <2>2. w \in [1..n -> S] /\ P(w)
    BY <2>1 DEF Sorts
  <2>3. s = CHOOSE v \in [1..n -> S] : P(v)
    BY DEF sorted_roots
  <2> HIDE DEF P, s, n
  <2>4. s \in [1..n -> S] /\ P(s)
    BY <2>2, <2>3
  <2>5. QED BY <2>4 DEF P, Sorts
<1>3. s \in [1..n -> Nat]
  BY <1>2 DEF Sorts
<1> HIDE DEF s, n
<1>4. s \in Seq(Nat) /\ Len(s) = n
  BY <1>1, <1>3
<1>5. ASSUME NEW i \in 1..n, NEW j \in 1..n, s[i] = s[j] PROVE i = j
  <2>1. i \in Nat /\ j \in Nat /\ s[i] \in Nat /\ s[j] \in Nat
    BY <1>1, <1>3
  <2>2. ~(i < j) /\ ~(j < i)
    BY <1>2, <1>5, <2>1 DEF Sorts
  <2>3. QED BY <2>1, <2>2
<1>6. QED BY <1>2, <1>4, <1>5 DEF s, n
\* Rows are n bits long, and a longer list has room for more rows.
LEMMA RowBounds ==
    ASSUME NEW n \in Nat, NEW i \in Nat \ {0}, NEW k \in Nat \ {0}
    PROVE  /\ (i - 1) * n \in Nat /\ i * n \in Nat
           /\ (i - 1) * n + n = i * n
           /\ i <= k => i * n <= k * n
           /\ i < k => i * n <= (k - 1) * n
<1>1. ASSUME NEW a \in Nat, NEW b \in Nat, a <= b PROVE a * n <= b * n
  BY <1>1
<1>2. i - 1 \in Nat /\ k - 1 \in Nat
  OBVIOUS
<1>3. (i - 1) * n \in Nat /\ i * n \in Nat
  BY <1>2
<1>4. (i - 1) * n + n = i * n
  BY <1>2
<1>5. i <= k => i * n <= k * n
  BY <1>1
<1>6. i < k => i * n <= (k - 1) * n
  BY <1>1, <1>2
<1>7. QED BY <1>3, <1>4, <1>5, <1>6

\* Every bit of every row lies in the list.
LEMMA BitInRange ==
    ASSUME NEW n \in Nat, NEW m \in Nat, NEW i \in 1..m, NEW v \in 0..(n - 1)
    PROVE  BitPosition(i, v, n) \in 1..(m * n)
<1>1. i \in Nat \ {0} /\ m \in Nat \ {0} /\ i <= m
  OBVIOUS
<1>2. /\ (i - 1) * n \in Nat /\ i * n \in Nat /\ m * n \in Nat
      /\ (i - 1) * n + n = i * n
      /\ i * n <= m * n
  BY <1>1, RowBounds
<1>3. QED BY <1>2 DEF BitPosition

\* Bits of different rows or columns have different positions.
LEMMA BitInjective ==
    ASSUME NEW n \in Nat, NEW i \in Nat \ {0}, NEW k \in Nat \ {0},
           NEW v \in 0..(n - 1), NEW w \in 0..(n - 1),
           BitPosition(i, v, n) = BitPosition(k, w, n)
    PROVE  i = k /\ v = w
<1>1. /\ (i - 1) * n \in Nat /\ (k - 1) * n \in Nat
      /\ (i - 1) * n + n = i * n /\ (k - 1) * n + n = k * n
      /\ i < k => i * n <= (k - 1) * n
      /\ k < i => k * n <= (i - 1) * n
  BY RowBounds
<1>2. (i - 1) * n + v = (k - 1) * n + w
  BY <1>1 DEF BitPosition
<1>3. ~(i < k)
  BY <1>1, <1>2
<1>4. ~(k < i)
  BY <1>1, <1>2
<1>5. i = k
  BY <1>3, <1>4
<1>6. QED BY <1>1, <1>2, <1>5

\* Votes survive the flat encoding: with_justifications (the end of
\* process_attestations) followed by get_justifications (its beginning) is
\* the identity on maps from finitely many roots to sets of validators.
THEOREM FlatRoundTrip ==
    ASSUME NEW n \in Nat, NEW D \in SUBSET Nat, IsFiniteSet(D),
           NEW map \in [D -> SUBSET (0..(n - 1))]
    PROVE  LET roots == sorted_roots(D)
           IN  get_justifications(roots, flat_bits(roots, map, n), n) = map
<1> DEFINE roots == sorted_roots(D)
           len == Len(roots)
           bits == flat_bits(roots, map, n)
           out == get_justifications(roots, bits, n)
<1>1. /\ roots \in Seq(Nat)
      /\ Sorts(roots, D, len)
      /\ \A i, j \in 1..len : roots[i] = roots[j] => i = j
  BY SortedRoots
<1>2. len \in Nat
  BY <1>1
<1>3. D = {roots[i] : i \in 1..len}
  BY <1>1 DEF Sorts
<1> HIDE DEF roots
<1>4. ASSUME NEW i \in 1..len, NEW v \in 0..(n - 1)
      PROVE  bits[BitPosition(i, v, n)] <=> v \in map[roots[i]]
  <2>1. BitPosition(i, v, n) \in 1..(len * n)
    BY BitInRange, <1>2
  <2>2. bits[BitPosition(i, v, n)] =
            \E k \in 1..len, w \in 0..(n - 1) :
                BitPosition(i, v, n) = BitPosition(k, w, n) /\ w \in map[roots[k]]
    BY <2>1 DEF flat_bits
  <2>3. ASSUME NEW k \in 1..len, NEW w \in 0..(n - 1),
               BitPosition(i, v, n) = BitPosition(k, w, n)
        PROVE  k = i /\ w = v
    <3>1. i \in Nat \ {0} /\ k \in Nat \ {0}
      BY <1>2
    <3> HIDE DEF len
    <3>2. QED BY <2>3, <3>1, BitInjective
  <2>4. QED BY <2>2, <2>3
<1>5. DOMAIN out = D
  BY <1>3 DEF get_justifications
<1>6. ASSUME NEW r \in D PROVE out[r] = map[r]
  <2>1. PICK i \in 1..len : roots[i] = r
    BY <1>3
  <2>2. \A k \in 1..len : roots[k] = r => k = i
    BY <2>1, <1>1
  <2>3. out[r] = {v \in 0..(n - 1) :
                    \E k \in 1..len : roots[k] = r /\ bits[BitPosition(k, v, n)]}
    BY <1>3 DEF get_justifications
  <2>4. \A v \in 0..(n - 1) :
            (\E k \in 1..len : roots[k] = r /\ bits[BitPosition(k, v, n)])
               <=> v \in map[r]
    BY <1>4, <2>1, <2>2
  <2>5. map[r] \subseteq 0..(n - 1)
    OBVIOUS
  <2> HIDE DEF bits, out, len
  <2>6. QED BY <2>3, <2>4, <2>5
<1>7. out = [r \in D |-> out[r]]
  BY <1>3 DEF get_justifications
<1>8. map = [r \in D |-> map[r]]
  OBVIOUS
<1> HIDE DEF out
<1>9. out = map
  BY <1>6, <1>7, <1>8
<1>10. QED BY <1>9 DEF out, roots
=============================================================================
