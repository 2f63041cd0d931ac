---------------------------- MODULE SlotsProofs -----------------------------
(***************************************************************************)
(* is_justifiable_after computes, with two square roots, the rule that its *)
(* documentation states: for all slots, not only those a run can try.      *)
(***************************************************************************)
EXTENDS Slots, JustificationsProofs

\* The rule of containers/src/slot.rs: up to five slots after the finalized
\* one, at the distance of a perfect square, or of a product of neighbours.
Documented(slot, finalized) ==
    LET delta == slot - finalized
    IN  \/ delta <= 5
        \/ \E k \in 0..delta : delta = k * k
        \/ \E k \in 0..delta : delta = k * (k + 1)

\* Every number has an integer square root: the least r whose successor's
\* square is past n.
LEMMA SqrtExists ==
    ASSUME NEW n \in Nat
    PROVE  /\ isqrt(n) \in 0..n
           /\ isqrt(n) * isqrt(n) <= n
           /\ n < (isqrt(n) + 1) * (isqrt(n) + 1)
<1> DEFINE S == {r \in Nat : n < (r + 1) * (r + 1)}
<1>1. n \in S
  BY SMT
<1>2. PICK r \in S : \A x \in S : r <= x
  BY <1>1, LeastNatural
<1>3. r \in Nat /\ n < (r + 1) * (r + 1) /\ r <= n
  BY <1>1, <1>2
<1>4. r * r <= n
  <2>1. CASE r = 0
    BY <2>1, <1>3
  <2>2. CASE r > 0
    <3>1. r - 1 \in Nat /\ r - 1 \notin S
      BY <2>2, <1>2, <1>3
    <3>2. ~(n < (r - 1 + 1) * (r - 1 + 1))
      BY <3>1
    <3>3. r - 1 + 1 = r
      BY <1>3
    <3>4. ~(n < r * r)
      BY <3>2, <3>3
    <3>5. r * r \in Nat
      BY <1>3
    <3>6. QED BY <3>4, <3>5
  <2>3. QED BY <2>1, <2>2, <1>3
<1>5. \E x \in 0..n : x * x <= n /\ n < (x + 1) * (x + 1)
  BY <1>3, <1>4
<1>6. QED BY <1>5 DEF isqrt

\* The square root of a square.
LEMMA SqrtOfSquare ==
    ASSUME NEW k \in Nat
    PROVE  k * k \in Nat /\ isqrt(k * k) = k
<1>1. k * k \in Nat
  BY SMT
<1> DEFINE r == isqrt(k * k)
<1>2. r \in Nat /\ r * r <= k * k /\ k * k < (r + 1) * (r + 1)
  BY <1>1, SqrtExists
<1> HIDE DEF r
<1>3. ~(r > k)
  <2> SUFFICES ASSUME r > k PROVE FALSE
    OBVIOUS
  <2>1. r >= k + 1
    BY <1>2
  <2>2. r * r >= (k + 1) * (k + 1)
    BY <2>1, <1>2, SMTT(30)
  <2>3. QED BY <2>2, <1>2, SMTT(30)
<1>4. ~(r < k)
  <2> SUFFICES ASSUME r < k PROVE FALSE
    OBVIOUS
  <2>1. r + 1 <= k
    BY <1>2
  <2>2. (r + 1) * (r + 1) <= k * k
    BY <2>1, <1>2, SMTT(30)
  <2>3. QED BY <2>2, <1>1, <1>2, SMTT(30)
<1>5. r = k
  BY <1>2, <1>3, <1>4
<1>6. QED BY <1>1, <1>5 DEF r

\* A number is a square iff its integer square root squared gives it back.
LEMMA SquareTest ==
    ASSUME NEW n \in Nat
    PROVE  isqrt(n) * isqrt(n) = n <=> \E k \in 0..n : n = k * k
<1>1. ASSUME isqrt(n) * isqrt(n) = n PROVE \E k \in 0..n : n = k * k
  BY <1>1, SqrtExists
<1>2. ASSUME NEW k \in 0..n, n = k * k PROVE isqrt(n) * isqrt(n) = n
  <2>1. k \in Nat
    OBVIOUS
  <2>2. isqrt(k * k) = k
    BY <2>1, SqrtOfSquare
  <2>3. isqrt(n) = k
    BY <2>2, <1>2
  <2>4. QED BY <2>3, <1>2
<1>3. QED BY <1>1, <1>2

\* A number is a product of neighbours iff four times it plus one is the
\* square of an odd number.
LEMMA PronicTest ==
    ASSUME NEW n \in Nat
    PROVE  /\ isqrt(4 * n + 1) * isqrt(4 * n + 1) = 4 * n + 1
           /\ isqrt(4 * n + 1) % 2 = 1
           <=> \E k \in 0..n : n = k * (k + 1)
<1> DEFINE m == isqrt(4 * n + 1)
<1>1. ASSUME m * m = 4 * n + 1, m % 2 = 1 PROVE \E k \in 0..n : n = k * (k + 1)
  <2>1. m \in Nat
    BY SqrtExists
  <2> HIDE DEF m
  <2>2. PICK k \in Nat : m = 2 * k + 1
    <3>1. m \div 2 \in Nat /\ m = 2 * (m \div 2) + 1
      BY <2>1, <1>1, SMTT(30)
    <3>2. QED BY <3>1
  <2>3. m * m = 4 * (k * (k + 1)) + 1
    BY <2>2, SMTT(30)
  <2>4. n = k * (k + 1)
    BY <2>3, <1>1, SMTT(30)
  <2>5. k <= n
    BY <2>4, SMTT(30)
  <2>6. QED BY <2>4, <2>5
<1>2. ASSUME NEW k \in 0..n, n = k * (k + 1) PROVE m * m = 4 * n + 1 /\ m % 2 = 1
  <2>1. (2 * k + 1) * (2 * k + 1) = 4 * n + 1
    BY <1>2, SMTT(30)
  <2>2. 2 * k + 1 \in Nat
    OBVIOUS
  <2>3. m = 2 * k + 1
    BY <2>1, <2>2, SqrtOfSquare
  <2> HIDE DEF m
  <2>4. QED BY <2>1, <2>3, SMTT(30)
<1>3. QED BY <1>1, <1>2

\* is_justifiable_after (containers/src/slot.rs) accepts exactly the slots its
\* documentation lists, for every slot that its assert lets through.
THEOREM JustifiableAsDocumented ==
    ASSUME NEW slot \in Nat, NEW finalized \in Nat, CandidateOk(slot, finalized)
    PROVE  is_justifiable_after(slot, finalized) <=> Documented(slot, finalized)
<1>1. slot - finalized \in Nat
  BY DEF CandidateOk
<1>2. QED BY <1>1, SquareTest, PronicTest DEF is_justifiable_after, Documented
=============================================================================
