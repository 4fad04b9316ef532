------------------------------ MODULE HelperProofs ------------------------------
(***************************************************************************)
(* Lemmas that the other proofs rest on: which early return answers        *)
(* (Checks), and induction over the natural numbers for the recursive      *)
(* functions of the models, from the order of the numbers being well       *)
(* founded.                                                                *)
(***************************************************************************)
EXTENDS Checks, WellFoundedInduction, TLAPS

\* When a check fails, the answer is the code of one that fails with none
\* failing before it.
LEMMA FailureIsNamed ==
  ASSUME NEW checks, DOMAIN checks \subseteq 1..5,
         NEW k \in DOMAIN checks, checks[k].fails
  PROVE  \E i \in DOMAIN checks :
           /\ checks[i].fails
           /\ FirstFailure(checks) = checks[i].code
           /\ \A j \in DOMAIN checks : j < i => ~checks[j].fails
<1> DEFINE failing == {i \in DOMAIN checks : checks[i].fails}
           least(i) == \A j \in failing : i <= j
           first == CHOOSE i \in failing : least(i)
<1>1. failing \subseteq 1..5 /\ failing # {}
  OBVIOUS
<1>2. \E i \in failing : least(i)
  <2> HIDE DEF failing
  <2>1. CASE 1 \in failing
    BY <2>1, <1>1
  <2>2. CASE 1 \notin failing /\ 2 \in failing
    BY <2>2, <1>1
  <2>3. CASE 1 \notin failing /\ 2 \notin failing /\ 3 \in failing
    BY <2>3, <1>1
  <2>4. CASE 1 \notin failing /\ 2 \notin failing /\ 3 \notin failing /\ 4 \in failing
    BY <2>4, <1>1
  <2>5. CASE failing \cap 1..4 = {}
    <3>1. \A i \in failing : i = 5
      BY <2>5, <1>1
    <3>2. PICK i : i \in failing
      BY <1>1
    <3>3. least(i)
      BY <3>1, <3>2
    <3> QED
      BY <3>2, <3>3
  <2> QED
    BY <2>1, <2>2, <2>3, <2>4, <2>5
<1>3. first \in failing /\ least(first)
  <2> HIDE DEF failing, least
  <2> QED
    BY <1>2
<1>4. FirstFailure(checks) = checks[first].code
  BY <1>1 DEF FirstFailure
<1>5. \A j \in DOMAIN checks : j < first => ~checks[j].fails
  <2> SUFFICES ASSUME NEW j \in DOMAIN checks, j < first, checks[j].fails
               PROVE  FALSE
    OBVIOUS
  <2>1. j \in failing
    OBVIOUS
  <2> HIDE DEF failing, first
  <2> QED
    BY <2>1, <1>1, <1>3
<1> QED
  BY <1>3, <1>4, <1>5

\* When none fails, the answer is "none".
LEMMA NoFailure ==
  ASSUME NEW checks, \A i \in DOMAIN checks : ~checks[i].fails
  PROVE  FirstFailure(checks) = "none"
BY DEF FirstFailure

\* The answer is one of the codes, and "none" only when every check passes.
LEMMA Verdict ==
  ASSUME NEW checks, DOMAIN checks \subseteq 1..5, NEW codes, "none" \notin codes,
         \A i \in DOMAIN checks : checks[i].code \in codes
  PROVE  /\ FirstFailure(checks) \in codes \cup {"none"}
         /\ FirstFailure(checks) = "none" => \A i \in DOMAIN checks : ~checks[i].fails
<1>1. CASE \E k \in DOMAIN checks : checks[k].fails
  BY <1>1, FailureIsNamed
<1>2. CASE \A k \in DOMAIN checks : ~checks[k].fails
  BY <1>2, NoFailure
<1> QED
  BY <1>1, <1>2

-------------------------------------------------------------------------------
(* Induction.                                                                 *)

\* A set of numbers that is not empty has a least element.
LEMMA Least ==
  ASSUME NEW S \in SUBSET Nat, S # {}
  PROVE  \E m \in S : \A n \in S : m <= n
<1> DEFINE R == OpToRel(<, Nat)
<1>1. IsWellFoundedOn(R, Nat)
  BY NatLessThanWellFounded, Zenon
<1>2. \A x, y \in Nat : x < y => <<x, y>> \in R
  BY SMT DEF OpToRel
<1> HIDE DEF R
<1>3. \E x \in S : \A y \in S : ~(<<y, x>> \in R)
  BY <1>1, WFMin
<1>4. PICK m \in S : \A y \in S : ~(<<y, m>> \in R)
  BY <1>3
<1>5. \A n \in S : m <= n
  <2> TAKE n \in S
  <2>1. m \in Nat /\ n \in Nat /\ ~(n < m)
    BY <1>2, <1>4
  <2> QED
    BY <2>1, SMT
<1> QED
  BY <1>5

\* Induction: what holds of 0 and goes from each number to the next holds of all.
LEMMA Climb ==
  ASSUME NEW S, 0 \in S, \A n \in Nat : n \in S => n + 1 \in S
  PROVE  Nat \subseteq S
<1> DEFINE T == {n \in Nat : n \notin S}
<1>1. ASSUME T # {} PROVE FALSE
  <2>1. PICK m \in T : \A n \in T : m <= n
    BY <1>1, Least
  <2>2. m # 0 /\ m - 1 \in Nat /\ m - 1 \notin T
    BY <2>1
  <2> QED
    BY <2>1, <2>2
<1> QED
  BY <1>1

\* A function can be iterated from any element of its domain.
LEMMA IterationExists ==
  ASSUME NEW V, NEW v \in V, NEW f \in [V -> V]
  PROVE  \E g \in [Nat -> V] : g[0] = v /\ \A k \in Nat : g[k + 1] = f[g[k]]
<1> DEFINE Upto(g, n) ==
             /\ g \in [0..n -> V] /\ g[0] = v
             /\ \A k \in Nat : k < n => g[k + 1] = f[g[k]]
           Built == {n \in Nat : \E g : Upto(g, n)}
<1>1. 0 \in Built
  <2>1. Upto([i \in 0..0 |-> v], 0)
    OBVIOUS
  <2> QED
    BY <2>1
<1>2. ASSUME NEW n \in Nat, n \in Built PROVE n + 1 \in Built
  <2>1. PICK h : Upto(h, n)
    BY <1>2
  <2> DEFINE g == [i \in 0..n + 1 |-> IF i = n + 1 THEN f[h[n]] ELSE h[i]]
  <2>2. g \in [0..n + 1 -> V]
    <3>1. h[n] \in V /\ f[h[n]] \in V
      BY <2>1
    <3>2. \A i \in 0..n + 1 : i # n + 1 => i \in 0..n
      OBVIOUS
    <3> QED
      BY <2>1, <3>1, <3>2
  <2>3. g[0] = v
    BY <2>1
  <2>4. ASSUME NEW k \in Nat, k < n + 1 PROVE g[k + 1] = f[g[k]]
    <3>1. k \in 0..n /\ k \in 0..n + 1 /\ k + 1 \in 0..n + 1 /\ k # n + 1
      BY <2>4
    <3>2. g[k] = h[k]
      BY <3>1
    <3>3. CASE k = n
      BY <3>1, <3>2, <3>3
    <3>4. CASE k < n
      <4>1. k + 1 # n + 1 /\ h[k + 1] = f[h[k]]
        BY <2>1, <3>4
      <4> QED
        BY <3>1, <3>2, <4>1
    <3> QED
      BY <3>1, <3>3, <3>4
  <2>5. Upto(g, n + 1)
    BY <2>2, <2>3, <2>4
  <2> HIDE DEF g, Upto
  <2>6. \E e : Upto(e, n + 1)
    BY <2>5
  <2> QED
    BY <2>6
<1>3. \A n \in Nat : \E g : Upto(g, n)
  <2>1. Nat \subseteq Built
    <3> HIDE DEF Built
    <3> QED
      BY <1>1, <1>2, Climb
  <2> QED
    BY <2>1
<1> DEFINE G(n) == CHOOSE g : Upto(g, n)
           g == [n \in Nat |-> G(n)[n]]
<1>4. \A n \in Nat : Upto(G(n), n)
  <2> HIDE DEF Upto
  <2> QED
    BY <1>3
<1>5. ASSUME NEW n \in Nat, NEW m \in Nat, n <= m PROVE G(m)[n] = G(n)[n]
  <2> DEFINE a == G(m)
             b == G(n)
             Agree == {k \in Nat : k <= n => a[k] = b[k]}
  <2>1. Upto(a, m) /\ Upto(b, n)
    BY <1>4
  <2> HIDE DEF a, b
  <2>2. 0 \in Agree
    BY <2>1
  <2>3. ASSUME NEW k \in Nat, k \in Agree PROVE k + 1 \in Agree
    BY <1>5, <2>1, <2>3
  <2>4. Nat \subseteq Agree
    <3> HIDE DEF Agree
    <3> QED
      BY <2>2, <2>3, Climb
  <2>5. a[n] = b[n]
    BY <2>4
  <2> QED
    BY <2>5 DEF a, b
<1>6. g \in [Nat -> V]
  <2> SUFFICES ASSUME NEW n \in Nat PROVE G(n)[n] \in V
    OBVIOUS
  <2> HIDE DEF G
  <2>1. G(n) \in [0..n -> V] /\ n \in 0..n
    BY <1>4
  <2> QED
    BY <2>1
<1>7. g[0] = v
  <2> HIDE DEF G
  <2> QED
    BY <1>4
<1>8. ASSUME NEW k \in Nat PROVE g[k + 1] = f[g[k]]
  <2> HIDE DEF G
  <2>1. G(k + 1)[k + 1] = f[G(k + 1)[k]]
    <3>1. Upto(G(k + 1), k + 1) /\ k + 1 \in Nat /\ k < k + 1
      BY <1>4
    <3> QED
      BY <3>1
  <2>2. G(k + 1)[k] = G(k)[k]
    BY <1>5
  <2> QED
    BY <2>1, <2>2
<1> QED
  BY <1>6, <1>7, <1>8
=================================================================================
