----------------------------- MODULE Induction ------------------------------
(***************************************************************************)
(* Induction over the natural numbers, for a set of numbers: what the     *)
(* proofs about recursive functions and about the last of several places  *)
(* rest on.                                                               *)
(***************************************************************************)
EXTENDS Integers, TLAPS

LOCAL INSTANCE WellFoundedInduction

\* Some well-founded relation holds of every number and every greater one.
LEMMA NatLess ==
  \E R : /\ IsWellFoundedOn(R, Nat)
         /\ \A m, n \in Nat : m < n => <<m, n>> \in R
<1>1. \A m, n \in Nat : m < n => <<m, n>> \in OpToRel(<, Nat)
  BY DEF OpToRel
<1> QED
  BY <1>1, NatLessThanWellFounded, Zenon

\* A set of numbers has a least one.
LEMMA Least ==
  ASSUME NEW T, T \subseteq Nat, T # {}
  PROVE  \E n \in T : \A m \in T : n <= m
<1>1. PICK R : /\ IsWellFoundedOn(R, Nat)
               /\ \A m, n \in Nat : m < n => <<m, n>> \in R
  BY NatLess, Zenon
<1>2. IsWellFoundedOn(R, Nat)
  BY <1>1
<1>3. \E x \in T : \A y \in T : ~ (<<y, x>> \in R)
  <2> HIDE <1>1
  <2> QED
    BY <1>2, WFMin, Zenon
<1>4. PICK x \in T : \A y \in T : ~ (<<y, x>> \in R)
  BY <1>3
<1>5. ASSUME NEW y \in T PROVE x <= y
  <2>1. x \in Nat /\ y \in Nat
    OBVIOUS
  <2>2. ~(<<y, x>> \in R)
    BY <1>4
  <2>3. y < x => <<y, x>> \in R
    BY <1>1, <2>1
  <2> QED
    BY <2>1, <2>2, <2>3
<1> QED
  BY <1>5

\* A set of numbers that holds 0, and with n also n + 1, holds them all.
LEMMA Induct ==
  ASSUME NEW T, T \subseteq Nat, 0 \in T, \A n \in T : n + 1 \in T
  PROVE  T = Nat
<1>1. SUFFICES ASSUME Nat \ T # {} PROVE FALSE
  BY Zenon
<1>2. PICK n \in Nat \ T : \A m \in Nat \ T : n <= m
  BY <1>1, Least, Zenon
<1>3. n # 0 /\ n - 1 \in Nat
  BY <1>2
<1>4. n - 1 \in T
  BY <1>2, <1>3
<1> QED
  BY <1>2, <1>3, <1>4

\* A set of numbers with a bound has a greatest one.
LEMMA Greatest ==
  ASSUME NEW b \in Nat, NEW S, S \subseteq 0..b, S # {}
  PROVE  \E n \in S : \A m \in S : m <= n
<1> DEFINE T == {b - n : n \in S}
<1>1. T \subseteq Nat /\ T # {}
  <2>1. \A n \in S : b - n \in Nat
    OBVIOUS
  <2>2. PICK n \in S : TRUE
    BY Zenon
  <2>3. b - n \in T
    OBVIOUS
  <2> QED
    BY <2>1, <2>3
<1>2. PICK t \in T : \A m \in T : t <= m
  BY <1>1, Least, Zenon
<1>3. PICK n \in S : t = b - n
  BY <1>2
<1>4. ASSUME NEW m \in S PROVE m <= n
  <2>1. b - m \in T /\ m \in Int /\ n \in Int
    OBVIOUS
  <2>2. b - n <= b - m
    BY <1>2, <1>3, <2>1
  <2> QED
    BY <2>1, <2>2
<1> QED
  BY <1>4

\* f begins with a and goes from each place to the next by the step.
Steps(f, n, D, a, step) ==
    /\ f \in [0..n -> D]
    /\ f[0] = a
    /\ \A i \in 1..n : f[i] = step[<<f[i - 1], i>>]

\* A value to begin with and a step from each value to the next define a
\* function on 0..n: what a recursive function over the places of a
\* sequence needs in order to be one.
LEMMA Recursion ==
  ASSUME NEW n \in Nat, NEW D, NEW a \in D, NEW step \in [D \X (1..n) -> D]
  PROVE  \E f : Steps(f, n, D, a, step)
<1> DEFINE Upto(m) == \E f : Steps(f, m, D, a, step)
           T == {m \in Nat : m <= n => Upto(m)}
<1>1. 0 \in T
  <2> DEFINE f == [i \in 0..0 |-> a]
  <2>1. f \in [0..0 -> D] /\ f[0] = a /\ 1..0 = {}
    OBVIOUS
  <2> HIDE DEF f
  <2>2. Upto(0)
    BY <2>1 DEF Steps
  <2> QED
    BY <2>2
<1>2. ASSUME NEW m \in T PROVE m + 1 \in T
  <2>1. SUFFICES ASSUME m + 1 <= n PROVE Upto(m + 1)
    <3> HIDE DEF Upto
    <3> QED
      OBVIOUS
  <2>2. m \in Nat /\ m <= n /\ m + 1 \in 1..n
    BY <2>1
  <2>3. PICK f \in [0..m -> D] : /\ f[0] = a
                                 /\ \A i \in 1..m : f[i] = step[<<f[i - 1], i>>]
    BY <2>2 DEF Steps
  <2> DEFINE last == step[<<f[m], m + 1>>]
             g == [i \in 0..m + 1 |-> IF i = m + 1 THEN last ELSE f[i]]
  <2>4. last \in D
    BY <2>2
  <2>5. g \in [0..m + 1 -> D] /\ g[0] = a
    <3> HIDE DEF last
    <3> QED
      BY <2>2, <2>3, <2>4
  <2>6. ASSUME NEW i \in 1..m + 1 PROVE g[i] = step[<<g[i - 1], i>>]
    <3>1. CASE i = m + 1
      <4>1. g[i] = last /\ g[i - 1] = f[m]
        <5> HIDE DEF last
        <5> QED
          BY <2>2, <3>1
      <4> QED
        BY <3>1, <4>1, Zenon
    <3>2. CASE i # m + 1
      <4>1. i \in 1..m /\ g[i] = f[i] /\ g[i - 1] = f[i - 1]
        <5> HIDE DEF last
        <5> QED
          BY <2>2, <3>2
      <4> QED
        BY <2>3, <4>1
    <3> QED
      BY <3>1, <3>2
  <2> HIDE DEF g
  <2> QED
    BY <2>5, <2>6 DEF Steps
<1>3. T = Nat
  <2> HIDE DEF Upto
  <2>1. T \subseteq Nat
    OBVIOUS
  <2> HIDE DEF T
  <2> QED
    BY <1>1, <1>2, <2>1, Induct, Zenon
<1> HIDE DEF Upto
<1>4. Upto(n)
  BY <1>3
<1> QED
  BY <1>4 DEF Upto
=============================================================================
