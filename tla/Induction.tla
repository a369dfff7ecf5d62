----------------------------- MODULE Induction -----------------------------
(***************************************************************************)
(* Induction over the natural numbers, stated over sets: the form in which *)
(* the proofs about walks along linked blocks use it.                      *)
(***************************************************************************)
EXTENDS Integers, WellFoundedInduction, TLAPS

(* Every nonempty set of natural numbers has a least element: the first step of   *)
(* a walk at which something is the case.                                         *)
LEMMA Least ==
  ASSUME NEW T \in SUBSET Nat, T # {}
  PROVE  \E n \in T : \A m \in T : n <= m
<1> DEFINE R == {ss \in Nat \X Nat : ss[1] < ss[2]}
<1>1. IsWellFoundedOn(R, Nat)
  BY NatLessThanWellFounded DEF OpToRel
<1>2. PICK x \in T : \A y \in T : <<y, x>> \notin R
  <2> HIDE DEF R
  <2> QED BY <1>1, WFMin
<1>3. ASSUME NEW m \in T PROVE x <= m
  <2>1. <<m, x>> \notin R
    BY <1>2
  <2>2. QED BY <2>1
<1>4. QED BY <1>3

(* A bounded one has a greatest element: the last step of a walk.                  *)
LEMMA Greatest ==
  ASSUME NEW b \in Nat, NEW T \in SUBSET (0..b), T # {}
  PROVE  \E n \in T : \A m \in T : m <= n
<1> DEFINE D == {b - x : x \in T}
<1>1. D \in SUBSET Nat /\ D # {}
  <2>1. PICK x \in T : TRUE
    OBVIOUS
  <2>2. b - x \in D
    OBVIOUS
  <2>3. \A x1 \in T : b - x1 \in Nat
    OBVIOUS
  <2>4. QED BY <2>2, <2>3
<1>2. PICK d \in D : \A m \in D : d <= m
  <2> HIDE DEF D
  <2> QED BY <1>1, Least
<1>3. PICK n \in T : d = b - n
  OBVIOUS
<1>4. ASSUME NEW m \in T PROVE m <= n
  <2>1. d <= b - m
    BY <1>2
  <2>2. QED BY <1>3, <2>1
<1>5. QED BY <1>4

(* What holds at 0, and at n + 1 whenever at n, holds at every natural number.     *)
LEMMA SetInduction ==
  ASSUME NEW T \in SUBSET Nat, 0 \in T, \A n \in T : n + 1 \in T
  PROVE  T = Nat
<1>1. SUFFICES ASSUME Nat \ T # {} PROVE FALSE
  OBVIOUS
<1>2. PICK n \in Nat \ T : \A m \in Nat \ T : n <= m
  BY <1>1, Least
<1>3. n - 1 \in T
  BY <1>2
<1>4. QED BY <1>2, <1>3

(* A one-to-one function of 1..n into itself reaches every number of 1..n.         *)
LEMMA Pigeonhole ==
  ASSUME NEW n \in Nat, NEW f \in [1..n -> 1..n],
         \A x, y \in 1..n : f[x] = f[y] => x = y
  PROVE  \A k \in 1..n : \E x \in 1..n : f[x] = k
<1> DEFINE OneToOne(h, m) == \A x, y \in 1..m : h[x] = h[y] => x = y
           Onto(h, m) == \A k \in 1..m : \E x \in 1..m : h[x] = k
           T == {m \in Nat : \A h \in [1..m -> 1..m] : OneToOne(h, m) => Onto(h, m)}
<1>1. 0 \in T
  OBVIOUS
<1>2. ASSUME NEW m \in T PROVE m + 1 \in T
  <2>1. SUFFICES ASSUME NEW h \in [1..m + 1 -> 1..m + 1], OneToOne(h, m + 1) PROVE Onto(h, m + 1)
    <3> HIDE DEF OneToOne, Onto
    <3> QED OBVIOUS
  <2> DEFINE a == h[m + 1]
             g == [x \in 1..m |-> IF h[x] = m + 1 THEN a ELSE h[x]]
  <2>2. g \in [1..m -> 1..m]
    <3>1. ASSUME NEW x \in 1..m PROVE h[x] \in 1..m + 1 /\ a \in 1..m + 1 /\ h[x] # a
      BY <2>1
    <3>2. ASSUME NEW x \in 1..m PROVE (IF h[x] = m + 1 THEN a ELSE h[x]) \in 1..m
      <4>1. h[x] \in 1..m + 1 /\ a \in 1..m + 1 /\ h[x] # a /\ m \in Nat
        BY <3>1
      <4> HIDE DEF a, T
      <4>2. \A k \in 1..m + 1 : k # m + 1 => k \in 1..m
        BY <4>1
      <4>3. (h[x] # m + 1 => h[x] \in 1..m) /\ (h[x] = m + 1 => a \in 1..m)
        BY ONLY <4>1, <4>2
      <4> QED BY ONLY <4>3
    <3> HIDE DEF a
    <3> QED BY <3>2
  <2>3. OneToOne(g, m)
    <3>1. SUFFICES ASSUME NEW x \in 1..m, NEW y \in 1..m, g[x] = g[y] PROVE x = y
      OBVIOUS
    <3>2. /\ x \in 1..m + 1 /\ y \in 1..m + 1 /\ m + 1 \in 1..m + 1 /\ x # m + 1 /\ y # m + 1
      OBVIOUS
    <3>3. h[x] # a /\ h[y] # a /\ (h[x] = h[y] => x = y)
      BY <2>1, <3>2
    <3>4. /\ (IF h[x] = m + 1 THEN a ELSE h[x]) = (IF h[y] = m + 1 THEN a ELSE h[y])
      BY <3>1
    <3> QED BY <3>3, <3>4
  <2>4. Onto(g, m)
    <3> HIDE DEF g, OneToOne, Onto
    <3> QED BY <2>2, <2>3
  <2>5. ASSUME NEW k \in 1..m PROVE \E x \in 1..m + 1 : h[x] = k
    <3>1. PICK x \in 1..m : g[x] = k
      BY <2>4
    <3> QED BY <3>1
  <2>6. \E x \in 1..m + 1 : h[x] = m + 1
    <3>1. CASE a = m + 1
      BY <3>1
    <3>2. CASE a # m + 1
      <4>0. a \in 1..m
        BY <3>2
      <4>1. PICK x \in 1..m : g[x] = a
        <5> HIDE DEF a, g
        <5> QED BY <2>4, <4>0
      <4>2. h[x] # a
        BY <2>1
      <4> QED BY <4>1, <4>2
    <3> QED BY <3>1, <3>2
  <2>7. \A k \in 1..m + 1 : k \in 1..m \/ k = m + 1
    OBVIOUS
  <2> HIDE DEF a, g
  <2> QED BY <2>5, <2>6, <2>7
<1>3. T = Nat
  <2> HIDE DEF T
  <2>1. T \in SUBSET Nat
    BY DEF T
  <2> QED BY <1>1, <1>2, <2>1, SetInduction
<1> QED BY <1>3
=============================================================================
