---------------------------- MODULE WakInduction ----------------------------
(***************************************************************************)
(* Induction over the natural numbers, in terms of sets and functions      *)
(* only: to show a property of every number, show that the set of numbers  *)
(* which have it contains 0 and each successor.  From it, that a function  *)
(* defined by recursion over the positions of a sequence exists.           *)
(***************************************************************************)
EXTENDS Integers, WellFoundedInduction, TLAPS

(* A set of natural numbers that is not empty has a least element. *)
LEMMA LeastElement ==
  ASSUME NEW T, T \subseteq Nat, T # {}
  PROVE  \E x \in T : \A y \in T : x <= y
<1> DEFINE R == OpToRel(<, Nat)
<1>1. IsWellFoundedOn(R, Nat)
  BY NatLessThanWellFounded DEF R
<1>2. R = {ss \in Nat \X Nat : ss[1] < ss[2]}
  BY DEF R, OpToRel
<1> HIDE DEF R
<1>3. PICK x \in T : \A y \in T : ~(<<y, x>> \in R)
  BY <1>1, WFMin
<1>4. \A y \in T : <<y, x>> \in Nat \X Nat
  OBVIOUS
<1>5. \A y \in T : ~(y < x)
  BY <1>2, <1>3, <1>4
<1>6. \A y \in T : y \in Nat
  OBVIOUS
<1> QED
  BY <1>5, <1>6

(* One that is bounded has a greatest element. *)
LEMMA GreatestElement ==
  ASSUME NEW n \in Nat, NEW T, T \subseteq 0..n, T # {}
  PROVE  \E x \in T : \A y \in T : y <= x
<1> DEFINE D == {n - y : y \in T}
<1>1. D \subseteq Nat /\ D # {}
  <2>1. \A y \in T : y \in 0..n
    OBVIOUS
  <2>2. \A y \in T : n - y \in Nat
    BY <2>1
  <2> QED
    BY <2>2
<1>2. PICK d \in D : \A e \in D : d <= e
  BY <1>1, LeastElement
<1>3. PICK x \in T : d = n - x
  BY <1>2
<1>4. \A y \in T : d <= n - y
  BY <1>2
<1>5. \A y \in T : y \in 0..n
  OBVIOUS
<1> QED
  BY <1>3, <1>4, <1>5

(* Induction. *)
LEMMA SetInduction ==
  ASSUME NEW T, 0 \in T, \A n \in Nat : n \in T => n + 1 \in T
  PROVE  Nat \subseteq T
<1> SUFFICES ASSUME Nat \ T # {} PROVE FALSE
  OBVIOUS
<1>1. PICK x \in Nat \ T : \A y \in Nat \ T : x <= y
  BY LeastElement
<1>2. x # 0 /\ x - 1 \in Nat /\ x - 1 \notin Nat \ T
  BY <1>1
<1> QED
  BY <1>2

(* What step does at each of the positions 1..n. *)
Steps(S, n) == [1..n -> [S -> S]]

(* f holds the values that begin with base and come about by the steps. *)
Iterates(f, S, base, n, step) ==
  /\ f \in [0..n -> S]
  /\ f[0] = base
  /\ \A i \in 1..n : f[i] = step[i][f[i - 1]]

(* Such a function exists. *)
LEMMA RecursionExists ==
  ASSUME NEW S, NEW base \in S, NEW n \in Nat, NEW step \in Steps(S, n)
  PROVE  \E f : Iterates(f, S, base, n, step)
<1> USE DEF Iterates, Steps
<1> DEFINE T == {m \in Nat : m <= n => \E f : Iterates(f, S, base, m, step)}
<1>1. 0 \in T
  <2> DEFINE f == [i \in 0..0 |-> base]
  <2>1. Iterates(f, S, base, 0, step)
    OBVIOUS
  <2> HIDE DEF f
  <2> QED
    BY <2>1
<1>2. ASSUME NEW m \in Nat, m \in T
      PROVE  m + 1 \in T
  <2> SUFFICES ASSUME m + 1 <= n
               PROVE  \E f : Iterates(f, S, base, m + 1, step)
    OBVIOUS
  <2>1. PICK g : Iterates(g, S, base, m, step)
    BY <1>2
  <2> DEFINE f == [i \in 0..(m + 1) |-> IF i <= m THEN g[i] ELSE step[m + 1][g[m]]]
  <2>2. g[m] \in S /\ step[m + 1][g[m]] \in S
    BY <2>1
  <2>3. f \in [0..(m + 1) -> S]
    BY <2>1, <2>2
  <2>4. f[0] = base
    BY <2>1
  <2>5. ASSUME NEW i \in 1..(m + 1)
        PROVE  f[i] = step[i][f[i - 1]]
    <3>1. f[i - 1] = g[i - 1]
      OBVIOUS
    <3>2. CASE i <= m
      BY <2>1, <3>1, <3>2
    <3>3. CASE i = m + 1
      <4>1. f[i] = step[m + 1][g[m]] /\ i - 1 = m
        BY <3>3
      <4> QED
        BY <3>1, <3>3, <4>1
    <3> QED
      BY <3>2, <3>3
  <2> HIDE DEF f
  <2>6. Iterates(f, S, base, m + 1, step)
    BY <2>3, <2>4, <2>5
  <2> QED
    BY <2>6
<1> HIDE DEF T
<1>3. n \in T
  BY <1>1, <1>2, SetInduction
<1> QED
  BY <1>3 DEF T

(* From each position 1..n, on to a later one or no further. *)
Jumps(n) == {jump \in [1..n -> Nat] : \A k \in 1..n : jump[k] = k \/ jump[k] \in (k + 1)..n}

(* A function that follows the jumps to where they end exists. *)
LEMMA FollowingExists ==
  ASSUME NEW n \in Nat, NEW jump \in Jumps(n)
  PROVE  \E f \in [1..n -> Nat] :
           \A k \in 1..n : f[k] = IF jump[k] = k THEN k ELSE f[jump[k]]
<1> DEFINE Follows(f, m) ==
             /\ f \in [(n - m + 1)..n -> Nat]
             /\ \A k \in (n - m + 1)..n : f[k] = IF jump[k] = k THEN k ELSE f[jump[k]]
           T == {m \in Nat : m <= n => \E f : Follows(f, m)}
<1>1. 0 \in T
  <2>1. Follows([k \in (n - 0 + 1)..n |-> 0], 0)
    OBVIOUS
  <2> QED
    BY <2>1
<1>2. ASSUME NEW m \in Nat, m \in T
      PROVE  m + 1 \in T
  <2> SUFFICES ASSUME m + 1 <= n
               PROVE  \E f : Follows(f, m + 1)
    OBVIOUS
  <2>1. PICK g : Follows(g, m)
    BY <1>2
  <2> DEFINE a == n - m
             f == [k \in a..n |-> IF k = a THEN (IF jump[a] = a THEN a ELSE g[jump[a]])
                                           ELSE g[k]]
  <2>2. a \in 1..n /\ n - m + 1 = a + 1 /\ n - (m + 1) + 1 = a
    OBVIOUS
  <2>3. g \in [(a + 1)..n -> Nat]
        /\ \A k \in (a + 1)..n : g[k] = IF jump[k] = k THEN k ELSE g[jump[k]]
    BY <2>1, <2>2
  <2>4. \A k \in 1..n : jump[k] = k \/ jump[k] \in (k + 1)..n
    BY DEF Jumps
  <2> HIDE DEF a
  <2>5. f \in [a..n -> Nat]
    BY <2>2, <2>3, <2>4
  <2>6. ASSUME NEW k \in a..n
        PROVE  f[k] = IF jump[k] = k THEN k ELSE f[jump[k]]
    <3>1. \A j \in (a + 1)..n : f[j] = g[j]
      BY <2>2
    <3>2. CASE k = a
      <4>1. f[a] = IF jump[a] = a THEN a ELSE g[jump[a]]
        BY <2>2
      <4>2. jump[a] # a => f[jump[a]] = g[jump[a]]
        BY <2>2, <2>4, <3>1
      <4> QED
        BY <3>2, <4>1, <4>2
    <3>3. CASE k # a
      <4>1. k \in (a + 1)..n /\ k \in 1..n
        BY <2>2, <3>3
      <4>2. f[k] = g[k] /\ g[k] = IF jump[k] = k THEN k ELSE g[jump[k]]
        BY <2>3, <3>1, <4>1
      <4>3. jump[k] # k => jump[k] \in (a + 1)..n
        BY <2>2, <2>4, <4>1
      <4> QED
        BY <3>1, <4>2, <4>3
    <3> QED
      BY <3>2, <3>3
  <2> HIDE DEF f
  <2>7. Follows(f, m + 1)
    BY <2>2, <2>5, <2>6
  <2> QED
    BY <2>7
<1> HIDE DEF T
<1>3. n \in T
  BY <1>1, <1>2, SetInduction
<1>4. PICK f : Follows(f, n)
  BY <1>3 DEF T
<1>5. n - n + 1 = 1
  OBVIOUS
<1>6. f \in [1..n -> Nat] /\ \A k \in 1..n : f[k] = IF jump[k] = k THEN k ELSE f[jump[k]]
  BY <1>4, <1>5
<1> QED
  BY <1>6
=============================================================================
