---------------------------- MODULE NatRecursion ----------------------------
(***************************************************************************)
(* Facts about the naturals the proofs of the components share: induction, *)
(* the functions defined by recursion on an index, division with remainder.*)
(***************************************************************************)
EXTENDS Integers, TLAPS, WellFoundedInduction

(* Induction over the naturals: a set with 0 that is closed under          *)
(* successor holds them all.                                               *)
LEMMA NatClosure ==
  ASSUME NEW S, 0 \in S, \A n \in Nat : n \in S => n + 1 \in S
  PROVE Nat \subseteq S
<1> SUFFICES ASSUME Nat \ S # {} PROVE FALSE
  OBVIOUS
<1> DEFINE R == {ss \in Nat \X Nat : ss[1] < ss[2]}
<1>1. IsWellFoundedOn(R, Nat)
  BY NatLessThanWellFounded DEF OpToRel
<1>2. PICK m \in Nat \ S : \A y \in Nat \ S : ~(<<y, m>> \in R)
  BY <1>1, WFMin
<1>3. m # 0 /\ m - 1 \in Nat /\ m - 1 \notin S
  OBVIOUS
<1>4. <<m - 1, m>> \in R
  BY <1>3
<1> QED BY <1>2, <1>3, <1>4

(* Recursion: T[i] is step i, and an orbit starts with e and takes them    *)
(* one by one.                                                             *)
Stepper(T, N, S) == T \in [1 .. N -> [S -> S]]
Orbit(f, N, S, e, T) ==
  /\ f \in [0 .. N -> S]
  /\ f[0] = e
  /\ \A i \in 1 .. N : f[i] = T[i][f[i - 1]]

LEMMA Recursion ==
  ASSUME NEW S, NEW e \in S, NEW N \in Nat, NEW T, Stepper(T, N, S)
  PROVE  \E f : Orbit(f, N, S, e, T)
<1> USE DEF Stepper
<1> DEFINE Upto(n, f) == f[0] = e /\ \A i \in 1 .. n : f[i] = T[i][f[i - 1]]
           Reached == {n \in Nat : n <= N => \E f \in [0 .. n -> S] : Upto(n, f)}
<1>1. 0 \in Reached
  <2> DEFINE f == [i \in 0 .. 0 |-> e]
  <2>1. f \in [0 .. 0 -> S] /\ Upto(0, f)
    OBVIOUS
  <2> QED BY <2>1
<1>2. ASSUME NEW n \in Nat, n \in Reached
      PROVE  n + 1 \in Reached
  <2> SUFFICES ASSUME n + 1 <= N
               PROVE  \E f \in [0 .. n + 1 -> S] : Upto(n + 1, f)
    OBVIOUS
  <2>1. PICK g \in [0 .. n -> S] : Upto(n, g)
    BY <1>2
  <2> DEFINE f == [i \in 0 .. n + 1 |-> IF i = n + 1 THEN T[n + 1][g[n]] ELSE g[i]]
  <2>2. T[n + 1][g[n]] \in S
    OBVIOUS
  <2>3. f \in [0 .. n + 1 -> S]
    BY <2>2
  <2>4. \A i \in 0 .. n : f[i] = g[i]
    OBVIOUS
  <2>5. f[n + 1] = T[n + 1][g[n]]
    OBVIOUS
  <2> HIDE DEF f
  <2>6. ASSUME NEW i \in 1 .. n + 1
        PROVE  f[i] = T[i][f[i - 1]]
    <3>1. CASE i = n + 1
      <4>1. i - 1 = n /\ f[n] = g[n]
        BY <3>1, <2>4
      <4> QED BY <3>1, <4>1, <2>5
    <3>2. CASE i \in 1 .. n
      <4>1. i \in 0 .. n /\ i - 1 \in 0 .. n
        BY <3>2
      <4> QED BY <3>2, <4>1, <2>1, <2>4
    <3> QED BY <3>1, <3>2
  <2>7. f[0] = e
    BY <2>1, <2>4
  <2> QED BY <2>3, <2>6, <2>7
<1> HIDE DEF Reached
<1>3. Nat \subseteq Reached
  BY <1>1, <1>2, NatClosure
<1> QED BY <1>3 DEF Reached, Orbit

(* A function that takes the steps while it is inside S stays inside.      *)
LEMMA Iterates ==
  ASSUME NEW S, NEW e \in S, NEW N \in Nat, NEW T, Stepper(T, N, S),
         NEW V, NEW f \in [0 .. N -> V], f[0] = e,
         \A i \in 1 .. N : f[i - 1] \in S => f[i] = T[i][f[i - 1]]
  PROVE  Orbit(f, N, S, e, T)
<1> USE DEF Stepper
<1> DEFINE Typed == {i \in Nat : i <= N => f[i] \in S}
<1>1. 0 \in Typed
  OBVIOUS
<1>2. ASSUME NEW i \in Nat, i \in Typed
      PROVE  i + 1 \in Typed
  <2> SUFFICES ASSUME i + 1 <= N
               PROVE  f[i + 1] \in S
    OBVIOUS
  <2>1. i + 1 \in 1 .. N /\ (i + 1) - 1 = i /\ f[i] \in S
    BY <1>2
  <2>2. f[i + 1] = T[i + 1][f[i]]
    BY <2>1
  <2> QED BY <2>1, <2>2
<1> HIDE DEF Typed
<1>3. Nat \subseteq Typed
  BY <1>1, <1>2, NatClosure
<1>4. \A i \in 0 .. N : f[i] \in S
  BY <1>3 DEF Typed
<1>5. f \in [0 .. N -> S]
  BY <1>4
<1>6. \A i \in 1 .. N : f[i] = T[i][f[i - 1]]
  BY <1>4
<1> QED BY <1>5, <1>6 DEF Orbit

(* Division with remainder.                                                *)
LEMMA DivRem ==
  ASSUME NEW M \in Nat \ {0}, NEW x \in Int
  PROVE  x \div M \in Int /\ x % M \in 0 .. M - 1 /\ x = M * (x \div M) + (x % M)
<1>1. x \div M \in Int
  OBVIOUS
<1>2. x % M \in 0 .. M - 1
  OBVIOUS
<1>3. x = M * (x \div M) + (x % M)
  OBVIOUS
<1> QED BY <1>1, <1>2, <1>3

LEMMA MulSmall ==
  ASSUME NEW M \in Nat \ {0}, NEW k \in Int, M * k < M, M * k > -M
  PROVE  k = 0
<1>1. ASSUME k >= 1 PROVE M * k >= M
  <2>1. M * (k - 1) >= 0
    BY <1>1
  <2>2. M * k = M * (k - 1) + M
    OBVIOUS
  <2> QED BY <2>1, <2>2
<1>2. ASSUME k <= -1 PROVE M * k <= -M
  <2>1. M * (-k - 1) >= 0
    BY <1>2
  <2>2. M * k = -(M * (-k - 1)) - M
    OBVIOUS
  <2> QED BY <2>1, <2>2
<1> QED BY <1>1, <1>2

LEMMA ModUnique ==
  ASSUME NEW M \in Nat \ {0}, NEW q \in Int, NEW r \in 0 .. M - 1, NEW x \in Int,
         x = M * q + r
  PROVE  x % M = r
<1> DEFINE p == x \div M
           s == x % M
<1>1. p \in Int /\ s \in 0 .. M - 1 /\ x = M * p + s
  BY DivRem
<1> HIDE DEF p, s
<1>2. M * (p - q) = r - s
  <2>1. M * (p - q) = M * p - M * q
    BY <1>1
  <2> QED BY <1>1, <2>1
<1>3. p - q = 0
  <2>1. r - s < M /\ r - s > -M
    BY <1>1
  <2> QED BY <1>1, <1>2, <2>1, MulSmall
<1> QED BY <1>1, <1>2, <1>3 DEF s

LEMMA ModAdd ==
  ASSUME NEW M \in Nat \ {0}, NEW a \in Int, NEW d \in Int
  PROVE  ((a % M) + d) % M = (a + d) % M
<1> DEFINE p == a \div M
           r == a % M
           y == r + d
           q == y \div M
           s == y % M
<1>1. p \in Int /\ r \in 0 .. M - 1 /\ a = M * p + r
  BY DivRem
<1> HIDE DEF p, r
<1>2. y \in Int
  BY <1>1
<1> HIDE DEF y
<1>3. q \in Int /\ s \in 0 .. M - 1 /\ y = M * q + s
  BY <1>2, DivRem
<1> HIDE DEF q, s
<1>4. a + d = M * (p + q) + s
  <2>1. M * (p + q) = M * p + M * q
    BY <1>1, <1>3
  <2> QED BY <1>1, <1>3, <2>1 DEF y
<1>5. (a + d) % M = s
  <2>1. p + q \in Int /\ a + d \in Int
    BY <1>1, <1>3
  <2> QED BY <1>3, <1>4, <2>1, ModUnique
<1> QED BY <1>5 DEF s, r, y
=============================================================================
