----------------------------- MODULE NumberLemmas -----------------------------
(***************************************************************************)
(* Induction over the natural numbers, for sets instead of predicates, and *)
(* what follows from it for functions that are defined by recursion over   *)
(* an interval (sys_list_files, and the texts and offsets that other       *)
(* modules define step by step); and the arithmetic of rests, for offsets  *)
(* in a ring, masks and words.                                             *)
(***************************************************************************)
EXTENDS Integers, WellFoundedInduction, TLAPS

\* A set of natural numbers has a least element.
LEMMA SmallestOf ==
    ASSUME NEW S, S \subseteq Nat, S # {}
    PROVE  \E x \in S : \A y \in S : x <= y
  <1> DEFINE R == OpToRel(<, Nat)
  <1>1. IsWellFoundedOn(R, Nat)
    BY NatLessThanWellFounded
  <1>2. \A x, y \in Nat : <<x, y>> \in R <=> x < y
    BY DEF OpToRel
  <1> HIDE DEF R
  <1>3. PICK x \in S : \A y \in S : ~ (<<y, x>> \in R)
    BY <1>1, WFMin
  <1>4. \A y \in S : ~ (y < x)
    BY <1>2, <1>3
  <1>5. \A y \in S : x <= y
    BY <1>4
  <1> QED BY <1>5

\* A set with zero that is closed under successor holds every number.
LEMMA SetInduction ==
    ASSUME NEW S, S \subseteq Nat, 0 \in S, \A n \in S : n + 1 \in S
    PROVE  \A n \in Nat : n \in S
  <1> SUFFICES ASSUME Nat \ S # {} PROVE FALSE
    OBVIOUS
  <1>1. PICK x \in Nat \ S : \A y \in Nat \ S : x <= y
    BY SmallestOf
  <1>2. x # 0 /\ x - 1 \in Nat
    OBVIOUS
  <1>3. x - 1 \in S
    BY <1>1, <1>2
  <1>4. (x - 1) + 1 \in S
    BY <1>3
  <1> QED BY <1>2, <1>4

\* The same up to a bound.
LEMMA BoundedInduction ==
    ASSUME NEW N \in Nat, NEW S, 0 \in S, \A n \in 1 .. N : n - 1 \in S => n \in S
    PROVE  \A n \in 0 .. N : n \in S
  <1> DEFINE T == {n \in Nat : n <= N => n \in S}
  <1>1. 0 \in T
    OBVIOUS
  <1>2. ASSUME NEW n \in T PROVE n + 1 \in T
    <2> SUFFICES ASSUME n + 1 <= N PROVE n + 1 \in S
      OBVIOUS
    <2>1. n + 1 \in 1 .. N /\ (n + 1) - 1 = n /\ n \in S
      OBVIOUS
    <2> QED BY <2>1
  <1> HIDE DEF T
  <1>3. \A n \in Nat : n \in T
    <2>1. T \subseteq Nat
      BY DEF T
    <2> QED BY <1>1, <1>2, <2>1, SetInduction
  <1> QED BY <1>3 DEF T

\* A step from a number and a value to the next value, and a function on 0 .. N
\* that follows it from x.
IsStep(step, N, X) == step \in [(1 .. N) \X X -> X]
Follows(f, N, X, x, step) ==
    /\ f \in [0 .. N -> X] /\ f[0] = x
    /\ \A i \in 1 .. N : f[i] = step[<<i, f[i - 1]>>]

\* A function on 0 .. N that is given by its first value and by a step from each
\* value to the next one exists, and all its values are of the type of a step's.
LEMMA FiniteRecursion ==
    ASSUME NEW N, N \in Nat, NEW X, NEW x, x \in X, NEW step, IsStep(step, N, X)
    PROVE  \E f : Follows(f, N, X, x, step)
  <1> USE DEF IsStep
  <1> DEFINE Upto(n, f) == /\ f \in [0 .. n -> X] /\ f[0] = x
                           /\ \A i \in 1 .. n : f[i] = step[<<i, f[i - 1]>>]
             S == {n \in 0 .. N : \E f : Upto(n, f)}
  <1>1. 0 \in S
    <2>1. Upto(0, [i \in 0 .. 0 |-> x])
      OBVIOUS
    <2> HIDE DEF Upto
    <2>2. 0 \in 0 .. N
      OBVIOUS
    <2> QED BY <2>1, <2>2
  <1>2. ASSUME NEW n \in 1 .. N, n - 1 \in S PROVE n \in S
    <2>1. PICK f : Upto(n - 1, f)
      BY <1>2
    <2> DEFINE g == [i \in 0 .. n |-> IF i = n THEN step[<<n, f[n - 1]>>] ELSE f[i]]
    <2>2. f[n - 1] \in X
      BY <2>1
    <2>3. step[<<n, f[n - 1]>>] \in X
      BY <2>2
    <2>4. g \in [0 .. n -> X]
      BY <2>1, <2>3
    <2>5. g[0] = x
      BY <2>1
    <2>6. ASSUME NEW i \in 1 .. n PROVE g[i] = step[<<i, g[i - 1]>>]
      <3>1. g[i - 1] = f[i - 1]
        OBVIOUS
      <3>2. CASE i = n
        <4>1. g[n] = step[<<n, f[n - 1]>>]
          OBVIOUS
        <4> HIDE DEF g
        <4> QED BY <3>1, <3>2, <4>1
      <3>3. CASE i # n
        <4>1. g[i] = f[i] /\ i \in 1 .. n - 1
          BY <3>3
        <4> QED BY <2>1, <3>1, <4>1
      <3> QED BY <3>2, <3>3
    <2> HIDE DEF g
    <2>7. Upto(n, g)
      BY <2>4, <2>5, <2>6
    <2> HIDE DEF Upto
    <2> QED BY <2>7
  <1> HIDE DEF S
  <1>3. \A n \in 0 .. N : n \in S
    BY <1>1, <1>2, BoundedInduction
  <1>4. N \in S
    BY <1>3
  <1> QED BY <1>4 DEF S, Follows
-----------------------------------------------------------------------------
(* Multiples and rests.                                                    *)

\* A number is a multiple and a rest, and in one way only.
LEMMA ModRange ==
    ASSUME NEW R \in Nat \ {0}, NEW a \in Int
    PROVE  a % R \in 0 .. R - 1 /\ a % R \in Int
  OBVIOUS

LEMMA ModParts ==
    ASSUME NEW R \in Nat \ {0}, NEW a \in Int
    PROVE  \E q \in Int : a = R * q + (a % R)
  <1> DEFINE q == a \div R
  <1>1. R \in Int /\ R > 0
    OBVIOUS
  <1>2. q \in Int
    BY <1>1
  <1>3. a = R * q + (a % R)
    BY <1>1
  <1> HIDE DEF q
  <1> QED BY <1>2, <1>3

LEMMA ModUnique ==
    ASSUME NEW R \in Nat \ {0}, NEW q \in Int, NEW r \in 0 .. R - 1,
           NEW a \in Int, a = R * q + r
    PROVE  a % R = r
  <1>1. PICK p \in Int : a = R * p + (a % R)
    BY ModParts
  <1>2. a % R \in 0 .. R - 1
    BY ModRange
  <1> DEFINE s == a % R
  <1>3. s \in 0 .. R - 1 /\ a = R * p + s
    BY <1>1, <1>2
  <1> HIDE DEF s
  <1>4. R * (q - p) = s - r
    BY <1>3
  <1>5. q - p = 0
    <2>1. CASE q - p >= 1
      <3>1. R * (q - p) >= R
        BY <2>1
      <3> QED BY <1>3, <1>4, <3>1
    <2>2. CASE q - p <= -1
      <3>1. R * (q - p) <= -R
        BY <2>2
      <3> QED BY <1>3, <1>4, <3>1
    <2> QED BY <2>1, <2>2
  <1>6. s = r
    BY <1>3, <1>4, <1>5
  <1> QED BY <1>6 DEF s

\* Addition of rests.
LEMMA ModPlus ==
    ASSUME NEW R \in Nat \ {0}, NEW a \in Int, NEW b \in Int
    PROVE  ((a % R) + b) % R = (a + b) % R
  <1>1. PICK p \in Int : a = R * p + (a % R)
    BY ModParts
  <1> DEFINE r == a % R
             s == (r + b) % R
  <1>2. r \in 0 .. R - 1 /\ a = R * p + r /\ r + b \in Int
    BY <1>1, ModRange
  <1> HIDE DEF r
  <1>3. PICK q \in Int : r + b = R * q + s
    BY <1>2, ModParts
  <1>4. s \in 0 .. R - 1
    BY <1>2, ModRange
  <1> HIDE DEF s
  <1> DEFINE c == a + b
             k == p + q
  <1>5. c = R * k + s /\ k \in Int /\ c \in Int
    BY <1>2, <1>3, <1>4
  <1> HIDE DEF c, k
  <1>6. c % R = s
    BY <1>4, <1>5, ModUnique
  <1> QED BY <1>6 DEF c, r, s

\* Distances of rests.
LEMMA ModMinus ==
    ASSUME NEW R \in Nat \ {0}, NEW x \in Int, NEW y \in Int
    PROVE  ((x % R) - (y % R)) % R = (x - y) % R
  <1> DEFINE a == x % R
             b == y % R
  <1>1. b \in 0 .. R - 1 /\ a \in 0 .. R - 1 /\ a - b \in Int
    BY ModRange
  <1>2. PICK p \in Int : x = R * p + a
    BY ModParts
  <1>3. PICK q \in Int : y = R * q + b
    BY ModParts
  <1> HIDE DEF a, b
  <1> DEFINE s == (a - b) % R
  <1>4. s \in 0 .. R - 1
    BY <1>1, ModRange
  <1>5. PICK t \in Int : a - b = R * t + s
    BY <1>1, ModParts
  <1> HIDE DEF s
  <1> DEFINE c == x - y
             k == p - q + t
  <1>6. c = R * k + s /\ k \in Int /\ c \in Int
    BY <1>1, <1>2, <1>3, <1>4, <1>5
  <1> HIDE DEF c, k
  <1>7. c % R = s
    BY <1>4, <1>6, ModUnique
  <1> QED BY <1>7 DEF a, b, c, s

LEMMA ModSmall ==
    ASSUME NEW R \in Nat \ {0}, NEW x \in Int
    PROVE  /\ x \in 0 .. R - 1 => x % R = x
           /\ x \in -R .. -1 => x % R = x + R
  OBVIOUS

LEMMA DivParts ==
    ASSUME NEW R \in Nat \ {0}, NEW a \in Nat
    PROVE  /\ a \div R \in Nat /\ a % R \in Nat /\ a % R < R
           /\ a = R * (a \div R) + (a % R)
  OBVIOUS

\* The quotient of a multiple and a rest.
LEMMA DivUnique ==
    ASSUME NEW R \in Nat \ {0}, NEW q \in Int, NEW r \in 0 .. R - 1,
           NEW a \in Int, a = R * q + r
    PROVE  a \div R = q
  <1> DEFINE p == a \div R
             s == a % R
  <1>1. p \in Int /\ a = R * p + s
    <2>1. R \in Int /\ R > 0
      OBVIOUS
    <2> QED BY <2>1
  <1>2. s = r
    BY ModUnique
  <1> HIDE DEF p, s
  <1>3. R * (q - p) = 0
    BY <1>1, <1>2
  <1>4. q - p = 0
    <2>1. CASE q - p >= 1
      <3>1. R * (q - p) >= R
        BY <1>1, <2>1
      <3> QED BY <1>3, <3>1
    <2>2. CASE q - p <= -1
      <3>1. R * (q - p) <= -R
        BY <1>1, <2>2
      <3> QED BY <1>3, <3>1
    <2> QED BY <1>1, <2>1, <2>2
  <1>5. p = q
    BY <1>1, <1>4
  <1> QED BY <1>5 DEF p

\* A multiple has no rest.
LEMMA ModMultiple ==
    ASSUME NEW R \in Nat \ {0}, NEW q \in Int
    PROVE  (R * q) % R = 0
  <1> DEFINE a == R * q
  <1>1. a \in Int /\ a = R * q + 0 /\ 0 \in 0 .. R - 1
    OBVIOUS
  <1> HIDE DEF a
  <1>2. a % R = 0
    BY <1>1, ModUnique
  <1> QED BY <1>2 DEF a

\* Multiplication of rests.
LEMMA ModTimes ==
    ASSUME NEW R \in Nat \ {0}, NEW c \in Int, NEW a \in Int
    PROVE  (c * (a % R)) % R = (c * a) % R
  <1>1. PICK p \in Int : a = R * p + (a % R)
    BY ModParts
  <1> DEFINE r == a % R
             s == (c * r) % R
  <1>2. r \in Int /\ a = R * p + r
    BY <1>1, ModRange
  <1> HIDE DEF r
  <1>3. c * r \in Int
    BY <1>2
  <1>4. PICK q \in Int : c * r = R * q + s
    BY <1>3, ModParts
  <1>5. s \in 0 .. R - 1
    BY <1>3, ModRange
  <1> HIDE DEF s
  <1> DEFINE b == c * a
             k == c * p + q
  <1>6. b \in Int /\ k \in Int
    OBVIOUS
  <1>7. b = c * (R * p) + c * r
    BY <1>2
  <1>8. c * (R * p) = R * (c * p) /\ R * k = R * (c * p) + R * q
    OBVIOUS
  <1>9. b = R * k + s
    BY <1>4, <1>5, <1>6, <1>7, <1>8
  <1> HIDE DEF b, k
  <1>10. b % R = s
    BY <1>5, <1>6, <1>9, ModUnique
  <1> QED BY <1>10 DEF b, r, s
=============================================================================
