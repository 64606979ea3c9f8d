----------------------------- MODULE FilterProofs -----------------------------
(***************************************************************************)
(* Proofs about the packet filter: the rule list with its two programs     *)
(* (Firewall) and the machine the programs run on (BpfVm).                 *)
(*                                                                         *)
(* Firewall.  A prefix is a mask, a number of bits and a range of          *)
(* addresses; the lemmas on powers of two show that the three agree.  The  *)
(* policy map is a permutation of the list, blocks first, so the first     *)
(* match in the map is the rule that the reference picks from the list.    *)
(* FirewallInv says that the commands only build rules of which this       *)
(* holds.                                                                  *)
(*                                                                         *)
(* BpfVm.  RunInv: the program counter of a validated program stays on the *)
(* slots that the validator has looked at.  VmTypes: registers hold        *)
(* numbers and memory keeps its lengths, for any program; on numbers       *)
(* memory() agrees with its reference, address by address.                 *)
(***************************************************************************)
EXTENDS BpfVm, Firewall, FiniteSetTheorems, SequenceTheorems, NumberLemmas, TLAPS
-----------------------------------------------------------------------------
(* Powers of two.                                                          *)

\* Recursion over all natural numbers, for the step that Pow2 takes.
Doubles(f, n) == f \in [0 .. n -> Nat] /\ f[0] = 1 /\ \A i \in 1 .. n : f[i] = 2 * f[i - 1]

LEMMA DoublesExist ==
    ASSUME NEW n \in Nat
    PROVE  \E f : Doubles(f, n)
  <1> DEFINE step == [a \in (1 .. n) \X Nat |-> 2 * a[2]]
  <1>1. IsStep(step, n, Nat)
    BY DEF IsStep
  <1>2. \A i \in 1 .. n, k \in Nat : step[<<i, k>>] = 2 * k
    OBVIOUS
  <1> HIDE DEF step
  <1>3. PICK f : Follows(f, n, Nat, 1, step)
    BY <1>1, FiniteRecursion
  <1>4. \A i \in 1 .. n : i - 1 \in 0 .. n
    OBVIOUS
  <1>5. Doubles(f, n)
    BY <1>2, <1>3, <1>4 DEF Follows, Doubles
  <1> QED BY <1>5

LEMMA DoublesUnique ==
    ASSUME NEW n \in Nat, NEW m \in Nat, n <= m, NEW f, NEW g, Doubles(f, n), Doubles(g, m)
    PROVE  f[n] = g[n]
  <1> DEFINE S == {i \in 0 .. n : f[i] = g[i]}
  <1>1. 0 \in S
    BY DEF Doubles
  <1>2. ASSUME NEW i \in 1 .. n, i - 1 \in S PROVE i \in S
    <2>1. f[i] = 2 * f[i - 1]
      BY DEF Doubles
    <2>2. i \in 1 .. m /\ i \in 0 .. n
      OBVIOUS
    <2>3. g[i] = 2 * g[i - 1]
      BY <2>2 DEF Doubles
    <2> QED BY <1>2, <2>1, <2>2, <2>3
  <1> HIDE DEF S
  <1>3. \A i \in 0 .. n : i \in S
    BY <1>1, <1>2, BoundedInduction
  <1>4. n \in S
    BY <1>3
  <1> QED BY <1>4 DEF S

LEMMA Pow2Step ==
    /\ Pow2[0] = 1
    /\ \A n \in Nat : Pow2[n] \in Nat /\ Pow2[n] >= 1 /\ Pow2[n + 1] = 2 * Pow2[n]
  <1> DEFINE F(n) == CHOOSE f : Doubles(f, n)
             P == [n \in Nat |-> F(n)[n]]
             Is(g) == g = [n \in Nat |-> IF n = 0 THEN 1 ELSE 2 * g[n - 1]]
  <1>1. \A n \in Nat : Doubles(F(n), n)
    BY DoublesExist
  <1> HIDE DEF F
  <1>2. P[0] = 1
    BY <1>1 DEF Doubles
  <1>3. ASSUME NEW n \in Nat, n # 0 PROVE P[n] = 2 * P[n - 1]
    <2>1. n - 1 \in Nat /\ n - 1 <= n /\ n \in 1 .. n
      BY <1>3
    <2>2. Doubles(F(n - 1), n - 1) /\ Doubles(F(n), n)
      BY <1>1, <2>1
    <2>3. F(n - 1)[n - 1] = F(n)[n - 1]
      BY <2>1, <2>2, DoublesUnique
    <2>4. F(n)[n] = 2 * F(n)[n - 1]
      BY <2>1, <2>2 DEF Doubles
    <2> QED BY <2>1, <2>3, <2>4
  <1>4. Is(P)
    BY <1>2, <1>3, Zenon
  <1> HIDE DEF P, Is
  <1>5. \E g : Is(g)
    BY <1>4
  <1>6. Is(CHOOSE g : Is(g))
    BY <1>5, Zenon
  <1>7. Is(Pow2)
    BY <1>6 DEF Pow2, Is
  <1>8. Pow2[0] = 1 /\ \A n \in Nat : n # 0 => Pow2[n] = 2 * Pow2[n - 1]
    BY <1>7 DEF Is
  <1> DEFINE S == {n \in Nat : Pow2[n] \in Nat /\ Pow2[n] >= 1}
  <1>9. 0 \in S
    BY <1>8
  <1>10. \A n \in Nat : Pow2[n + 1] = 2 * Pow2[n]
    <2>1. \A n \in Nat : n + 1 \in Nat /\ n + 1 # 0 /\ (n + 1) - 1 = n
      OBVIOUS
    <2> QED BY <1>8, <2>1
  <1>11. ASSUME NEW n \in S PROVE n + 1 \in S
    BY <1>10
  <1> HIDE DEF S
  <1>12. \A n \in Nat : n \in S
    <2>1. S \subseteq Nat
      BY DEF S
    <2> QED BY <1>9, <1>11, <2>1, SetInduction
  <1> QED BY <1>8, <1>10, <1>12 DEF S

\* Powers grow, and their product is a power.
LEMMA Pow2Grows ==
    ASSUME NEW m \in Nat, NEW n \in Nat, m <= n
    PROVE  Pow2[m] <= Pow2[n] /\ (m < n => Pow2[m] < Pow2[n])
  <1> DEFINE S == {k \in Nat : Pow2[m] <= Pow2[m + k] /\ (k # 0 => Pow2[m] < Pow2[m + k])}
  <1>1. 0 \in S
    BY Pow2Step
  <1>2. ASSUME NEW k \in S PROVE k + 1 \in S
    <2>1. m + k \in Nat /\ (m + k) + 1 = m + (k + 1)
      OBVIOUS
    <2>2. Pow2[m + (k + 1)] = 2 * Pow2[m + k] /\ Pow2[m + k] \in Nat /\ Pow2[m + k] >= 1
      BY <2>1, Pow2Step
    <2>3. Pow2[m] \in Nat
      BY Pow2Step
    <2> QED BY <1>2, <2>2, <2>3
  <1> HIDE DEF S
  <1>3. \A k \in Nat : k \in S
    <2>1. S \subseteq Nat
      BY DEF S
    <2> QED BY <1>1, <1>2, <2>1, SetInduction
  <1>4. n - m \in S /\ m + (n - m) = n
    BY <1>3
  <1> QED BY <1>4 DEF S

LEMMA Pow2Plus ==
    ASSUME NEW m \in Nat, NEW n \in Nat
    PROVE  Pow2[m + n] = Pow2[m] * Pow2[n]
  <1> DEFINE S == {k \in Nat : Pow2[m + k] = Pow2[m] * Pow2[k]}
  <1>1. 0 \in S
    BY Pow2Step
  <1>2. ASSUME NEW k \in S PROVE k + 1 \in S
    <2>1. m + k \in Nat /\ (m + k) + 1 = m + (k + 1)
      OBVIOUS
    <2>2. Pow2[m + (k + 1)] = 2 * Pow2[m + k]
      BY <2>1, Pow2Step
    <2>3. Pow2[k + 1] = 2 * Pow2[k] /\ Pow2[k] \in Nat /\ Pow2[m] \in Nat
      BY Pow2Step
    <2>4. Pow2[m + k] = Pow2[m] * Pow2[k]
      BY <1>2
    <2>5. \A a, b \in Nat : 2 * (a * b) = a * (2 * b)
      OBVIOUS
    <2> QED BY <2>2, <2>3, <2>4, <2>5
  <1> HIDE DEF S
  <1>3. \A k \in Nat : k \in S
    <2>1. S \subseteq Nat
      BY DEF S
    <2> QED BY <1>1, <1>2, <2>1, SetInduction
  <1> QED BY <1>3 DEF S
-----------------------------------------------------------------------------
(* Masks and prefixes.                                                     *)

LEMMA SpaceFacts ==
    /\ AddrBits \in Nat /\ Space \in Nat /\ Space >= 1 /\ Space = Pow2[AddrBits]
    /\ \A n \in 0 .. AddrBits :
        /\ AddrBits - n \in Nat /\ Pow2[AddrBits - n] \in Nat /\ Pow2[AddrBits - n] >= 1
        /\ Pow2[AddrBits - n] <= Space
        /\ Mask(n) \in Addresses /\ Space - Mask(n) = Pow2[AddrBits - n]
  <1>1. AddrBits \in Nat /\ Space \in Nat /\ Space >= 1 /\ Space = Pow2[AddrBits]
    BY FirewallAssumption, Pow2Step DEF Space
  <1>2. ASSUME NEW n \in 0 .. AddrBits
        PROVE  /\ AddrBits - n \in Nat /\ Pow2[AddrBits - n] \in Nat /\ Pow2[AddrBits - n] >= 1
               /\ Pow2[AddrBits - n] <= Space
               /\ Mask(n) \in Addresses /\ Space - Mask(n) = Pow2[AddrBits - n]
    <2>1. AddrBits - n \in Nat /\ AddrBits - n <= AddrBits
      BY <1>1
    <2>2. Pow2[AddrBits - n] \in Nat /\ Pow2[AddrBits - n] >= 1
      BY <2>1, Pow2Step
    <2>3. Pow2[AddrBits - n] <= Space
      BY <1>1, <2>1, Pow2Grows
    <2> QED BY <1>1, <2>1, <2>2, <2>3 DEF Mask, Addresses
  <1> QED BY <1>1, <1>2

\* A longer prefix has a larger mask, by twice the rest.
LEMMA MaskStep ==
    ASSUME NEW n \in 1 .. AddrBits
    PROVE  Mask(n) > 0 /\ (2 * Mask(n)) % Space = Mask(n - 1)
  <1>1. n \in 0 .. AddrBits /\ n - 1 \in 0 .. AddrBits /\ AddrBits \in Nat
    BY SpaceFacts
  <1>2. AddrBits - (n - 1) = (AddrBits - n) + 1 /\ AddrBits - n < AddrBits /\ AddrBits - n \in Nat
    BY <1>1
  <1>3. Pow2[AddrBits - (n - 1)] = 2 * Pow2[AddrBits - n]
    BY <1>2, Pow2Step
  <1>4. Pow2[AddrBits - n] < Space /\ Pow2[AddrBits - n] \in Nat /\ Space \in Nat
    BY <1>1, <1>2, Pow2Grows, SpaceFacts
  <1>5. Mask(n) > 0
    BY <1>4 DEF Mask
  <1> DEFINE a == 2 * Mask(n)
             m == Mask(n - 1)
  <1>6. m \in 0 .. Space - 1
    BY <1>1, SpaceFacts DEF Addresses
  <1>7. a \in Int /\ a = Space * 1 + m
    BY <1>3, <1>4 DEF Mask
  <1> HIDE DEF a, m
  <1>8. a % Space = m
    <2>1. Space \in Nat \ {0}
      BY <1>4
    <2> QED BY <1>6, <1>7, <2>1, ModUnique
  <1> QED BY <1>5, <1>8 DEF a, m

LEMMA MaskGrows ==
    ASSUME NEW m \in 0 .. AddrBits, NEW n \in 0 .. AddrBits
    PROVE  (m < n) <=> (Mask(m) < Mask(n))
  <1>1. AddrBits - m \in Nat /\ AddrBits - n \in Nat
    BY SpaceFacts
  <1>2. /\ Pow2[AddrBits - m] \in Nat /\ Pow2[AddrBits - n] \in Nat /\ Space \in Nat
        /\ AddrBits \in Nat
    BY SpaceFacts
  <1>3. CASE m < n
    <2>1. AddrBits - n < AddrBits - m
      BY <1>2, <1>3
    <2>2. Pow2[AddrBits - n] < Pow2[AddrBits - m]
      BY <1>1, <2>1, Pow2Grows
    <2> QED BY <1>2, <1>3, <2>2 DEF Mask
  <1>4. CASE n <= m
    <2>1. AddrBits - m <= AddrBits - n
      BY <1>2, <1>4
    <2>2. Pow2[AddrBits - m] <= Pow2[AddrBits - n]
      BY <1>1, <2>1, Pow2Grows
    <2> QED BY <1>2, <1>4, <2>2 DEF Mask
  <1> QED BY <1>3, <1>4

\* The loop of bits ends for every mask: after AddrBits shifts nothing is left.
Gone(k, a) == (Pow2[k] * a) % Space = 0
Shifts(k, a) == k \in 0 .. AddrBits /\ Gone(k, a) /\ \A j \in 0 .. AddrBits : Gone(j, a) => k <= j

LEMMA ShiftsExist ==
    ASSUME NEW a \in Addresses
    PROVE  \E k : Shifts(k, a)
  <1>1. Gone(AddrBits, a)
    <2>1. Space \in Nat \ {0} /\ a \in Int
      BY SpaceFacts DEF Addresses
    <2>2. (Space * a) % Space = 0
      BY <2>1, ModMultiple
    <2> QED BY <2>2 DEF Gone, Space
  <1> DEFINE S == {k \in 0 .. AddrBits : Gone(k, a)}
  <1>2. AddrBits \in S /\ S \subseteq Nat
    BY <1>1, SpaceFacts
  <1>3. PICK k \in S : \A j \in S : k <= j
    BY <1>2, SmallestOf
  <1> QED BY <1>3 DEF Shifts

LEMMA GoneDouble ==
    ASSUME NEW a \in Addresses, NEW k \in Nat
    PROVE  Gone(k, (2 * a) % Space) <=> Gone(k + 1, a)
  <1>1. Space \in Nat \ {0} /\ a \in Int /\ Pow2[k] \in Int /\ Pow2[k + 1] = 2 * Pow2[k]
    <2>1. Space \in Nat \ {0} /\ a \in Int
      BY SpaceFacts DEF Addresses
    <2> QED BY <2>1, Pow2Step
  <1> DEFINE c == Pow2[k]
             b == 2 * a
  <1>2. c \in Int /\ b \in Int /\ Pow2[k + 1] * a = c * b
    BY <1>1
  <1> HIDE DEF c, b
  <1>3. (c * (b % Space)) % Space = (c * b) % Space
    BY <1>1, <1>2, ModTimes
  <1> QED BY <1>2, <1>3 DEF Gone, b, c

LEMMA BitsStep ==
    /\ bits[0] = 0
    /\ \A a \in Addresses : a # 0 => bits[a] = 1 + bits[(2 * a) % Space]
  <1> DEFINE g == [a \in Addresses |-> CHOOSE k : Shifts(k, a)]
             Is(f) == f = [a \in Addresses |-> IF a = 0 THEN 0 ELSE 1 + f[(2 * a) % Space]]
  <1>1. \A a \in Addresses : Shifts(g[a], a)
    BY ShiftsExist
  <1> HIDE DEF g
  <1>2. 0 \in Addresses /\ \A a \in Addresses : a \in Int /\ (2 * a) % Space \in Addresses
    <2>1. Space \in Nat \ {0}
      BY SpaceFacts
    <2>2. ASSUME NEW a \in Addresses PROVE (2 * a) % Space \in Addresses
      <3>1. 2 * a \in Int
        BY <2>1 DEF Addresses
      <3> QED BY <2>1, <3>1, ModRange DEF Addresses
    <2> QED BY <2>1, <2>2 DEF Addresses
  <1>3. \A a \in Addresses : g[a] \in 0 .. AddrBits
    BY <1>1 DEF Shifts
  <1>4. g[0] = 0
    <2>1. Gone(0, 0)
      <3>1. Pow2[0] * 0 = 0
        BY Pow2Step
      <3>2. 0 % Space = 0
        BY SpaceFacts
      <3> QED BY <3>1, <3>2 DEF Gone
    <2>2. 0 \in 0 .. AddrBits
      BY SpaceFacts
    <2> QED BY <1>1, <1>2, <1>3, <2>1, <2>2 DEF Shifts
  <1>5. ASSUME NEW a \in Addresses, a # 0 PROVE g[a] = 1 + g[(2 * a) % Space]
    <2> DEFINE b == (2 * a) % Space
    <2>1. b \in Addresses
      BY <1>2
    <2>2. ~ Gone(0, a)
      <3>1. Pow2[0] * a = a
        <4>1. a \in Int
          BY <1>2
        <4>2. 1 * a = a
          BY <4>1
        <4> QED BY <4>2, Pow2Step
      <3>2. a % Space = a
        BY SpaceFacts, SMTT(60) DEF Addresses
      <3> QED BY <1>5, <3>1, <3>2 DEF Gone
    <2>3. \A k \in Nat : Gone(k, b) <=> Gone(k + 1, a)
      BY GoneDouble
    <2> HIDE DEF b
    <2>4. PICK m \in 0 .. AddrBits : m = g[a]
      BY <1>3
    <2>5. PICK n \in 0 .. AddrBits : n = g[b]
      BY <1>3, <2>1
    <2>6. Gone(m, a) /\ \A j \in 0 .. AddrBits : Gone(j, a) => m <= j
      BY <1>1, <2>4 DEF Shifts
    <2>7. Gone(n, b) /\ \A j \in 0 .. AddrBits : Gone(j, b) => n <= j
      BY <1>1, <2>1, <2>5 DEF Shifts
    <2>8. m # 0
      BY <2>2, <2>6
    <2>9. m - 1 \in 0 .. AddrBits /\ m - 1 \in Nat /\ (m - 1) + 1 = m
      BY <2>8, SpaceFacts
    <2>10. n <= m - 1
      BY <2>3, <2>6, <2>7, <2>9
    <2>11. n + 1 \in 0 .. AddrBits /\ n \in Nat
      BY <2>9, <2>10, SpaceFacts
    <2>12. Gone(n + 1, a)
      BY <2>3, <2>7, <2>11
    <2>13. m <= n + 1
      BY <2>6, <2>11, <2>12
    <2>14. m = 1 + n
      BY <2>10, <2>13
    <2> QED BY <2>4, <2>5, <2>14 DEF b
  <1>6. Is(g)
    <2>1. g = [a \in Addresses |-> g[a]]
      BY DEF g
    <2> QED BY <1>4, <1>5, <2>1, Zenon
  <1> HIDE DEF Is
  <1>7. Is(CHOOSE f : Is(f))
    BY <1>6, Zenon
  <1>8. Is(bits)
    BY <1>7 DEF bits, Is
  <1> QED BY <1>2, <1>8 DEF Is

\* prepare recovers the length of a prefix from its mask.
LEMMA BitsOfMask ==
    ASSUME NEW n \in 0 .. AddrBits
    PROVE  bits[Mask(n)] = n
  <1> DEFINE S == {k \in 0 .. AddrBits : bits[Mask(k)] = k}
  <1>1. AddrBits \in Nat
    BY SpaceFacts
  <1>2. 0 \in S
    <2>1. Mask(0) = 0
      BY SpaceFacts DEF Mask
    <2> QED BY <1>1, <2>1, BitsStep
  <1>3. ASSUME NEW k \in 1 .. AddrBits, k - 1 \in S PROVE k \in S
    <2>1. Mask(k) > 0 /\ (2 * Mask(k)) % Space = Mask(k - 1)
      BY MaskStep
    <2>2. k \in 0 .. AddrBits /\ Mask(k) \in Addresses /\ Mask(k) # 0
      BY <1>1, <2>1, SpaceFacts
    <2>3. bits[Mask(k)] = 1 + bits[Mask(k - 1)]
      BY <2>1, <2>2, BitsStep
    <2> QED BY <1>3, <2>2, <2>3
  <1> HIDE DEF S
  <1>4. \A k \in 0 .. AddrBits : k \in S
    BY <1>1, <1>2, <1>3, BoundedInduction
  <1> QED BY <1>4 DEF S

\* A network is a multiple of its size, and comparing the prefix is the same as
\* asking for the range.
Aligned(net, n) == net \in Addresses /\ \E t \in Nat : net = Pow2[AddrBits - n] * t

LEMMA NetworkAligned ==
    ASSUME NEW a \in Addresses, NEW n \in 0 .. AddrBits
    PROVE  Aligned(Network(a, n), n)
  <1> DEFINE q == Pow2[AddrBits - n]
             m == a % q
  <1>1. q \in Nat \ {0} /\ a \in Nat /\ a < Space /\ Space \in Nat
    BY SpaceFacts DEF Addresses
  <1>2. Network(a, n) = a - m
    BY DEF Network
  <1> HIDE DEF q
  <1>3. m \in 0 .. q - 1
    BY <1>1, ModRange
  <1>4. PICK t \in Int : a = q * t + m
    <2>1. a \in Int
      BY <1>1
    <2> QED BY <1>1, <2>1, ModParts
  <1> HIDE DEF m
  <1>5. t >= 0
    <2> SUFFICES ASSUME t <= -1 PROVE FALSE
      OBVIOUS
    <2>1. q * t <= -q
      BY <1>1
    <2> QED BY <1>1, <1>3, <1>4, <2>1
  <1>6. a - m = q * t /\ a - m >= 0
    <2>1. q * t >= 0
      BY <1>1, <1>5
    <2> QED BY <1>1, <1>3, <1>4, <2>1
  <1>7. a - m \in Addresses
    BY <1>1, <1>3, <1>6 DEF Addresses
  <1> QED BY <1>2, <1>5, <1>6, <1>7 DEF Aligned, q

LEMMA PrefixIsRange ==
    ASSUME NEW a \in Addresses, NEW n \in 0 .. AddrBits, NEW net, Aligned(net, n)
    PROVE  InPrefix(a, net, n) <=> Holds(net, Mask(n), a)
  <1> DEFINE q == Pow2[AddrBits - n]
  <1>1. q \in Nat \ {0} /\ Space - Mask(n) = q /\ a \in Nat
    BY SpaceFacts DEF Addresses
  <1>2. PICK t \in Nat : net = q * t
    BY DEF Aligned
  <1>3. InPrefix(a, net, n) <=> a \div q = net \div q
    BY DEF InPrefix
  <1>4. Holds(net, Mask(n), a) <=> a \in net .. net + q - 1
    BY <1>1 DEF Holds
  <1> HIDE DEF q
  <1>5. net \in Nat /\ net \div q = t
    <2>1. net \in Int /\ net = q * t + 0 /\ 0 \in 0 .. q - 1
      BY <1>1, <1>2
    <2>2. net \div q = t
      BY <1>1, <2>1, DivUnique
    <2> QED BY <1>1, <1>2, <2>2
  <1>6. ASSUME a \in net .. net + q - 1 PROVE a \div q = t
    <2> DEFINE d == a - net
    <2>1. d \in 0 .. q - 1 /\ a = q * t + d
      BY <1>1, <1>2, <1>5, <1>6
    <2> HIDE DEF d
    <2> QED BY <1>1, <2>1, DivUnique
  <1>7. ASSUME a \div q = t PROVE a \in net .. net + q - 1
    <2>1. a = q * (a \div q) + (a % q) /\ a % q \in 0 .. q - 1
      BY <1>1
    <2> QED BY <1>1, <1>2, <1>5, <1>7, <2>1
  <1> QED BY <1>3, <1>4, <1>5, <1>6, <1>7
-----------------------------------------------------------------------------
(* The rule list.                                                          *)

RuleType ==
    [block : BOOLEAN, allow : BOOLEAN, direction : Directions,
     proto : {ANY, ICMP, TCP, UDP}, port : Nat, hits : 0 .. Wrap - 1,
     source : Addresses, source_mask : Addresses,
     destination : Addresses, destination_mask : Addresses]

\* What the commands put into the list: networks with the mask of their prefix
\* length, ports only with protocols that have them, and blocks of a source only.
WellFormed(ru) ==
    /\ \E n \in 0 .. AddrBits : ru.source_mask = Mask(n) /\ Aligned(ru.source, n)
    /\ \E n \in 0 .. AddrBits : ru.destination_mask = Mask(n) /\ Aligned(ru.destination, n)
    /\ ru.proto = ANY => ru.port = 0
    /\ ru.block => /\ ru.proto = ANY /\ ru.port = 0
                   /\ ru.destination = 0 /\ ru.destination_mask = Mask(0)

ListOK == rules \in Seq(RuleType) /\ \A i \in 1 .. Len(rules) : WellFormed(rules[i])

\* The inductive invariant.
FirewallInv == TypeOK /\ ListOK

\* A packet with addresses.
Addressed(p) == p.src \in Addresses /\ p.dst \in Addresses

LEMMA RuleShape ==
    ASSUME NEW block \in BOOLEAN, NEW allow \in BOOLEAN, NEW d \in Directions,
           NEW proto \in {ANY, ICMP, TCP, UDP}, NEW port \in Nat, NEW from \in Cidrs, NEW to \in Cidrs,
           proto = ANY => port = 0, block => proto = ANY /\ port = 0 /\ to = Everything
    PROVE  /\ Rule(block, allow, d, proto, port, from, to) \in RuleType
           /\ WellFormed(Rule(block, allow, d, proto, port, from, to))
  <1> DEFINE ru == Rule(block, allow, d, proto, port, from, to)
  <1>1. /\ from[1] \in Addresses /\ from[2] \in 0 .. AddrBits
        /\ to[1] \in Addresses /\ to[2] \in 0 .. AddrBits
    BY DEF Cidrs
  <1>2. Aligned(Network(from[1], from[2]), from[2]) /\ Aligned(Network(to[1], to[2]), to[2])
    BY <1>1, NetworkAligned
  <1>3. Network(from[1], from[2]) \in Addresses /\ Network(to[1], to[2]) \in Addresses
    BY <1>2 DEF Aligned
  <1>4. Mask(from[2]) \in Addresses /\ Mask(to[2]) \in Addresses
    BY <1>1, SpaceFacts
  <1>5. 0 \in 0 .. Wrap - 1
    BY FirewallAssumption
  <1>6. ru \in RuleType
    BY <1>3, <1>4, <1>5 DEF Rule, RuleType
  <1>7. /\ ru.source = Network(from[1], from[2]) /\ ru.source_mask = Mask(from[2])
        /\ ru.destination = Network(to[1], to[2]) /\ ru.destination_mask = Mask(to[2])
        /\ ru.proto = proto /\ ru.port = port /\ ru.block = block
    BY DEF Rule
  <1>8. ASSUME block PROVE Network(to[1], to[2]) = 0 /\ to[2] = 0
    <2>1. to[1] = 0 /\ to[2] = 0
      BY <1>8 DEF Everything
    <2>2. 0 % Pow2[AddrBits - 0] = 0
      <3>1. Pow2[AddrBits - 0] \in Nat /\ Pow2[AddrBits - 0] >= 1
        BY <1>1, <2>1, SpaceFacts
      <3> QED BY <3>1
    <2> QED BY <2>1, <2>2 DEF Network
  <1> HIDE DEF ru
  <1>9. WellFormed(ru)
    BY <1>1, <1>2, <1>7, <1>8 DEF WellFormed
  <1> QED BY <1>6, <1>9 DEF ru

\* The programs' prefix test on a rule is the range that the rule stands for.
LEMMA Covers ==
    ASSUME NEW ru, WellFormed(ru), NEW a \in Addresses
    PROVE  /\ InPrefix(a, ru.source, bits[ru.source_mask]) <=> Holds(ru.source, ru.source_mask, a)
           /\ InPrefix(a, ru.destination, bits[ru.destination_mask])
                <=> Holds(ru.destination, ru.destination_mask, a)
  <1>1. PICK n \in 0 .. AddrBits : ru.source_mask = Mask(n) /\ Aligned(ru.source, n)
    BY DEF WellFormed
  <1>2. PICK m \in 0 .. AddrBits : ru.destination_mask = Mask(m) /\ Aligned(ru.destination, m)
    BY DEF WellFormed
  <1>3. bits[ru.source_mask] = n /\ bits[ru.destination_mask] = m
    BY <1>1, <1>2, BitsOfMask
  <1> QED BY <1>1, <1>2, <1>3, PrefixIsRange

LEMMA EverythingHolds ==
    ASSUME NEW a \in Addresses
    PROVE  Holds(0, Mask(0), a)
  <1>1. 0 \in 0 .. AddrBits
    BY SpaceFacts
  <1>2. Space - Mask(0) = Space /\ Space \in Nat
    BY <1>1, SpaceFacts DEF Mask
  <1> QED BY <1>2 DEF Holds, Addresses

\* A rule matches in the policy map exactly when it is a block that covers the
\* source, or an ordinary rule that applies.
LEMMA EntryMatches ==
    ASSUME ListOK, NEW p, Addressed(p), NEW d \in Directions, NEW i \in 1 .. Len(rules)
    PROVE  Matches(Entry(i), p, d) <=> (i \in Blocks(p.src) \/ i \in Ordinary(p, d))
  <1> DEFINE ru == rules[i]
             e == Entry(i)
  <1>1. ru \in RuleType /\ WellFormed(ru) /\ DOMAIN rules = 1 .. Len(rules)
    BY DEF ListOK
  <1>2. /\ e.direction = IF ru.block THEN 0 ELSE ru.direction
        /\ e.proto = ru.proto /\ e.port = ru.port
        /\ e.src = ru.source /\ e.src_bits = bits[ru.source_mask]
        /\ e.dst = ru.destination /\ e.dst_bits = bits[ru.destination_mask]
    BY DEF Entry
  <1>3. /\ InPrefix(p.src, e.src, e.src_bits) <=> Holds(ru.source, ru.source_mask, p.src)
        /\ InPrefix(p.dst, e.dst, e.dst_bits) <=> Holds(ru.destination, ru.destination_mask, p.dst)
    <2>1. p.src \in Addresses /\ p.dst \in Addresses
      BY DEF Addressed
    <2> HIDE DEF e, ru
    <2> QED BY <1>1, <1>2, <2>1, Covers
  <1>4. i \in Blocks(p.src) <=> ru.block /\ Holds(ru.source, ru.source_mask, p.src)
    BY <1>1 DEF Blocks
  <1>5. i \in Ordinary(p, d) <=>
            /\ ~ ru.block /\ ru.direction = d
            /\ ru.proto = ANY \/ (ru.proto = p.proto /\ (ru.port = 0 \/ ru.port = p.dport))
            /\ Holds(ru.source, ru.source_mask, p.src)
            /\ Holds(ru.destination, ru.destination_mask, p.dst)
    BY <1>1 DEF Ordinary, Applies
  <1>6. ru.direction \in {1, 2} /\ d \in {1, 2} /\ ru.block \in BOOLEAN
    BY <1>1 DEF RuleType, Directions, FW_IN, FW_OUT
  <1>7. /\ ru.proto = ANY => ru.port = 0
        /\ ru.block => /\ ru.proto = ANY /\ ru.port = 0
                       /\ ru.destination = 0 /\ ru.destination_mask = Mask(0)
    BY <1>1 DEF WellFormed
  <1>8. Holds(0, Mask(0), p.dst)
    BY EverythingHolds DEF Addressed
  <1> HIDE DEF ru, e
  <1>9. CASE ru.block
    BY <1>2, <1>3, <1>4, <1>5, <1>6, <1>7, <1>8, <1>9 DEF Matches, e
  <1>10. CASE ~ ru.block
    BY <1>2, <1>3, <1>4, <1>5, <1>6, <1>7, <1>10 DEF Matches, e
  <1> QED BY <1>9, <1>10
-----------------------------------------------------------------------------
(* The order of the policy map.                                            *)

Upto(i, b) == {j \in 1 .. i : rules[j].block = b}

LEMMA PlacedType ==
    ASSUME NEW i \in Nat, NEW b
    PROVE  IsFiniteSet(Upto(i, b)) /\ Placed(i, b) = Cardinality(Upto(i, b)) /\ Placed(i, b) \in Nat
  <1>1. IsFiniteSet(1 .. i)
    BY FS_Interval
  <1>2. Upto(i, b) \in SUBSET (1 .. i)
    BY DEF Upto
  <1>3. IsFiniteSet(Upto(i, b))
    BY <1>1, <1>2, FS_Subset
  <1>4. Placed(i, b) = Cardinality(Upto(i, b))
    BY DEF Placed, Upto
  <1> QED BY <1>3, <1>4, FS_CardinalityType

LEMMA PlacedGrows ==
    ASSUME NEW i \in Nat, NEW j \in Nat, i <= j, NEW b
    PROVE  Placed(i, b) <= Placed(j, b) /\ (i < j /\ rules[j].block = b => Placed(i, b) < Placed(j, b))
  <1> DEFINE S == Upto(i, b)
             T == Upto(j, b)
  <1>1. /\ IsFiniteSet(S) /\ IsFiniteSet(T) /\ Placed(i, b) = Cardinality(S) /\ Placed(j, b) = Cardinality(T)
        /\ Placed(i, b) \in Nat /\ Placed(j, b) \in Nat
    BY PlacedType
  <1>2. S \in SUBSET T
    BY DEF Upto
  <1>3. i < j /\ rules[j].block = b => j \in T /\ j \notin S
    BY DEF Upto
  <1> HIDE DEF S, T
  <1>4. Cardinality(S) <= Cardinality(T) /\ (Cardinality(T) = Cardinality(S) => T = S)
    BY <1>1, <1>2, FS_Subset
  <1>5. i < j /\ rules[j].block = b => Cardinality(S) # Cardinality(T)
    BY <1>3, <1>4
  <1> QED BY <1>1, <1>4, <1>5

LEMMA RuleTypes ==
    ASSUME ListOK
    PROVE  /\ Len(rules) \in Nat /\ DOMAIN rules = 1 .. Len(rules)
           /\ \A i \in 1 .. Len(rules) : /\ rules[i] \in RuleType /\ rules[i].block \in BOOLEAN
                                        /\ rules[i].allow \in BOOLEAN
  <1>1. /\ Len(rules) \in Nat /\ DOMAIN rules = 1 .. Len(rules)
        /\ \A i \in 1 .. Len(rules) : rules[i] \in RuleType
    BY DEF ListOK
  <1>2. \A ru \in RuleType : ru.block \in BOOLEAN /\ ru.allow \in BOOLEAN
    BY DEF RuleType
  <1> QED BY <1>1, <1>2

LEMMA PlacedAll ==
    ASSUME ListOK
    PROVE  Placed(Len(rules), TRUE) + Placed(Len(rules), FALSE) = Len(rules)
  <1> DEFINE L == Len(rules)
             S == Upto(L, TRUE)
             T == Upto(L, FALSE)
  <1>1. L \in Nat /\ \A j \in 1 .. L : rules[j].block \in BOOLEAN
    BY RuleTypes
  <1> HIDE DEF L
  <1>2. S \cup T = 1 .. L /\ S \cap T = {}
    BY <1>1 DEF Upto
  <1>3. /\ IsFiniteSet(S) /\ IsFiniteSet(T) /\ Placed(L, TRUE) = Cardinality(S) /\ Placed(L, FALSE) = Cardinality(T)
        /\ Placed(L, TRUE) \in Nat /\ Placed(L, FALSE) \in Nat
    BY <1>1, PlacedType
  <1> HIDE DEF S, T
  <1>4. Cardinality(S \cup T) = Cardinality(S) + Cardinality(T) - Cardinality(S \cap T)
    BY <1>3, FS_Union
  <1>5. Cardinality(S \cap T) = 0
    BY <1>2, FS_EmptySet
  <1>6. Cardinality(1 .. L) = L
    <2>1. L \in Int /\ 1 \in Int
      BY <1>1
    <2>2. Cardinality(1 .. L) = IF 1 > L THEN 0 ELSE L - 1 + 1
      BY <2>1, FS_Interval
    <2> QED BY <1>1, <2>2
  <1>7. Cardinality(S) + Cardinality(T) = L
    <2>1. Cardinality(S \cup T) = L
      BY <1>2, <1>6
    <2>2. Cardinality(S) \in Nat /\ Cardinality(T) \in Nat
      BY <1>3
    <2> QED BY <1>4, <1>5, <2>1, <2>2
  <1> QED BY <1>3, <1>7 DEF L

\* Blocks come first, and within each kind the order is the list's.
LEMMA PositionOrder ==
    ASSUME ListOK, NEW i \in 1 .. Len(rules), NEW j \in 1 .. Len(rules)
    PROVE  /\ Position(i) \in 1 .. Len(rules)
           /\ rules[i].block /\ ~ rules[j].block => Position(i) < Position(j)
           /\ (rules[i].block <=> rules[j].block) /\ i < j => Position(i) < Position(j)
  <1> DEFINE L == Len(rules)
             B == Placed(L, TRUE)
             C == Placed(L, FALSE)
             ib == Placed(i, TRUE)
             io == Placed(i, FALSE)
             jb == Placed(j, TRUE)
             jo == Placed(j, FALSE)
  <1>1. /\ L \in Nat /\ i \in Nat /\ j \in Nat /\ i <= L /\ j <= L /\ i >= 1 /\ j >= 1
        /\ rules[i].block \in BOOLEAN /\ rules[j].block \in BOOLEAN
    BY RuleTypes
  <1>2. /\ B \in Nat /\ C \in Nat
        /\ \A b : Placed(i, b) \in Nat /\ Placed(j, b) \in Nat /\ Placed(0, b) \in Nat
    BY <1>1, PlacedType
  <1>3. \A b : Placed(i, b) <= Placed(L, b) /\ Placed(j, b) <= Placed(L, b)
    BY <1>1, PlacedGrows
  <1>4. B + C = L
    BY PlacedAll
  <1>5. /\ Placed(i, rules[i].block) >= 1 /\ Placed(j, rules[j].block) >= 1
    <2>1. Placed(0, rules[i].block) < Placed(i, rules[i].block)
      BY <1>1, PlacedGrows
    <2>2. Placed(0, rules[j].block) < Placed(j, rules[j].block)
      BY <1>1, PlacedGrows
    <2> QED BY <1>2, <2>1, <2>2
  <1>6. i < j => Placed(i, rules[j].block) < Placed(j, rules[j].block)
    BY <1>1, PlacedGrows
  <1>7. Position(i) = IF rules[i].block THEN Placed(i, TRUE) ELSE B + Placed(i, FALSE)
    BY DEF Position
  <1>8. Position(j) = IF rules[j].block THEN Placed(j, TRUE) ELSE B + Placed(j, FALSE)
    BY DEF Position
  <1>9. /\ (rules[i].block <=> rules[i].block = TRUE) /\ (~ rules[i].block <=> rules[i].block = FALSE)
        /\ (rules[j].block <=> rules[j].block = TRUE) /\ (~ rules[j].block <=> rules[j].block = FALSE)
    BY <1>1
  <1>10. /\ ib \in Nat /\ io \in Nat /\ jb \in Nat /\ jo \in Nat
         /\ ib <= B /\ io <= C /\ jb <= B /\ jo <= C
         /\ B \in Nat /\ C \in Nat
    BY <1>2, <1>3
  <1> HIDE DEF L, B, C, ib, io, jb, jo
  <1>11. CASE rules[i].block /\ rules[j].block
    <2>1. /\ Position(i) = ib /\ Position(j) = jb
          /\ ib >= 1 /\ jb >= 1
          /\ i < j => ib < jb
      BY <1>5, <1>6, <1>7, <1>8, <1>9, <1>11 DEF ib, io, jb, jo
    <2>2. Position(i) >= 1 /\ Position(i) <= L /\ Position(i) \in Nat
      BY <1>4, <1>10, <2>1
    <2>3. i < j => Position(i) < Position(j)
      BY <1>10, <2>1
    <2> QED BY <1>1, <1>11, <2>2, <2>3 DEF L
  <1>12. CASE rules[i].block /\ ~ rules[j].block
    <2>1. /\ Position(i) = ib /\ Position(j) = B + jo
          /\ ib >= 1 /\ jo >= 1
      BY <1>5, <1>6, <1>7, <1>8, <1>9, <1>12 DEF ib, io, jb, jo
    <2>2. Position(i) >= 1 /\ Position(i) <= L /\ Position(i) \in Nat
      BY <1>4, <1>10, <2>1
    <2>3. Position(i) < Position(j)
      BY <1>10, <2>1
    <2> QED BY <1>1, <1>12, <2>2, <2>3 DEF L
  <1>13. CASE ~ rules[i].block /\ rules[j].block
    <2>1. /\ Position(i) = B + io /\ Position(j) = jb
          /\ io >= 1 /\ jb >= 1
      BY <1>5, <1>6, <1>7, <1>8, <1>9, <1>13 DEF ib, io, jb, jo
    <2>2. Position(i) >= 1 /\ Position(i) <= L /\ Position(i) \in Nat
      BY <1>4, <1>10, <2>1
    <2> QED BY <1>1, <1>13, <2>2 DEF L
  <1>14. CASE ~ rules[i].block /\ ~ rules[j].block
    <2>1. /\ Position(i) = B + io /\ Position(j) = B + jo
          /\ io >= 1 /\ jo >= 1
          /\ i < j => io < jo
      BY <1>5, <1>6, <1>7, <1>8, <1>9, <1>14 DEF ib, io, jb, jo
    <2>2. Position(i) >= 1 /\ Position(i) <= L /\ Position(i) \in Nat
      BY <1>4, <1>10, <2>1
    <2>3. i < j => Position(i) < Position(j)
      BY <1>10, <2>1
    <2> QED BY <1>1, <1>14, <2>2, <2>3 DEF L
  <1> QED BY <1>11, <1>12, <1>13, <1>14

\* Every place of the map holds one rule, and every rule has one place.
LEMMA PositionBijective ==
    ASSUME ListOK
    PROVE  /\ \A i, j \in 1 .. Len(rules) : Position(i) = Position(j) => i = j
           /\ \A k \in 1 .. Len(rules) : \E i \in 1 .. Len(rules) : Position(i) = k
  <1> DEFINE D == 1 .. Len(rules)
             f == [i \in D |-> Position(i)]
  <1>1. Len(rules) \in Nat
    BY DEF ListOK
  <1>2. ASSUME NEW i \in D, NEW j \in D, i # j PROVE Position(i) # Position(j)
    <2>1. Position(i) \in Nat /\ Position(j) \in Nat
      BY PositionOrder
    <2>2. i < j \/ j < i
      BY <1>2
    <2>3. Position(i) < Position(j) \/ Position(j) < Position(i)
      BY <2>2, PositionOrder
    <2> QED BY <2>1, <2>3
  <1>3. \A i \in D : Position(i) \in D
    BY PositionOrder
  <1> HIDE DEF D
  <1>4. f \in Injection(D, D)
    BY <1>2, <1>3 DEF Injection, IsInjective
  <1>5. IsFiniteSet(D)
    BY <1>1, FS_Interval DEF D
  <1>6. f \in Surjection(D, D)
    <2> HIDE DEF f
    <2> QED BY <1>4, <1>5, FS_Injection
  <1>7. \A k \in D : \E i \in D : f[i] = k
    BY <1>6 DEF Surjection
  <1>8. \A k \in D : \E i \in D : Position(i) = k
    BY <1>7
  <1> QED BY <1>2, <1>8 DEF D

LEMMA PolicyMapIs ==
    ASSUME ListOK, NEW i \in 1 .. Len(rules)
    PROVE  PolicyMap[Position(i)] = Entry(i)
  <1> DEFINE c == CHOOSE j \in 1 .. Len(rules) : Position(j) = Position(i)
  <1>1. Position(i) \in 1 .. Len(rules)
    BY PositionOrder
  <1>2. PolicyMap[Position(i)] = Entry(c)
    BY <1>1 DEF PolicyMap
  <1>3. c \in 1 .. Len(rules) /\ Position(c) = Position(i)
    OBVIOUS
  <1> HIDE DEF c
  <1>4. c = i
    BY <1>3, PositionBijective
  <1> QED BY <1>2, <1>4
-----------------------------------------------------------------------------
(* The verdicts.                                                           *)

LEMMA SmallestMember ==
    ASSUME NEW S, S \subseteq Nat, S # {}
    PROVE  Min(S) \in S /\ \A y \in S : Min(S) <= y
  <1>1. \E z \in S : \A y \in S : z <= y
    BY SmallestOf
  <1> QED BY <1>1 DEF Min

LEMMA SmallestIs ==
    ASSUME NEW S, S \subseteq Nat, NEW z \in S, \A y \in S : z <= y
    PROVE  Min(S) = z
  <1>1. Min(S) \in S /\ Min(S) <= z /\ z <= Min(S)
    BY SmallestMember
  <1>2. Min(S) \in Nat /\ z \in Nat
    BY <1>1
  <1> QED BY <1>1, <1>2

\* The policy program decides by the rule that the list stands for.
LEMMA PolicyHit ==
    ASSUME ListOK, NEW p, Addressed(p), NEW d \in Directions, enabled,
           NEW i \in 1 .. Len(rules), i \in Blocks(p.src) \cup Ordinary(p, d),
           \A j \in Blocks(p.src) \cup Ordinary(p, d) : Position(i) <= Position(j)
    PROVE  Policy(p, d) = [pass |-> Entry(i).action = "ALLOW", hit |-> i]
  <1> DEFINE found == {k \in 1 .. Len(rules) : Matches(PolicyMap[k], p, d)}
  <1>1. Position(i) \in found
    <2>1. Matches(Entry(i), p, d)
      BY EntryMatches
    <2> QED BY <2>1, PolicyMapIs, PositionOrder
  <1>2. ASSUME NEW k \in found PROVE Position(i) <= k
    <2>1. PICK j \in 1 .. Len(rules) : Position(j) = k
      BY PositionBijective
    <2>2. Matches(Entry(j), p, d)
      BY <2>1, PolicyMapIs
    <2> QED BY <2>1, <2>2, EntryMatches
  <1>3. found \subseteq Nat
    OBVIOUS
  <1>4. Policy(p, d) = [pass |-> PolicyMap[Min(found)].action = "ALLOW", hit |-> PolicyMap[Min(found)].index]
    BY <1>1 DEF Policy
  <1> HIDE DEF found
  <1>5. Min(found) = Position(i)
    BY <1>1, <1>2, <1>3, SmallestIs
  <1>6. PolicyMap[Min(found)] = Entry(i)
    BY <1>5, PolicyMapIs
  <1>7. Entry(i).index = i
    BY DEF Entry
  <1> QED BY <1>4, <1>6, <1>7

LEMMA Actions ==
    ASSUME ListOK, NEW i \in 1 .. Len(rules)
    PROVE  Entry(i).action = "ALLOW" <=> ~ rules[i].block /\ rules[i].allow
  <1>1. Entry(i).action =
            IF rules[i].block THEN "BLOCK" ELSE IF rules[i].allow THEN "ALLOW" ELSE "DENY"
    BY DEF Entry
  <1> QED BY <1>1

LEMMA PolicyVerdict ==
    ASSUME ListOK, NEW p, Addressed(p), NEW d \in Directions, enabled
    PROVE  \/ /\ Blocks(p.src) = {} /\ Ordinary(p, d) = {} /\ Decides(p, d) = {}
              /\ Policy(p, d) = [pass |-> defaults[d], hit |-> 0]
           \/ \E i \in 1 .. Len(rules) :
                /\ Decides(p, d) = {i}
                /\ Policy(p, d).hit = i
                /\ \/ i \in Blocks(p.src) /\ rules[i].block /\ Policy(p, d).pass = FALSE
                   \/ /\ Blocks(p.src) = {} /\ i \in Ordinary(p, d) /\ i = Min(Ordinary(p, d))
                      /\ ~ rules[i].block /\ Policy(p, d).pass = rules[i].allow
  <1> DEFINE D == 1 .. Len(rules)
             Bs == Blocks(p.src)
             Os == Ordinary(p, d)
  <1>1. Bs \subseteq D /\ Os \subseteq D /\ DOMAIN rules = D /\ D \subseteq Nat
    BY RuleTypes DEF Blocks, Ordinary
  <1>2. /\ \A i \in Bs : rules[i].block
        /\ \A i \in Os : ~ rules[i].block
    BY DEF Blocks, Ordinary, Applies
  <1>3. CASE Bs # {}
    <2> DEFINE i == Min(Bs)
    <2>1. i \in Bs /\ \A j \in Bs : i <= j
      BY <1>1, <1>3, SmallestMember
    <2>2. Decides(p, d) = {i}
      BY <1>3 DEF Decides, First
    <2> HIDE DEF i
    <2>3. i \in D
      BY <1>1, <2>1
    <2>4. ASSUME NEW j \in Bs \cup Os PROVE Position(i) <= Position(j)
      <3>1. j \in D
        BY <1>1
      <3>2. Position(i) \in Nat /\ Position(j) \in Nat
        BY <2>3, <3>1, PositionOrder
      <3>3. CASE j = i
        BY <3>2, <3>3
      <3>4. CASE j # i
        <4>1. Position(i) < Position(j)
          <5>1. CASE j \in Bs
            <6>1. i < j
              BY <1>1, <2>1, <2>3, <3>1, <3>4, <5>1
            <6> QED BY <1>2, <2>1, <2>3, <3>1, <5>1, <6>1, PositionOrder
          <5>2. CASE j \in Os
            BY <1>2, <2>1, <2>3, <3>1, <5>2, PositionOrder
          <5> QED BY <5>1, <5>2
        <4> QED BY <3>2, <4>1
      <3> QED BY <3>3, <3>4
    <2>5. Policy(p, d) = [pass |-> Entry(i).action = "ALLOW", hit |-> i]
      BY <2>1, <2>3, <2>4, PolicyHit
    <2>6. Policy(p, d).hit = i /\ Policy(p, d).pass = (Entry(i).action = "ALLOW")
      BY <2>5
    <2>7. rules[i].block
      BY <1>2, <2>1
    <2>8. Policy(p, d).pass = FALSE
      BY <2>3, <2>6, <2>7, Actions
    <2> QED BY <2>1, <2>2, <2>3, <2>6, <2>7, <2>8
  <1>4. CASE Bs = {} /\ Os # {}
    <2> DEFINE i == Min(Os)
    <2>1. i \in Os /\ \A j \in Os : i <= j
      BY <1>1, <1>4, SmallestMember
    <2>2. Decides(p, d) = {i}
      BY <1>4 DEF Decides, First
    <2>3. i = Min(Ordinary(p, d))
      OBVIOUS
    <2> HIDE DEF i
    <2>4. i \in D
      BY <1>1, <2>1
    <2>5. ASSUME NEW j \in Bs \cup Os PROVE Position(i) <= Position(j)
      <3>1. j \in D /\ j \in Os
        BY <1>1, <1>4
      <3>2. Position(i) \in Nat /\ Position(j) \in Nat
        BY <2>4, <3>1, PositionOrder
      <3>3. CASE j = i
        BY <3>2, <3>3
      <3>4. CASE j # i
        <4>1. i < j
          BY <1>1, <2>1, <2>4, <3>1, <3>4
        <4>2. Position(i) < Position(j)
          BY <1>2, <2>1, <2>4, <3>1, <4>1, PositionOrder
        <4> QED BY <3>2, <4>2
      <3> QED BY <3>3, <3>4
    <2>6. Policy(p, d) = [pass |-> Entry(i).action = "ALLOW", hit |-> i]
      BY <2>1, <2>4, <2>5, PolicyHit
    <2>7. Policy(p, d).hit = i /\ Policy(p, d).pass = (Entry(i).action = "ALLOW")
      BY <2>6
    <2>8. ~ rules[i].block /\ rules[i].allow \in BOOLEAN
      BY <1>2, <2>1, <2>4, RuleTypes
    <2>9. (Entry(i).action = "ALLOW") = rules[i].allow
      BY <2>4, <2>8, Actions
    <2> QED BY <1>4, <2>1, <2>2, <2>3, <2>4, <2>7, <2>8, <2>9
  <1>5. CASE Bs = {} /\ Os = {}
    <2>1. \A k \in D : ~ Matches(PolicyMap[k], p, d)
      <3> SUFFICES ASSUME NEW k \in D PROVE ~ Matches(PolicyMap[k], p, d)
        OBVIOUS
      <3>1. PICK j \in D : Position(j) = k
        BY PositionBijective
      <3>2. PolicyMap[k] = Entry(j)
        BY <3>1, PolicyMapIs
      <3> QED BY <1>5, <3>1, <3>2, EntryMatches
    <2>2. Policy(p, d) = [pass |-> defaults[d], hit |-> 0]
      BY <2>1 DEF Policy
    <2>3. Decides(p, d) = {}
      BY <1>5 DEF Decides, First
    <2> QED BY <1>5, <2>2, <2>3
  <1> QED BY <1>3, <1>4, <1>5

LEMMA PolicyIsAllowed ==
    ASSUME ListOK, enabled \in BOOLEAN, defaults \in [Directions -> BOOLEAN],
           NEW p, Addressed(p), NEW d \in Directions
    PROVE  Policy(p, d).pass = Allowed(p, d)
  <1>1. CASE ~ enabled
    <2>1. Policy(p, d) = [pass |-> TRUE, hit |-> 0]
      BY <1>1 DEF Policy
    <2>2. Policy(p, d).pass = TRUE
      BY <2>1
    <2>3. Allowed(p, d) = TRUE
      BY <1>1 DEF Allowed
    <2> QED BY <2>2, <2>3
  <1>2. CASE enabled
    <2>1. CASE /\ Blocks(p.src) = {} /\ Ordinary(p, d) = {}
               /\ Policy(p, d) = [pass |-> defaults[d], hit |-> 0]
      <3>1. defaults[d] \in BOOLEAN /\ Policy(p, d).pass = defaults[d]
        BY <2>1
      <3>2. Allowed(p, d) <=> defaults[d]
        BY <1>2, <2>1 DEF Allowed
      <3>3. Allowed(p, d) \in BOOLEAN
        BY DEF Allowed
      <3> QED BY <3>1, <3>2, <3>3
    <2>2. ASSUME NEW i \in 1 .. Len(rules), i \in Blocks(p.src), Policy(p, d).pass = FALSE
          PROVE  Policy(p, d).pass = Allowed(p, d)
      <3>1. Allowed(p, d) = FALSE
        BY <1>2, <2>2 DEF Allowed
      <3> QED BY <2>2, <3>1
    <2>3. ASSUME NEW i \in 1 .. Len(rules), Blocks(p.src) = {}, i \in Ordinary(p, d), i = Min(Ordinary(p, d)),
                 Policy(p, d).pass = rules[i].allow
          PROVE  Policy(p, d).pass = Allowed(p, d)
      <3>1. Allowed(p, d) <=> rules[i].allow
        BY <1>2, <2>3 DEF Allowed
      <3>2. Allowed(p, d) \in BOOLEAN
        BY DEF Allowed
      <3>3. rules[i].allow \in BOOLEAN
        BY RuleTypes
      <3> QED BY <2>3, <3>1, <3>2, <3>3
    <2> QED BY <1>2, <2>1, <2>2, <2>3, PolicyVerdict
  <1> QED BY <1>1, <1>2

\* The early program drops a source exactly when a block covers it, and blames the
\* first of the narrowest blocks.
LEMMA SourceBits ==
    ASSUME ListOK, NEW i \in 1 .. Len(rules)
    PROVE  /\ bits[rules[i].source_mask] \in 0 .. AddrBits
           /\ rules[i].source_mask = Mask(bits[rules[i].source_mask])
           /\ rules[i].source_mask \in Nat /\ rules[i].source_mask < Space
  <1>1. WellFormed(rules[i])
    BY DEF ListOK
  <1>2. PICK n \in 0 .. AddrBits : rules[i].source_mask = Mask(n)
    BY <1>1 DEF WellFormed
  <1>3. bits[rules[i].source_mask] = n
    BY <1>2, BitsOfMask
  <1>4. Mask(n) \in Nat /\ Mask(n) < Space
    <2>1. Mask(n) \in Addresses /\ Space \in Nat
      BY SpaceFacts
    <2> QED BY <2>1 DEF Addresses
  <1> QED BY <1>2, <1>3, <1>4

LEMMA LongestIsNarrowest ==
    ASSUME ListOK, NEW S, S \subseteq 1 .. Len(rules), S # {}
    PROVE  /\ Narrowest(S) # {}
           /\ (CHOOSE i \in S : Longest(i, S)) = Min(Narrowest(S))
  <1> DEFINE D == 1 .. Len(rules)
             mask(i) == rules[i].source_mask
             b(i) == bits[mask(i)]
             m == Min(Narrowest(S))
  <1>1. D \subseteq Nat /\ Space \in Nat
    BY SpaceFacts
  <1>2. \A i \in D : /\ b(i) \in 0 .. AddrBits /\ mask(i) = Mask(b(i))
                     /\ mask(i) \in Nat /\ mask(i) < Space
    BY SourceBits
  <1>3. \A i, j \in D : (b(i) < b(j)) <=> (mask(i) < mask(j))
    <2> SUFFICES ASSUME NEW i \in D, NEW j \in D PROVE (b(i) < b(j)) <=> (mask(i) < mask(j))
      OBVIOUS
    <2>1. (b(i) < b(j)) <=> (Mask(b(i)) < Mask(b(j)))
      <3> HIDE DEF b
      <3> QED BY <1>2, MaskGrows
    <2> QED BY <1>2, <2>1
  <1>4. Narrowest(S) # {}
    <2> DEFINE T == {Space - mask(i) : i \in S}
    <2>1. T \subseteq Nat /\ T # {}
      <3>1. ASSUME NEW i \in S PROVE Space - mask(i) \in Nat
        <4>1. mask(i) \in Nat /\ mask(i) < Space
          BY <1>2
        <4> HIDE DEF mask
        <4> QED BY <1>1, <4>1
      <3> QED BY <3>1
    <2>2. PICK t \in T : \A u \in T : t <= u
      <3> HIDE DEF T
      <3> QED BY <2>1, SmallestOf
    <2>3. PICK i \in S : t = Space - mask(i)
      BY <2>2
    <2>4. ASSUME NEW j \in S PROVE mask(j) <= mask(i)
      <3>1. Space - mask(j) \in T
        OBVIOUS
      <3>2. Space - mask(i) <= Space - mask(j)
        BY <2>2, <2>3, <3>1
      <3>3. i \in D /\ j \in D /\ mask(i) \in Nat /\ mask(j) \in Nat
        BY <1>2
      <3> QED BY <1>1, <3>2, <3>3
    <2> QED BY <2>4 DEF Narrowest
  <1>5. Narrowest(S) \subseteq S /\ Narrowest(S) \subseteq Nat
    BY <1>1 DEF Narrowest
  <1>6. m \in Narrowest(S) /\ \A y \in Narrowest(S) : m <= y
    BY <1>4, <1>5, SmallestMember
  <1> HIDE DEF m
  <1>7. m \in S /\ m \in D /\ \A j \in S : mask(j) <= mask(m)
    BY <1>5, <1>6 DEF Narrowest
  <1>8. ASSUME NEW j \in S PROVE b(j) < b(m) \/ (b(j) = b(m) /\ m <= j)
    <2>1. j \in D /\ mask(j) <= mask(m) /\ mask(j) \in Nat /\ mask(m) \in Nat
      BY <1>2, <1>7
    <2>2. b(j) \in Nat /\ b(m) \in Nat
      BY <1>2, <1>7, <2>1
    <2>3. CASE mask(j) < mask(m)
      BY <1>3, <1>7, <2>1, <2>3
    <2>4. CASE mask(j) = mask(m)
      <3>1. \A k \in S : mask(k) <= mask(j)
        BY <1>7, <2>4
      <3>2. j \in Narrowest(S)
        BY <3>1 DEF Narrowest
      <3>3. b(j) = b(m)
        BY <2>4
      <3> QED BY <1>6, <3>2, <3>3
    <2> QED BY <2>1, <2>3, <2>4
  <1>9. Longest(m, S)
    BY <1>8 DEF Longest
  <1>10. ASSUME NEW i \in S, Longest(i, S) PROVE i = m
    <2>1. b(m) < b(i) \/ (b(m) = b(i) /\ i <= m)
      BY <1>7, <1>10 DEF Longest
    <2>2. b(i) < b(m) \/ (b(i) = b(m) /\ m <= i)
      BY <1>8
    <2>3. b(i) \in Nat /\ b(m) \in Nat /\ i \in Nat /\ m \in Nat
      BY <1>1, <1>2, <1>7
    <2> QED BY <2>1, <2>2, <2>3
  <1>11. (CHOOSE i \in S : Longest(i, S)) = m
    BY <1>7, <1>9, <1>10
  <1> QED BY <1>4, <1>11 DEF m

LEMMA XdpVerdict ==
    ASSUME ListOK, NEW a \in Addresses
    PROVE  \/ enabled /\ Blocks(a) # {} /\ Xdp(a).pass = FALSE /\ First(Narrowest(Blocks(a))) = {Xdp(a).hit}
           \/ (~ enabled \/ Blocks(a) = {}) /\ Xdp(a).pass = TRUE /\ Xdp(a).hit = 0
  <1>1. Blocked(a) = Blocks(a) /\ Blocks(a) \subseteq 1 .. Len(rules)
    <2>1. DOMAIN rules = 1 .. Len(rules)
      BY RuleTypes
    <2>2. \A i \in 1 .. Len(rules) :
            InPrefix(a, rules[i].source, bits[rules[i].source_mask])
              <=> Holds(rules[i].source, rules[i].source_mask, a)
      BY Covers DEF ListOK
    <2> QED BY <2>1, <2>2 DEF Blocked, Blocks
  <1>2. CASE enabled /\ Blocks(a) # {}
    <2> DEFINE i == CHOOSE i \in Blocked(a) : Longest(i, Blocked(a))
    <2>1. Xdp(a) = [pass |-> FALSE, hit |-> i]
      BY <1>1, <1>2 DEF Xdp
    <2>2. Xdp(a).pass = FALSE /\ Xdp(a).hit = i
      <3> HIDE DEF i
      <3> QED BY <2>1
    <2>3. Narrowest(Blocks(a)) # {} /\ i = Min(Narrowest(Blocks(a)))
      BY <1>1, <1>2, LongestIsNarrowest
    <2> HIDE DEF i
    <2> QED BY <1>2, <2>2, <2>3 DEF First
  <1>3. CASE ~ enabled \/ Blocks(a) = {}
    <2>1. Xdp(a) = [pass |-> TRUE, hit |-> 0]
      BY <1>1, <1>3 DEF Xdp
    <2>2. Xdp(a).pass = TRUE /\ Xdp(a).hit = 0
      BY <2>1
    <2> QED BY <1>3, <2>2
  <1> QED BY <1>2, <1>3
-----------------------------------------------------------------------------
(* The invariant.                                                          *)

LEMMA HitKeeps ==
    ASSUME NEW rs \in Seq(RuleType), \A i \in 1 .. Len(rs) : WellFormed(rs[i]), NEW v
    PROVE  /\ Hit(rs, v) \in Seq(RuleType) /\ Len(Hit(rs, v)) = Len(rs)
           /\ \A i \in 1 .. Len(rs) :
                /\ WellFormed(Hit(rs, v)[i])
                /\ Hit(rs, v)[i] = IF i = v.hit THEN [rs[i] EXCEPT !.hits = Next1(@)] ELSE rs[i]
  <1> DEFINE hs == Hit(rs, v)
  <1>1. Len(rs) \in Nat /\ DOMAIN rs = 1 .. Len(rs) /\ \A i \in 1 .. Len(rs) : rs[i] \in RuleType
    OBVIOUS
  <1>2. hs = [i \in 1 .. Len(rs) |-> IF i = v.hit THEN [rs[i] EXCEPT !.hits = Next1(@)] ELSE rs[i]]
    BY <1>1 DEF Hit
  <1>3. ASSUME NEW ru \in RuleType
        PROVE  /\ [ru EXCEPT !.hits = Next1(@)] \in RuleType
               /\ WellFormed(ru) => WellFormed([ru EXCEPT !.hits = Next1(@)])
    <2>1. Next1(ru.hits) \in 0 .. Wrap - 1
      <3>1. Wrap \in Nat \ {0} /\ ru.hits + 1 \in Int
        BY FirewallAssumption DEF RuleType
      <3> QED BY <3>1, ModRange DEF Next1
    <2> DEFINE w == [ru EXCEPT !.hits = Next1(@)]
    <2>2. w \in RuleType
      BY <2>1 DEF RuleType
    <2>3. /\ w.source = ru.source /\ w.source_mask = ru.source_mask /\ w.destination = ru.destination
          /\ w.destination_mask = ru.destination_mask /\ w.proto = ru.proto /\ w.port = ru.port
          /\ w.block = ru.block
      BY DEF RuleType
    <2> HIDE DEF w
    <2>4. WellFormed(ru) => WellFormed(w)
      BY <2>3 DEF WellFormed
    <2> QED BY <2>2, <2>4 DEF w
  <1>4. \A i \in 1 .. Len(rs) : hs[i] = IF i = v.hit THEN [rs[i] EXCEPT !.hits = Next1(@)] ELSE rs[i]
    BY <1>2
  <1>5. \A i \in 1 .. Len(rs) : hs[i] \in RuleType /\ WellFormed(hs[i])
    <2> HIDE DEF hs
    <2> QED BY <1>1, <1>3, <1>4
  <1>6. hs \in [1 .. Len(rs) -> RuleType]
    <2> DEFINE n == Len(rs)
    <2>1. hs = [i \in 1 .. n |-> hs[i]]
      BY <1>2
    <2> HIDE DEF hs, n
    <2> QED BY <1>5, <2>1 DEF n
  <1>7. hs \in Seq(RuleType) /\ Len(hs) = Len(rs)
    <2> HIDE DEF hs
    <2> QED BY <1>1, <1>6
  <1> QED BY <1>4, <1>5, <1>7

\* What of the state the list does not hold.
Rest ==
    /\ Len(rules) <= FW_RULES
    /\ enabled \in BOOLEAN /\ echo \in BOOLEAN /\ defaults \in [Directions -> BOOLEAN]
    /\ allowed \in [Directions -> 0 .. Wrap - 1] /\ denied \in [Directions -> 0 .. Wrap - 1]
    /\ Cardinality(wire) <= 1

LEMMA InvParts == FirewallInv <=> ListOK /\ Rest
  BY DEF FirewallInv, ListOK, Rest, TypeOK, RuleType

LEMMA FirewallInit == Init => FirewallInv
  <1> SUFFICES ASSUME Init PROVE ListOK /\ Rest
    BY InvParts
  <1>1. ListOK
    BY DEF Init, ListOK
  <1>2. Zero \in [Directions -> 0 .. Wrap - 1]
    <2>1. 0 \in 0 .. Wrap - 1
      BY FirewallAssumption
    <2> QED BY <2>1 DEF Zero
  <1>3. Cardinality({}) = 0
    BY FS_EmptySet
  <1>4. Len(<<>>) = 0 /\ FW_RULES \in Nat
    BY FirewallAssumption
  <1>5. [d \in Directions |-> d = FW_OUT] \in [Directions -> BOOLEAN]
    OBVIOUS
  <1>6. defaults \in [Directions -> BOOLEAN] /\ enabled \in BOOLEAN /\ echo \in BOOLEAN
    BY <1>5 DEF Init
  <1>7. Len(rules) <= FW_RULES /\ Cardinality(wire) <= 1
    BY <1>3, <1>4 DEF Init
  <1>8. allowed \in [Directions -> 0 .. Wrap - 1] /\ denied \in [Directions -> 0 .. Wrap - 1]
    BY <1>2 DEF Init
  <1>9. Rest
    BY <1>6, <1>7, <1>8 DEF Rest
  <1> QED BY <1>1, <1>9

LEMMA CommandInv ==
    ASSUME FirewallInv, Command
    PROVE  FirewallInv'
  <1>1. ListOK /\ Rest
    BY InvParts
  <1>2. wire' = {} /\ Cardinality({}) = 0
    BY FS_EmptySet DEF Command
  <1>3. ASSUME NEW ru \in RuleType, WellFormed(ru), FwAdd(ru) PROVE ListOK' /\ (Len(rules) <= FW_RULES)'
    <2>1. CASE HasRoom
      <3>1. rules' = Append(rules, ru)
        BY <1>3, <2>1 DEF FwAdd
      <3>2. rules \in Seq(RuleType) /\ Len(rules) \in Nat /\ Len(rules) < FW_RULES /\ FW_RULES \in Nat
        BY <1>1, <2>1, FirewallAssumption DEF ListOK, HasRoom
      <3>3. /\ rules' \in Seq(RuleType) /\ Len(rules') = Len(rules) + 1
            /\ \A i \in 1 .. Len(rules) : rules'[i] = rules[i]
            /\ rules'[Len(rules) + 1] = ru
        BY <3>1, <3>2, AppendProperties
      <3>4. \A i \in 1 .. Len(rules') : WellFormed(rules'[i])
        BY <1>1, <1>3, <3>2, <3>3 DEF ListOK
      <3> QED BY <3>2, <3>3, <3>4 DEF ListOK
    <2>2. CASE ~ HasRoom
      <3>1. rules' = rules
        BY <1>3, <2>2 DEF FwAdd
      <3> QED BY <1>1, <3>1 DEF ListOK, Rest
    <2> QED BY <2>1, <2>2
  <1>4. CASE Block
    <2>1. PICK c \in BlockRequests : FwAdd(BlockRule(c))
      BY <1>4 DEF Block
    <2>2. c \in Cidrs
      BY FirewallAssumption
    <2>3. Everything \in Cidrs /\ FW_IN \in Directions
      BY SpaceFacts DEF Everything, Cidrs, Addresses, Directions
    <2>4. BlockRule(c) \in RuleType /\ WellFormed(BlockRule(c))
      BY <2>2, <2>3, RuleShape DEF BlockRule
    <2>5. ListOK' /\ (Len(rules) <= FW_RULES)'
      BY <1>3, <2>1, <2>4
    <2>6. Rest'
      BY <1>1, <1>2, <1>4, <2>5 DEF Block, Rest, counters
    <2> QED BY <2>5, <2>6, InvParts, PTL
  <1>5. CASE Add
    <2>1. PICK q \in Requests : FwAdd(OrdinaryRule(q))
      BY <1>5 DEF Add
    <2>2. /\ q.proto \in {ANY, ICMP, TCP, UDP} /\ q.direction \in Directions /\ q.port \in Nat
          /\ q.from \in Cidrs /\ q.to \in Cidrs /\ (q.port # 0 => q.proto \in {TCP, UDP})
      BY FirewallAssumption
    <2>3. q.allow \in BOOLEAN
      BY FirewallAssumption
    <2>4. q.proto = ANY => q.port = 0
      BY <2>2 DEF ANY, TCP, UDP
    <2>5. OrdinaryRule(q) \in RuleType /\ WellFormed(OrdinaryRule(q))
      <3>1. PICK allow \in BOOLEAN : allow = q.allow
        BY <2>3
      <3>2. /\ Rule(FALSE, allow, q.direction, q.proto, q.port, q.from, q.to) \in RuleType
            /\ WellFormed(Rule(FALSE, allow, q.direction, q.proto, q.port, q.from, q.to))
        BY <2>2, <2>4, RuleShape, ZenonT(60)
      <3> QED BY <3>1, <3>2 DEF OrdinaryRule
    <2>6. ListOK' /\ (Len(rules) <= FW_RULES)'
      BY <1>3, <2>1, <2>5
    <2>7. Rest'
      BY <1>1, <1>2, <1>5, <2>6 DEF Add, Rest, counters
    <2> QED BY <2>6, <2>7, InvParts, PTL
  <1>6. CASE Delete
    <2>1. PICK n \in 1 .. Len(rules) : FwDelete(n)
      BY <1>6 DEF Delete
    <2> DEFINE L == Len(rules)
               ds == [i \in 1 .. L - 1 |-> IF i < n THEN rules[i] ELSE rules[i + 1]]
    <2>2. L \in Nat /\ L >= 1 /\ \A i \in 1 .. L : rules[i] \in RuleType /\ WellFormed(rules[i])
      BY <1>1 DEF ListOK
    <2>3. rules' = ds
      BY <2>1 DEF FwDelete
    <2> HIDE DEF L
    <2>4. \A i \in 1 .. L - 1 : i \in 1 .. L /\ i + 1 \in 1 .. L
      BY <2>2
    <2>5. L - 1 \in Nat /\ ds \in [1 .. L - 1 -> RuleType]
      BY <2>2, <2>4
    <2>6. \A i \in 1 .. L - 1 : WellFormed(ds[i])
      BY <2>2, <2>4
    <2> HIDE DEF ds
    <2>7. ds \in Seq(RuleType) /\ Len(ds) = L - 1
      BY <2>5
    <2>8. ListOK'
      BY <2>3, <2>6, <2>7 DEF ListOK
    <2>9. (Len(rules) <= FW_RULES)'
      <3>1. L <= FW_RULES /\ FW_RULES \in Nat
        BY <1>1, FirewallAssumption DEF Rest, L
      <3> QED BY <2>2, <2>3, <2>7, <3>1
    <2>10. Rest'
      BY <1>1, <1>2, <1>6, <2>9 DEF Delete, Rest, counters
    <2> QED BY <2>8, <2>10, InvParts, PTL
  <1>7. CASE Enable \/ Disable \/ Default \/ Echo
    <2>1. rules' = rules /\ allowed' = allowed /\ denied' = denied
      BY <1>7 DEF Enable, Disable, Default, Echo, counters, policy
    <2>2. ListOK'
      BY <1>1, <2>1 DEF ListOK
    <2>3. enabled' \in BOOLEAN /\ echo' \in BOOLEAN /\ defaults' \in [Directions -> BOOLEAN]
      <3>1. enabled \in BOOLEAN /\ echo \in BOOLEAN /\ defaults \in [Directions -> BOOLEAN]
        BY <1>1 DEF Rest
      <3>2. CASE Enable \/ Disable \/ Echo
        BY <3>1, <3>2 DEF Enable, Disable, Echo, policy
      <3>3. CASE Default
        BY <3>1, <3>3 DEF Default
      <3> QED BY <1>7, <3>2, <3>3
    <2>4. Rest'
      BY <1>1, <1>2, <2>1, <2>3 DEF Rest
    <2> QED BY <2>2, <2>4, InvParts, PTL
  <1>8. CASE Reset
    <2>1. Zero \in [Directions -> 0 .. Wrap - 1]
      <3>1. 0 \in 0 .. Wrap - 1
        BY FirewallAssumption
      <3> QED BY <3>1 DEF Zero
    <2>2. [d \in Directions |-> d = FW_OUT] \in [Directions -> BOOLEAN]
      OBVIOUS
    <2>3. rules' = <<>>
      BY <1>8 DEF Reset
    <2>4. ListOK'
      BY <2>3 DEF ListOK
    <2>5. defaults' \in [Directions -> BOOLEAN] /\ enabled' \in BOOLEAN /\ echo' \in BOOLEAN
      BY <1>1, <1>8, <2>2 DEF Reset, Rest
    <2>6. (Len(rules) <= FW_RULES)' /\ Cardinality(wire') <= 1
      BY <1>2, <2>3, FirewallAssumption
    <2>7. allowed' \in [Directions -> 0 .. Wrap - 1] /\ denied' \in [Directions -> 0 .. Wrap - 1]
      BY <1>8, <2>1 DEF Reset
    <2>8. Rest'
      BY <2>5, <2>6, <2>7 DEF Rest
    <2> QED BY <2>4, <2>8, InvParts, PTL
  <1> QED BY <1>4, <1>5, <1>6, <1>7, <1>8 DEF Command

LEMMA HitInv ==
    ASSUME ListOK, NEW v, rules' = Hit(rules, v)
    PROVE  ListOK' /\ Len(rules') = Len(rules)
  <1>1. rules \in Seq(RuleType) /\ \A i \in 1 .. Len(rules) : WellFormed(rules[i])
    BY DEF ListOK
  <1> QED BY <1>1, HitKeeps DEF ListOK

LEMMA SentSmall == \A p : Cardinality(Sent(p)) <= 1
  <1>1. \A p : Cardinality({p}) = 1
    BY FS_Singleton
  <1>2. Cardinality({}) = 0
    BY FS_EmptySet
  <1>3. \A p : Sent(p) = {p} \/ Sent(p) = {}
    BY DEF Sent
  <1> QED BY <1>1, <1>2, <1>3

LEMMA CountersType ==
    ASSUME NEW f \in [Directions -> 0 .. Wrap - 1], NEW d \in Directions, NEW n \in Nat
    PROVE  (f[d] + n) % Wrap \in 0 .. Wrap - 1 /\ Next1(f[d]) \in 0 .. Wrap - 1
  <1>1. Wrap \in Nat \ {0} /\ f[d] \in Int
    BY FirewallAssumption
  <1>2. f[d] + n \in Int /\ f[d] + 1 \in Int
    BY <1>1
  <1> QED BY <1>1, <1>2, ModRange DEF Next1

LEMMA CountedType ==
    ASSUME Rest, NEW v, NEW d \in Directions, Counted(v, d)
    PROVE  allowed' \in [Directions -> 0 .. Wrap - 1] /\ denied' \in [Directions -> 0 .. Wrap - 1]
  <1>1. allowed \in [Directions -> 0 .. Wrap - 1] /\ denied \in [Directions -> 0 .. Wrap - 1]
    BY DEF Rest
  <1>2. Next1(allowed[d]) \in 0 .. Wrap - 1 /\ Next1(denied[d]) \in 0 .. Wrap - 1
    BY <1>1, CountersType
  <1> QED BY <1>1, <1>2 DEF Counted

LEMMA PacketInv ==
    ASSUME FirewallInv, \/ \E f \in Frames : Receive(f)
                        \/ \E p \in Segments : Send(p)
    PROVE  FirewallInv'
  <1>1. ListOK /\ Rest
    BY InvParts
  <1>2. /\ enabled \in BOOLEAN /\ echo \in BOOLEAN /\ defaults \in [Directions -> BOOLEAN]
        /\ allowed \in [Directions -> 0 .. Wrap - 1] /\ denied \in [Directions -> 0 .. Wrap - 1]
        /\ Len(rules) <= FW_RULES
    BY <1>1 DEF Rest
  <1>3. FW_IN \in Directions /\ FW_OUT \in Directions /\ FW_IN # FW_OUT
    BY DEF Directions, FW_IN, FW_OUT
  <1>4. Cardinality({}) <= 1
    BY FS_EmptySet
  <1>5. ASSUME ListOK', Len(rules') = Len(rules), enabled' = enabled, echo' = echo, defaults' = defaults,
               allowed' \in [Directions -> 0 .. Wrap - 1], denied' \in [Directions -> 0 .. Wrap - 1],
               Cardinality(wire') <= 1
        PROVE  FirewallInv'
    <2>1. Rest'
      BY <1>2, <1>5 DEF Rest
    <2> QED BY <1>5, <2>1, InvParts, PTL
  <1>6. ASSUME NEW f \in Frames, ReceiveDropped(f) PROVE FirewallInv'
    <2>1. ListOK' /\ Len(rules') = Len(rules)
      BY <1>1, <1>6, HitInv DEF ReceiveDropped
    <2>2. Next1(denied[FW_IN]) \in 0 .. Wrap - 1
      BY <1>2, <1>3, CountersType
    <2>3. denied' \in [Directions -> 0 .. Wrap - 1] /\ allowed' \in [Directions -> 0 .. Wrap - 1]
      BY <1>2, <1>6, <2>2 DEF ReceiveDropped
    <2> QED BY <1>4, <1>5, <1>6, <2>1, <2>3 DEF ReceiveDropped
  <1>7. ASSUME NEW f \in Frames, ReceiveIgnored(f) PROVE FirewallInv'
    <2>1. ListOK' /\ Len(rules') = Len(rules)
      BY <1>1, <1>7 DEF ReceiveIgnored, policy, ListOK
    <2> QED BY <1>2, <1>4, <1>5, <1>7, <2>1 DEF ReceiveIgnored, policy, counters
  <1>8. ASSUME NEW f \in Frames, ReceiveInput(f) PROVE FirewallInv'
    <2>1. ListOK' /\ Len(rules') = Len(rules)
      BY <1>1, <1>8, HitInv DEF ReceiveInput
    <2>2. denied' \in [Directions -> 0 .. Wrap - 1] /\ allowed' \in [Directions -> 0 .. Wrap - 1]
      BY <1>1, <1>3, <1>8, CountedType DEF ReceiveInput
    <2> QED BY <1>4, <1>5, <1>8, <2>1, <2>2 DEF ReceiveInput
  <1>9. ASSUME NEW f \in Frames, ReceiveAnswered(f) PROVE FirewallInv'
    <2> DEFINE v == Policy(f, FW_IN)
               w == Policy(Answer(f), FW_OUT)
               out == IF w.pass THEN 1 ELSE 0
    <2>1. ListOK' /\ Len(rules') = Len(rules)
      <3>1. rules' = Hit(Hit(rules, v), w)
        BY <1>9 DEF ReceiveAnswered
      <3>2. rules \in Seq(RuleType) /\ \A i \in 1 .. Len(rules) : WellFormed(rules[i])
        BY <1>1 DEF ListOK
      <3> HIDE DEF v, w
      <3>3. /\ Hit(rules, v) \in Seq(RuleType) /\ Len(Hit(rules, v)) = Len(rules)
            /\ \A i \in 1 .. Len(rules) : WellFormed(Hit(rules, v)[i])
        BY <3>2, HitKeeps
      <3>4. PICK hs : hs = Hit(rules, v)
        OBVIOUS
      <3>5. /\ Hit(hs, w) \in Seq(RuleType) /\ Len(Hit(hs, w)) = Len(hs)
            /\ \A i \in 1 .. Len(hs) : WellFormed(Hit(hs, w)[i])
        BY <3>3, <3>4, HitKeeps
      <3> QED BY <3>1, <3>3, <3>4, <3>5 DEF ListOK
    <2>2. /\ allowed' = [allowed EXCEPT ![FW_IN] = Next1(@), ![FW_OUT] = (@ + out) % Wrap]
          /\ denied' = [denied EXCEPT ![FW_OUT] = (@ + 1 - out) % Wrap]
      BY <1>9 DEF ReceiveAnswered
    <2>3. out \in {0, 1}
      OBVIOUS
    <2> HIDE DEF out
    <2>4. /\ Next1(allowed[FW_IN]) \in 0 .. Wrap - 1
          /\ (allowed[FW_OUT] + out) % Wrap \in 0 .. Wrap - 1
      <3>1. out \in Nat
        BY <2>3
      <3> QED BY <1>2, <1>3, <3>1, CountersType
    <2>5. (denied[FW_OUT] + 1 - out) % Wrap \in 0 .. Wrap - 1
      <3>1. Wrap \in Nat \ {0} /\ denied[FW_OUT] + 1 - out \in Int
        BY <1>2, <1>3, <2>3, FirewallAssumption
      <3> QED BY <3>1, ModRange
    <2>6. allowed' \in [Directions -> 0 .. Wrap - 1]
      BY <1>2, <1>3, <2>2, <2>4
    <2>7. denied' \in [Directions -> 0 .. Wrap - 1]
      BY <1>2, <1>3, <2>2, <2>5
    <2>8. Cardinality(wire') <= 1
      BY <1>9, SentSmall DEF ReceiveAnswered
    <2> QED BY <1>5, <1>9, <2>1, <2>6, <2>7, <2>8 DEF ReceiveAnswered
  <1>10. ASSUME NEW p \in Segments, Send(p) PROVE FirewallInv'
    <2>1. ListOK' /\ Len(rules') = Len(rules)
      BY <1>1, <1>10, HitInv DEF Send
    <2>2. denied' \in [Directions -> 0 .. Wrap - 1] /\ allowed' \in [Directions -> 0 .. Wrap - 1]
      BY <1>1, <1>3, <1>10, CountedType DEF Send
    <2>3. Cardinality(wire') <= 1
      BY <1>10, SentSmall DEF Send
    <2> QED BY <1>5, <1>10, <2>1, <2>2, <2>3 DEF Send
  <1> QED BY <1>6, <1>7, <1>8, <1>9, <1>10 DEF Receive

LEMMA FirewallNext == FirewallInv /\ [Next]_vars => FirewallInv'
  <1> SUFFICES ASSUME FirewallInv, [Next]_vars PROVE FirewallInv'
    OBVIOUS
  <1>1. CASE vars' = vars
    <2>1. ListOK /\ Rest
      BY InvParts
    <2>2. ListOK' /\ Rest'
      BY <1>1, <2>1 DEF vars, policy, counters, ListOK, Rest
    <2> QED BY <2>2, InvParts, PTL
  <1>2. CASE Command
    BY <1>2, CommandInv
  <1>3. CASE (\E f \in Frames : Receive(f)) \/ \E p \in Segments : Send(p)
    BY <1>3, PacketInv
  <1> QED BY <1>1, <1>2, <1>3 DEF Next

\* Every reachable state has the shape that the maps and the programs rely on.
THEOREM FirewallSafe == Spec => []FirewallInv
  BY FirewallInit, FirewallNext, PTL DEF Spec
-----------------------------------------------------------------------------
(* What the rules mean.                                                    *)

LEMMA PacketsAddressed ==
    /\ \A f \in Frames : Addressed(f) /\ Addressed(Answer(f))
    /\ \A p \in Packets : Addressed(p)
  <1>1. \A p \in Frames \cup Segments : Addressed(p)
    BY FirewallAssumption DEF Addressed
  <1>2. ASSUME NEW f \in Frames PROVE Addressed(Answer(f))
    <2>1. Answer(f).src = NET_IP /\ Answer(f).dst = f.src
      BY DEF Answer
    <2>2. NET_IP \in Addresses /\ f.src \in Addresses
      BY FirewallAssumption
    <2> QED BY <2>1, <2>2 DEF Addressed
  <1> QED BY <1>1, <1>2 DEF Packets

LEMMA VerdictHolds == FirewallInv => VerdictIsReference
  <1> SUFFICES ASSUME FirewallInv PROVE VerdictIsReference
    OBVIOUS
  <1>1. ListOK /\ Rest
    BY InvParts
  <1>2. enabled \in BOOLEAN /\ defaults \in [Directions -> BOOLEAN] /\ Len(rules) <= FW_RULES
    BY <1>1 DEF Rest
  <1>3. \A p \in Packets, d \in Directions : Policy(p, d).pass = Allowed(p, d)
    BY <1>1, <1>2, PacketsAddressed, PolicyIsAllowed
  <1> QED BY <1>2, <1>3 DEF VerdictIsReference

LEMMA AgreementHolds == FirewallInv => ProgramsAgree
  <1> SUFFICES ASSUME FirewallInv PROVE ProgramsAgree
    OBVIOUS
  <1>1. ListOK /\ Rest
    BY InvParts
  <1> SUFFICES ASSUME NEW p \in Packets
               PROVE  /\ Xdp(p.src).pass = (enabled => Blocks(p.src) = {})
                      /\ Xdp(p.src).pass /\ Policy(p, FW_IN).hit # 0 => ~ rules[Policy(p, FW_IN).hit].block
    BY DEF ProgramsAgree
  <1>2. Addressed(p) /\ p.src \in Addresses /\ FW_IN \in Directions
    BY PacketsAddressed DEF Addressed, Directions
  <1>3. CASE enabled /\ Blocks(p.src) # {} /\ Xdp(p.src).pass = FALSE
    BY <1>3
  <1>4. CASE (~ enabled \/ Blocks(p.src) = {}) /\ Xdp(p.src).pass = TRUE
    <2>1. CASE ~ enabled
      <3>1. Policy(p, FW_IN) = [pass |-> TRUE, hit |-> 0]
        BY <2>1 DEF Policy
      <3>2. Policy(p, FW_IN).hit = 0
        BY <3>1
      <3> QED BY <1>4, <2>1, <3>2
    <2>2. CASE enabled
      <3>1. Blocks(p.src) = {}
        BY <1>4, <2>2
      <3>2. Policy(p, FW_IN).hit = 0 \/ ~ rules[Policy(p, FW_IN).hit].block
        <4>1. CASE Policy(p, FW_IN) = [pass |-> defaults[FW_IN], hit |-> 0]
          BY <4>1
        <4>2. ASSUME NEW i \in 1 .. Len(rules), Policy(p, FW_IN).hit = i, ~ rules[i].block
              PROVE  ~ rules[Policy(p, FW_IN).hit].block
          BY <4>2
        <4> QED BY <1>1, <1>2, <2>2, <3>1, <4>1, <4>2, PolicyVerdict
      <3> QED BY <1>4, <3>1, <3>2
    <2> QED BY <2>1, <2>2
  <1> QED BY <1>1, <1>2, <1>3, <1>4, XdpVerdict

\* The verdict of the policy program over the maps that prepare builds is the one
\* the rule list stands for, after any sequence of commands.
THEOREM Verdicts == Spec => []VerdictIsReference
  BY FirewallSafe, VerdictHolds, PTL

\* The early program and the policy program agree about the blocked sources.
THEOREM Agreement == Spec => []ProgramsAgree
  BY FirewallSafe, AgreementHolds, PTL
-----------------------------------------------------------------------------
(* What a step counts and sends.                                           *)

\* The rule that a decision counts for, as a set.
Blames(v, s) == s = {v.hit} \/ (s = {} /\ v.hit = 0)

LEMMA HitCounts ==
    ASSUME NEW rs \in Seq(RuleType), \A i \in 1 .. Len(rs) : WellFormed(rs[i]),
           NEW v, NEW s, Blames(v, s), NEW i \in 1 .. Len(rs)
    PROVE  /\ rs[i].hits \in 0 .. Wrap - 1
           /\ Hit(rs, v)[i].hits = (rs[i].hits + In(i, s)) % Wrap
  <1>1. rs[i] \in RuleType /\ i # 0
    OBVIOUS
  <1>2. PICK h \in 0 .. Wrap - 1 : h = rs[i].hits
    BY <1>1 DEF RuleType
  <1>3. Hit(rs, v)[i] = IF i = v.hit THEN [rs[i] EXCEPT !.hits = Next1(@)] ELSE rs[i]
    <2>1. DOMAIN rs = 1 .. Len(rs)
      OBVIOUS
    <2> QED BY <2>1 DEF Hit
  <1>4. CASE i = v.hit
    <2>1. Hit(rs, v)[i].hits = Next1(h)
      BY <1>1, <1>2, <1>3, <1>4 DEF RuleType
    <2>2. In(i, s) = 1
      BY <1>1, <1>4 DEF Blames, In
    <2> QED BY <1>2, <2>1, <2>2 DEF Next1
  <1>5. CASE i # v.hit
    <2>1. Hit(rs, v)[i].hits = h
      BY <1>2, <1>3, <1>5
    <2>2. In(i, s) = 0
      BY <1>5 DEF Blames, In
    <2>3. (h + 0) % Wrap = h
      <3>1. Wrap \in Nat \ {0} /\ h \in Int /\ h + 0 = h
        BY FirewallAssumption
      <3>2. h % Wrap = h
        BY <3>1, ModSmall
      <3> QED BY <3>1, <3>2
    <2> QED BY <1>2, <2>1, <2>2, <2>3
  <1> QED BY <1>4, <1>5

LEMMA PolicyBlames ==
    ASSUME ListOK, NEW p, Addressed(p), NEW d \in Directions, enabled
    PROVE  Blames(Policy(p, d), Decides(p, d))
  <1>1. CASE Decides(p, d) = {} /\ Policy(p, d) = [pass |-> defaults[d], hit |-> 0]
    <2>1. Policy(p, d).hit = 0
      BY <1>1
    <2> QED BY <1>1, <2>1 DEF Blames
  <1>2. CASE \E i \in 1 .. Len(rules) : Decides(p, d) = {i} /\ Policy(p, d).hit = i
    BY <1>2 DEF Blames
  <1> QED BY <1>1, <1>2, PolicyVerdict

LEMMA InType == \A i, s : In(i, s) \in {0, 1} /\ In(i, {}) = 0
  BY DEF In

LEMMA ReceiveCounts ==
    ASSUME FirewallInv, NEW f \in Frames, Receive(f), enabled,
           NEW i \in 1 .. Len(rules)
    PROVE  LET early == First(Narrowest(Blocks(f.src)))
               input == IF early = {} /\ Accepted(f) THEN Decides(f, FW_IN) ELSE {}
               output == IF Accepted(f) /\ Allowed(f, FW_IN) /\ Answers(f)
                         THEN Decides(Answer(f), FW_OUT) ELSE {}
           IN rules'[i].hits = (rules[i].hits + In(i, early) + In(i, input) + In(i, output)) % Wrap
  <1> DEFINE early == First(Narrowest(Blocks(f.src)))
             input == IF early = {} /\ Accepted(f) THEN Decides(f, FW_IN) ELSE {}
             output == IF Accepted(f) /\ Allowed(f, FW_IN) /\ Answers(f)
                       THEN Decides(Answer(f), FW_OUT) ELSE {}
             Goal == rules'[i].hits = (rules[i].hits + In(i, early) + In(i, input) + In(i, output)) % Wrap
  <1> SUFFICES Goal
    OBVIOUS
  <1>1. ListOK /\ Rest
    BY InvParts
  <1>2. /\ rules \in Seq(RuleType) /\ \A j \in 1 .. Len(rules) : WellFormed(rules[j])
        /\ enabled \in BOOLEAN /\ defaults \in [Directions -> BOOLEAN]
    BY <1>1 DEF ListOK, Rest
  <1>3. FW_IN \in Directions /\ FW_OUT \in Directions
    BY DEF Directions
  <1>4. Addressed(f) /\ Addressed(Answer(f)) /\ f.src \in Addresses
    BY PacketsAddressed DEF Addressed
  <1>5. rules[i].hits \in 0 .. Wrap - 1 /\ Wrap \in Nat \ {0}
    <2>1. rules[i] \in RuleType
      BY <1>2
    <2> QED BY <2>1, FirewallAssumption DEF RuleType
  <1>6. Policy(f, FW_IN).pass = Allowed(f, FW_IN)
    BY <1>1, <1>2, <1>3, <1>4, PolicyIsAllowed
  <1>7. /\ Blames(Policy(f, FW_IN), Decides(f, FW_IN))
        /\ Blames(Policy(Answer(f), FW_OUT), Decides(Answer(f), FW_OUT))
    BY <1>1, <1>3, <1>4, PolicyBlames
  <1>8. ASSUME ~ Xdp(f.src).pass, rules' = Hit(rules, Xdp(f.src)) PROVE Goal
    <2>1. Blocks(f.src) # {} /\ early = {Xdp(f.src).hit}
      BY <1>1, <1>4, <1>8, XdpVerdict
    <2>2. input = {}
      BY <2>1
    <2>3. ~ Allowed(f, FW_IN)
      BY <2>1 DEF Allowed
    <2>4. output = {}
      BY <2>3
    <2>5. Blames(Xdp(f.src), early)
      BY <2>1 DEF Blames
    <2> HIDE DEF early, input, output
    <2>6. rules'[i].hits = (rules[i].hits + In(i, early)) % Wrap
      BY <1>2, <1>8, <2>5, HitCounts
    <2>7. In(i, input) = 0 /\ In(i, output) = 0 /\ In(i, early) \in Int
      BY <2>2, <2>4, InType
    <2>8. rules[i].hits + In(i, early) + In(i, input) + In(i, output) = rules[i].hits + In(i, early)
      BY <1>5, <2>7
    <2> QED BY <2>6, <2>8
  <1>9. ASSUME Xdp(f.src).pass PROVE early = {} /\ In(i, early) = 0
    <2>1. Blocks(f.src) = {}
      BY <1>1, <1>4, <1>9, XdpVerdict
    <2>2. Narrowest(Blocks(f.src)) = {}
      BY <2>1 DEF Narrowest
    <2> QED BY <2>2, InType DEF First
  <1>10. CASE ReceiveDropped(f)
    BY <1>8, <1>10 DEF ReceiveDropped
  <1>11. CASE ReceiveIgnored(f)
    <2>1. ~ Accepted(f) /\ rules' = rules /\ In(i, early) = 0
      BY <1>9, <1>11 DEF ReceiveIgnored, policy
    <2>2. In(i, input) = 0 /\ In(i, output) = 0
      BY <2>1, InType
    <2> HIDE DEF early, input, output
    <2>3. rules[i].hits + In(i, early) + In(i, input) + In(i, output) = rules[i].hits
      BY <1>5, <2>1, <2>2
    <2>4. rules[i].hits % Wrap = rules[i].hits
      <3>1. rules[i].hits \in Int
        BY <1>5
      <3> QED BY <1>5, <3>1, ModSmall
    <2> QED BY <2>1, <2>3, <2>4
  <1>12. CASE ReceiveInput(f)
    <2>1. Xdp(f.src).pass /\ Accepted(f) /\ (~ Policy(f, FW_IN).pass \/ ~ Answers(f))
      BY <1>12 DEF ReceiveInput, Decided
    <2>2. early = {} /\ In(i, early) = 0
      BY <1>9, <2>1
    <2>3. input = Decides(f, FW_IN) /\ output = {}
      BY <1>6, <2>1, <2>2
    <2> HIDE DEF early, input, output
    <2>4. rules'[i].hits = (rules[i].hits + In(i, input)) % Wrap
      BY <1>2, <1>7, <1>12, <2>3, HitCounts DEF ReceiveInput
    <2>5. In(i, output) = 0 /\ In(i, input) \in Int
      BY <2>3, InType
    <2>6. rules[i].hits + In(i, early) + In(i, input) + In(i, output) = rules[i].hits + In(i, input)
      BY <1>5, <2>2, <2>5
    <2> QED BY <2>4, <2>6
  <1>13. CASE ReceiveAnswered(f)
    <2>1. Xdp(f.src).pass /\ Accepted(f) /\ Policy(f, FW_IN).pass /\ Answers(f)
      BY <1>13 DEF ReceiveAnswered, Decided
    <2>2. early = {} /\ In(i, early) = 0
      BY <1>9, <2>1
    <2>3. input = Decides(f, FW_IN) /\ output = Decides(Answer(f), FW_OUT)
      BY <1>6, <2>1, <2>2
    <2> HIDE DEF early, input, output
    <2>4. PICK hs : hs = Hit(rules, Policy(f, FW_IN))
      OBVIOUS
    <2>5. /\ hs \in Seq(RuleType) /\ Len(hs) = Len(rules)
          /\ \A j \in 1 .. Len(hs) : WellFormed(hs[j])
      BY <1>2, <2>4, HitKeeps
    <2>6. rules' = Hit(hs, Policy(Answer(f), FW_OUT))
      BY <1>13, <2>4 DEF ReceiveAnswered
    <2>7. hs[i].hits = (rules[i].hits + In(i, input)) % Wrap
      BY <1>2, <1>7, <2>3, <2>4, HitCounts
    <2>8. rules'[i].hits = (hs[i].hits + In(i, output)) % Wrap
      BY <1>7, <2>3, <2>5, <2>6, HitCounts
    <2>9. In(i, output) \in Int /\ In(i, input) \in Int
      BY InType
    <2> DEFINE a == rules[i].hits + In(i, input)
               b == In(i, output)
    <2>10. a \in Int /\ b \in Int
      BY <1>5, <2>9
    <2>11. rules[i].hits + In(i, early) + In(i, input) + In(i, output) = a + b
      BY <1>5, <2>2, <2>9
    <2>12. rules'[i].hits = ((a % Wrap) + b) % Wrap
      BY <2>7, <2>8
    <2> HIDE DEF a, b
    <2>13. ((a % Wrap) + b) % Wrap = (a + b) % Wrap
      BY <1>5, <2>10, ModPlus
    <2> QED BY <2>11, <2>12, <2>13
  <1> QED BY <1>10, <1>11, <1>12, <1>13 DEF Receive

\* A hit is counted by the rule of the list that decided, and by no other.
THEOREM Attribution == Spec => HitsAreAttributed
  <1> DEFINE A == \A f \in Frames : Receive(f) /\ enabled =>
                LET early == First(Narrowest(Blocks(f.src)))
                    input == IF early = {} /\ Accepted(f) THEN Decides(f, FW_IN) ELSE {}
                    output == IF Accepted(f) /\ Allowed(f, FW_IN) /\ Answers(f)
                              THEN Decides(Answer(f), FW_OUT) ELSE {}
                IN \A i \in DOMAIN rules :
                    rules'[i].hits = (rules[i].hits + In(i, early) + In(i, input) + In(i, output)) % Wrap
  <1>1. FirewallInv /\ [Next]_vars => [A]_vars
    <2> SUFFICES ASSUME FirewallInv, NEW f \in Frames, Receive(f), enabled, NEW i \in DOMAIN rules
                 PROVE  LET early == First(Narrowest(Blocks(f.src)))
                            input == IF early = {} /\ Accepted(f) THEN Decides(f, FW_IN) ELSE {}
                            output == IF Accepted(f) /\ Allowed(f, FW_IN) /\ Answers(f)
                                      THEN Decides(Answer(f), FW_OUT) ELSE {}
                        IN rules'[i].hits = (rules[i].hits + In(i, early) + In(i, input) + In(i, output)) % Wrap
      BY Zenon
    <2>1. ListOK
      BY InvParts
    <2>2. i \in 1 .. Len(rules)
      BY <2>1, RuleTypes
    <2> QED BY <2>2, ReceiveCounts
  <1> QED BY <1>1, FirewallSafe, PTL DEF Spec, HitsAreAttributed

LEMMA StepSends ==
    ASSUME FirewallInv, Next, NEW p \in wire'
    PROVE  /\ Allowed(p, FW_OUT)
           /\ \/ p \in Segments
              \/ \E f \in Frames : Answer(f) = p /\ Answers(f) /\ Accepted(f) /\ Allowed(f, FW_IN)
  <1>1. ListOK /\ Rest
    BY InvParts
  <1>2. enabled \in BOOLEAN /\ defaults \in [Directions -> BOOLEAN]
    BY <1>1 DEF Rest
  <1>3. FW_IN \in Directions /\ FW_OUT \in Directions
    BY DEF Directions
  <1>4. CASE Command
    BY <1>4 DEF Command
  <1>5. ASSUME NEW f \in Frames, Receive(f) PROVE \E g \in Frames : ReceiveAnswered(g)
    BY <1>5 DEF Receive, ReceiveDropped, ReceiveIgnored, ReceiveInput
  <1>6. ASSUME NEW f \in Frames, ReceiveAnswered(f)
        PROVE  /\ Allowed(p, FW_OUT)
               /\ Answer(f) = p /\ Answers(f) /\ Accepted(f) /\ Allowed(f, FW_IN)
    <2>1. p = Answer(f) /\ Policy(p, FW_OUT).pass
      BY <1>6 DEF ReceiveAnswered, Sent
    <2>2. Policy(f, FW_IN).pass /\ Accepted(f) /\ Answers(f)
      BY <1>6 DEF ReceiveAnswered, Decided
    <2>3. Addressed(f) /\ Addressed(p)
      BY <2>1, PacketsAddressed
    <2>4. Allowed(p, FW_OUT) /\ Allowed(f, FW_IN)
      BY <1>1, <1>2, <1>3, <2>1, <2>2, <2>3, PolicyIsAllowed
    <2> QED BY <2>1, <2>2, <2>4
  <1>7. ASSUME NEW s \in Segments, Send(s) PROVE p \in Segments /\ Allowed(p, FW_OUT)
    <2>1. p = s /\ Policy(p, FW_OUT).pass
      BY <1>7 DEF Send, Sent
    <2>2. Addressed(p)
      BY <2>1, PacketsAddressed DEF Packets
    <2> QED BY <1>1, <1>2, <1>3, <2>1, <2>2, PolicyIsAllowed
  <1> QED BY <1>4, <1>5, <1>6, <1>7 DEF Next

\* Nothing leaves that the rules forbid, and no answer to what they did not let in.
THEOREM Sends == Spec => SendsAllowed
  <1>1. FirewallInv /\ [Next]_vars =>
            [\A p \in wire' :
                /\ Allowed(p, FW_OUT)
                /\ \/ p \in Segments
                   \/ \E f \in Frames : Answer(f) = p /\ Answers(f) /\ Accepted(f) /\ Allowed(f, FW_IN)]_vars
    BY StepSends
  <1> QED BY <1>1, FirewallSafe, PTL DEF Spec, SendsAllowed
-----------------------------------------------------------------------------
(* The eBPF machine: a program that was validated.                         *)

\* The slots that the loop of bpf_validate visits, without the recursion.
LEMMA VisitsIs ==
    ASSUME NEW c \in Seq(InsnType)
    PROVE  /\ Visits(c) \subseteq 0 .. Count(c) - 1
           /\ \A p \in 0 .. Count(c) - 1 :
                p \in Visits(c) <=> (p = 0 \/ ~ (p - 1 \in Visits(c) /\ At(c, p - 1).code = 24))
  <1> DEFINE D == 0 .. Count(c) - 1
             Is(f) == f = [p \in D |-> p = 0 \/ ~ (f[p - 1] /\ At(c, p - 1).code = 24)]
             v == CHOOSE f : Is(f)
  <1>1. Count(c) \in Nat
    BY DEF Count
  <1>2. Visits(c) = {p \in D : v[p]}
    BY DEF Visits
  <1>3. \E f : Is(f)
    <2>1. CASE Count(c) = 0
      <3>1. D = {}
        BY <2>1
      <3>2. Is([p \in D |-> TRUE])
        BY <3>1
      <3> HIDE DEF Is
      <3> QED BY <3>2
    <2>2. CASE Count(c) # 0
      <3> DEFINE N == Count(c) - 1
                 step == [a \in (1 .. N) \X BOOLEAN |-> ~ (a[2] /\ At(c, a[1] - 1).code = 24)]
      <3>1. N \in Nat /\ D = 0 .. N
        BY <1>1, <2>2
      <3>2. IsStep(step, N, BOOLEAN)
        BY DEF IsStep
      <3>3. \A i \in 1 .. N, b \in BOOLEAN : step[<<i, b>>] = ~ (b /\ At(c, i - 1).code = 24)
        OBVIOUS
      <3> HIDE DEF step, N
      <3>4. PICK f : Follows(f, N, BOOLEAN, TRUE, step)
        BY <3>1, <3>2, FiniteRecursion
      <3>5. f \in [D -> BOOLEAN] /\ f[0] = TRUE
        BY <3>1, <3>4 DEF Follows
      <3>6. ASSUME NEW p \in D, p # 0 PROVE f[p] = ~ (f[p - 1] /\ At(c, p - 1).code = 24)
        <4>1. p \in 1 .. N /\ p - 1 \in 0 .. N
          <5>1. p \in 0 .. N
            BY <3>1
          <5> QED BY <3>1, <3>6, <5>1
        <4>2. f[p - 1] \in BOOLEAN
          BY <3>1, <3>5, <4>1
        <4>3. f[p] = step[<<p, f[p - 1]>>]
          BY <3>4, <4>1 DEF Follows
        <4> QED BY <3>3, <4>1, <4>2, <4>3
      <3>7. ASSUME NEW p \in D PROVE f[p] = (p = 0 \/ ~ (f[p - 1] /\ At(c, p - 1).code = 24))
        <4>1. CASE p = 0
          BY <3>5, <4>1
        <4>2. CASE p # 0
          BY <3>6, <4>2
        <4> QED BY <4>1, <4>2
      <3>8. Is(f)
        <4> HIDE DEF D
        <4>1. f = [p \in D |-> f[p]]
          BY <3>5
        <4> QED BY <3>7, <4>1, Zenon
      <3> HIDE DEF Is
      <3> QED BY <3>8
    <2> QED BY <2>1, <2>2
  <1> HIDE DEF Is
  <1>4. Is(v)
    BY <1>3, Zenon
  <1> HIDE DEF v
  <1>5. ASSUME NEW p \in D PROVE v[p] = (p = 0 \/ ~ (v[p - 1] /\ At(c, p - 1).code = 24))
    <2> HIDE DEF D
    <2> QED BY <1>4, Zenon DEF Is
  <1>6. ASSUME NEW p \in D
        PROVE  p \in Visits(c) <=> (p = 0 \/ ~ (p - 1 \in Visits(c) /\ At(c, p - 1).code = 24))
    <2>1. CASE p = 0
      <3>1. v[p] = TRUE
        BY <1>5, <2>1
      <3> QED BY <1>2, <2>1, <3>1
    <2>2. CASE p # 0
      <3>1. p - 1 \in D
        BY <1>1, <2>2
      <3>2. v[p] = ~ (v[p - 1] /\ At(c, p - 1).code = 24)
        BY <1>5, <2>2
      <3>3. (p \in Visits(c) <=> v[p]) /\ (p - 1 \in Visits(c) <=> v[p - 1])
        BY <1>2, <3>1
      <3> QED BY <2>2, <3>2, <3>3
    <2> QED BY <2>1, <2>2
  <1> QED BY <1>2, <1>6

\* A visited slot and the one the loop visits next.
LEMMA NextVisit ==
    ASSUME NEW c \in Seq(InsnType), Validate(c), NEW p \in Visits(c)
    PROVE  /\ p \in Nat /\ p < Count(c) /\ At(c, p) \in InsnType /\ ValidInsn(c, p)
           /\ At(c, p).code # 24 => p + 1 \in Visits(c) \cup {Count(c)}
           /\ At(c, p).code = 24 => p + 2 \in Visits(c) \cup {Count(c)}
  <1>1. Count(c) \in Nat /\ p \in 0 .. Count(c) - 1
    BY VisitsIs DEF Count
  <1>2. p \in Nat /\ p < Count(c) /\ p + 1 \in 1 .. Count(c)
    BY <1>1
  <1>3. At(c, p) \in InsnType
    BY <1>2 DEF At, Count
  <1>4. ValidInsn(c, p)
    BY DEF Validate
  <1>5. ASSUME At(c, p).code # 24 PROVE p + 1 \in Visits(c) \cup {Count(c)}
    <2>1. CASE p + 1 = Count(c)
      BY <2>1
    <2>2. CASE p + 1 # Count(c)
      <3>1. p + 1 \in 0 .. Count(c) - 1 /\ (p + 1) - 1 = p
        BY <1>1, <1>2, <2>2
      <3> QED BY <1>5, <3>1, VisitsIs
    <2> QED BY <2>1, <2>2
  <1>6. ASSUME At(c, p).code = 24 PROVE p + 2 \in Visits(c) \cup {Count(c)}
    <2>1. ValidWide(c, p)
      BY <1>4, <1>6 DEF ValidInsn
    <2>2. p + 1 < Count(c)
      BY <2>1 DEF ValidWide
    <2>3. p + 1 \in 0 .. Count(c) - 1 /\ (p + 1) - 1 = p /\ p + 1 # 0
      BY <1>1, <1>2, <2>2
    <2>4. p + 1 \notin Visits(c)
      BY <1>6, <2>3, VisitsIs
    <2>5. CASE p + 2 = Count(c)
      BY <2>5
    <2>6. CASE p + 2 # Count(c)
      <3>1. p + 2 \in 0 .. Count(c) - 1 /\ (p + 2) - 1 = p + 1
        BY <1>1, <1>2, <2>2, <2>6
      <3> QED BY <2>4, <3>1, VisitsIs
    <2> QED BY <2>5, <2>6
  <1> QED BY <1>2, <1>3, <1>4, <1>5, <1>6

\* The second half of a wide load is no target.
LEMMA TargetVisited ==
    ASSUME NEW c \in Seq(InsnType), Validate(c), NEW p \in Nat, NEW o \in Int, target(c, p, o)
    PROVE  p + 1 + o \in Visits(c)
  <1> DEFINE t == p + 1 + o
  <1>1. t \in 0 .. Count(c) - 1 /\ At(c, t).code # 0 /\ Count(c) \in Nat
    BY DEF target, Count
  <1> HIDE DEF t
  <1> SUFFICES ASSUME t \notin Visits(c) PROVE FALSE
    BY DEF t
  <1>2. t # 0 /\ t - 1 \in Visits(c) /\ At(c, t - 1).code = 24
    BY <1>1, VisitsIs
  <1>3. ValidInsn(c, t - 1)
    BY <1>2 DEF Validate
  <1>4. ValidWide(c, t - 1)
    BY <1>2, <1>3 DEF ValidInsn
  <1>5. At(c, (t - 1) + 1).code = 0
    BY <1>4 DEF ValidWide
  <1>6. (t - 1) + 1 = t
    BY <1>1
  <1> QED BY <1>1, <1>5, <1>6

\* The parts of an opcode.
LEMMA Opcodes ==
    ASSUME NEW i \in InsnType
    PROVE  /\ i.code \in Nat /\ i.d \in Nat /\ i.s \in Nat /\ i.offset \in Int /\ i.imm \in Int
           /\ cls(i) \in 0 .. 7 /\ op(i) \in Nat
           /\ i.code = 24 => cls(i) = 0
           /\ i.code = 133 => cls(i) = 5 /\ op(i) = 128
           /\ i.code = 149 => cls(i) = 5 /\ op(i) = 144
           /\ op(i) <= 207 => op(i) \in {0, 16, 32, 48, 64, 80, 96, 112, 128, 144, 160, 176, 192}
  <1>1. i.code \in Nat /\ i.d \in Nat /\ i.s \in Nat /\ i.offset \in Int /\ i.imm \in Int
    BY DEF InsnType
  <1>2. PICK c \in Nat : c = i.code
    BY <1>1
  <1>3. PICK k \in Nat : k = c \div 16
    OBVIOUS
  <1>4. cls(i) = c % 8 /\ op(i) = k * 16
    BY <1>2, <1>3 DEF cls, op
  <1>5. k * 16 <= 207 => k \in {0, 1, 2, 3, 4, 5, 6, 7, 8, 9, 10, 11, 12}
    OBVIOUS
  <1>6. c % 8 \in 0 .. 7
    OBVIOUS
  <1>7. (c = 24 => c % 8 = 0) /\ (c = 133 => c % 8 = 5 /\ k = 8) /\ (c = 149 => c % 8 = 5 /\ k = 9)
    BY <1>3
  <1> QED BY <1>1, <1>2, <1>4, <1>5, <1>6, <1>7

\* What holds while a validated program runs: the next instruction is one that
\* bpf_validate has looked at, or there is none.
OnTrack == Validate(code) => why # "malformed" /\ (status = "run" => pc \in Visits(code) \cup {Count(code)})
RunInv == code \in Seq(InsnType) /\ OnTrack

LEMMA RunStart == Start => RunInv
  <1> SUFFICES ASSUME Start PROVE RunInv
    OBVIOUS
  <1>1. code \in Seq(InsnType) /\ pc = 0 /\ why = "none"
    BY VmAssumption DEF Start
  <1>2. ASSUME Validate(code) PROVE 0 \in Visits(code)
    <2>1. Count(code) \in Nat /\ Count(code) >= 1
      BY <1>1, <1>2 DEF Validate, Count
    <2>2. 0 \in 0 .. Count(code) - 1
      BY <2>1
    <2> QED BY <1>1, <2>2, VisitsIs
  <1> QED BY <1>1, <1>2 DEF RunInv, OnTrack

LEMMA RunStep ==
    ASSUME RunInv, Exec, Validate(code)
    PROVE  why' # "malformed" /\ (status' = "run" => pc' \in Visits(code) \cup {Count(code)})
  <1> DEFINE i == At(code, pc)
             Goal == why' # "malformed" /\ (status' = "run" => pc' \in Visits(code) \cup {Count(code)})
  <1>1. code \in Seq(InsnType) /\ why # "malformed" /\ pc \in Visits(code) \cup {Count(code)}
    BY DEF RunInv, OnTrack, Exec
  <1>2. pc < Count(code) /\ Count(code) \in Nat
    BY <1>1 DEF Exec, Runs, Count
  <1>3. pc \in Visits(code)
    BY <1>1, <1>2
  <1>4. /\ pc \in Nat /\ i \in InsnType /\ ValidInsn(code, pc)
        /\ i.code # 24 => pc + 1 \in Visits(code) \cup {Count(code)}
        /\ i.code = 24 => pc + 2 \in Visits(code) \cup {Count(code)}
    BY <1>1, <1>3, NextVisit
  <1>5. Insn = i
    BY DEF Insn
  <1>6. i.d <= 10 /\ i.s <= 10
    BY <1>4 DEF ValidInsn
  <1>7. /\ i.code \in Nat /\ i.d \in Nat /\ i.s \in Nat /\ i.offset \in Int /\ i.imm \in Int
        /\ cls(i) \in 0 .. 7 /\ op(i) \in Nat
        /\ i.code = 24 => cls(i) = 0
        /\ i.code = 133 => cls(i) = 5 /\ op(i) = 128
        /\ i.code = 149 => cls(i) = 5 /\ op(i) = 144
    BY <1>4, Opcodes
  <1>8. ASSUME NEW p \in Visits(code) \cup {Count(code)}, Continues(p) PROVE Goal
    BY <1>1, <1>8 DEF Continues
  <1>9. ASSUME NEW w, w # "malformed", Fails(w) PROVE Goal
    BY <1>9 DEF Fails, Stops
  <1>10. CASE i.code = 24 /\ ExecWide
    <2>1. ValidWide(code, pc)
      BY <1>4, <1>10 DEF ValidInsn
    <2> DEFINE hi == At(code, pc + 1)
               a == (i.imm % Pow(4)) + (hi.imm % Pow(4)) * Pow(4)
    <2>2. /\ i.d # 10 /\ i.s <= 1 /\ pc + 1 < Count(code)
          /\ i.s = 1 => i.imm \in 0 .. BPF_MAPS - 1 /\ hi.imm = 0
      BY <2>1 DEF ValidWide
    <2>3. ~ (i.s = 1 /\ a >= BPF_MAPS)
      <3> SUFFICES ASSUME i.s = 1 PROVE ~ (a >= BPF_MAPS)
        OBVIOUS
      <3>1. PICK q \in Nat : q = Pow(4) /\ q >= 1
        <4>1. BYTE_BITS * 4 \in Nat
          BY VmAssumption
        <4> QED BY <4>1, Pow2Step DEF Pow
      <3>2. BPF_MAPS \in Nat
        BY SpaceAssumption
      <3>3. i.imm \in Nat /\ i.imm < BPF_MAPS /\ hi.imm = 0
        BY <2>2, <3>2
      <3>4. PICK m \in Nat : m = i.imm /\ m < BPF_MAPS
        BY <3>3
      <3>5. m % q <= m /\ m % q \in Nat /\ 0 % q = 0
        BY <3>1
      <3>6. a = m % q
        BY <3>1, <3>3, <3>4, <3>5
      <3> HIDE DEF a
      <3> QED BY <3>2, <3>4, <3>5, <3>6
    <2>4. ~ (pc + 1 >= Count(code) \/ i.d = 10 \/ i.s > 1 \/ (i.s = 1 /\ a >= BPF_MAPS))
      BY <1>2, <1>4, <1>7, <2>2, <2>3
    <2>5. Continues(pc + 2)
      BY <1>5, <1>10, <2>4 DEF ExecWide
    <2> QED BY <1>4, <1>8, <1>10, <2>5
  <1>11. CASE cls(i) \in {4, 7} /\ ExecAlu
    <2>1. i.code # 24 /\ ValidAlu(i)
      BY <1>4, <1>7, <1>11 DEF ValidInsn
    <2>2. ~ (\/ i.d = 10 \/ op(i) > 208
             \/ op(i) = 208 /\ ((IF cls(i) = 7 THEN 8 ELSE 4) = 8 \/ i.imm \notin {16, 32, 64}))
      BY <1>7, <2>1 DEF ValidAlu
    <2>3. Continues(pc + 1)
      BY <1>5, <1>11, <2>2 DEF ExecAlu
    <2> QED BY <1>4, <1>8, <2>1, <2>3
  <1>12. CASE cls(i) \in {1, 2, 3} /\ ExecMemory
    <2>1. i.code # 24 /\ ValidMemory(i)
      BY <1>4, <1>7, <1>12 DEF ValidInsn
    <2>2. ~ (i.code \div 32 # 3 \/ (cls(i) = 1 /\ i.d = 10))
      BY <2>1 DEF ValidMemory
    <2>3. Fails("memory") \/ Continues(pc + 1)
      BY <1>5, <1>12, <2>2 DEF ExecMemory
    <2> QED BY <1>4, <1>8, <1>9, <2>1, <2>3
  <1>13. CASE i.code = 149 /\ Stops("ok", "none")
    BY <1>13 DEF Stops
  <1>14. CASE i.code = 133 /\ ExecCall
    <2>1. i.code # 24 /\ ValidJump(code, pc)
      BY <1>4, <1>7, <1>14 DEF ValidInsn
    <2>2. i.imm = 1
      BY <1>7, <1>14, <2>1 DEF ValidJump
    <2>3. Fails("lookup") \/ Continues(pc + 1)
      BY <1>5, <2>2, <1>14 DEF ExecCall
    <2> QED BY <1>4, <1>8, <1>9, <2>1, <2>3
  <1>15. CASE cls(i) \in {5, 6} /\ i.code \notin {133, 149} /\ ExecJump
    <2>1. i.code # 24 /\ ValidJump(code, pc)
      BY <1>4, <1>7, <1>15 DEF ValidInsn
    <2>2. op(i) # 128 /\ op(i) # 144 /\ op(i) <= 208 /\ target(code, pc, i.offset)
      BY <1>15, <2>1 DEF ValidJump
    <2>3. Continues(pc + 1 + i.offset) \/ Continues(pc + 1)
      BY <1>5, <1>7, <1>15, <2>2 DEF ExecJump
    <2>4. pc + 1 + i.offset \in Visits(code)
      BY <1>1, <1>4, <1>7, <2>2, TargetVisited
    <2> QED BY <1>4, <1>8, <2>1, <2>3, <2>4
  <1>16. ~ (cls(i) = 0 /\ i.code # 24)
    BY <1>4 DEF ValidInsn
  <1>17. ~ (i.d > 10 \/ i.s > 10)
    BY <1>6, <1>7
  <1> QED BY <1>5, <1>10, <1>11, <1>12, <1>13, <1>14, <1>15, <1>16, <1>17 DEF Exec

LEMMA RunNext == RunInv /\ [Step]_machine => RunInv'
  <1> SUFFICES ASSUME RunInv, [Step]_machine PROVE RunInv'
    OBVIOUS
  <1>1. CASE Exec
    <2>1. code' = code
      BY <1>1 DEF Exec
    <2> QED BY <1>1, <2>1, RunStep DEF RunInv, OnTrack
  <1>2. CASE Exhausted
    BY <1>2 DEF Exhausted, Fails, Stops, RunInv, OnTrack
  <1>3. CASE machine' = machine
    BY <1>3 DEF machine, RunInv, OnTrack
  <1> QED BY <1>1, <1>2, <1>3 DEF Step

\* A program that bpf_validate accepts never meets an instruction that bpf_execute
\* does not know, whatever the program, its data and the maps.
THEOREM Validation == Execution => []ValidatedRuns
  <1>1. RunInv => ValidatedRuns
    BY DEF RunInv, OnTrack, ValidatedRuns
  <1> QED BY <1>1, RunStart, RunNext, PTL DEF Execution
-----------------------------------------------------------------------------
(* The eBPF machine: its memory.                                           *)

Slots == MAP_SPAN \div VALUE_SPAN           \* of a map

LEMMA SpanFacts ==
    /\ {BPF_CTX, BPF_DATA, BPF_STACK, BPF_VALUES, STACK_SIZE, BPF_MAPS} \subseteq Nat
    /\ VALUE_SPAN \in Nat \ {0} /\ MAP_SPAN \in Nat \ {0}
    /\ Slots \in Nat /\ MAP_SPAN = VALUE_SPAN * Slots
  <1>1. VALUE_SPAN \in Nat \ {0} /\ MAP_SPAN \in Nat \ {0} /\ MAP_SPAN % VALUE_SPAN = 0
    BY SpaceAssumption
  <1>2. MAP_SPAN = VALUE_SPAN * Slots + (MAP_SPAN % VALUE_SPAN) /\ Slots \in Nat
    BY <1>1 DEF Slots
  <1>3. MAP_SPAN = VALUE_SPAN * Slots
    BY <1>1, <1>2
  <1> QED BY <1>1, <1>2, <1>3, SpaceAssumption

\* An address among the values is a map, a slot and a byte, in one way only.
LEMMA AddressParts ==
    ASSUME NEW o \in Nat
    PROVE  \E id, i, w \in Nat :
             /\ id = o \div MAP_SPAN /\ i = (o % MAP_SPAN) \div VALUE_SPAN /\ w = (o % MAP_SPAN) % VALUE_SPAN
             /\ i < Slots /\ w < VALUE_SPAN /\ o = MAP_SPAN * id + (VALUE_SPAN * i + w)
  <1>1. VALUE_SPAN \in Nat \ {0} /\ MAP_SPAN \in Nat \ {0} /\ Slots \in Nat /\ MAP_SPAN = VALUE_SPAN * Slots
    BY SpanFacts
  <1>2. PICK id \in Nat, f \in Nat : /\ id = o \div MAP_SPAN /\ f = o % MAP_SPAN /\ f < MAP_SPAN
                                     /\ o = MAP_SPAN * id + f
    <2>1. MAP_SPAN \in Nat \ {0}
      BY <1>1
    <2> QED BY <2>1, DivParts
  <1>3. PICK i \in Nat, w \in Nat : /\ i = f \div VALUE_SPAN /\ w = f % VALUE_SPAN /\ w < VALUE_SPAN
                                    /\ f = VALUE_SPAN * i + w
    <2>1. VALUE_SPAN \in Nat \ {0}
      BY <1>1
    <2> QED BY <2>1, DivParts
  <1>4. i < Slots
    <2> SUFFICES ASSUME i >= Slots PROVE FALSE
      BY <1>1
    <2>1. VALUE_SPAN * i >= VALUE_SPAN * Slots
      BY <1>1
    <2> QED BY <1>1, <1>2, <1>3, <2>1
  <1> QED BY <1>2, <1>3, <1>4

LEMMA AddressUnique ==
    ASSUME NEW id \in Nat, NEW i \in Nat, NEW w \in Nat, NEW o \in Nat, i < Slots, w < VALUE_SPAN,
           o = MAP_SPAN * id + (VALUE_SPAN * i + w)
    PROVE  /\ o \div MAP_SPAN = id /\ (o % MAP_SPAN) \div VALUE_SPAN = i /\ (o % MAP_SPAN) % VALUE_SPAN = w
           /\ VALUE_SPAN * i + w < MAP_SPAN
  <1>1. VALUE_SPAN \in Nat \ {0} /\ MAP_SPAN \in Nat \ {0} /\ Slots \in Nat /\ MAP_SPAN = VALUE_SPAN * Slots
    BY SpanFacts
  <1> DEFINE f == VALUE_SPAN * i + w
  <1>2. VALUE_SPAN * (i + 1) <= VALUE_SPAN * Slots
    BY <1>1
  <1>3. f \in Nat /\ f < MAP_SPAN
    <2>1. VALUE_SPAN * (i + 1) = VALUE_SPAN * i + VALUE_SPAN
      BY <1>1
    <2> QED BY <1>1, <1>2, <2>1
  <1>4. w \in 0 .. VALUE_SPAN - 1 /\ f \in Int /\ f = VALUE_SPAN * i + w
    BY <1>1, <1>3
  <1> HIDE DEF f
  <1>5. f \div VALUE_SPAN = i /\ f % VALUE_SPAN = w
    BY <1>1, <1>4, DivUnique, ModUnique
  <1>6. f \in 0 .. MAP_SPAN - 1 /\ o = MAP_SPAN * id + f
    BY <1>1, <1>3 DEF f
  <1>7. o \div MAP_SPAN = id /\ o % MAP_SPAN = f
    BY <1>1, <1>6, DivUnique, ModUnique
  <1> QED BY <1>3, <1>5, <1>7 DEF f

\* All bytes of an access lie in a region.
Fits(a, n, base, size) == base <= a /\ a + n <= base + size

LEMMA FitsIs ==
    ASSUME NEW a \in Int, NEW n \in Nat \ {0}, NEW base \in Nat, NEW size \in Nat
    PROVE  /\ Within(a, n, base, size) <=> Fits(a, n, base, size)
           /\ (\A k \in 0 .. n - 1 : base <= a + k /\ a + k < base + size) <=> Fits(a, n, base, size)
  <1>1. Within(a, n, base, size) <=> Fits(a, n, base, size)
    BY DEF Within, Fits
  <1>2. ASSUME \A k \in 0 .. n - 1 : base <= a + k /\ a + k < base + size
        PROVE  Fits(a, n, base, size)
    <2>1. 0 \in 0 .. n - 1 /\ n - 1 \in 0 .. n - 1
      OBVIOUS
    <2>2. base <= a + 0 /\ a + (n - 1) < base + size
      BY <1>2, <2>1
    <2> QED BY <2>2 DEF Fits
  <1>3. ASSUME Fits(a, n, base, size), NEW k \in 0 .. n - 1 PROVE base <= a + k /\ a + k < base + size
    BY <1>3 DEF Fits
  <1> QED BY <1>1, <1>2, <1>3

StackPiece == Piece(BPF_STACK, Place("stack", 0, 0), STACK_SIZE)
ContextPiece(e) == Piece(BPF_CTX, Place("context", 0, 0), e.context_size)
PacketPiece(e) == Piece(BPF_DATA, Place("packet", 0, 0), e.packet_size)
MapPiece(e, id, i) ==
    Piece(BPF_VALUES + id * MAP_SPAN + i * VALUE_SPAN,
          Place("map", id, i * e.maps[id].value_size), e.maps[id].value_size)

LEMMA PiecesAre ==
    ASSUME NEW e, NEW write \in BOOLEAN, NEW q
    PROVE  q \in Pieces(e, write) <=>
             \/ q = StackPiece
             \/ ~ write /\ (q = ContextPiece(e) \/ q = PacketPiece(e))
             \/ \E id \in 0 .. BPF_MAPS - 1 : /\ write => e.maps[id].writable
                                              /\ \E i \in Elements(e.maps[id]) : q = MapPiece(e, id, i)
  BY DEF Pieces, StackPiece, ContextPiece, PacketPiece, MapPiece

\* The sizes in an environment.
LEMMA EnvironmentFacts ==
    ASSUME NEW e, EnvironmentOK(e)
    PROVE  /\ e.context_size \in Nat /\ e.packet_size \in Nat
           /\ BPF_CTX + e.context_size <= BPF_DATA /\ BPF_DATA + e.packet_size <= BPF_STACK
           /\ BPF_CTX < BPF_DATA /\ BPF_DATA < BPF_STACK /\ BPF_STACK + STACK_SIZE <= BPF_VALUES
           /\ \A id \in 0 .. BPF_MAPS - 1 :
                /\ e.maps[id].key_size \in Nat /\ e.maps[id].value_size \in Nat
                /\ e.maps[id].capacity \in Nat /\ e.maps[id].entries \in Nat
  BY SpaceAssumption, SMTT(60) DEF EnvironmentOK, MapOK

\* Where the four tests of memory() apply.
Stacked(a, n) == Fits(a, n, BPF_STACK, STACK_SIZE)
InContext(e, a, n) == Fits(a, n, BPF_CTX, e.context_size)
InPacket(e, a, n) == Fits(a, n, BPF_DATA, e.packet_size)
\* The address a is byte w of element i of map id, and memory() returns got.
InMap(e, a, n, write, got, id, i, w) ==
    /\ id < BPF_MAPS /\ i < Slots /\ w < VALUE_SPAN
    /\ a = BPF_VALUES + (MAP_SPAN * id + (VALUE_SPAN * i + w))
    /\ got = IF Refused(e.maps[id], i, w, n, write) THEN NULL ELSE Place("map", id, i * e.maps[id].value_size + w)
InSomeMap(e, a, n, write, got) == \E id, i, w \in Nat : InMap(e, a, n, write, got, id, i, w)

LEMMA MemoryIs ==
    ASSUME NEW e, EnvironmentOK(e), NEW a \in Int, NEW n \in Nat \ {0}, NEW write \in BOOLEAN
    PROVE  /\ Stacked(a, n) => memory(e, a, n, write) = Place("stack", 0, a - BPF_STACK)
           /\ ~ write /\ InContext(e, a, n) => memory(e, a, n, write) = Place("context", 0, a - BPF_CTX)
           /\ ~ write /\ InPacket(e, a, n) => memory(e, a, n, write) = Place("packet", 0, a - BPF_DATA)
           /\ ~ Stacked(a, n) /\ ~ (~ write /\ InContext(e, a, n)) /\ ~ (~ write /\ InPacket(e, a, n)) =>
                \/ /\ a < BPF_VALUES \/ a >= BPF_VALUES + BPF_MAPS * MAP_SPAN
                   /\ memory(e, a, n, write) = NULL
                \/ InSomeMap(e, a, n, write, memory(e, a, n, write))
           /\ a >= BPF_VALUES => ~ Stacked(a, n) /\ ~ InContext(e, a, n) /\ ~ InPacket(e, a, n)
  <1>1. /\ e.context_size \in Nat /\ e.packet_size \in Nat
        /\ BPF_CTX + e.context_size <= BPF_DATA /\ BPF_DATA + e.packet_size <= BPF_STACK
        /\ BPF_CTX < BPF_DATA /\ BPF_DATA < BPF_STACK /\ BPF_STACK + STACK_SIZE <= BPF_VALUES
    BY EnvironmentFacts
  <1>2. /\ BPF_CTX \in Nat /\ BPF_DATA \in Nat /\ BPF_STACK \in Nat /\ BPF_VALUES \in Nat
        /\ STACK_SIZE \in Nat /\ BPF_MAPS \in Nat
        /\ VALUE_SPAN \in Nat \ {0} /\ MAP_SPAN \in Nat \ {0}
    BY SpanFacts
  <1>3. /\ Within(a, n, BPF_STACK, STACK_SIZE) <=> Stacked(a, n)
        /\ Within(a, n, BPF_CTX, e.context_size) <=> InContext(e, a, n)
        /\ Within(a, n, BPF_DATA, e.packet_size) <=> InPacket(e, a, n)
    BY <1>1, <1>2, FitsIs DEF Stacked, InContext, InPacket
  <1>4. /\ InContext(e, a, n) => ~ Stacked(a, n)
        /\ InPacket(e, a, n) => ~ Stacked(a, n) /\ ~ InContext(e, a, n)
        /\ a >= BPF_VALUES => ~ Stacked(a, n) /\ ~ InContext(e, a, n) /\ ~ InPacket(e, a, n)
    BY <1>1, <1>2 DEF Stacked, InContext, InPacket, Fits
  <1> DEFINE o == a - BPF_VALUES
             rest == IF a < BPF_VALUES \/ a >= BPF_VALUES + BPF_MAPS * MAP_SPAN THEN NULL
                     ELSE LET id == o \div MAP_SPAN
                              offset == o % MAP_SPAN
                              index == offset \div VALUE_SPAN
                              within == offset % VALUE_SPAN
                          IN IF Refused(e.maps[id], index, within, n, write) THEN NULL
                             ELSE Place("map", id, index * e.maps[id].value_size + within)
             m == memory(e, a, n, write)
  <1>5. m = IF Stacked(a, n) THEN Place("stack", 0, a - BPF_STACK)
            ELSE IF ~ write /\ InContext(e, a, n) THEN Place("context", 0, a - BPF_CTX)
            ELSE IF ~ write /\ InPacket(e, a, n) THEN Place("packet", 0, a - BPF_DATA)
            ELSE rest
    BY <1>3 DEF memory
  <1>6. a < BPF_VALUES \/ a >= BPF_VALUES + BPF_MAPS * MAP_SPAN => rest = NULL
    OBVIOUS
  <1>7. ASSUME ~ (a < BPF_VALUES \/ a >= BPF_VALUES + BPF_MAPS * MAP_SPAN)
        PROVE  InSomeMap(e, a, n, write, rest)
    <2>1. o \in Nat /\ a = BPF_VALUES + o /\ o < BPF_MAPS * MAP_SPAN
      BY <1>2, <1>7
    <2>2. PICK id \in Nat, i \in Nat, w \in Nat :
             /\ id = o \div MAP_SPAN /\ i = (o % MAP_SPAN) \div VALUE_SPAN /\ w = (o % MAP_SPAN) % VALUE_SPAN
             /\ i < Slots /\ w < VALUE_SPAN /\ o = MAP_SPAN * id + (VALUE_SPAN * i + w)
      <3> HIDE DEF o
      <3> QED BY <2>1, AddressParts
    <2>3. rest = IF Refused(e.maps[id], i, w, n, write) THEN NULL
                 ELSE Place("map", id, i * e.maps[id].value_size + w)
      BY <1>7, <2>2
    <2> HIDE DEF o, rest
    <2>4. id < BPF_MAPS
      <3> SUFFICES ASSUME id >= BPF_MAPS PROVE FALSE
        BY <1>2
      <3>1. MAP_SPAN * id >= MAP_SPAN * BPF_MAPS /\ VALUE_SPAN * i >= 0
        BY <1>2
      <3>2. MAP_SPAN * BPF_MAPS = BPF_MAPS * MAP_SPAN
        BY <1>2
      <3>3. PICK u \in Nat, v \in Nat, t \in Nat, l \in Nat :
                u = MAP_SPAN * id /\ v = VALUE_SPAN * i /\ t = o /\ l = BPF_MAPS * MAP_SPAN
        BY <1>2, <2>1
      <3>4. u >= l /\ t = u + (v + w) /\ t < l
        BY <2>1, <2>2, <3>1, <3>2, <3>3
      <3> QED BY <3>4
    <2>5. InMap(e, a, n, write, rest, id, i, w)
      BY <2>1, <2>2, <2>3, <2>4 DEF InMap
    <2> QED BY <2>5 DEF InSomeMap
  <1> HIDE DEF o, rest, m
  <1>8. ~ Stacked(a, n) /\ ~ (~ write /\ InContext(e, a, n)) /\ ~ (~ write /\ InPacket(e, a, n)) => m = rest
    BY <1>5
  <1>9. /\ Stacked(a, n) => m = Place("stack", 0, a - BPF_STACK)
        /\ ~ write /\ InContext(e, a, n) => m = Place("context", 0, a - BPF_CTX)
        /\ ~ write /\ InPacket(e, a, n) => m = Place("packet", 0, a - BPF_DATA)
    BY <1>4, <1>5
  <1> QED BY <1>4, <1>6, <1>7, <1>8, <1>9 DEF m

PlaceIn(q, a) == Place(q.place.object, q.place.id, q.place.at + (a - q.base))

LEMMA PieceFields ==
    ASSUME NEW e, NEW a \in Int
    PROVE  /\ StackPiece.base = BPF_STACK /\ StackPiece.size = STACK_SIZE
           /\ PlaceIn(StackPiece, a) = Place("stack", 0, 0 + (a - BPF_STACK))
           /\ ContextPiece(e).base = BPF_CTX /\ ContextPiece(e).size = e.context_size
           /\ PlaceIn(ContextPiece(e), a) = Place("context", 0, 0 + (a - BPF_CTX))
           /\ PacketPiece(e).base = BPF_DATA /\ PacketPiece(e).size = e.packet_size
           /\ PlaceIn(PacketPiece(e), a) = Place("packet", 0, 0 + (a - BPF_DATA))
  BY DEF StackPiece, ContextPiece, PacketPiece, Piece, PlaceIn, Place

LEMMA MapPieceFields ==
    ASSUME NEW e, NEW a, NEW id, NEW i
    PROVE  /\ MapPiece(e, id, i).base = BPF_VALUES + id * MAP_SPAN + i * VALUE_SPAN
           /\ MapPiece(e, id, i).size = e.maps[id].value_size
           /\ PlaceIn(MapPiece(e, id, i), a) =
                Place("map", id, i * e.maps[id].value_size + (a - (BPF_VALUES + id * MAP_SPAN + i * VALUE_SPAN)))
  BY DEF MapPiece, Piece, PlaceIn, Place

\* An access that fits a piece is accepted and gets the place in that piece.
LEMMA MemoryAccepts ==
    ASSUME NEW e, EnvironmentOK(e), NEW a \in Int, NEW n \in Nat \ {0}, NEW write \in BOOLEAN,
           NEW q \in Pieces(e, write), Fits(a, n, q.base, q.size)
    PROVE  memory(e, a, n, write) = PlaceIn(q, a)
  <1>1. /\ BPF_CTX \in Nat /\ BPF_DATA \in Nat /\ BPF_STACK \in Nat /\ BPF_VALUES \in Nat
        /\ STACK_SIZE \in Nat /\ BPF_MAPS \in Nat
        /\ VALUE_SPAN \in Nat \ {0} /\ MAP_SPAN \in Nat \ {0} /\ Slots \in Nat
    BY SpanFacts
  <1>2. CASE q = StackPiece
    <2>1. Stacked(a, n)
      BY <1>2, PieceFields DEF Stacked
    <2>2. PlaceIn(q, a) = Place("stack", 0, a - BPF_STACK)
      <3>1. 0 + (a - BPF_STACK) = a - BPF_STACK
        BY <1>1
      <3> QED BY <1>2, <3>1, PieceFields
    <2> QED BY <2>1, <2>2, MemoryIs
  <1>3. CASE ~ write /\ q = ContextPiece(e)
    <2>1. InContext(e, a, n)
      BY <1>3, PieceFields DEF InContext
    <2>2. PlaceIn(q, a) = Place("context", 0, a - BPF_CTX)
      <3>1. 0 + (a - BPF_CTX) = a - BPF_CTX
        BY <1>1
      <3> QED BY <1>3, <3>1, PieceFields
    <2> QED BY <1>3, <2>1, <2>2, MemoryIs
  <1>4. CASE ~ write /\ q = PacketPiece(e)
    <2>1. InPacket(e, a, n)
      BY <1>4, PieceFields DEF InPacket
    <2>2. PlaceIn(q, a) = Place("packet", 0, a - BPF_DATA)
      <3>1. 0 + (a - BPF_DATA) = a - BPF_DATA
        BY <1>1
      <3> QED BY <1>4, <3>1, PieceFields
    <2> QED BY <1>4, <2>1, <2>2, MemoryIs
  <1>5. ASSUME NEW id \in 0 .. BPF_MAPS - 1, write => e.maps[id].writable,
               NEW i \in Elements(e.maps[id]), q = MapPiece(e, id, i)
        PROVE  memory(e, a, n, write) = PlaceIn(q, a)
    <2> DEFINE mp == e.maps[id]
               size == mp.value_size
               base == BPF_VALUES + id * MAP_SPAN + i * VALUE_SPAN
               w == a - base
    <2>1. mp.value_size \in Nat /\ mp.capacity \in Nat /\ id \in Nat /\ id < BPF_MAPS
      BY <1>1, EnvironmentFacts
    <2>2. mp.present /\ size <= VALUE_SPAN /\ i \in Nat /\ i < mp.capacity /\ i < Slots
      BY <1>1, <2>1 DEF Elements, Slots
    <2>3. q.base = base /\ q.size = size /\ PlaceIn(q, a) = Place("map", id, i * size + w)
      BY <1>5, MapPieceFields
    <2>4. base \in Nat
      BY <1>1, <2>1, <2>2
    <2>5. w \in Nat /\ w + n <= size /\ w < VALUE_SPAN
      <3>1. base <= a /\ a + n <= base + size
        BY <2>3 DEF Fits
      <3> HIDE DEF base, mp
      <3> QED BY <1>1, <2>1, <2>2, <2>4, <3>1
    <2>6. a = BPF_VALUES + (MAP_SPAN * id + (VALUE_SPAN * i + w))
      <3>1. MAP_SPAN * id = id * MAP_SPAN /\ VALUE_SPAN * i = i * VALUE_SPAN
        BY <1>1, <2>1, <2>2
      <3>2. id * MAP_SPAN \in Nat /\ i * VALUE_SPAN \in Nat
        BY <1>1, <2>1, <2>2
      <3>3. a = base + w
        BY <2>4
      <3> HIDE DEF w
      <3> QED BY <1>1, <2>5, <3>1, <3>2, <3>3
    <2>7. ~ Refused(mp, i, w, n, write)
      <3> HIDE DEF w, mp
      <3>1. ~ (size > VALUE_SPAN) /\ ~ (i >= mp.capacity) /\ ~ (w > size) /\ ~ (n > size - w)
        BY <1>1, <2>1, <2>2, <2>5
      <3> QED BY <1>5, <2>2, <3>1 DEF Refused, mp
    <2> HIDE DEF w
    <2> DEFINE o == MAP_SPAN * id + (VALUE_SPAN * i + w)
    <2>8. o \in Nat /\ a = BPF_VALUES + o
      BY <1>1, <2>1, <2>2, <2>5, <2>6
    <2>9. o \div MAP_SPAN = id /\ (o % MAP_SPAN) \div VALUE_SPAN = i /\ (o % MAP_SPAN) % VALUE_SPAN = w
      BY <2>1, <2>2, <2>5, <2>8, AddressUnique
    <2>10. VALUE_SPAN * i + w < MAP_SPAN
      BY <2>1, <2>2, <2>5, <2>8, AddressUnique
    <2>11. o < BPF_MAPS * MAP_SPAN
      <3>1. MAP_SPAN * (id + 1) <= MAP_SPAN * BPF_MAPS /\ MAP_SPAN * (id + 1) = MAP_SPAN * id + MAP_SPAN
        BY <1>1, <2>1
      <3>2. MAP_SPAN * BPF_MAPS = BPF_MAPS * MAP_SPAN
        BY <1>1
      <3>3. MAP_SPAN * id \in Nat /\ VALUE_SPAN * i + w \in Nat
        BY <1>1, <2>1, <2>2, <2>5
      <3> QED BY <1>1, <2>10, <3>1, <3>2, <3>3
    <2> HIDE DEF o
    <2>12. a >= BPF_VALUES /\ ~ (a < BPF_VALUES \/ a >= BPF_VALUES + BPF_MAPS * MAP_SPAN)
      BY <1>1, <2>8, <2>11
    <2> DEFINE got == memory(e, a, n, write)
    <2>0. InSomeMap(e, a, n, write, got)
      BY <2>12, MemoryIs
    <2>a. PICK jd \in Nat, j \in Nat, u \in Nat : InMap(e, a, n, write, got, jd, j, u)
      BY <2>0 DEF InSomeMap
    <2>13. /\ j < Slots /\ u < VALUE_SPAN
           /\ a = BPF_VALUES + (MAP_SPAN * jd + (VALUE_SPAN * j + u))
           /\ memory(e, a, n, write) =
                IF Refused(e.maps[jd], j, u, n, write) THEN NULL ELSE Place("map", jd, j * e.maps[jd].value_size + u)
      BY <2>a DEF InMap
    <2> DEFINE t == MAP_SPAN * jd + (VALUE_SPAN * j + u)
    <2>14. t = o
      <3>1. t \in Nat /\ a = BPF_VALUES + t
        BY <1>1, <2>13
      <3> HIDE DEF t
      <3> QED BY <1>1, <2>8, <3>1
    <2>15. o \div MAP_SPAN = jd /\ (o % MAP_SPAN) \div VALUE_SPAN = j /\ (o % MAP_SPAN) % VALUE_SPAN = u
      BY <2>8, <2>13, <2>14, AddressUnique
    <2>16. jd = id /\ j = i /\ u = w
      BY <2>9, <2>15
    <2> QED BY <2>3, <2>7, <2>13, <2>16
  <1> QED BY <1>2, <1>3, <1>4, <1>5, PiecesAre

\* An access that is accepted fits a piece.
LEMMA MemoryRefuses ==
    ASSUME NEW e, EnvironmentOK(e), NEW a \in Int, NEW n \in Nat \ {0}, NEW write \in BOOLEAN,
           memory(e, a, n, write) # NULL
    PROVE  \E q \in Pieces(e, write) : Fits(a, n, q.base, q.size)
  <1>1. /\ BPF_CTX \in Nat /\ BPF_DATA \in Nat /\ BPF_STACK \in Nat /\ BPF_VALUES \in Nat
        /\ STACK_SIZE \in Nat /\ BPF_MAPS \in Nat
        /\ VALUE_SPAN \in Nat \ {0} /\ MAP_SPAN \in Nat \ {0} /\ Slots \in Nat
    BY SpanFacts
  <1>2. CASE Stacked(a, n)
    <2>1. StackPiece \in Pieces(e, write)
      BY PiecesAre
    <2> QED BY <1>2, <2>1, PieceFields DEF Stacked
  <1>3. CASE ~ write /\ InContext(e, a, n)
    <2>1. ContextPiece(e) \in Pieces(e, write)
      BY <1>3, PiecesAre
    <2> QED BY <1>3, <2>1, PieceFields DEF InContext
  <1>4. CASE ~ write /\ InPacket(e, a, n)
    <2>1. PacketPiece(e) \in Pieces(e, write)
      BY <1>4, PiecesAre
    <2> QED BY <1>4, <2>1, PieceFields DEF InPacket
  <1>5. CASE ~ Stacked(a, n) /\ ~ (~ write /\ InContext(e, a, n)) /\ ~ (~ write /\ InPacket(e, a, n))
    <2>a. InSomeMap(e, a, n, write, memory(e, a, n, write))
      BY <1>5, MemoryIs
    <2>b. PICK id \in Nat, i \in Nat, w \in Nat : InMap(e, a, n, write, memory(e, a, n, write), id, i, w)
      BY <2>a DEF InSomeMap
    <2>1. /\ id < BPF_MAPS /\ i < Slots /\ w < VALUE_SPAN
          /\ a = BPF_VALUES + (MAP_SPAN * id + (VALUE_SPAN * i + w))
          /\ memory(e, a, n, write) =
               IF Refused(e.maps[id], i, w, n, write) THEN NULL ELSE Place("map", id, i * e.maps[id].value_size + w)
      BY <2>b DEF InMap
    <2> DEFINE mp == e.maps[id]
               size == mp.value_size
               base == BPF_VALUES + id * MAP_SPAN + i * VALUE_SPAN
    <2>2. ~ Refused(mp, i, w, n, write)
      BY <2>1
    <2>3. id \in 0 .. BPF_MAPS - 1
      BY <1>1, <2>1
    <2>4. mp.value_size \in Nat /\ mp.capacity \in Nat
      BY <2>3, EnvironmentFacts
    <2>5. /\ mp.present /\ ~ (mp.value_size > VALUE_SPAN) /\ ~ (i >= mp.capacity)
          /\ ~ (w > mp.value_size) /\ ~ (n > mp.value_size - w) /\ (write => mp.writable)
      BY <2>2 DEF Refused
    <2>6. i \in Elements(mp)
      <3>1. mp.value_size <= VALUE_SPAN /\ i \in 0 .. mp.capacity - 1
        BY <1>1, <2>4, <2>5
      <3> QED BY <2>1, <2>5, <3>1 DEF Elements, Slots
    <2>7. MapPiece(e, id, i) \in Pieces(e, write)
      BY <2>3, <2>5, <2>6, PiecesAre
    <2>8. MapPiece(e, id, i).base = base /\ MapPiece(e, id, i).size = size
      BY MapPieceFields
    <2>9. Fits(a, n, base, size)
      <3>1. MAP_SPAN * id = id * MAP_SPAN /\ VALUE_SPAN * i = i * VALUE_SPAN
        BY <1>1
      <3>2. id * MAP_SPAN \in Nat /\ i * VALUE_SPAN \in Nat
        BY <1>1
      <3>3. a = base + w /\ base \in Nat
        BY <1>1, <2>1, <3>1, <3>2
      <3> HIDE DEF base
      <3> QED BY <2>4, <2>5, <3>3 DEF Fits
    <2> QED BY <2>7, <2>8, <2>9
  <1> QED BY <1>2, <1>3, <1>4, <1>5

\* memory() is exact for every address and every size.
LEMMA MemoryPlaces ==
    ASSUME NEW e, EnvironmentOK(e), NEW a \in Int, NEW n \in Nat \ {0}, NEW write \in BOOLEAN
    PROVE  {memory(e, a, n, write)} \ {NULL} = Places(e, a, n, write)
  <1> DEFINE m == memory(e, a, n, write)
             F(q) == \A k \in 0 .. n - 1 : q.base <= a + k /\ a + k < q.base + q.size
  <1>1. Places(e, a, n, write) = {PlaceIn(q, a) : q \in {q \in Pieces(e, write) : F(q)}}
    BY DEF Places, PlaceIn
  <1>2. ASSUME NEW q \in Pieces(e, write)
        PROVE  /\ F(q) <=> Fits(a, n, q.base, q.size)
               /\ PlaceIn(q, a) # NULL
    <2>1. PlaceIn(q, a) # NULL
      <3>1. q.place.object # "none"
        BY PiecesAre DEF StackPiece, ContextPiece, PacketPiece, MapPiece, Piece, Place
      <3> QED BY <3>1 DEF PlaceIn, NULL, Place
    <2>2. q.base \in Nat /\ q.size \in Nat
      <3>1. /\ BPF_CTX \in Nat /\ BPF_DATA \in Nat /\ BPF_STACK \in Nat /\ BPF_VALUES \in Nat
            /\ STACK_SIZE \in Nat /\ BPF_MAPS \in Nat /\ VALUE_SPAN \in Nat /\ MAP_SPAN \in Nat
        BY SpanFacts
      <3>2. CASE q = StackPiece \/ q = ContextPiece(e) \/ q = PacketPiece(e)
        <4>1. e.context_size \in Nat /\ e.packet_size \in Nat
          BY EnvironmentFacts
        <4>2. /\ q = StackPiece => q.base = BPF_STACK /\ q.size = STACK_SIZE
              /\ q = ContextPiece(e) => q.base = BPF_CTX /\ q.size = e.context_size
              /\ q = PacketPiece(e) => q.base = BPF_DATA /\ q.size = e.packet_size
          BY PieceFields
        <4> QED BY <3>1, <3>2, <4>1, <4>2
      <3>3. ASSUME NEW id \in 0 .. BPF_MAPS - 1, NEW i \in Elements(e.maps[id]), q = MapPiece(e, id, i)
            PROVE  q.base \in Nat /\ q.size \in Nat
        <4>1. id \in Nat /\ e.maps[id].value_size \in Nat /\ e.maps[id].capacity \in Nat
          BY <3>1, EnvironmentFacts
        <4>2. i \in Nat
          BY <4>1 DEF Elements
        <4>3. q.base = BPF_VALUES + id * MAP_SPAN + i * VALUE_SPAN /\ q.size = e.maps[id].value_size
          BY <3>3, MapPieceFields
        <4>4. id * MAP_SPAN \in Nat /\ i * VALUE_SPAN \in Nat
          BY <3>1, <4>1, <4>2
        <4> QED BY <3>1, <4>1, <4>3, <4>4
      <3> QED BY <3>2, <3>3, PiecesAre
    <2>3. F(q) <=> Fits(a, n, q.base, q.size)
      BY <2>2, FitsIs
    <2> QED BY <2>1, <2>3
  <1> HIDE DEF F
  <1>3. ASSUME NEW pl \in Places(e, a, n, write) PROVE pl = m /\ pl # NULL
    <2>1. PICK q \in Pieces(e, write) : F(q) /\ pl = PlaceIn(q, a)
      BY <1>1
    <2>2. Fits(a, n, q.base, q.size) /\ pl # NULL
      BY <1>2, <2>1
    <2>3. m = PlaceIn(q, a)
      BY <2>2, MemoryAccepts
    <2> QED BY <2>1, <2>2, <2>3
  <1>4. ASSUME m # NULL PROVE m \in Places(e, a, n, write)
    <2>1. PICK q \in Pieces(e, write) : Fits(a, n, q.base, q.size)
      BY <1>4, MemoryRefuses
    <2>2. F(q)
      BY <1>2, <2>1
    <2>3. m = PlaceIn(q, a)
      BY <2>1, MemoryAccepts
    <2> QED BY <1>1, <2>2, <2>3
  <1> HIDE DEF m
  <1>5. {m} \ {NULL} = Places(e, a, n, write)
    BY <1>3, <1>4
  <1> QED BY <1>5 DEF m
-----------------------------------------------------------------------------
(* The eBPF machine: its arithmetic.                                       *)

LEMMA PowFacts ==
    ASSUME NEW n \in Nat
    PROVE  Pow(n) \in Nat \ {0}
  <1>1. BYTE_BITS * n \in Nat
    BY VmAssumption
  <1> QED BY <1>1, Pow2Step DEF Pow

\* The sum of a sequence of numbers is one.
LEMMA TotalIsNat ==
    ASSUME NEW q \in Seq(Nat)
    PROVE  Total(q) \in Nat
  <1> DEFINE N == Len(q)
             D == 0 .. N
             Is(f) == f = [k \in D |-> IF k = 0 THEN 0 ELSE f[k - 1] + q[k]]
             v == CHOOSE f : Is(f)
             step == [a \in (1 .. N) \X Nat |-> a[2] + q[a[1]]]
  <1>1. N \in Nat /\ \A k \in 1 .. N : q[k] \in Nat
    OBVIOUS
  <1>2. Total(q) = v[N]
    BY DEF Total
  <1>3. IsStep(step, N, Nat)
    BY <1>1 DEF IsStep
  <1>4. \A i \in 1 .. N, b \in Nat : step[<<i, b>>] = b + q[i]
    OBVIOUS
  <1> HIDE DEF step, N
  <1>5. PICK f : Follows(f, N, Nat, 0, step)
    BY <1>1, <1>3, FiniteRecursion
  <1>6. f \in [D -> Nat] /\ f[0] = 0
    BY <1>5 DEF Follows
  <1>7. ASSUME NEW k \in D, k # 0 PROVE f[k] = f[k - 1] + q[k]
    <2>1. k \in 1 .. N /\ k - 1 \in 0 .. N
      BY <1>1, <1>7
    <2>2. f[k - 1] \in Nat
      BY <1>6, <2>1
    <2>3. f[k] = step[<<k, f[k - 1]>>]
      BY <1>5, <2>1 DEF Follows
    <2> QED BY <1>4, <2>1, <2>2, <2>3
  <1>8. Is(f)
    <2> HIDE DEF D
    <2>1. f = [k \in D |-> f[k]]
      BY <1>6
    <2> QED BY <1>6, <1>7, <2>1, Zenon
  <1> HIDE DEF Is
  <1>9. \E g : Is(g)
    BY <1>8
  <1>10. Is(v)
    BY <1>9, Zenon
  <1> HIDE DEF v
  <1>11. ASSUME NEW k \in D PROVE v[k] = IF k = 0 THEN 0 ELSE v[k - 1] + q[k]
    <2> HIDE DEF D
    <2> QED BY <1>10, Zenon DEF Is
  <1> DEFINE S == {k \in D : v[k] \in Nat}
  <1>12. 0 \in S
    <2>1. 0 \in D
      BY <1>1
    <2> QED BY <1>11, <2>1
  <1>13. ASSUME NEW k \in 1 .. N, k - 1 \in S PROVE k \in S
    <2>1. k \in D /\ k # 0 /\ q[k] \in Nat
      BY <1>1
    <2>2. v[k] = v[k - 1] + q[k]
      BY <1>11, <2>1
    <2> QED BY <1>13, <2>1, <2>2
  <1> HIDE DEF S
  <1>14. N \in S
    <2>1. \A k \in 0 .. N : k \in S
      BY <1>1, <1>12, <1>13, BoundedInduction
    <2> QED BY <1>1, <2>1
  <1> QED BY <1>2, <1>14 DEF S

\* Bytes, the numbers they make, and the words that sets of bits make.
LEMMA WordsAreNat ==
    /\ \A b \in Seq(Nat) : read_le(b) \in Nat
    /\ \A s : WordOf(s) \in Nat
  <1>1. ASSUME NEW b \in Seq(Nat) PROVE read_le(b) \in Nat
    <2> DEFINE q == [k \in 1 .. Len(b) |-> b[k] * Pow(k - 1)]
    <2>1. ASSUME NEW k \in 1 .. Len(b) PROVE b[k] * Pow(k - 1) \in Nat
      <3>1. k - 1 \in Nat /\ b[k] \in Nat
        OBVIOUS
      <3>2. Pow(k - 1) \in Nat
        BY <3>1, PowFacts
      <3> QED BY <3>1, <3>2
    <2>2. Len(b) \in Nat
      OBVIOUS
    <2>3. q \in Seq(Nat)
      <3>1. q \in [1 .. Len(b) -> Nat]
        BY <2>1
      <3> HIDE DEF q
      <3> QED BY <2>2, <3>1
    <2> HIDE DEF q
    <2>4. Total(q) \in Nat
      BY <2>3, TotalIsNat
    <2> QED BY <2>4 DEF read_le, q
  <1>2. ASSUME NEW s PROVE WordOf(s) \in Nat
    <2> DEFINE W == 8 * BYTE_BITS
               q == [k \in 1 .. W |-> IF k - 1 \in s THEN Pow2[k - 1] ELSE 0]
    <2>1. W \in Nat
      BY VmAssumption
    <2>2. ASSUME NEW k \in 1 .. W PROVE (IF k - 1 \in s THEN Pow2[k - 1] ELSE 0) \in Nat
      <3>1. k - 1 \in Nat
        BY <2>1
      <3> QED BY <3>1, Pow2Step
    <2>3. q \in Seq(Nat)
      <3> HIDE DEF W
      <3>1. q \in [1 .. W -> Nat]
        BY <2>2
      <3> HIDE DEF q
      <3> QED BY <2>1, <3>1
    <2> HIDE DEF q
    <2>4. Total(q) \in Nat
      BY <2>3, TotalIsNat
    <2> QED BY <2>4 DEF WordOf, q
  <1> QED BY <1>1, <1>2

LEMMA BytesType ==
    ASSUME NEW a \in Nat, NEW n \in Nat
    PROVE  Bytes(a, n) \in Seq(Nat) /\ Len(Bytes(a, n)) = n
  <1>1. ASSUME NEW k \in 1 .. n PROVE (a \div Pow(k - 1)) % Pow(1) \in Nat
    <2>1. Pow(k - 1) \in Nat \ {0} /\ Pow(1) \in Nat \ {0}
      BY PowFacts
    <2>2. PICK c \in Nat : c = a \div Pow(k - 1)
      BY <2>1, DivParts
    <2>3. c % Pow(1) \in Nat
      BY <2>1, DivParts
    <2> QED BY <2>2, <2>3
  <1>2. Bytes(a, n) \in [1 .. n -> Nat]
    BY <1>1 DEF Bytes
  <1> QED BY <1>2

\* A pass of divide: the rest is doubled, takes the next bit and loses the divisor
\* if it can.  The doubled rest may not fit the word; the first test sees that.
IsPass(H, P, b, rest, bit, t, next) ==
    /\ H \in Nat \ {0} /\ P \in Nat /\ P = 2 * H /\ b \in Nat /\ b < P /\ rest \in Nat /\ rest < b
    /\ bit \in {0, 1} /\ t \in Nat /\ t = 2 * rest + bit /\ next \in Nat /\ next = t % P

LEMMA DivisionPass ==
    ASSUME NEW H, NEW P, NEW b, NEW rest, NEW bit, NEW t, NEW next, IsPass(H, P, b, rest, bit, t, next)
    PROVE  /\ rest >= H \/ next >= b => t >= b /\ t - b < b /\ (next - b) % P = t - b
           /\ ~ (rest >= H \/ next >= b) => next = t /\ t < b
  <1> USE DEF IsPass
  <1>1. P \in Int /\ P > 0
    OBVIOUS
  <1>2. CASE rest >= H
    <2>1. t >= P /\ t - P \in 0 .. P - 1 /\ t >= b /\ t - b < b
      BY <1>2
    <2>2. t = P * 1 + (t - P) /\ t - P \in Int
      BY <1>1
    <2>3. t % P = t - P
      BY <2>1, <2>2, ModUnique
    <2>4. next - b = t - P - b
      BY <2>3
    <2>5. next - b \in -P .. -1 /\ next - b \in Int
      BY <2>1, <2>4
    <2>6. (next - b) % P = (next - b) + P
      BY <2>5, ModSmall
    <2> QED BY <1>2, <2>1, <2>4, <2>6
  <1>3. CASE rest < H
    <2>1. t \in 0 .. P - 1
      BY <1>3
    <2>2. next = t
      BY <2>1, ModSmall
    <2>3. t >= b => t - b \in 0 .. P - 1 /\ t - b < b
      BY <2>1
    <2>4. t >= b => (t - b) % P = t - b
      BY <2>3, ModSmall
    <2> QED BY <1>3, <2>2, <2>3, <2>4
  <1> QED BY <1>2, <1>3

\* One more bit of a quotient by a power of two.
LEMMA NextBit ==
    ASSUME NEW m \in Nat \ {0}, NEW a \in Nat
    PROVE  /\ a \div m \in Nat /\ a \div (2 * m) \in Nat /\ (a \div m) % 2 \in {0, 1}
           /\ a \div m = 2 * (a \div (2 * m)) + ((a \div m) % 2)
  <1>1. PICK A \in Nat, s \in Nat : A = a \div m /\ s < m /\ a = m * A + s
    BY DivParts
  <1>2. PICK B \in Nat, c \in Nat : B = A \div 2 /\ c = A % 2 /\ c < 2 /\ A = 2 * B + c
    <2>1. 2 \in Nat \ {0}
      OBVIOUS
    <2> QED BY <2>1, DivParts
  <1> DEFINE l == m * c + s
             M == 2 * m
  <1>3. c = 0 \/ c = 1
    BY <1>2
  <1>4. l \in 0 .. M - 1 /\ M \in Nat \ {0}
    BY <1>1, <1>3
  <1>5. a = M * B + l
    <2>1. m * A = m * (2 * B + c)
      BY <1>2
    <2>2. m * (2 * B + c) = m * (2 * B) + m * c /\ m * (2 * B) = (2 * m) * B
      OBVIOUS
    <2> QED BY <1>1, <2>1, <2>2
  <1> HIDE DEF l, M
  <1>6. a \div M = B
    BY <1>4, <1>5, DivUnique
  <1>7. a \div (2 * m) = B
    BY <1>6 DEF M
  <1> QED BY <1>1, <1>2, <1>3, <1>7

\* divide computes the quotient and the remainder, for words of every width and
\* with no overflow in the doubled rest.
THEOREM Division ==
    ASSUME NEW a \in Nat, NEW b \in Nat \ {0}, a < Pow(8), b < Pow(8)
    PROVE  Divide(a, b, FALSE) = a \div b /\ Divide(a, b, TRUE) = a % b
  <1> DEFINE W == 8 * BYTE_BITS
             P == Pow(8)
             H == P \div 2
             D == 0 .. W
             X == [q : Nat, r : Nat]
             After(last, k) ==
                LET next == (2 * last.r + ((a \div Pow2[W - k]) % 2)) % P
                IN IF last.r >= H \/ next >= b
                   THEN [q |-> last.q + Pow2[W - k], r |-> (next - b) % P]
                   ELSE [q |-> last.q, r |-> next]
             Is(f) == f = [k \in D |-> IF k = 0 THEN [q |-> 0, r |-> 0] ELSE After(f[k - 1], k)]
             v == CHOOSE f : Is(f)
             step == [s \in (1 .. W) \X X |-> After(s[2], s[1])]
             zero == [q |-> 0, r |-> 0]
  <1>1. W \in Nat \ {0} /\ P \in Nat \ {0} /\ P = Pow2[W]
    <2>1. BYTE_BITS * 8 = 8 * BYTE_BITS
      BY VmAssumption
    <2> QED BY <2>1, VmAssumption, PowFacts DEF Pow
  <1>2. P = 2 * H /\ H \in Nat \ {0}
    <2>1. W - 1 \in Nat /\ (W - 1) + 1 = W
      BY <1>1
    <2>2. PICK h \in Nat : h >= 1 /\ Pow2[W] = 2 * h
      BY <2>1, Pow2Step
    <2>3. (2 * h) \div 2 = h
      OBVIOUS
    <2> QED BY <1>1, <2>2, <2>3
  <1>3. Divide(a, b, FALSE) = v[W].q /\ Divide(a, b, TRUE) = v[W].r
    BY DEF Divide
  <1> HIDE DEF P, H
  <1>4. ASSUME NEW k \in 1 .. W
        PROVE  /\ W - k \in Nat /\ Pow2[W - k] \in Nat \ {0}
               /\ Pow2[W - (k - 1)] = 2 * Pow2[W - k]
    <2>1. W - k \in Nat /\ W - (k - 1) = (W - k) + 1
      BY <1>1
    <2> QED BY <2>1, Pow2Step
  <1>5. ASSUME NEW k \in 1 .. W, NEW last \in X PROVE After(last, k) \in X
    <2>1. PICK m \in Nat \ {0} : m = Pow2[W - k]
      BY <1>4
    <2>2. PICK c \in {0, 1} : c = (a \div m) % 2
      BY NextBit
    <2>3. last.q \in Nat /\ last.r \in Nat
      OBVIOUS
    <2>4. PICK t \in Nat : t = 2 * last.r + c
      BY <2>3
    <2>5. PICK next \in Nat : next = t % P
      BY <1>1, DivParts
    <2>6. (next - b) % P \in Nat
      <3>1. next - b \in Int
        OBVIOUS
      <3>2. (next - b) % P \in 0 .. P - 1
        BY <1>1, <3>1, ModRange
      <3> QED BY <1>1, <3>2
    <2>7. After(last, k) = IF last.r >= H \/ next >= b THEN [q |-> last.q + m, r |-> (next - b) % P]
                           ELSE [q |-> last.q, r |-> next]
      BY <2>1, <2>2, <2>4, <2>5
    <2>8. last.q + m \in Nat
      BY <2>3
    <2> HIDE DEF After
    <2> QED BY <2>3, <2>6, <2>7, <2>8
  <1>6. IsStep(step, W, X)
    <2> HIDE DEF W, X, After
    <2>1. \A s \in (1 .. W) \X X : s[1] \in 1 .. W /\ s[2] \in X
      OBVIOUS
    <2> QED BY <1>5, <2>1 DEF IsStep
  <1>7. \A k \in 1 .. W, l \in X : step[<<k, l>>] = After(l, k)
    <2> HIDE DEF W, X, After
    <2> QED OBVIOUS
  <1>8. zero \in X
    OBVIOUS
  <1> HIDE DEF step, W, X, After
  <1>9. PICK f : Follows(f, W, X, zero, step)
    <2> HIDE DEF zero
    <2> QED BY <1>1, <1>6, <1>8, FiniteRecursion
  <1>10. f \in [D -> X] /\ f[0] = zero
    BY <1>9 DEF Follows
  <1>11. ASSUME NEW k \in D, k # 0 PROVE f[k] = After(f[k - 1], k)
    <2>1. k \in 1 .. W /\ k - 1 \in 0 .. W
      BY <1>1, <1>11
    <2>2. f[k - 1] \in X
      BY <1>10, <2>1
    <2>3. f[k] = step[<<k, f[k - 1]>>]
      BY <1>9, <2>1 DEF Follows
    <2> QED BY <1>7, <2>1, <2>2, <2>3
  <1>12. Is(f)
    <2> HIDE DEF D
    <2>1. f = [k \in D |-> f[k]]
      BY <1>10
    <2> QED BY <1>10, <1>11, <2>1, Zenon
  <1> HIDE DEF Is
  <1>13. \E g : Is(g)
    BY <1>12
  <1>14. Is(v)
    BY <1>13, Zenon
  <1> HIDE DEF v
  <1>15. ASSUME NEW k \in D PROVE v[k] = IF k = 0 THEN [q |-> 0, r |-> 0] ELSE After(v[k - 1], k)
    <2> HIDE DEF D
    <2> QED BY <1>14, Zenon DEF Is
  <1> DEFINE Good(k) == /\ v[k] \in X /\ v[k].r < b
                        /\ \E Q \in Nat : /\ v[k].q = Q * Pow2[W - k]
                                          /\ a \div Pow2[W - k] = Q * b + v[k].r
             S == {k \in D : Good(k)}
  <1>16. 0 \in S
    <2>1. 0 \in D /\ W - 0 = W
      BY <1>1
    <2>2. v[0] = zero /\ v[0].q = 0 /\ v[0].r = 0
      BY <1>15, <2>1
    <2>3. a \div P = 0
      <3>1. a \in 0 .. P - 1 /\ a = P * 0 + a
        BY <1>1 DEF P
      <3> QED BY <1>1, <3>1, DivUnique
    <2>4. 0 = 0 * P /\ 0 = 0 * b + 0 /\ 0 < b
      BY <1>1
    <2>5. v[0].q = 0 * Pow2[W - 0] /\ a \div Pow2[W - 0] = 0 * b + v[0].r
      BY <1>1, <2>1, <2>2, <2>3, <2>4
    <2>6. \E Q \in Nat : v[0].q = Q * Pow2[W - 0] /\ a \div Pow2[W - 0] = Q * b + v[0].r
      BY <2>5
    <2>7. Good(0)
      BY <1>8, <2>2, <2>4, <2>6
    <2> HIDE DEF Good
    <2> QED BY <2>1, <2>7
  <1>17. ASSUME NEW k \in 1 .. W, k - 1 \in S PROVE k \in S
    <2>1. k \in D /\ k # 0
      BY <1>1
    <2>2. PICK last \in X : last = v[k - 1]
      BY <1>17
    <2>3. v[k] = After(last, k)
      BY <1>15, <2>1, <2>2
    <2>4. PICK m \in Nat \ {0} : m = Pow2[W - k] /\ Pow2[W - (k - 1)] = 2 * m
      BY <1>4
    <2>5. PICK Q \in Nat : last.q = Q * (2 * m) /\ a \div (2 * m) = Q * b + last.r
      BY <1>17, <2>2, <2>4
    <2>6. PICK rest \in Nat : rest = last.r /\ rest < b
      <3>1. last.r \in Nat
        BY <2>2 DEF X
      <3> QED BY <1>17, <2>2, <3>1
    <2>7. PICK c \in {0, 1}, A \in Nat : c = (a \div m) % 2 /\ A = a \div m /\ A = 2 * (a \div (2 * m)) + c
      BY NextBit
    <2>8. PICK t \in Nat : t = 2 * rest + c
      OBVIOUS
    <2>9. PICK next \in Nat : next = t % P
      BY <1>1, DivParts
    <2>10. v[k] = IF rest >= H \/ next >= b THEN [q |-> last.q + m, r |-> (next - b) % P]
                  ELSE [q |-> last.q, r |-> next]
      BY <2>3, <2>4, <2>6, <2>7, <2>8, <2>9 DEF After
    <2>11. A = 2 * (Q * b + rest) + c
      BY <2>5, <2>6, <2>7
    <2>12. Q * b \in Nat /\ 2 * (Q * b + rest) = 2 * (Q * b) + 2 * rest
      OBVIOUS
    <2>13. (2 * Q) * b = 2 * (Q * b) /\ (2 * Q + 1) * b = 2 * (Q * b) + b
      OBVIOUS
    <2>14. (2 * Q) * m = Q * (2 * m) /\ (2 * Q + 1) * m = Q * (2 * m) + m
      OBVIOUS
    <2>15. b < P
      BY DEF P
    <2>16. v[k] \in X
      BY <1>5, <2>3
    <2>17. CASE rest >= H \/ next >= b
      <3>1. t >= b /\ t - b < b /\ (next - b) % P = t - b
        <4>1. IsPass(H, P, b, rest, c, t, next)
          BY <1>1, <1>2, <2>6, <2>8, <2>9, <2>15 DEF IsPass
        <4> QED BY <2>17, <4>1, DivisionPass
      <3>2. v[k].q = last.q + m /\ v[k].r = t - b
        BY <2>10, <2>17, <3>1
      <3>3. A = (2 * Q + 1) * b + (t - b)
        BY <2>8, <2>11, <2>12, <2>13
      <3>4. last.q + m = (2 * Q + 1) * m
        BY <2>5, <2>14
      <3>5. 2 * Q + 1 \in Nat
        OBVIOUS
      <3>6. Good(k)
        BY <2>4, <2>7, <2>16, <3>1, <3>2, <3>3, <3>4, <3>5
      <3> QED BY <2>1, <3>6
    <2>18. CASE ~ (rest >= H \/ next >= b)
      <3>1. next = t /\ t < b
        <4>1. IsPass(H, P, b, rest, c, t, next)
          BY <1>1, <1>2, <2>6, <2>8, <2>9, <2>15 DEF IsPass
        <4> QED BY <2>18, <4>1, DivisionPass
      <3>2. v[k].q = last.q /\ v[k].r = t
        BY <2>10, <2>18, <3>1
      <3>3. A = (2 * Q) * b + t
        BY <2>8, <2>11, <2>12, <2>13
      <3>4. last.q = (2 * Q) * m
        BY <2>5, <2>14
      <3>5. 2 * Q \in Nat
        OBVIOUS
      <3>6. Good(k)
        BY <2>4, <2>7, <2>16, <3>1, <3>2, <3>3, <3>4, <3>5
      <3> QED BY <2>1, <3>6
    <2> QED BY <2>17, <2>18
  <1> HIDE DEF S
  <1>18. W \in S
    <2>1. \A k \in 0 .. W : k \in S
      BY <1>1, <1>16, <1>17, BoundedInduction
    <2> QED BY <1>1, <2>1
  <1>19. PICK Q \in Nat, z \in Nat : z < b /\ v[W].q = Q /\ v[W].r = z /\ a = b * Q + z
    <2>1. W - W = 0 /\ Pow2[0] = 1
      BY <1>1, Pow2Step
    <2>2. PICK Q \in Nat : v[W].q = Q * 1 /\ a \div 1 = Q * b + v[W].r
      BY <1>18, <2>1 DEF S
    <2>3. v[W].r \in Nat /\ v[W].r < b
      BY <1>18 DEF S, X
    <2>4. a \div 1 = a /\ Q * 1 = Q /\ Q * b = b * Q
      OBVIOUS
    <2> QED BY <2>2, <2>3, <2>4
  <1>20. z \in 0 .. b - 1
    BY <1>19
  <1>21. a \div b = Q /\ a % b = z
    BY <1>19, <1>20, DivUnique, ModUnique
  <1> QED BY <1>3, <1>19, <1>21

\* Every operation on words gives a number.
LEMMA AluIsNat ==
    ASSUME NEW i, NEW n \in {4, 8}, NEW a \in Nat, a < Pow(n), NEW b \in Nat, b < Pow(n),
           op(i) \in {0, 16, 32, 48, 64, 80, 96, 112, 128, 144, 160, 176, 192}
    PROVE  Alu(i, a, b, n) \in Nat
  <1>1. PICK P \in Nat \ {0}, P4 \in Nat \ {0}, P8 \in Nat \ {0} :
           P = Pow(n) /\ P4 = Pow(4) /\ P8 = Pow(8) /\ P <= P8
    <2>1. Pow(n) \in Nat \ {0} /\ Pow(4) \in Nat \ {0} /\ Pow(8) \in Nat \ {0}
      BY PowFacts
    <2>2. BYTE_BITS * n \in Nat /\ BYTE_BITS * 8 \in Nat /\ BYTE_BITS * n <= BYTE_BITS * 8
      BY VmAssumption
    <2>3. Pow(n) <= Pow(8)
      BY <2>2, Pow2Grows DEF Pow
    <2> QED BY <2>1, <2>3
  <1>2. PICK w \in Nat \ {0} : w = n * BYTE_BITS
    BY VmAssumption
  <1>3. PICK shift \in Nat : shift = b % w /\ shift < w
    BY <1>2, DivParts
  <1>4. PICK s \in Nat \ {0}, t \in Nat \ {0} : s = Pow2[shift] /\ t = Pow2[w - shift]
    <2>1. PICK v \in Nat : v = w - shift
      BY <1>3
    <2>2. Pow2[shift] \in Nat \ {0} /\ Pow2[v] \in Nat \ {0}
      BY Pow2Step
    <2> QED BY <2>1, <2>2
  <1>5. ASSUME NEW z \in Int PROVE z % P \in Nat /\ z % P4 \in Nat /\ z % P8 \in Nat
    <2>1. z % P \in 0 .. P - 1 /\ z % P4 \in 0 .. P4 - 1 /\ z % P8 \in 0 .. P8 - 1
      BY ModRange
    <2> QED BY <2>1
  <1>6. (a + b) % P \in Nat /\ (a - b) % P \in Nat /\ (0 - a) % P \in Nat
    <2>1. a + b \in Int /\ a - b \in Int /\ 0 - a \in Int
      OBVIOUS
    <2> QED BY <1>5, <2>1
  <1>7. Times(a, b) % P \in Nat
    <2>1. PICK c \in Nat, d \in Nat : c = a % P4 /\ d = a \div P4
      BY DivParts
    <2>2. PICK g \in Nat : g = (d * b) % P4
      <3>1. d * b \in Int
        OBVIOUS
      <3> QED BY <1>5, <3>1
    <2>3. PICK h \in Int : h = c * b + g * P4
      OBVIOUS
    <2>4. PICK l \in Int : l = h % P8
      BY <1>5
    <2>5. Times(a, b) = l
      BY <1>1, <2>1, <2>2, <2>3, <2>4 DEF Times
    <2> QED BY <1>5, <2>5
  <1>8. Divide(a, b, FALSE) \in Nat /\ Divide(a, b, TRUE) \in Nat
    <2>1. CASE b = 0
      BY <2>1 DEF Divide
    <2>2. CASE b # 0
      <3>1. b \in Nat \ {0} /\ a < Pow(8) /\ b < Pow(8)
        BY <1>1, <2>2
      <3>2. Divide(a, b, FALSE) = a \div b /\ Divide(a, b, TRUE) = a % b
        BY <3>1, Division
      <3>3. a \div b \in Nat /\ a % b \in Nat
        BY <3>1, DivParts
      <3> QED BY <3>2, <3>3
    <2> QED BY <2>1, <2>2
  <1>9. BitOr(a, b) \in Nat /\ BitAnd(a, b) \in Nat /\ BitXor(a, b) \in Nat
    BY WordsAreNat DEF BitOr, BitAnd, BitXor
  <1>10. (a % t) * s \in Nat /\ a \div s \in Nat
    <2>1. PICK u \in Nat : u = a % t
      BY DivParts
    <2>2. a \div s \in Nat
      BY DivParts
    <2> QED BY <2>1, <2>2
  <1>11. (Signed(a, n) \div s) % P \in Nat
    <2>1. PICK z \in Int : z = Signed(a, n)
      BY <1>1 DEF Signed
    <2>2. PICK y \in Int : y = z \div s
      <3>1. s \in Int /\ s > 0
        OBVIOUS
      <3> QED BY <3>1
    <2> QED BY <1>5, <2>1, <2>2
  <1>12. Alu(i, a, b, n) \in {(a + b) % P, (a - b) % P, Times(a, b) % P, Divide(a, b, FALSE), BitOr(a, b),
                              BitAnd(a, b), (a % t) * s, a \div s, (0 - a) % P, Divide(a, b, TRUE), BitXor(a, b),
                              b, (Signed(a, n) \div s) % P}
    <2>1. Alu(i, a, b, n) =
            CASE op(i) = 0 -> (a + b) % P
              [] op(i) = 16 -> (a - b) % P
              [] op(i) = 32 -> Times(a, b) % P
              [] op(i) = 48 -> Divide(a, b, FALSE)
              [] op(i) = 64 -> BitOr(a, b)
              [] op(i) = 80 -> BitAnd(a, b)
              [] op(i) = 96 -> (a % t) * s
              [] op(i) = 112 -> a \div s
              [] op(i) = 128 -> (0 - a) % P
              [] op(i) = 144 -> Divide(a, b, TRUE)
              [] op(i) = 160 -> BitXor(a, b)
              [] op(i) = 176 -> b
              [] op(i) = 192 -> (Signed(a, n) \div s) % P
      BY <1>1, <1>2, <1>3, <1>4 DEF Alu
    <2>2. PICK o \in {0, 16, 32, 48, 64, 80, 96, 112, 128, 144, 160, 176, 192} : o = op(i)
      OBVIOUS
    <2> QED BY <2>1, <2>2, ZenonT(60)
  <1> QED BY <1>6, <1>7, <1>8, <1>9, <1>10, <1>11, <1>12, ZenonT(60)

\* The byte order operation too.
LEMMA SwappedIsNat ==
    ASSUME NEW i, i.imm \in {16, 32, 64}, NEW a \in Nat
    PROVE  Swapped(i, a) \in Nat
  <1>1. PICK n \in Nat : n = i.imm \div 8
    OBVIOUS
  <1>2. PICK b \in Seq(Nat) : b = Bytes(a, n)
    BY BytesType
  <1>3. Reverse(b) \in Seq(Nat)
    <2>1. Reverse(b) = [k \in 1 .. Len(b) |-> b[(Len(b) - k) + 1]]
      BY DEF Reverse
    <2>2. \A k \in 1 .. Len(b) : (Len(b) - k) + 1 \in 1 .. Len(b)
      OBVIOUS
    <2>3. \A k \in 1 .. Len(b) : b[(Len(b) - k) + 1] \in Nat
      BY <2>2
    <2>4. Reverse(b) \in [1 .. Len(b) -> Nat]
      BY <2>1, <2>3
    <2>5. Len(b) \in Nat
      OBVIOUS
    <2> QED BY <2>4, <2>5
  <1>4. Swapped(i, a) \in {read_le(Reverse(b)), read_le(b)}
    BY <1>1, <1>2 DEF Swapped
  <1> QED BY <1>2, <1>3, <1>4, WordsAreNat
-----------------------------------------------------------------------------
(* The eBPF machine: what its registers and its memory hold.               *)

\* Registers hold numbers, which memory() compares with addresses; the stack and
\* the values of a map keep their lengths, so a place that memory() yields exists.
VmTypes ==
    /\ code \in Seq(InsnType) /\ EnvironmentOK(env)
    /\ pc \in Nat /\ r \in [Regs -> Nat]
    /\ stack \in [1 .. STACK_SIZE -> Nat]
    /\ values \in [0 .. BPF_MAPS - 1 -> Seq(Nat)]
    /\ \A id \in 0 .. BPF_MAPS - 1 : Len(values[id]) = Len(env.values[id])

\* An accepted access stays inside its object.
LEMMA PlaceExists ==
    ASSUME NEW e, EnvironmentOK(e), NEW a \in Int, NEW n \in Nat \ {0}, NEW write \in BOOLEAN,
           NEW p, p = memory(e, a, n, write), p # NULL
    PROVE  /\ p.at \in Nat
           /\ \/ p.object = "stack" /\ p.at + n <= STACK_SIZE
              \/ ~ write /\ p.object = "context" /\ p.at + n <= Len(e.context)
              \/ ~ write /\ p.object = "packet" /\ p.at + n <= Len(e.packet)
              \/ p.object = "map" /\ p.id \in 0 .. BPF_MAPS - 1 /\ p.at + n <= Len(e.values[p.id])
  <1>1. /\ BPF_CTX \in Nat /\ BPF_DATA \in Nat /\ BPF_STACK \in Nat /\ BPF_VALUES \in Nat
        /\ STACK_SIZE \in Nat /\ BPF_MAPS \in Nat
        /\ VALUE_SPAN \in Nat \ {0} /\ MAP_SPAN \in Nat \ {0} /\ Slots \in Nat
    BY SpanFacts
  <1>2. /\ e.context_size \in Nat /\ e.packet_size \in Nat
        /\ e.context_size = Len(e.context) /\ e.packet_size = Len(e.packet)
    BY EnvironmentFacts DEF EnvironmentOK
  <1>3. ASSUME NEW o, NEW id, NEW at, p = Place(o, id, at) PROVE p.object = o /\ p.id = id /\ p.at = at
    BY <1>3 DEF Place
  <1>4. CASE Stacked(a, n)
    <2>1. p = Place("stack", 0, a - BPF_STACK)
      BY <1>4, MemoryIs
    <2>2. p.object = "stack" /\ p.at = a - BPF_STACK
      BY <1>3, <2>1
    <2>3. BPF_STACK <= a /\ a + n <= BPF_STACK + STACK_SIZE
      BY <1>4 DEF Stacked, Fits
    <2> QED BY <1>1, <2>2, <2>3
  <1>5. CASE ~ write /\ InContext(e, a, n)
    <2>1. p = Place("context", 0, a - BPF_CTX)
      BY <1>5, MemoryIs
    <2>2. p.object = "context" /\ p.at = a - BPF_CTX
      BY <1>3, <2>1
    <2>3. BPF_CTX <= a /\ a + n <= BPF_CTX + e.context_size
      BY <1>5 DEF InContext, Fits
    <2> QED BY <1>1, <1>2, <1>5, <2>2, <2>3
  <1>6. CASE ~ write /\ InPacket(e, a, n)
    <2>1. p = Place("packet", 0, a - BPF_DATA)
      BY <1>6, MemoryIs
    <2>2. p.object = "packet" /\ p.at = a - BPF_DATA
      BY <1>3, <2>1
    <2>3. BPF_DATA <= a /\ a + n <= BPF_DATA + e.packet_size
      BY <1>6 DEF InPacket, Fits
    <2> QED BY <1>1, <1>2, <1>6, <2>2, <2>3
  <1>7. CASE ~ Stacked(a, n) /\ ~ (~ write /\ InContext(e, a, n)) /\ ~ (~ write /\ InPacket(e, a, n))
    <2>a. InSomeMap(e, a, n, write, memory(e, a, n, write))
      BY <1>7, MemoryIs
    <2>b. PICK id \in Nat, i \in Nat, w \in Nat : InMap(e, a, n, write, memory(e, a, n, write), id, i, w)
      BY <2>a DEF InSomeMap
    <2>1. /\ id < BPF_MAPS /\ i < Slots /\ w < VALUE_SPAN
          /\ memory(e, a, n, write) =
               IF Refused(e.maps[id], i, w, n, write) THEN NULL ELSE Place("map", id, i * e.maps[id].value_size + w)
      BY <2>b DEF InMap
    <2> DEFINE mp == e.maps[id]
    <2>2. ~ Refused(mp, i, w, n, write) /\ p = Place("map", id, i * mp.value_size + w)
      BY <2>1
    <2>3. id \in 0 .. BPF_MAPS - 1
      BY <1>1, <2>1
    <2>4. PICK size \in Nat, cap \in Nat, len \in Nat :
            /\ size = mp.value_size /\ cap = mp.capacity /\ len = Len(e.values[id])
            /\ mp.present => cap * size <= len
      <3>1. MapOK(mp, e.values[id]) /\ e.values[id] \in Seq(Nat)
        BY <2>3 DEF EnvironmentOK
      <3>2. Len(e.values[id]) \in Nat
        BY <3>1
      <3> QED BY <3>1, <3>2 DEF MapOK
    <2>5. /\ mp.present /\ ~ (i >= cap) /\ ~ (w > size) /\ ~ (n > size - w)
      BY <2>2, <2>4 DEF Refused
    <2>6. i + 1 <= cap /\ w + n <= size
      BY <2>5
    <2>7. (i + 1) * size <= cap * size /\ (i + 1) * size = i * size + size
      BY <2>6
    <2>8. i * size + w \in Nat /\ (i * size + w) + n <= len
      <3>1. PICK u \in Nat : u = i * size
        OBVIOUS
      <3>2. PICK v \in Nat : v = cap * size
        OBVIOUS
      <3>3. u + size <= v /\ v <= len
        BY <2>4, <2>5, <2>7, <3>1, <3>2
      <3> QED BY <2>6, <3>1, <3>3
    <2>9. p.object = "map" /\ p.id = id /\ p.at = i * size + w
      BY <1>3, <2>2, <2>4
    <2> QED BY <2>3, <2>4, <2>8, <2>9
  <1> QED BY <1>4, <1>5, <1>6, <1>7

LEMMA Sequence ==
    ASSUME NEW n \in Nat, NEW f \in [1 .. n -> Nat]
    PROVE  f \in Seq(Nat) /\ Len(f) = n
  OBVIOUS

LEMMA LoadType ==
    ASSUME VmTypes, NEW a \in Int, NEW n \in Nat \ {0}, NEW p, p = memory(env, a, n, FALSE), p # NULL
    PROVE  Load(p, n) \in Seq(Nat) /\ Len(Load(p, n)) = n
  <1>1. /\ EnvironmentOK(env) /\ STACK_SIZE \in Nat
        /\ env.context \in Seq(Nat) /\ env.packet \in Seq(Nat)
    BY SpaceAssumption DEF VmTypes, EnvironmentOK
  <1>2. PICK at \in Nat : at = p.at
    BY <1>1, PlaceExists
  <1>3. ASSUME NEW k \in 1 .. n, NEW l \in Nat, at + n <= l PROVE at + k \in 1 .. l
    BY <1>3
  <1> DEFINE Byte(j) == CASE p.object = "stack" -> stack[j]
                          [] p.object = "context" -> env.context[j]
                          [] p.object = "packet" -> env.packet[j]
                          [] p.object = "map" -> values[p.id][j]
  <1>4. ASSUME NEW k \in 1 .. n PROVE Byte(at + k) \in Nat
    <2>1. PICK j \in Nat : j = at + k
      OBVIOUS
    <2> SUFFICES Byte(j) \in Nat
      BY <2>1
    <2>2. CASE p.object = "stack" /\ at + n <= STACK_SIZE
      <3>1. j \in 1 .. STACK_SIZE
        BY <1>1, <1>3, <2>1, <2>2
      <3>2. stack[j] \in Nat
        BY <3>1 DEF VmTypes
      <3> QED BY <2>2, <3>2
    <2>3. CASE p.object = "context" /\ at + n <= Len(env.context)
      <3>1. Len(env.context) \in Nat
        BY <1>1
      <3>2. j \in 1 .. Len(env.context)
        BY <1>3, <2>1, <2>3, <3>1
      <3>3. env.context[j] \in Nat
        BY <1>1, <3>2, ElementOfSeq
      <3> QED BY <2>3, <3>3
    <2>4. CASE p.object = "packet" /\ at + n <= Len(env.packet)
      <3>1. Len(env.packet) \in Nat
        BY <1>1
      <3>2. j \in 1 .. Len(env.packet)
        BY <1>3, <2>1, <2>4, <3>1
      <3>3. env.packet[j] \in Nat
        BY <1>1, <3>2, ElementOfSeq
      <3> QED BY <2>4, <3>3
    <2>5. CASE p.object = "map" /\ p.id \in 0 .. BPF_MAPS - 1 /\ at + n <= Len(env.values[p.id])
      <3>1. PICK v \in Seq(Nat) : v = values[p.id] /\ Len(v) = Len(env.values[p.id])
        BY <2>5 DEF VmTypes
      <3>2. Len(v) \in Nat
        OBVIOUS
      <3>3. j \in 1 .. Len(v)
        BY <1>3, <2>1, <2>5, <3>1, <3>2
      <3>4. v[j] \in Nat
        BY <3>3, ElementOfSeq
      <3> QED BY <2>5, <3>1, <3>4
    <2> QED BY <1>1, <1>2, <2>2, <2>3, <2>4, <2>5, PlaceExists
  <1>5. Load(p, n) = [k \in 1 .. n |-> Byte(at + k)]
    BY <1>2 DEF Load
  <1> HIDE DEF Byte
  <1>6. Load(p, n) \in [1 .. n -> Nat]
    BY <1>4, <1>5
  <1> QED BY <1>6, Sequence

LEMMA OverType ==
    ASSUME NEW b \in Seq(Nat), NEW at \in Nat, NEW new \in Seq(Nat)
    PROVE  /\ Over(b, at, new) \in [1 .. Len(b) -> Nat]
           /\ Over(b, at, new) \in Seq(Nat) /\ Len(Over(b, at, new)) = Len(b)
  <1>1. Len(b) \in Nat /\ Len(new) \in Nat
    OBVIOUS
  <1>2. ASSUME NEW k \in 1 .. Len(b)
        PROVE  (IF k \in at + 1 .. at + Len(new) THEN new[k - at] ELSE b[k]) \in Nat
    <2>1. k \in at + 1 .. at + Len(new) => k - at \in 1 .. Len(new)
      BY <1>1
    <2>2. k \in at + 1 .. at + Len(new) => new[k - at] \in Nat
      BY <2>1
    <2>3. b[k] \in Nat
      OBVIOUS
    <2> QED BY <2>2, <2>3
  <1>3. Over(b, at, new) \in [1 .. Len(b) -> Nat]
    BY <1>2 DEF Over
  <1> QED BY <1>1, <1>3, Sequence

\* A lookup that is not refused gives an address, a handle or 0.
LEMMA LookupType ==
    ASSUME VmTypes, NEW handle \in Nat, NEW address \in Nat, lookup(handle, address) # -1
    PROVE  lookup(handle, address) \in Nat
  <1> DEFINE id == handle - BPF_HANDLES
             m == env.maps[id]
             p == memory(env, address, m.key_size, FALSE)
             key == Load(p, m.key_size)
             first == read_le(SubSeq(key, 1, 4))
             found == IF m.type = LPM THEN LongestPrefix(m, key) ELSE {first}
             index == CHOOSE i \in found : TRUE
             inner == read_le(SubSeq(values[id], index * 4 + 1, index * 4 + 4))
             Bad == \/ id \notin 0 .. BPF_MAPS - 1 \/ ~ m.present \/ m.key_size \notin {4, 20}
                    \/ m.value_size \notin 1 .. VALUE_SPAN
                    \/ m.capacity > MAP_SPAN \div VALUE_SPAN \/ p = NULL
                    \/ m.type \notin {LPM, ARRAY, PERCPU_ARRAY, MAP_ARRAY}
                    \/ m.type = LPM /\ (m.key_size # 20 \/ first > 16 * BYTE_BITS \/ m.entries > m.capacity)
             v == lookup(handle, address)
  <1>1. v = IF Bad THEN -1
            ELSE IF found = {} \/ index >= m.capacity THEN 0
            ELSE IF m.type # MAP_ARRAY THEN BPF_VALUES + id * MAP_SPAN + index * VALUE_SPAN
            ELSE IF m.value_size # 4 \/ inner >= BPF_MAPS THEN -1 ELSE BPF_HANDLES + inner
    BY DEF lookup
  <1>2. ~ Bad
    BY <1>1
  <1>3. /\ id \in 0 .. BPF_MAPS - 1 /\ m.present /\ p # NULL /\ m.key_size \in {4, 20}
    BY <1>2
  <1>4. /\ BPF_VALUES \in Nat /\ MAP_SPAN \in Nat /\ VALUE_SPAN \in Nat /\ BPF_HANDLES \in Nat /\ BPF_MAPS \in Nat
    BY SpanFacts, VmAssumption
  <1>5. id \in Nat
    BY <1>3, <1>4
  <1>6. EnvironmentOK(env)
    BY DEF VmTypes
  <1>7. MapOK(m, env.values[id])
    BY <1>3, <1>6 DEF EnvironmentOK
  <1> HIDE DEF id
  <1>8. PICK size \in {4, 20} : size = m.key_size
    BY <1>3
  <1>9. key \in Seq(Nat) /\ Len(key) = size
    <2>1. size \in Nat \ {0} /\ address \in Int
      OBVIOUS
    <2>2. p = memory(env, address, size, FALSE) /\ key = Load(p, size)
      BY <1>8
    <2> HIDE DEF p, key
    <2> QED BY <1>3, <2>1, <2>2, LoadType
  <1>10. first \in Nat
    <2> HIDE DEF key
    <2>1. SubSeq(key, 1, 4) \in Seq(Nat)
      <3>1. 1 \in 1 .. Len(key) /\ 4 \in 1 .. Len(key)
        BY <1>9
      <3> QED BY <1>9, <3>1
    <2> QED BY <2>1, WordsAreNat
  <1> HIDE DEF m, p, key, Bad
  <1>11. found \subseteq Nat
    <2>1. CASE m.type = LPM
      <3>1. m.entries \in Nat
        BY <1>7 DEF MapOK
      <3>2. LongestPrefix(m, key) \subseteq {i - 1 : i \in 1 .. m.entries}
        BY DEF LongestPrefix
      <3> QED BY <2>1, <3>1, <3>2
    <2>2. CASE m.type # LPM
      BY <1>10, <2>2
    <2> QED BY <2>1, <2>2
  <1> HIDE DEF found
  <1>12. CASE found = {}
    BY <1>1, <1>2, <1>12
  <1>13. CASE found # {}
    <2>1. index \in found
      BY <1>13
    <2> HIDE DEF index
    <2>2. PICK i \in Nat : i = index
      BY <1>11, <2>1
    <2>3. BPF_VALUES + id * MAP_SPAN + index * VALUE_SPAN \in Nat
      <3>1. id * MAP_SPAN \in Nat /\ i * VALUE_SPAN \in Nat
        BY <1>4, <1>5
      <3> QED BY <1>4, <2>2, <3>1
    <2>4. ASSUME m.value_size = 4, ~ (index >= m.capacity) PROVE inner \in Nat
      <3>1. PICK cap \in Nat, q \in Seq(Nat) : /\ cap = m.capacity /\ q = values[id] /\ cap * 4 <= Len(q)
        <4>1. values[id] \in Seq(Nat) /\ Len(values[id]) = Len(env.values[id])
          BY <1>3 DEF VmTypes
        <4>2. m.capacity \in Nat /\ m.capacity * 4 <= Len(env.values[id])
          BY <1>3, <1>7, <2>4 DEF MapOK
        <4> QED BY <4>1, <4>2
      <3>2. i < cap /\ Len(q) \in Nat
        BY <2>2, <2>4, <3>1
      <3>3. i * 4 + 1 \in 1 .. Len(q) /\ i * 4 + 4 \in 1 .. Len(q)
        BY <3>1, <3>2, SMTT(60)
      <3>4. SubSeq(q, i * 4 + 1, i * 4 + 4) \in Seq(Nat)
        BY <3>3
      <3>5. read_le(SubSeq(q, i * 4 + 1, i * 4 + 4)) \in Nat
        BY <3>4, WordsAreNat
      <3> QED BY <2>2, <3>1, <3>5
    <2> HIDE DEF inner, v
    <2>5. m.value_size = 4 /\ ~ (index >= m.capacity) => BPF_HANDLES + inner \in Nat
      BY <1>4, <2>4
    <2>6. v \in Nat
      <3>1. v # -1
        BY DEF v
      <3>2. PICK u \in Nat : u = BPF_VALUES + id * MAP_SPAN + index * VALUE_SPAN
        BY <2>3
      <3>3. v = IF index >= m.capacity THEN 0
                ELSE IF m.type # MAP_ARRAY THEN u
                ELSE IF m.value_size # 4 \/ inner >= BPF_MAPS THEN -1 ELSE BPF_HANDLES + inner
        BY <1>1, <1>2, <1>13, <3>2
      <3> QED BY <2>5, <3>1, <3>3
    <2> QED BY <2>6 DEF v
  <1> QED BY <1>12, <1>13

LEMMA SetsType ==
    ASSUME VmTypes, NEW d \in Regs, NEW v \in Nat, Sets(d, v)
    PROVE  r' \in [Regs -> Nat]
  BY DEF VmTypes, Sets

LEMMA StoreType ==
    ASSUME VmTypes, NEW a \in Int, NEW n \in Nat \ {0}, NEW p, p = memory(env, a, n, TRUE), p # NULL,
           NEW b \in Seq(Nat), Store(p, b)
    PROVE  /\ stack' \in [1 .. STACK_SIZE -> Nat]
           /\ values' \in [0 .. BPF_MAPS - 1 -> Seq(Nat)]
           /\ \A id \in 0 .. BPF_MAPS - 1 : Len(values'[id]) = Len(env.values[id])
  <1>1. EnvironmentOK(env) /\ STACK_SIZE \in Nat
    BY SpaceAssumption DEF VmTypes
  <1>2. PICK at \in Nat : at = p.at
    BY <1>1, PlaceExists
  <1>3. CASE p.object = "stack"
    <2>1. stack \in Seq(Nat) /\ Len(stack) = STACK_SIZE
      BY <1>1, Sequence DEF VmTypes
    <2>2. Over(stack, at, b) \in [1 .. STACK_SIZE -> Nat]
      BY <2>1, OverType
    <2> QED BY <1>2, <1>3, <2>2 DEF Store, VmTypes
  <1>4. CASE p.object # "stack"
    <2>1. PICK id \in 0 .. BPF_MAPS - 1 : id = p.id
      BY <1>1, <1>4, PlaceExists
    <2>2. PICK old \in Seq(Nat) : old = values[id]
      BY DEF VmTypes
    <2>3. PICK new \in Seq(Nat) : new = Over(old, at, b) /\ Len(new) = Len(old)
      BY OverType
    <2>4. values' = [values EXCEPT ![id] = new] /\ stack' = stack
      BY <1>2, <1>4, <2>1, <2>2, <2>3 DEF Store
    <2> QED BY <2>2, <2>3, <2>4 DEF VmTypes
  <1> QED BY <1>3, <1>4

LEMMA TypesStart == Start => VmTypes
  <1> SUFFICES ASSUME Start PROVE VmTypes
    OBVIOUS
  <1>1. code \in Seq(InsnType) /\ EnvironmentOK(env) /\ pc \in Nat
    BY VmAssumption DEF Start
  <1>2. r \in [Regs -> Nat]
    <2>1. BPF_CTX \in Nat /\ BPF_STACK + STACK_SIZE \in Nat
      BY SpaceAssumption
    <2> QED BY <2>1 DEF Start
  <1>3. stack \in [1 .. STACK_SIZE -> Nat]
    BY DEF Start
  <1>4. values = env.values /\ env.values \in [0 .. BPF_MAPS - 1 -> Seq(Nat)]
    BY <1>1 DEF Start, EnvironmentOK
  <1> QED BY <1>1, <1>2, <1>3, <1>4 DEF VmTypes

LEMMA ModPow ==
    ASSUME NEW n \in Nat, NEW a \in Int
    PROVE  a % Pow(n) \in Nat /\ a % Pow(n) < Pow(n)
  <1>1. PICK P \in Nat \ {0} : P = Pow(n)
    BY PowFacts
  <1>2. a % P \in 0 .. P - 1
    BY ModRange
  <1>3. a % P \in Nat /\ a % P < P
    BY <1>2
  <1> QED BY <1>1, <1>3

\* What one instruction leaves, whether the program was validated or not.
LEMMA TypesStep ==
    ASSUME VmTypes, Exec
    PROVE  VmTypes'
  <1> DEFINE i == At(code, pc)
             Moved == pc' \in Nat
             Kept == /\ stack' \in [1 .. STACK_SIZE -> Nat]
                     /\ values' \in [0 .. BPF_MAPS - 1 -> Seq(Nat)]
                     /\ \A id \in 0 .. BPF_MAPS - 1 : Len(values'[id]) = Len(env.values[id])
             Goal == Moved /\ r' \in [Regs -> Nat] /\ Kept
  <1>1. code' = code /\ env' = env /\ Insn = i
    BY DEF Exec, Insn
  <1>2. SUFFICES Goal
    BY <1>1 DEF VmTypes
  <1>3. /\ code \in Seq(InsnType) /\ EnvironmentOK(env) /\ pc \in Nat /\ r \in [Regs -> Nat]
        /\ Count(code) = Len(code) /\ pc < Count(code) /\ Count(code) \in Nat
    BY DEF VmTypes, Exec, Runs, Count
  <1>4. ASSUME NEW p \in Nat, p < Count(code) PROVE At(code, p) \in InsnType
    <2>1. p + 1 \in 1 .. Len(code)
      BY <1>3, <1>4
    <2> QED BY <1>3, <2>1, ElementOfSeq DEF At
  <1>5. i \in InsnType
    BY <1>3, <1>4
  <1>6. /\ i.code \in Nat /\ i.d \in Nat /\ i.s \in Nat /\ i.offset \in Int /\ i.imm \in Int
        /\ cls(i) \in 0 .. 7 /\ op(i) \in Nat
        /\ op(i) <= 207 => op(i) \in {0, 16, 32, 48, 64, 80, 96, 112, 128, 144, 160, 176, 192}
    BY <1>5, Opcodes
  <1>7. ASSUME UNCHANGED <<stack, values>> PROVE Kept
    BY <1>7 DEF VmTypes
  <1>8. ASSUME NEW s, NEW w, Stops(s, w) PROVE Goal
    BY <1>3, <1>7, <1>8 DEF Stops
  <1>9. ASSUME NEW w, Fails(w) PROVE Goal
    BY <1>8, <1>9 DEF Fails
  <1>10. ASSUME Continues(pc + 1) PROVE Moved
    BY <1>3, <1>10 DEF Continues
  <1> HIDE DEF i
  <1>11. CASE i.d > 10 \/ i.s > 10
    BY <1>1, <1>6, <1>9, <1>11 DEF Exec
  <1>12. CASE i.d <= 10 /\ i.s <= 10
    <2>1. i.d \in Regs /\ i.s \in Regs /\ r[i.d] \in Nat /\ r[i.s] \in Nat
      <3>1. i.d \in Regs /\ i.s \in Regs
        BY <1>6, <1>12 DEF Regs
      <3> QED BY <1>3, <3>1
    <2>2. ASSUME NEW n \in Nat PROVE Operand(n) \in Nat /\ Operand(n) < Pow(n)
      <3>1. PICK z \in Int : z = IF x(i) THEN r[i.s] ELSE i.imm
        BY <1>6, <2>1
      <3>2. Operand(n) = z % Pow(n)
        BY <1>1, <3>1 DEF Operand
      <3> QED BY <3>2, ModPow
    <2>3. CASE i.code = 24 /\ ExecWide
      <3> DEFINE hi == At(code, pc + 1)
                 a == (i.imm % Pow(4)) + (hi.imm % Pow(4)) * Pow(4)
      <3>1. CASE pc + 1 >= Count(code) \/ i.d = 10 \/ i.s > 1 \/ (i.s = 1 /\ a >= BPF_MAPS)
        BY <1>1, <1>9, <2>3, <3>1 DEF ExecWide
      <3>2. CASE ~ (pc + 1 >= Count(code) \/ i.d = 10 \/ i.s > 1 \/ (i.s = 1 /\ a >= BPF_MAPS))
        <4>1. Sets(i.d, IF i.s = 1 THEN a + BPF_HANDLES ELSE a) /\ Continues(pc + 2) /\ UNCHANGED <<stack, values>>
          BY <1>1, <2>3, <3>2 DEF ExecWide
        <4>2. pc + 1 \in Nat /\ pc + 1 < Count(code)
          BY <1>3, <3>2
        <4>3. hi \in InsnType
          BY <1>4, <4>2
        <4>4. hi.imm \in Int
          BY <4>3 DEF InsnType
        <4>5. i.imm % Pow(4) \in Nat /\ hi.imm % Pow(4) \in Nat /\ Pow(4) \in Nat /\ BPF_HANDLES \in Nat
          <5>1. Pow(4) \in Nat /\ BPF_HANDLES \in Nat
            BY PowFacts, VmAssumption
          <5>2. PICK y \in Int, z \in Int : y = i.imm /\ z = hi.imm
            BY <1>6, <4>4
          <5>3. y % Pow(4) \in Nat /\ z % Pow(4) \in Nat
            BY ModPow
          <5> QED BY <5>1, <5>2, <5>3
        <4>6. (IF i.s = 1 THEN a + BPF_HANDLES ELSE a) \in Nat
          BY <4>5
        <4> HIDE DEF a
        <4>7. r' \in [Regs -> Nat]
          BY <2>1, <4>1, <4>6, SetsType
        <4>8. pc' \in Nat
          BY <1>3, <4>1 DEF Continues
        <4> QED BY <1>7, <4>1, <4>7, <4>8
      <3> QED BY <3>1, <3>2
    <2>4. CASE cls(i) \in {4, 7} /\ ExecAlu
      <3>1. PICK n \in {4, 8} : n = IF cls(i) = 7 THEN 8 ELSE 4
        OBVIOUS
      <3> DEFINE Bad == \/ i.d = 10 \/ op(i) > 208
                        \/ op(i) = 208 /\ (n = 8 \/ i.imm \notin {16, 32, 64})
                 v == IF op(i) = 208 THEN Swapped(i, r[i.d]) ELSE Alu(i, r[i.d] % Pow(n), Operand(n), n)
      <3>2. ExecAlu = IF Bad THEN Fails("malformed")
                      ELSE Sets(i.d, v) /\ Continues(pc + 1) /\ UNCHANGED <<stack, values>>
        BY <1>1, <3>1 DEF ExecAlu
      <3>3. CASE Bad
        BY <1>9, <2>4, <3>2, <3>3
      <3>4. CASE ~ Bad
        <4>1. Sets(i.d, v) /\ Continues(pc + 1) /\ UNCHANGED <<stack, values>>
          BY <2>4, <3>2, <3>4
        <4>2. ASSUME op(i) = 208 PROVE v \in Nat
          <5>1. i.imm \in {16, 32, 64}
            BY <3>4, <4>2
          <5>2. Swapped(i, r[i.d]) \in Nat
            BY <2>1, <5>1, SwappedIsNat
          <5> QED BY <4>2, <5>2
        <4>3. ASSUME op(i) # 208 PROVE v \in Nat
          <5>1. op(i) \in {0, 16, 32, 48, 64, 80, 96, 112, 128, 144, 160, 176, 192}
            <6>1. op(i) <= 207
              BY <1>6, <3>4, <4>3
            <6> QED BY <1>6, <6>1
          <5>2. PICK a \in Nat, b \in Nat : a = r[i.d] % Pow(n) /\ b = Operand(n) /\ a < Pow(n) /\ b < Pow(n)
            <6>1. n \in Nat /\ r[i.d] \in Int
              BY <2>1
            <6> QED BY <2>2, <6>1, ModPow
          <5>3. Alu(i, a, b, n) \in Nat
            BY <5>1, <5>2, AluIsNat
          <5> QED BY <4>3, <5>2, <5>3
        <4>4. v \in Nat
          <5>1. op(i) = 208 => v \in Nat
            BY <4>2
          <5>2. op(i) # 208 => v \in Nat
            BY <4>3
          <5> QED BY <5>1, <5>2
        <4> HIDE DEF v
        <4>5. r' \in [Regs -> Nat]
          BY <2>1, <4>1, <4>4, SetsType
        <4> QED BY <1>7, <1>10, <4>1, <4>5
      <3> QED BY <3>3, <3>4
    <2>5. CASE cls(i) \in {1, 2, 3} /\ ExecMemory
      <3> DEFINE bits2 == (i.code \div 8) % 4
      <3>1. PICK n \in Nat \ {0} : n = CASE bits2 = 0 -> 4 [] bits2 = 1 -> 2 [] bits2 = 2 -> 1 [] bits2 = 3 -> 8
        <4>1. bits2 \in {0, 1, 2, 3}
          BY <1>6
        <4> HIDE DEF bits2
        <4> QED BY <4>1
      <3>2. PICK a \in Nat : a = (r[IF cls(i) = 1 THEN i.s ELSE i.d] + i.offset) % Pow(8)
        <4>1. r[IF cls(i) = 1 THEN i.s ELSE i.d] + i.offset \in Int
          BY <1>6, <2>1
        <4> QED BY <4>1, ModPow
      <3> DEFINE p == memory(env, a, n, cls(i) # 1)
                 w == (IF cls(i) = 3 THEN r[i.s] ELSE i.imm) % Pow(8)
      <3>3. ExecMemory = IF i.code \div 32 # 3 \/ (cls(i) = 1 /\ i.d = 10) THEN Fails("malformed")
                         ELSE IF p = NULL THEN Fails("memory")
                         ELSE /\ Continues(pc + 1)
                              /\ IF cls(i) = 1 THEN Sets(i.d, read_le(Load(p, n))) /\ UNCHANGED <<stack, values>>
                                 ELSE Store(p, Bytes(w, n)) /\ UNCHANGED r
        BY <1>1, <3>1, <3>2 DEF ExecMemory
      <3> HIDE DEF p, w
      <3>4. CASE Fails("malformed") \/ Fails("memory")
        BY <1>9, <3>4
      <3>5. CASE /\ p # NULL /\ Continues(pc + 1) /\ cls(i) = 1
                 /\ Sets(i.d, read_le(Load(p, n))) /\ UNCHANGED <<stack, values>>
        <4>1. p = memory(env, a, n, FALSE)
          <5>1. (cls(i) # 1) = FALSE
            BY <3>5
          <5> QED BY <5>1 DEF p
        <4>2. Load(p, n) \in Seq(Nat)
          <5>1. a \in Int
            OBVIOUS
          <5> QED BY <3>5, <4>1, <5>1, LoadType
        <4>3. read_le(Load(p, n)) \in Nat
          BY <4>2, WordsAreNat
        <4>4. r' \in [Regs -> Nat]
          BY <2>1, <3>5, <4>3, SetsType
        <4> QED BY <1>7, <1>10, <3>5, <4>4
      <3>6. CASE /\ p # NULL /\ Continues(pc + 1) /\ cls(i) # 1
                 /\ Store(p, Bytes(w, n)) /\ UNCHANGED r
        <4>1. p = memory(env, a, n, TRUE)
          <5>1. (cls(i) # 1) = TRUE
            BY <3>6
          <5> QED BY <5>1 DEF p
        <4>2. w \in Nat
          <5>1. (IF cls(i) = 3 THEN r[i.s] ELSE i.imm) \in Int
            BY <1>6, <2>1
          <5> QED BY <5>1, ModPow DEF w
        <4>3. Bytes(w, n) \in Seq(Nat)
          BY <4>2, BytesType
        <4>4. Kept
          <5>1. a \in Int
            OBVIOUS
          <5> QED BY <3>6, <4>1, <4>3, <5>1, StoreType
        <4> QED BY <1>3, <1>10, <3>6, <4>4
      <3> QED BY <2>5, <3>3, <3>4, <3>5, <3>6
    <2>6. CASE i.code = 149 /\ Stops("ok", "none")
      BY <1>8, <2>6
    <2>7. CASE i.code = 133 /\ ExecCall
      <3> DEFINE v == lookup(r[1], r[2])
      <3>1. r[1] \in Nat /\ r[2] \in Nat
        BY <1>3 DEF Regs
      <3>2. CASE i.imm # 1 \/ v = -1
        BY <1>1, <1>9, <2>7, <3>2 DEF ExecCall
      <3>3. CASE ~ (i.imm # 1 \/ v = -1)
        <4>1. v \in Nat
          BY <3>1, <3>3, LookupType
        <4>2. /\ r' = [k \in Regs |-> IF k = 0 THEN v ELSE IF k \in 1 .. 5 THEN 0 ELSE r[k]]
              /\ Continues(pc + 1) /\ UNCHANGED <<stack, values>>
          BY <1>1, <2>7, <3>3 DEF ExecCall
        <4> HIDE DEF v
        <4>3. r' \in [Regs -> Nat]
          BY <1>3, <4>1, <4>2
        <4> QED BY <1>7, <1>10, <4>2, <4>3
      <3> QED BY <3>2, <3>3
    <2>8. CASE cls(i) \in {5, 6} /\ i.code \notin {133, 149} /\ ExecJump
      <3>1. PICK n : n = IF cls(i) = 6 THEN 4 ELSE 8
        OBVIOUS
      <3> DEFINE taken == Jumps(i, r[i.d] % Pow(n), Operand(n), n)
      <3>2. ExecJump = IF op(i) \in {128, 144} \/ op(i) > 208 \/ (taken /\ ~ target(code, pc, i.offset))
                       THEN Fails("malformed")
                       ELSE Continues(IF taken THEN pc + 1 + i.offset ELSE pc + 1) /\ UNCHANGED <<r, stack, values>>
        BY <1>1, <3>1 DEF ExecJump
      <3> HIDE DEF taken
      <3>3. CASE Fails("malformed")
        BY <1>9, <3>3
      <3>4. CASE ~ Fails("malformed")
        <4>1. /\ Continues(IF taken THEN pc + 1 + i.offset ELSE pc + 1) /\ UNCHANGED <<r, stack, values>>
              /\ ~ (taken /\ ~ target(code, pc, i.offset))
          BY <2>8, <3>2, <3>4
        <4>2. taken => pc + 1 + i.offset \in Nat
          <5>1. taken => pc + 1 + i.offset \in 0 .. Count(code) - 1
            BY <4>1 DEF target
          <5> QED BY <1>3, <5>1
        <4>3. pc' \in Nat
          <5>1. pc' = IF taken THEN pc + 1 + i.offset ELSE pc + 1
            BY <4>1 DEF Continues
          <5> QED BY <1>3, <4>2, <5>1
        <4> QED BY <1>3, <1>7, <4>1, <4>3
      <3> QED BY <3>3, <3>4
    <2>9. CASE cls(i) = 0 /\ i.code # 24 /\ Fails("malformed")
      BY <1>9, <2>9
    <2> HIDE DEF Goal
    <2> QED BY <1>1, <1>6, <1>12, <2>3, <2>4, <2>5, <2>6, <2>7, <2>8, <2>9 DEF Exec
  <1> HIDE DEF Goal
  <1> QED BY <1>6, <1>11, <1>12

LEMMA TypesNext == VmTypes /\ [Step]_machine => VmTypes'
  <1> SUFFICES ASSUME VmTypes, [Step]_machine PROVE VmTypes'
    OBVIOUS
  <1>1. CASE Exec
    BY <1>1, TypesStep
  <1>2. CASE Exhausted
    BY <1>2 DEF Exhausted, Fails, Stops, VmTypes
  <1>3. CASE machine' = machine
    BY <1>3 DEF machine, VmTypes
  <1> QED BY <1>1, <1>2, <1>3 DEF Step

\* Every place that memory() yields now lies inside its object, and one for writing
\* on the stack or in a map.
PlacesInside ==
    \A a \in Int, n \in Nat \ {0}, write \in BOOLEAN :
        LET p == memory(env, a, n, write) IN
        p # NULL =>
            /\ p.at \in Nat
            /\ \/ p.object = "stack" /\ p.at + n <= STACK_SIZE
               \/ ~ write /\ p.object = "context" /\ p.at + n <= Len(env.context)
               \/ ~ write /\ p.object = "packet" /\ p.at + n <= Len(env.packet)
               \/ p.object = "map" /\ p.id \in 0 .. BPF_MAPS - 1 /\ p.at + n <= Len(values[p.id])

LEMMA TypesPlaces == ASSUME VmTypes PROVE PlacesInside
  <1> SUFFICES ASSUME NEW a \in Int, NEW n \in Nat \ {0}, NEW write \in BOOLEAN,
                      NEW p, p = memory(env, a, n, write), p # NULL
               PROVE  /\ p.at \in Nat
                      /\ \/ p.object = "stack" /\ p.at + n <= STACK_SIZE
                         \/ ~ write /\ p.object = "context" /\ p.at + n <= Len(env.context)
                         \/ ~ write /\ p.object = "packet" /\ p.at + n <= Len(env.packet)
                         \/ /\ p.object = "map" /\ p.id \in 0 .. BPF_MAPS - 1
                            /\ p.at + n <= Len(values[p.id])
    BY DEF PlacesInside
  <1>1. EnvironmentOK(env) /\ \A id \in 0 .. BPF_MAPS - 1 : Len(values[id]) = Len(env.values[id])
    BY DEF VmTypes
  <1>2. /\ p.at \in Nat
        /\ \/ p.object = "stack" /\ p.at + n <= STACK_SIZE
           \/ ~ write /\ p.object = "context" /\ p.at + n <= Len(env.context)
           \/ ~ write /\ p.object = "packet" /\ p.at + n <= Len(env.packet)
           \/ p.object = "map" /\ p.id \in 0 .. BPF_MAPS - 1 /\ p.at + n <= Len(env.values[p.id])
    BY <1>1, PlaceExists
  <1> QED BY <1>1, <1>2

\* The machine keeps its types on every program, validated or not: every register
\* holds a number, the stack and the maps' values keep their lengths, and every
\* place that memory() yields lies inside its object.
THEOREM VmSafe == Execution => [](VmTypes /\ PlacesInside)
  <1>1. VmTypes => PlacesInside
    BY TypesPlaces
  <1> QED BY <1>1, TypesStart, TypesNext, PTL DEF Execution

\* Whatever a register holds and whatever program put it there, memory() accepts
\* an access exactly when its bytes lie in one piece, and yields their place.
THEOREM MemoryChecks == Execution => []MemoryExact
  <1>1. VmTypes => MemoryExact
    <2> SUFFICES ASSUME VmTypes, NEW k \in Regs, NEW n \in {1, 2, 4, 8, 20}, NEW write \in BOOLEAN
                 PROVE  {memory(env, r[k], n, write)} \ {NULL} = Places(env, r[k], n, write)
      BY DEF MemoryExact
    <2>1. r[k] \in Int /\ n \in Nat \ {0} /\ EnvironmentOK(env)
      BY DEF VmTypes
    <2> QED BY <2>1, MemoryPlaces
  <1> QED BY <1>1, VmSafe, PTL
=============================================================================
