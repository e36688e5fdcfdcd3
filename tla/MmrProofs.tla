----------------------------- MODULE MmrProofs -----------------------------
(***************************************************************************)
(* Proofs about the Merkle mountain range and the prover on top of it, for  *)
(* any number of leaves, seals and erasures.                                *)
(***************************************************************************)
EXTENDS Prover, WellFoundedInduction, TLAPS

-----------------------------------------------------------------------------
\* A set of naturals has a smallest element.
LEMMA SmallestOf ==
  ASSUME NEW S \in SUBSET Nat, S # {}
  PROVE  \E x \in S : \A y \in S : x <= y
<1>1. PICK x \in S : \A y \in S : ~(<<y, x>> \in OpToRel(<, Nat))
  BY NatLessThanWellFounded, WFMin
<1>2. \A y \in S : ~(y < x)
  BY <1>1 DEF OpToRel
<1>. QED
  BY <1>2

\* A function on the naturals may be defined from its values below.
Recursive(f, S, a, before, step) ==
  f = [n \in S |-> IF n = 0 THEN a ELSE step[n][f[before[n]]]]

Founded(a, before, step) ==
  /\ a \in Nat /\ before \in [Nat \ {0} -> Nat] /\ step \in [Nat \ {0} -> [Nat -> Nat]]
  /\ \A n \in Nat \ {0} : before[n] < n
Recursions(m, a, before, step) == {f \in [0..m -> Nat] : Recursive(f, 0..m, a, before, step)}

\* Two of them agree where both are defined, ...
LEMMA RecursionsAgree ==
  ASSUME NEW a, NEW before, NEW step, Founded(a, before, step),
         NEW m \in Nat, NEW k \in Nat,
         NEW f \in Recursions(m, a, before, step), NEW g \in Recursions(k, a, before, step),
         NEW n \in Nat, n <= m, n <= k
  PROVE  f[n] = g[n]
<1> DEFINE Bad == {b \in Nat : b <= m /\ b <= k /\ f[b] # g[b]}
<1>1. \A b \in 0..m : f[b] = IF b = 0 THEN a ELSE step[b][f[before[b]]]
  BY DEF Recursions, Recursive
<1>2. \A b \in 0..k : g[b] = IF b = 0 THEN a ELSE step[b][g[before[b]]]
  BY DEF Recursions, Recursive
<1>3. ASSUME Bad # {} PROVE FALSE
  <2>1. PICK b \in Bad : \A c \in Bad : b <= c
    BY <1>3, SmallestOf
  <2>2. b # 0
    BY <1>1, <1>2, <2>1
  <2>3. before[b] \in Nat /\ before[b] < b /\ before[b] \notin Bad
    BY <2>1, <2>2 DEF Founded
  <2>4. f[before[b]] = g[before[b]]
    BY <2>1, <2>3
  <2>5. b \in 0..m /\ b \in 0..k /\ f[b] # g[b]
    BY <2>1
  <2>6. f[b] = step[b][f[before[b]]] /\ g[b] = step[b][g[before[b]]]
    BY ONLY <1>1, <1>2, <2>2, <2>5
  <2>. QED
    BY ONLY <2>4, <2>5, <2>6
<1>. QED
  BY <1>3

\* ... there is one for every bound, ...
LEMMA RecursionsExist ==
  ASSUME NEW a, NEW before, NEW step, Founded(a, before, step), NEW m \in Nat
  PROVE  Recursions(m, a, before, step) # {}
<1> DEFINE R(k) == Recursions(k, a, before, step)
           Bad == {k \in Nat : R(k) = {}}
<1>1. R(0) # {}
  <2> DEFINE f == [n \in 0..0 |-> a]
  <2>1. f \in [0..0 -> Nat] /\ f = [n \in 0..0 |-> IF n = 0 THEN a ELSE step[n][f[before[n]]]]
    BY DEF Founded
  <2> HIDE DEF f
  <2>2. f \in R(0)
    BY <2>1 DEF Recursions, Recursive
  <2>. QED
    BY <2>2
<1>2. ASSUME NEW k \in Nat, R(k) # {} PROVE R(k + 1) # {}
  <2>1. PICK f : f \in R(k)
    BY <1>2
  <2>2. f \in [0..k -> Nat] /\ f = [n \in 0..k |-> IF n = 0 THEN a ELSE step[n][f[before[n]]]]
    BY <2>1 DEF Recursions, Recursive
  <2>a. \A n \in 0..k : f[n] = IF n = 0 THEN a ELSE step[n][f[before[n]]]
    BY <2>2
  <2>3. before[k + 1] \in 0..k /\ step[k + 1] \in [Nat -> Nat]
    BY k + 1 \in Nat \ {0} DEF Founded
  <2> DEFINE x == step[k + 1][f[before[k + 1]]]
             g == [n \in 0..(k + 1) |-> IF n <= k THEN f[n] ELSE x]
  <2>4. x \in Nat
    BY <2>2, <2>3
  <2> HIDE DEF x
  <2>5. g \in [0..(k + 1) -> Nat]
    BY <2>2, <2>4
  <2>6. ASSUME NEW n \in 0..(k + 1)
        PROVE  g[n] = IF n = 0 THEN a ELSE step[n][g[before[n]]]
    <3>1. CASE n <= k
      <4>1. n = 0 \/ before[n] \in 0..k
        BY <3>1 DEF Founded
      <4>2. n \in 0..k /\ f[n] = IF n = 0 THEN a ELSE step[n][f[before[n]]]
        BY <2>a, <3>1
      <4>3. g[n] = f[n] /\ (n # 0 => g[before[n]] = f[before[n]])
        BY <3>1, <4>1
      <4> HIDE DEF g
      <4>. QED
        BY ONLY <4>2, <4>3
    <3>2. CASE n = k + 1
      <4>1. n # 0 /\ g[n] = x /\ g[before[n]] = f[before[n]]
        BY <2>3, <3>2
      <4>. QED
        BY <3>2, <4>1 DEF x
    <3>. QED
      BY <3>1, <3>2
  <2>7. g = [n \in 0..(k + 1) |-> g[n]]
    OBVIOUS
  <2> HIDE DEF g
  <2>8. g = [n \in 0..(k + 1) |-> IF n = 0 THEN a ELSE step[n][g[before[n]]]]
    BY <2>6, <2>7
  <2>9. g \in R(k + 1)
    BY <2>5, <2>8 DEF Recursions, Recursive
  <2>. QED
    BY <2>9
<1> HIDE DEF R
<1>3. ASSUME Bad # {} PROVE FALSE
  <2>1. PICK b \in Bad : \A c \in Bad : b <= c
    BY <1>3, SmallestOf
  <2>2. b \in Nat /\ R(b) = {}
    BY <2>1
  <2>3. PICK c \in Nat : b = c + 1
    BY <1>1, <2>2
  <2>4. c \notin Bad
    BY <2>1, <2>3
  <2>5. R(c + 1) # {}
    BY <1>2, <2>3, <2>4
  <2>. QED
    BY <2>2, <2>3, <2>5
<1>4. R(m) # {}
  BY <1>3
<1>. QED
  BY <1>4 DEF R

\* ... and so the recursive definition has a value on all the naturals.
LEMMA RecursionOnNat ==
  ASSUME NEW a, NEW before, NEW step, Founded(a, before, step)
  PROVE  \E f \in [Nat -> Nat] : Recursive(f, Nat, a, before, step)
<1> DEFINE R(k) == Recursions(k, a, before, step)
           run(k) == CHOOSE f : f \in R(k)
           t == [n \in Nat |-> run(n)[n]]
<1>1. \A n \in Nat : run(n) \in R(n)
  BY RecursionsExist
<1>2. \A n \in Nat : \A f \in R(n) : f \in [0..n -> Nat] /\ Recursive(f, 0..n, a, before, step)
  BY DEF Recursions
<1>3. \A n \in Nat \ {0} : run(n)[before[n]] = run(before[n])[before[n]]
  <2> SUFFICES ASSUME NEW n \in Nat \ {0}
               PROVE  run(n)[before[n]] = run(before[n])[before[n]]
    OBVIOUS
  <2>1. before[n] \in Nat /\ before[n] <= n
    BY DEF Founded
  <2>2. run(n) \in R(n) /\ run(before[n]) \in R(before[n])
    BY <1>1, <2>1
  <2> HIDE DEF run
  <2>. QED
    BY <2>1, <2>2, RecursionsAgree
<1>4. \A n \in Nat : run(n) \in [0..n -> Nat]
  BY <1>1, <1>2
<1>5. ASSUME NEW n \in Nat
      PROVE  run(n)[n] = IF n = 0 THEN a ELSE step[n][run(n)[before[n]]]
  <2> HIDE DEF run
  <2>1. PICK f \in R(n) : f = run(n)
    BY <1>1
  <2>2. f = [b \in 0..n |-> IF b = 0 THEN a ELSE step[b][f[before[b]]]]
    BY <2>1 DEF Recursions, Recursive
  <2>3. f[n] = IF n = 0 THEN a ELSE step[n][f[before[n]]]
    BY <2>2, n \in 0..n
  <2>. QED
    BY ONLY <2>1, <2>3
<1> HIDE DEF run
<1>6. t \in [Nat -> Nat]
  BY <1>4
<1>7. \A n \in Nat : t[n] = IF n = 0 THEN a ELSE step[n][t[before[n]]]
  BY <1>3, <1>5 DEF Founded
<1>8. t = [n \in Nat |-> t[n]]
  OBVIOUS
<1> HIDE DEF t
<1>9. Recursive(t, Nat, a, before, step)
  BY <1>7, <1>8 DEF Recursive
<1>. QED
  BY <1>6, <1>9

-----------------------------------------------------------------------------
\* Powers of two.
LEMMA Powers ==
  /\ TwoTo \in [Nat -> Nat] /\ TwoTo[0] = 1
  /\ \A b \in Nat : TwoTo[b + 1] = 2 * TwoTo[b]
<1> DEFINE before == [n \in Nat \ {0} |-> n - 1]
           step == [n \in Nat \ {0} |-> [x \in Nat |-> 2 * x]]
<1>1. PICK f \in [Nat -> Nat] : Recursive(f, Nat, 1, before, step)
  <2>1. Founded(1, before, step)
    BY DEF Founded
  <2> HIDE DEF before, step
  <2>. QED
    BY <2>1, RecursionOnNat
<1>2. f = [b \in Nat |-> IF b = 0 THEN 1 ELSE 2 * f[b - 1]]
  <2> HIDE DEF before, step
  <2>1. f = [b \in Nat |-> IF b = 0 THEN 1 ELSE step[b][f[before[b]]]]
    BY <1>1 DEF Recursive
  <2>2. \A b \in Nat \ {0} : step[b][f[before[b]]] = 2 * f[b - 1]
    BY DEF before, step
  <2>. QED
    BY <2>1, <2>2
<1>3. TwoTo = [b \in Nat |-> IF b = 0 THEN 1 ELSE 2 * TwoTo[b - 1]]
  BY <1>2 DEF TwoTo
<1>4. \A b \in Nat : TwoTo[b] = IF b = 0 THEN 1 ELSE 2 * TwoTo[b - 1]
  BY <1>3
<1>5. TwoTo[0] = 1 /\ \A b \in Nat : TwoTo[b + 1] = 2 * TwoTo[b]
  BY <1>4
<1>6. \A b \in Nat : TwoTo[b] \in Nat
  <2> DEFINE Bad == {b \in Nat : TwoTo[b] \notin Nat}
  <2>1. ASSUME Bad # {} PROVE FALSE
    <3>1. PICK b \in Bad : \A c \in Bad : b <= c
      BY <2>1, SmallestOf
    <3>2. b # 0
      BY <1>5, <3>1
    <3>3. b - 1 \in Nat /\ TwoTo[b - 1] \in Nat
      BY <3>1, <3>2
    <3>. QED
      BY <1>4, <3>1, <3>2, <3>3
  <2>. QED
    BY <2>1
<1>. QED
  BY <1>3, <1>5, <1>6

\* Powers of two grow, and a larger one is an even number of smaller ones.
LEMMA PowersGrow ==
  /\ \A b \in Nat : TwoTo[b] \in Nat /\ b < TwoTo[b] /\ TwoTo[b] > 0
  /\ \A a, b \in Nat : a < b => \E q \in Nat \ {0} : TwoTo[b] = (2 * q) * TwoTo[a]
  /\ \A a, b \in Nat : a < b => TwoTo[a] < TwoTo[b]
<1>1. \A b \in Nat : TwoTo[b] \in Nat /\ TwoTo[b + 1] = 2 * TwoTo[b]
  BY Powers
<1>2. \A b \in Nat : b < TwoTo[b]
  <2> DEFINE Bad == {b \in Nat : ~(b < TwoTo[b])}
  <2>1. ASSUME Bad # {} PROVE FALSE
    <3>1. PICK b \in Bad : \A c \in Bad : b <= c
      BY <2>1, SmallestOf
    <3>2. b \in Nat /\ ~(b < TwoTo[b])
      BY <3>1
    <3>3. PICK c \in Nat : b = c + 1
      BY <3>2, Powers
    <3>4. c < TwoTo[c]
      BY <3>1, <3>3
    <3>. QED
      BY <1>1, <3>2, <3>3, <3>4
  <2>. QED
    BY <2>1
<1>3. ASSUME NEW a \in Nat, NEW k \in Nat
      PROVE  \E q \in Nat \ {0} : TwoTo[(a + k) + 1] = (2 * q) * TwoTo[a]
  <2> DEFINE Good(i) == \E q \in Nat \ {0} : TwoTo[(a + i) + 1] = (2 * q) * TwoTo[a]
             Bad == {i \in Nat : ~Good(i)}
  <2>1. Good(0)
    <3>1. TwoTo[(a + 0) + 1] = (2 * 1) * TwoTo[a]
      BY <1>1
    <3>. QED
      BY <3>1
  <2>2. ASSUME NEW i \in Nat, Good(i) PROVE Good(i + 1)
    <3>1. PICK q \in Nat \ {0} : TwoTo[(a + i) + 1] = (2 * q) * TwoTo[a]
      BY <2>2
    <3>2. (a + i) + 1 \in Nat /\ (a + (i + 1)) + 1 = ((a + i) + 1) + 1
      OBVIOUS
    <3>3. TwoTo[(a + (i + 1)) + 1] = 2 * TwoTo[(a + i) + 1]
      BY <1>1, <3>2
    <3>4. TwoTo[(a + (i + 1)) + 1] = (2 * (2 * q)) * TwoTo[a]
      <4>1. PICK t \in Nat : t = TwoTo[a]
        BY <1>1
      <4>. QED
        BY <3>1, <3>3, <4>1
    <3>. QED
      BY <3>4, 2 * q \in Nat \ {0}
  <2> HIDE DEF Good
  <2>3. ASSUME Bad # {} PROVE FALSE
    <3>1. PICK b \in Bad : \A c \in Bad : b <= c
      BY <2>3, SmallestOf
    <3>2. b \in Nat /\ ~Good(b)
      BY <3>1
    <3>3. PICK c \in Nat : b = c + 1
      BY <2>1, <3>2
    <3>4. Good(c)
      BY <3>1, <3>3
    <3>. QED
      BY <2>2, <3>2, <3>3, <3>4
  <2>4. Good(k)
    BY <2>3
  <2>. QED
    BY <2>4 DEF Good
<1>4. ASSUME NEW a \in Nat, NEW b \in Nat, a < b
      PROVE  \E q \in Nat \ {0} : TwoTo[b] = (2 * q) * TwoTo[a]
  <2>1. PICK k \in Nat : b = (a + k) + 1
    BY <1>4, b - a - 1 \in Nat /\ b = (a + (b - a - 1)) + 1
  <2>. QED
    BY <1>3, <2>1
<1>5. ASSUME NEW a \in Nat, NEW b \in Nat, a < b PROVE TwoTo[a] < TwoTo[b]
  <2>1. PICK q \in Nat \ {0} : TwoTo[b] = (2 * q) * TwoTo[a]
    BY <1>4, <1>5
  <2>2. PICK t \in Nat : t = TwoTo[a] /\ t > 0
    BY <1>1, <1>2
  <2>3. t < (2 * q) * t
    BY ONLY <2>2, q \in Nat \ {0}, t \in Nat
  <2>. QED
    BY <2>1, <2>2, <2>3
<1>6. \A b \in Nat : TwoTo[b] \in Nat /\ b < TwoTo[b] /\ TwoTo[b] > 0
  BY <1>1, <1>2
<1>. QED
  BY <1>4, <1>5, <1>6

-----------------------------------------------------------------------------
\* The digits of a number and of its half.
LEMMA Ones ==
  /\ CountOnes \in [Nat -> Nat] /\ CountOnes[0] = 0
  /\ \A q \in Nat : CountOnes[2 * q] = CountOnes[q] /\ CountOnes[2 * q + 1] = CountOnes[q] + 1
<1> DEFINE before == [n \in Nat \ {0} |-> n \div 2]
           step == [n \in Nat \ {0} |-> [x \in Nat |-> x + (n % 2)]]
<1>1. PICK f \in [Nat -> Nat] : Recursive(f, Nat, 0, before, step)
  <2>1. \A n \in Nat \ {0} : n \div 2 \in Nat /\ n \div 2 < n /\ n % 2 \in Nat
    OBVIOUS
  <2>2. Founded(0, before, step)
    BY <2>1 DEF Founded
  <2> HIDE DEF before, step
  <2>. QED
    BY <2>2, RecursionOnNat
<1>2. f = [n \in Nat |-> IF n = 0 THEN 0 ELSE f[n \div 2] + (n % 2)]
  <2> HIDE DEF before, step
  <2>1. f = [n \in Nat |-> IF n = 0 THEN 0 ELSE step[n][f[before[n]]]]
    BY <1>1 DEF Recursive
  <2>2. \A n \in Nat \ {0} : step[n][f[before[n]]] = f[n \div 2] + (n % 2)
    <3>1. \A n \in Nat \ {0} : n \div 2 \in Nat
      OBVIOUS
    <3>. QED
      BY <3>1 DEF before, step
  <2>. QED
    BY <2>1, <2>2
<1>3. CountOnes = [n \in Nat |-> IF n = 0 THEN 0 ELSE CountOnes[n \div 2] + (n % 2)]
      /\ CountOnes \in [Nat -> Nat]
  <2> DEFINE Is(g) == g = [n \in Nat |-> IF n = 0 THEN 0 ELSE g[n \div 2] + (n % 2)]
  <2>1. CountOnes = CHOOSE g : Is(g)
    BY DEF CountOnes
  <2>2. Is(f)
    BY <1>2
  <2> HIDE DEF Is
  <2>3. Is(CountOnes)
    BY <2>1, <2>2
  <2>4. CountOnes = [n \in Nat |-> IF n = 0 THEN 0 ELSE CountOnes[n \div 2] + (n % 2)]
    BY <2>3 DEF Is
  <2>5. \A n \in Nat : CountOnes[n] \in Nat
    <3> DEFINE Bad == {n \in Nat : CountOnes[n] \notin Nat}
    <3>1. ASSUME Bad # {} PROVE FALSE
      <4>1. PICK b \in Bad : \A c \in Bad : b <= c
        BY <3>1, SmallestOf
      <4>2. b # 0
        BY <2>4, <4>1
      <4>3. b \div 2 \in Nat /\ b \div 2 < b /\ b % 2 \in Nat
        BY <4>1, <4>2
      <4>4. CountOnes[b \div 2] \in Nat
        BY <4>1, <4>3
      <4>. QED
        BY <2>4, <4>1, <4>2, <4>3, <4>4
    <3>. QED
      BY <3>1
  <2>. QED
    BY <2>4, <2>5
<1>4. \A n \in Nat : CountOnes[n] = IF n = 0 THEN 0 ELSE CountOnes[n \div 2] + (n % 2)
  BY <1>3
<1>5. ASSUME NEW q \in Nat
      PROVE  CountOnes[2 * q] = CountOnes[q] /\ CountOnes[2 * q + 1] = CountOnes[q] + 1
  <2>1. /\ 2 * q \in Nat /\ (2 * q) \div 2 = q /\ (2 * q) % 2 = 0
        /\ 2 * q + 1 \in Nat \ {0} /\ (2 * q + 1) \div 2 = q /\ (2 * q + 1) % 2 = 1
    OBVIOUS
  <2>2. CountOnes[q] \in Nat
    BY <1>3
  <2>3. CountOnes[2 * q + 1] = CountOnes[q] + 1
    BY <1>4, <2>1
  <2>4. CASE q = 0
    BY <2>3, <2>4
  <2>5. CASE q # 0
    BY <1>4, <2>1, <2>2, <2>3, <2>5
  <2>. QED
    BY <2>4, <2>5
<1>. QED
  BY <1>3, <1>4, <1>5

\* A number is even or odd.
LEMMA Halves == \A n \in Nat : \E q \in Nat : n = 2 * q \/ n = 2 * q + 1
<1>1. ASSUME NEW n \in Nat PROVE \E q \in Nat : n = 2 * q \/ n = 2 * q + 1
  <2>1. n \div 2 \in Nat /\ (n = 2 * (n \div 2) \/ n = 2 * (n \div 2) + 1)
    OBVIOUS
  <2>. QED
    BY <2>1
<1>. QED
  BY <1>1

\* count_ones() of the next number: one more at most, and no more after an odd number.
LEMMA OnesStep ==
  /\ \A n \in Nat : CountOnes[n + 1] <= CountOnes[n] + 1
  /\ \A q \in Nat : CountOnes[2 * q + 2] <= CountOnes[2 * q + 1]
<1> DEFINE Good(n) == CountOnes[n + 1] <= CountOnes[n] + 1
           Bad == {n \in Nat : ~Good(n)}
<1>1. \A n \in Nat : CountOnes[n] \in Nat
  BY Ones
<1>2. ASSUME NEW q \in Nat, Good(q) PROVE CountOnes[2 * q + 2] <= CountOnes[2 * q + 1]
  <2>1. 2 * q + 2 = 2 * (q + 1) /\ q + 1 \in Nat
    OBVIOUS
  <2>2. CountOnes[2 * q + 2] = CountOnes[q + 1] /\ CountOnes[2 * q + 1] = CountOnes[q] + 1
    BY <2>1, Ones
  <2>. QED
    BY <1>2, <2>2
<1>3. ASSUME Bad # {} PROVE FALSE
  <2>1. PICK b \in Bad : \A c \in Bad : b <= c
    BY <1>3, SmallestOf
  <2>2. b \in Nat /\ ~Good(b) /\ \A c \in Nat : c < b => Good(c)
    BY <2>1
  <2>3. PICK q \in Nat : b = 2 * q \/ b = 2 * q + 1
    BY <2>2, Halves
  <2>4. CASE b = 2 * q
    <3>1. CountOnes[b + 1] = CountOnes[q] + 1 /\ CountOnes[b] = CountOnes[q]
      BY <2>4, Ones
    <3>. QED
      BY <1>1, <2>2, <3>1
  <2>5. CASE b = 2 * q + 1
    <3>1. q < b /\ b + 1 = 2 * q + 2
      BY <2>5
    <3>2. CountOnes[2 * q + 2] <= CountOnes[2 * q + 1]
      BY <1>2, <2>2, <3>1
    <3>3. CountOnes[b + 1] \in Nat /\ CountOnes[b] \in Nat /\ CountOnes[b + 1] <= CountOnes[b]
      BY <1>1, <2>5, <3>1, <3>2
    <3>. QED
      BY <2>2, <3>3
  <2>. QED
    BY <2>3, <2>4, <2>5
<1>4. \A n \in Nat : Good(n)
  BY <1>3
<1>. QED
  BY <1>2, <1>4

\* count_ones() grows no faster than the number.
LEMMA OnesGrow ==
  ASSUME NEW m \in Nat, NEW k \in Nat
  PROVE  CountOnes[m + k] <= CountOnes[m] + k
<1> DEFINE Good(i) == CountOnes[m + i] <= CountOnes[m] + i
           Bad == {i \in Nat : ~Good(i)}
<1>1. \A n \in Nat : CountOnes[n] \in Nat
  BY Ones
<1>2. Good(0)
  BY <1>1, m + 0 = m
<1>3. ASSUME NEW i \in Nat, Good(i) PROVE Good(i + 1)
  <2>1. m + i \in Nat /\ m + (i + 1) = (m + i) + 1
    OBVIOUS
  <2>2. CountOnes[m + (i + 1)] <= CountOnes[m + i] + 1
    BY <2>1, OnesStep
  <2>3. CountOnes[m + (i + 1)] \in Nat /\ CountOnes[m + i] \in Nat /\ CountOnes[m] \in Nat
    BY <1>1, <2>1
  <2>. QED
    BY <1>3, <2>2, <2>3
<1> HIDE DEF Good
<1>4. ASSUME Bad # {} PROVE FALSE
  <2>1. PICK b \in Bad : \A c \in Bad : b <= c
    BY <1>4, SmallestOf
  <2>2. b \in Nat /\ ~Good(b)
    BY <2>1
  <2>3. PICK c \in Nat : b = c + 1
    BY <1>2, <2>2
  <2>4. Good(c)
    BY <2>1, <2>3
  <2>. QED
    BY <1>3, <2>2, <2>3, <2>4
<1>5. Good(k)
  BY <1>4
<1>. QED
  BY <1>5 DEF Good

\* Shifting a number to the left keeps its count_ones().
LEMMA OnesShift ==
  ASSUME NEW q \in Nat, NEW h \in Nat
  PROVE  q * TwoTo[h] \in Nat /\ CountOnes[q * TwoTo[h]] = CountOnes[q]
<1> DEFINE Good(i) == CountOnes[q * TwoTo[i]] = CountOnes[q]
           Bad == {i \in Nat : ~Good(i)}
<1>1. Good(0)
  BY Powers, q * 1 = q
<1>2. \A i \in Nat : q * TwoTo[i] \in Nat
  <2>1. \A x \in Nat : q * x \in Nat
    OBVIOUS
  <2>. QED
    BY <2>1, PowersGrow
<1>3. ASSUME NEW i \in Nat, Good(i) PROVE Good(i + 1)
  <2>1. PICK t \in Nat : t = TwoTo[i]
    BY PowersGrow
  <2>2. TwoTo[i + 1] = 2 * t
    BY <2>1, Powers
  <2>3. q * TwoTo[i + 1] = 2 * (q * t) /\ q * t \in Nat
    BY <2>2
  <2>4. CountOnes[2 * (q * t)] = CountOnes[q * t]
    BY <2>3, Ones
  <2>. QED
    BY <1>3, <2>1, <2>3, <2>4
<1> HIDE DEF Good
<1>4. ASSUME Bad # {} PROVE FALSE
  <2>1. PICK b \in Bad : \A c \in Bad : b <= c
    BY <1>4, SmallestOf
  <2>2. b \in Nat /\ ~Good(b)
    BY <2>1
  <2>3. PICK c \in Nat : b = c + 1
    BY <1>1, <2>2
  <2>4. Good(c)
    BY <2>1, <2>3
  <2>. QED
    BY <1>3, <2>2, <2>3, <2>4
<1>5. Good(h)
  BY <1>4
<1>. QED
  BY <1>2, <1>5 DEF Good

-----------------------------------------------------------------------------
\* Where the root of a block is: after the nodes of all the blocks that end before it
\* and below it.
Pos(h, j) == (2 * j + 2) * TwoTo[h] - 2 - CountOnes[j]

\* Positions of the roots: the right child stands just before its parent, and the left
\* one 2^(h+1) - 1 positions before the right one, as find_sibling() has it.
LEMMA Positions ==
  ASSUME NEW h \in Nat
  PROVE  /\ \A j \in Nat : Pos(h, j) \in Nat
         /\ \A q \in Nat : Pos(h + 1, q) = Pos(h, 2 * q + 1) + 1
         /\ \A q \in Nat : Pos(h, 2 * q + 1) = Pos(h, 2 * q) + (TwoTo[h + 1] - 1)
         /\ \A q \in Nat : Pos(h, 2 * q + 2) >= Pos(h, 2 * q + 1) + TwoTo[h + 1]
         /\ Pos(h, 0) = TwoTo[h + 1] - 2
<1>1. PICK t \in Nat : t = TwoTo[h] /\ t > 0 /\ TwoTo[h + 1] = 2 * t
  BY Powers, PowersGrow
<1>2. \A j \in Nat : CountOnes[j] \in Nat /\ CountOnes[j] <= j
  <2>1. \A j \in Nat : CountOnes[0 + j] <= CountOnes[0] + j
    BY OnesGrow
  <2>. QED
    BY <2>1, Ones
<1>3. ASSUME NEW j \in Nat PROVE Pos(h, j) \in Nat
  <2>1. PICK c \in Nat : c = CountOnes[j] /\ c <= j
    BY <1>2
  <2>2. (2 * j + 2) * t >= 2 * j + 2
    BY ONLY <1>1, t \in Nat, j \in Nat
  <2>3. (2 * j + 2) * t \in Nat
    BY ONLY t \in Nat, j \in Nat
  <2>4. (2 * j + 2) * t - 2 - c \in Nat
    BY <2>1, <2>2, <2>3
  <2>. QED
    BY <1>1, <2>1, <2>4 DEF Pos
<1>4. ASSUME NEW q \in Nat
      PROVE  /\ Pos(h + 1, q) = Pos(h, 2 * q + 1) + 1
             /\ Pos(h, 2 * q + 1) = Pos(h, 2 * q) + (TwoTo[h + 1] - 1)
             /\ Pos(h, 2 * q + 2) >= Pos(h, 2 * q + 1) + TwoTo[h + 1]
  <2>1. PICK c \in Nat : c = CountOnes[q]
    BY <1>2
  <2>2. CountOnes[2 * q] = c /\ CountOnes[2 * q + 1] = c + 1
    BY <2>1, Ones
  <2>3. PICK d \in Nat : d = CountOnes[2 * q + 2] /\ d <= c + 1
    BY <1>2, <2>2, OnesStep
  <2>4. /\ Pos(h + 1, q) = (2 * q + 2) * (2 * t) - 2 - c
        /\ Pos(h, 2 * q) = (2 * (2 * q) + 2) * t - 2 - c
        /\ Pos(h, 2 * q + 1) = (2 * (2 * q + 1) + 2) * t - 2 - (c + 1)
        /\ Pos(h, 2 * q + 2) = (2 * (2 * q + 2) + 2) * t - 2 - d
    BY <1>1, <2>1, <2>2, <2>3 DEF Pos
  <2>5. PICK x \in Nat : x = q * t
    OBVIOUS
  <2>6. /\ (2 * q + 2) * (2 * t) = 4 * x + 4 * t
        /\ (2 * (2 * q) + 2) * t = 4 * x + 2 * t
        /\ (2 * (2 * q + 1) + 2) * t = 4 * x + 4 * t
        /\ (2 * (2 * q + 2) + 2) * t = 4 * x + 6 * t
    BY <2>5
  <2>. QED
    BY <1>1, <2>3, <2>4, <2>6
<1>5. Pos(h, 0) = TwoTo[h + 1] - 2
  BY <1>1, Ones DEF Pos
<1>. QED
  BY <1>3, <1>4, <1>5

\* The roots of the blocks of one height are further right the later the block.
LEMMA PositionsGrow ==
  ASSUME NEW h \in Nat, NEW i \in Nat, NEW j \in Nat, i < j
  PROVE  Pos(h, i) < Pos(h, j)
<1>1. PICK t \in Nat : t = TwoTo[h] /\ t > 0
  BY PowersGrow
<1>2. PICK k \in Nat : j = i + k /\ k > 0
  BY j - i \in Nat
<1>3. PICK c \in Nat, d \in Nat : c = CountOnes[i] /\ d = CountOnes[j] /\ d <= c + k
  BY <1>2, Ones, OnesGrow
<1>4. Pos(h, i) = (2 * i + 2) * t - 2 - c /\ Pos(h, j) = (2 * (i + k) + 2) * t - 2 - d
  BY <1>1, <1>2, <1>3 DEF Pos
<1>5. (2 * (i + k) + 2) * t = (2 * i + 2) * t + 2 * (k * t) /\ (2 * i + 2) * t \in Nat
  OBVIOUS
<1>6. k * t >= k /\ k * t \in Nat
  BY <1>1, <1>2
<1>. QED
  BY <1>2, <1>3, <1>4, <1>5, <1>6

\* No two roots of one height share a position.
LEMMA PositionsDiffer ==
  ASSUME NEW h \in Nat, NEW i \in Nat, NEW j \in Nat, Pos(h, i) = Pos(h, j)
  PROVE  i = j
<1>1. Pos(h, i) \in Nat /\ Pos(h, j) \in Nat
  BY Positions
<1>2. i < j => Pos(h, i) < Pos(h, j)
  BY PositionsGrow
<1>3. j < i => Pos(h, j) < Pos(h, i)
  BY PositionsGrow
<1>. QED
  BY <1>1, <1>2, <1>3

\* The numbers below those of the j-th block, and the blocks that n has whole.
Upto(h, j) == j * TwoTo[h]

\* Where blocks end: later for later blocks, and twice as far for blocks twice as large.
LEMMA Uptos ==
  ASSUME NEW h \in Nat
  PROVE  /\ \A j \in Nat : Upto(h, j) \in Nat /\ j <= Upto(h, j)
         /\ Upto(h, 0) = 0 /\ Upto(h, 1) = TwoTo[h] /\ h < Upto(h, 1)
         /\ \A q \in Nat : Upto(h + 1, q) = Upto(h, 2 * q)
         /\ \A i, j \in Nat : i < j => Upto(h, i) < Upto(h, j)
         /\ \A i, j \in Nat : Upto(h, i) = Upto(h, j) => i = j
         /\ \A i, j \in Nat : Upto(h, i) <= Upto(h, j) => i <= j
<1>1. PICK t \in Nat : t = TwoTo[h] /\ t > 0 /\ h < t /\ TwoTo[h + 1] = 2 * t
  BY Powers, PowersGrow
<1>2. \A j \in Nat : Upto(h, j) = j * t
  BY <1>1 DEF Upto
<1>3. \A j \in Nat : j * t \in Nat /\ j <= j * t
  BY <1>1
<1>4. Upto(h, 0) = 0 /\ Upto(h, 1) = t
  BY <1>1 DEF Upto
<1>5. \A q \in Nat : Upto(h + 1, q) = Upto(h, 2 * q)
  BY <1>1 DEF Upto
<1>6. \A i, j \in Nat : i < j => i * t < j * t
  BY <1>1
<1>7. \A i, j \in Nat : Upto(h, i) <= Upto(h, j) => i <= j
  <2> SUFFICES ASSUME NEW i \in Nat, NEW j \in Nat, Upto(h, i) <= Upto(h, j) PROVE i <= j
    OBVIOUS
  <2>1. i * t <= j * t /\ i * t \in Nat /\ j * t \in Nat
    BY <1>2, <1>3
  <2>2. j < i => j * t < i * t
    BY <1>6
  <2>. QED
    BY ONLY <2>1, <2>2, i \in Nat, j \in Nat
<1>8. \A i, j \in Nat : Upto(h, i) = Upto(h, j) => i = j
  <2> SUFFICES ASSUME NEW i \in Nat, NEW j \in Nat, Upto(h, i) = Upto(h, j) PROVE i = j
    OBVIOUS
  <2>1. Upto(h, i) \in Nat /\ Upto(h, i) <= Upto(h, j) /\ Upto(h, j) <= Upto(h, i)
    BY <1>2, <1>3
  <2>2. i <= j /\ j <= i
    BY <1>7, <2>1
  <2>. QED
    BY <2>2
<1>9. \A i, j \in Nat : i < j => Upto(h, i) < Upto(h, j)
  BY <1>2, <1>6
<1>10. \A j \in Nat : Upto(h, j) \in Nat /\ j <= Upto(h, j)
  BY <1>2, <1>3
<1>. QED
  BY <1>1, <1>4, <1>5, <1>7, <1>8, <1>9, <1>10

\* The same, a fact at a time.
LEMMA UptoNat == ASSUME NEW h \in Nat, NEW j \in Nat PROVE Upto(h, j) \in Nat
BY Uptos

\* A later block ends later.
LEMMA UptoGrows ==
  ASSUME NEW h \in Nat, NEW i \in Nat, NEW j \in Nat, i < j
  PROVE  Upto(h, i) \in Nat /\ Upto(h, j) \in Nat /\ Upto(h, i) < Upto(h, j)
BY Uptos

\* Blocks of one size that end together are one block.
LEMMA UptoSame ==
  ASSUME NEW h \in Nat, NEW i \in Nat, NEW j \in Nat, Upto(h, i) = Upto(h, j)
  PROVE  i = j
BY Uptos

\* A block of a larger size ends where two blocks of a smaller size do.
LEMMA LargerIsEven ==
  ASSUME NEW g \in Nat, NEW h \in Nat, g > h, NEW j \in Nat
  PROVE  \E e \in Nat : Upto(g, j) = Upto(h, 2 * e) /\ j <= e
<1>1. PICK q \in Nat \ {0} : TwoTo[g] = (2 * q) * TwoTo[h]
  BY PowersGrow
<1>2. PICK t \in Nat : t = TwoTo[h]
  BY Powers
<1>3. j * ((2 * q) * t) = (2 * (j * q)) * t /\ j * q \in Nat /\ j <= j * q
  OBVIOUS
<1>4. Upto(g, j) = Upto(h, 2 * (j * q))
  BY <1>1, <1>2, <1>3 DEF Upto
<1>. QED
  BY <1>3, <1>4

\* A number that has a block has its halves, every block before it and more leaves
\* than the height of the block.
LEMMA WholeBlocks ==
  ASSUME NEW h \in Nat
  PROVE  /\ \A j, n \in Nat : Whole(h, j, n) <=> Upto(h, j + 1) <= n
         /\ \A q, n \in Nat : Whole(h + 1, q, n) <=> Whole(h, 2 * q + 1, n)
         /\ \A i, j, m, n \in Nat : Whole(h, j, m) /\ i <= j /\ m <= n => Whole(h, i, n)
         /\ \A j, n \in Nat : Whole(h, j, n) => h < n /\ j < n /\ j \in Blocks(h, n)
<1>1. \A j, n \in Nat : Whole(h, j, n) <=> Upto(h, j + 1) <= n
  BY DEF Whole, Upto
<1>2. ASSUME NEW q \in Nat, NEW n \in Nat
      PROVE  Whole(h + 1, q, n) <=> Whole(h, 2 * q + 1, n)
  <2>1. Upto(h + 1, q + 1) = Upto(h, 2 * (q + 1)) /\ 2 * (q + 1) = (2 * q + 1) + 1
    BY Uptos
  <2>2. Whole(h + 1, q, n) <=> Upto(h + 1, q + 1) <= n
    BY DEF Whole, Upto
  <2>. QED
    BY <1>1, <2>1, <2>2
<1>3. ASSUME NEW i \in Nat, NEW j \in Nat, NEW m \in Nat, NEW n \in Nat,
             Whole(h, j, m), i <= j, m <= n
      PROVE  Whole(h, i, n)
  <2>1. Upto(h, j + 1) <= m /\ Upto(h, j + 1) \in Nat /\ Upto(h, i + 1) \in Nat
    <3>1. i + 1 \in Nat /\ j + 1 \in Nat
      OBVIOUS
    <3>. QED
      BY <1>1, <1>3, <3>1, Uptos
  <2>2. Upto(h, i + 1) <= Upto(h, j + 1)
    <3>1. CASE i = j
      BY <2>1, <3>1
    <3>2. CASE i < j
      <4>1. Upto(h, i + 1) < Upto(h, j + 1)
        BY <3>2, Uptos
      <4>. QED
        BY <2>1, <4>1
    <3>. QED
      BY <1>3, <3>1, <3>2
  <2>3. Upto(h, i + 1) <= n
    BY <1>3, <2>1, <2>2
  <2>. QED
    BY <1>1, <2>3
<1>4. ASSUME NEW j \in Nat, NEW n \in Nat, Whole(h, j, n)
      PROVE  h < n /\ j < n /\ j \in Blocks(h, n)
  <2>1. Upto(h, j + 1) \in Nat /\ j + 1 <= Upto(h, j + 1) /\ Upto(h, j + 1) <= n
    BY <1>1, <1>4, Uptos
  <2>2. h < Upto(h, 1) /\ Upto(h, 1) \in Nat /\ Upto(h, 1) <= Upto(h, j + 1)
    <3>1. j > 0 => Upto(h, 1) < Upto(h, j + 1)
      BY Uptos
    <3>. QED
      BY <3>1, Uptos
  <2>3. h < n /\ j < n
    BY <2>1, <2>2
  <2>. QED
    BY <1>4, <2>3 DEF Blocks
<1>. QED
  BY <1>1, <1>2, <1>3, <1>4

\* A block stays whole while the range grows.
LEMMA WholeStays ==
  ASSUME NEW h \in Nat, NEW j \in Nat, NEW m \in Nat, NEW n \in Nat, m <= n, Whole(h, j, m)
  PROVE  Whole(h, j, n)
<1>1. j <= j
  OBVIOUS
<1>. QED
  BY <1>1, WholeBlocks

\* The end of an odd number of blocks is the end of no larger block.
LEMMA OddEndsNoLarger ==
  ASSUME NEW h \in Nat, NEW q \in Nat, NEW g \in Nat, g > h, NEW j \in Nat
  PROVE  Upto(g, j) # Upto(h, 2 * q + 1)
<1>1. \E e \in Nat : Upto(g, j) = Upto(h, 2 * e) /\ j <= e
  BY LargerIsEven
<1>3. PICK e \in Nat : Upto(g, j) = Upto(h, 2 * e)
  BY <1>1
<1>2. Upto(h, 2 * e) = Upto(h, 2 * q + 1) => 2 * e = 2 * q + 1
  BY Uptos
<1>. QED
  BY <1>3, <1>2

-----------------------------------------------------------------------------
\* Sequences of any elements.
IsArray(s) == Len(s) \in Nat /\ s = [i \in 1..Len(s) |-> s[i]]
Prefix(s, t) == Len(s) \in Nat /\ Len(s) <= Len(t) /\ \A i \in 1..Len(s) : t[i] = s[i]

\* The first k elements of a sequence.
LEMMA FrontOf ==
  ASSUME NEW S, NEW s \in Seq(S), NEW k \in Nat, k <= Len(s)
  PROVE  /\ SubSeq(s, 1, k) \in Seq(S) /\ Len(SubSeq(s, 1, k)) = k
         /\ \A i \in 1..k : SubSeq(s, 1, k)[i] = s[i]
<1>1. Len(s) \in Nat
  OBVIOUS
<1>2. \A i \in 1..k : s[i] \in S
  BY <1>1
<1>3. SubSeq(s, 1, k) = [i \in 1..k |-> s[i]]
  BY <1>1
<1>. QED
  BY <1>2, <1>3

\* A sequence with one more element.
LEMMA BackOf ==
  ASSUME NEW S, NEW s \in Seq(S), NEW x \in S
  PROVE  /\ Append(s, x) \in Seq(S) /\ Len(Append(s, x)) = Len(s) + 1
         /\ Append(s, x)[Len(s) + 1] = x
         /\ \A i \in 1..Len(s) : Append(s, x)[i] = s[i]
OBVIOUS

\* An array with one more element has the array as a prefix.
LEMMA AppendArray ==
  ASSUME NEW s, IsArray(s), NEW x
  PROVE  /\ IsArray(Append(s, x)) /\ Len(Append(s, x)) = Len(s) + 1
         /\ Prefix(s, Append(s, x)) /\ Append(s, x)[Len(s) + 1] = x
<1> DEFINE S == {s[i] : i \in 1..Len(s)} \cup {x}
<1>1. Len(s) \in Nat /\ s = [i \in 1..Len(s) |-> s[i]]
  BY DEF IsArray
<1>2. s \in Seq(S) /\ x \in S
  <2>1. \A i \in 1..Len(s) : s[i] \in S
    OBVIOUS
  <2> HIDE DEF S
  <2>2. s \in [1..Len(s) -> S]
    BY <1>1, <2>1
  <2>. QED
    BY <1>1, <2>2 DEF S
<1> HIDE DEF S
<1>3. /\ Append(s, x) \in Seq(S) /\ Len(Append(s, x)) = Len(s) + 1
      /\ \A i \in 1..Len(s) : Append(s, x)[i] = s[i]
      /\ Append(s, x)[Len(s) + 1] = x
  BY <1>2
<1> DEFINE t == Append(s, x)
<1> HIDE DEF t
<1>4. t \in Seq(S)
  BY <1>3 DEF t
<1>5. IsArray(t)
  BY <1>4 DEF IsArray
<1>. QED
  BY <1>1, <1>3, <1>5 DEF Prefix, t

-----------------------------------------------------------------------------
\* The nodes of a range.  The root of a block is where it should be and is the hash of
\* the roots of its halves; there is nothing but roots of blocks.
Node(ns, h, j) == ns[Pos(h, j) + 1]
Rooted(ns, h, j) ==
  /\ Pos(h, j) < Len(ns) /\ Node(ns, h, j).height = h
  /\ \A g \in Nat : h = g + 1 =>
       Node(ns, h, j).hash = MergeHashes(Node(ns, g, 2 * j).hash, Node(ns, g, 2 * j + 1).hash)

Grown(ns, n) ==
  /\ IsArray(ns) /\ Len(ns) = 2 * n - CountOnes[n]
  /\ \A h, j \in Nat : Whole(h, j, n) => Rooted(ns, h, j)
  /\ \A p \in 0..(Len(ns) - 1) : \E h, j \in Nat : Whole(h, j, n) /\ p = Pos(h, j)

\* The peaks are the roots of adjacent blocks from 0 to n, ...
Chain(ps, hs, js, n) ==
  /\ ps \in Seq(Nat) /\ hs \in [1..Len(ps) -> Nat] /\ js \in [1..Len(ps) -> Nat]
  /\ \A i \in 1..Len(ps) : ps[i] = Pos(hs[i], js[i]) /\ Whole(hs[i], js[i], n)
  /\ Len(ps) = 0 => n = 0
  /\ Len(ps) > 0 => js[1] = 0 /\ Upto(hs[Len(ps)], js[Len(ps)] + 1) = n
  /\ \A i \in 1..(Len(ps) - 1) : Upto(hs[i], js[i] + 1) = Upto(hs[i + 1], js[i + 1])

\* ... each smaller than the one before it.
Falling(hs, m) == \A i \in 1..(m - 1) : hs[i] > hs[i + 1]
Peaked(ps, n) == \E hs, js : Chain(ps, hs, js, n) /\ Falling(hs, Len(ps))

\* While append() merges, the last two may be of one size, and of the blocks that end
\* with the new leaf the larger ones are missing.
Known(g, h, j, n) == Whole(h, j, n) \/ (Upto(h, j + 1) = n + 1 /\ h <= g)
LoopInv(ns, ps, hs, js, old, n) ==
  LET m == Len(ps)
  IN /\ Chain(ps, hs, js, n + 1) /\ m > 0
     /\ Falling(hs, m - 1) /\ (m > 1 => hs[m - 1] >= hs[m])
     /\ IsArray(ns) /\ Len(ns) = ps[m] + 1 /\ Prefix(old, ns)
     /\ \A h, j \in Nat : Known(hs[m], h, j, n) => Rooted(ns, h, j)
     /\ \A p \in 0..(Len(ns) - 1) : \E h, j \in Nat : Known(hs[m], h, j, n) /\ p = Pos(h, j)
Merging(x, old, n) == \E hs, js : LoopInv(x.nodes, x.peaks, hs, js, old, n)

\* A root stays where it is when nodes are added.
LEMMA RootedStays ==
  ASSUME NEW h \in Nat, NEW j \in Nat, NEW s, NEW t, IsArray(s), IsArray(t),
         Rooted(s, h, j), Prefix(s, t)
  PROVE  Rooted(t, h, j) /\ Node(t, h, j) = Node(s, h, j)
<1>1. Pos(h, j) \in Nat /\ Len(s) \in Nat /\ Len(t) \in Nat /\ Len(s) <= Len(t)
      /\ Pos(h, j) < Len(s)
  BY Positions DEF IsArray, Prefix, Rooted
<1>2. \A p \in Nat : p < Len(s) => t[p + 1] = s[p + 1]
  BY <1>1 DEF Prefix
<1>3. Node(t, h, j) = Node(s, h, j)
  BY <1>1, <1>2 DEF Node
<1>4. ASSUME NEW g \in Nat, h = g + 1
      PROVE  Node(t, h, j).hash
               = MergeHashes(Node(t, g, 2 * j).hash, Node(t, g, 2 * j + 1).hash)
  <2>1. /\ 2 * j \in Nat /\ 2 * j + 1 \in Nat
        /\ Pos(g, 2 * j) \in Nat /\ Pos(g, 2 * j + 1) \in Nat
        /\ Pos(g, 2 * j) < Pos(g, 2 * j + 1) /\ Pos(h, j) = Pos(g, 2 * j + 1) + 1
    <3>1. 2 * j \in Nat /\ 2 * j + 1 \in Nat /\ 2 * j < 2 * j + 1
      OBVIOUS
    <3>2. Pos(g, 2 * j) \in Nat /\ Pos(g, 2 * j + 1) \in Nat /\ Pos(g + 1, j) = Pos(g, 2 * j + 1) + 1
      BY <3>1, Positions
    <3>3. Pos(g, 2 * j) < Pos(g, 2 * j + 1)
      BY <3>1, PositionsGrow
    <3>. QED
      BY <1>4, <3>1, <3>2, <3>3
  <2>2. Node(t, g, 2 * j) = Node(s, g, 2 * j) /\ Node(t, g, 2 * j + 1) = Node(s, g, 2 * j + 1)
    <3>1. Pos(g, 2 * j) < Len(s) /\ Pos(g, 2 * j + 1) < Len(s)
      BY <1>1, <2>1
    <3>. QED
      BY <1>2, <2>1, <3>1 DEF Node
  <2>3. Node(s, h, j).hash
          = MergeHashes(Node(s, g, 2 * j).hash, Node(s, g, 2 * j + 1).hash)
    BY <1>4 DEF Rooted
  <2>. QED
    BY <1>3, <2>2, <2>3
<1>5. Pos(h, j) < Len(t) /\ Node(t, h, j).height = h
  BY <1>1, <1>3 DEF Rooted
<1>. QED
  BY <1>3, <1>4, <1>5 DEF Rooted

\* A peak after a larger one starts at an even number of its blocks.
LEMMA EvenPeak ==
  ASSUME NEW n \in Nat, NEW ps, NEW hs, NEW js, Chain(ps, hs, js, n),
         NEW i \in 1..Len(ps), i > 1 => hs[i - 1] > hs[i]
  PROVE  \E q \in Nat : js[i] = 2 * q
<1>a. ps \in Seq(Nat) /\ hs \in [1..Len(ps) -> Nat] /\ js \in [1..Len(ps) -> Nat]
  BY DEF Chain
<1>1. Len(ps) \in Nat /\ hs[i] \in Nat /\ js[i] \in Nat
  <2>1. ps \in Seq(Nat)
    BY <1>a
  <2>2. Len(ps) \in Nat
    BY ONLY <2>1
  <2>3. hs \in [1..Len(ps) -> Nat] /\ js \in [1..Len(ps) -> Nat] /\ i \in 1..Len(ps)
    BY <1>a
  <2>4. hs[i] \in Nat /\ js[i] \in Nat
    BY ONLY <2>3
  <2>. QED
    BY <2>2, <2>4
<1>2. CASE i = 1
  <2>1. js[i] = 2 * 0
    BY <1>1, <1>2 DEF Chain
  <2>. QED
    BY <2>1
<1>3. CASE i > 1
  <2>1. /\ i - 1 \in 1..(Len(ps) - 1) /\ (i - 1) + 1 = i /\ i - 1 \in 1..Len(ps)
    BY <1>1, <1>3
  <2>2. hs[i - 1] \in Nat /\ js[i - 1] \in Nat /\ hs[i - 1] > hs[i]
    BY <1>a, <1>3, <2>1
  <2>3. Upto(hs[i - 1], js[i - 1] + 1) = Upto(hs[i], js[i])
    BY <2>1 DEF Chain
  <2>4. \E e \in Nat : Upto(hs[i - 1], js[i - 1] + 1) = Upto(hs[i], 2 * e) /\ js[i - 1] + 1 <= e
    <3>1. \A g, h, j \in Nat : g > h => \E e \in Nat : Upto(g, j) = Upto(h, 2 * e) /\ j <= e
      BY LargerIsEven
    <3>2. js[i - 1] + 1 \in Nat
      BY <2>2
    <3>. QED
      BY <1>1, <2>2, <3>1, <3>2
  <2>5. PICK e \in Nat : Upto(hs[i], js[i]) = Upto(hs[i], 2 * e)
    BY <2>3, <2>4
  <2>6. js[i] = 2 * e
    <3>1. 2 * e \in Nat
      OBVIOUS
    <3>. QED
      BY <1>1, <2>5, <3>1, UptoSame
  <2>. QED
    BY <2>6
<1>. QED
  BY <1>1, <1>2, <1>3

\* append() starts its loop with the new leaf as the last peak.
LEMMA LeafPushed ==
  ASSUME NEW n \in Nat, NEW ns, NEW ps, NEW d, Grown(ns, n), Peaked(ps, n)
  PROVE  Merging([nodes |-> Append(ns, [hash |-> d, height |-> 0]),
                  peaks |-> Append(ps, Len(ns))],
                 Append(ns, [hash |-> d, height |-> 0]), n)
<1> DEFINE leaf == [hash |-> d, height |-> 0]
           t == Append(ns, leaf)
           qs == Append(ps, Len(ns))
           m == Len(ps)
<1>1. PICK hs, js : Chain(ps, hs, js, n) /\ Falling(hs, m)
  BY DEF Peaked
<1>2. ps \in Seq(Nat) /\ m \in Nat /\ hs \in [1..m -> Nat] /\ js \in [1..m -> Nat]
  BY <1>1 DEF Chain
<1>3. /\ IsArray(ns) /\ Len(ns) \in Nat
      /\ Len(ns) = 2 * n - CountOnes[n]
  BY DEF Grown, IsArray
<1>4. Pos(0, n) = Len(ns)
  <2>1. PICK c \in Nat : c = CountOnes[n]
    BY Ones
  <2>2. Pos(0, n) = (2 * n + 2) * 1 - 2 - c
    BY <2>1, Powers DEF Pos
  <2>. QED
    BY <1>3, <2>1, <2>2
<1>5. /\ IsArray(t) /\ Len(t) = Len(ns) + 1 /\ Prefix(ns, t) /\ t[Len(ns) + 1] = leaf
  BY <1>3, AppendArray
<1> HIDE DEF t
<1>6. Node(t, 0, n) = leaf /\ Rooted(t, 0, n)
  <2>1. Node(t, 0, n) = leaf
    BY <1>4, <1>5 DEF Node
  <2>2. \A g \in Nat : 0 # g + 1
    OBVIOUS
  <2>. QED
    BY <1>3, <1>4, <1>5, <2>1, <2>2 DEF Rooted
<1> DEFINE h1 == [i \in 1..(m + 1) |-> IF i <= m THEN hs[i] ELSE 0]
           j1 == [i \in 1..(m + 1) |-> IF i <= m THEN js[i] ELSE n]
<1>7. /\ qs \in Seq(Nat) /\ Len(qs) = m + 1 /\ qs[m + 1] = Len(ns)
      /\ \A i \in 1..m : qs[i] = ps[i]
  BY <1>2, <1>3
<1>8. /\ h1 \in [1..(m + 1) -> Nat] /\ j1 \in [1..(m + 1) -> Nat]
      /\ h1[m + 1] = 0 /\ j1[m + 1] = n
      /\ \A i \in 1..m : h1[i] = hs[i] /\ j1[i] = js[i]
  BY <1>2
<1> HIDE DEF qs, h1, j1
<1>9. Upto(0, n + 1) = n + 1 /\ Upto(0, n) = n /\ Whole(0, n, n + 1)
  <2>1. Upto(0, n + 1) = (n + 1) * 1 /\ Upto(0, n) = n * 1
    BY Powers DEF Upto
  <2>. QED
    BY <2>1 DEF Whole, Upto
<1>10. Chain(qs, h1, j1, n + 1)
  <2>1. \A i \in 1..(m + 1) : qs[i] = Pos(h1[i], j1[i]) /\ Whole(h1[i], j1[i], n + 1)
    <3>1. ASSUME NEW i \in 1..m
          PROVE  qs[i] = Pos(h1[i], j1[i]) /\ Whole(h1[i], j1[i], n + 1)
      <4>1. ps[i] = Pos(hs[i], js[i]) /\ Whole(hs[i], js[i], n) /\ hs[i] \in Nat /\ js[i] \in Nat
        BY <1>1, <1>2 DEF Chain
      <4>2. Whole(hs[i], js[i], n + 1)
        BY <4>1, n + 1 \in Nat, n <= n + 1, WholeStays
      <4>. QED
        BY <1>7, <1>8, <4>1, <4>2
    <3>2. qs[m + 1] = Pos(h1[m + 1], j1[m + 1]) /\ Whole(h1[m + 1], j1[m + 1], n + 1)
      BY <1>4, <1>7, <1>8, <1>9
    <3>3. \A i \in 1..(m + 1) : i \in 1..m \/ i = m + 1
      BY <1>2
    <3>. QED
      BY <3>1, <3>2, <3>3
  <2>2. j1[1] = 0
    <3>1. CASE m = 0
      BY <1>1, <1>8, <3>1 DEF Chain
    <3>2. CASE m > 0
      <4>1. js[1] = 0 /\ 1 \in 1..m
        BY <1>1, <1>2, <3>2 DEF Chain
      <4>. QED
        BY <1>8, <4>1
    <3>. QED
      BY <1>2, <3>1, <3>2
  <2>3. ASSUME NEW i \in 1..m
        PROVE  Upto(h1[i], j1[i] + 1) = Upto(h1[i + 1], j1[i + 1])
    <3>1. CASE i = m
      <4>1. Upto(hs[m], js[m] + 1) = n
        BY <1>1, <1>2, <3>1 DEF Chain
      <4>. QED
        BY <1>8, <1>9, <3>1, <4>1
    <3>2. CASE i # m
      <4>1. i \in 1..(m - 1) /\ i \in 1..m /\ i + 1 \in 1..m
        BY <1>2, <3>2
      <4>2. Upto(hs[i], js[i] + 1) = Upto(hs[i + 1], js[i + 1])
        BY <1>1, <4>1 DEF Chain
      <4>. QED
        BY <1>8, <4>1, <4>2
    <3>. QED
      BY <3>1, <3>2
  <2>4. (m + 1) - 1 = m /\ m + 1 > 0
    BY <1>2
  <2>5. Upto(h1[m + 1], j1[m + 1] + 1) = n + 1
    BY <1>8, <1>9
  <2>. QED
    BY <1>7, <1>8, <2>1, <2>2, <2>3, <2>4, <2>5 DEF Chain
<1>11. Falling(h1, (m + 1) - 1) /\ (m + 1 > 1 => h1[(m + 1) - 1] >= h1[m + 1])
  <2>1. \A i \in 1..(m - 1) : hs[i] > hs[i + 1] /\ i \in 1..m /\ i + 1 \in 1..m
    BY <1>1, <1>2 DEF Falling
  <2>2. (m + 1) - 1 = m /\ (m > 0 => m \in 1..m)
    BY <1>2
  <2>. QED
    BY <1>2, <1>8, <2>1, <2>2 DEF Falling
<1>12. ASSUME NEW h \in Nat, NEW j \in Nat, Known(0, h, j, n) PROVE Rooted(t, h, j)
  <2>1. CASE Whole(h, j, n)
    <3>1. Rooted(ns, h, j)
      BY <2>1 DEF Grown
    <3>. QED
      BY <1>3, <1>5, <3>1, RootedStays
  <2>2. CASE Upto(h, j + 1) = n + 1 /\ h <= 0
    <3>1. h = 0 /\ Upto(0, j + 1) = Upto(0, n + 1)
      BY <1>9, <2>2
    <3>2. j + 1 = n + 1
      BY <3>1, j + 1 \in Nat, n + 1 \in Nat, UptoSame
    <3>. QED
      BY <1>6, <3>1, <3>2
  <2>. QED
    BY <1>12, <2>1, <2>2 DEF Known
<1>13. ASSUME NEW p \in 0..(Len(t) - 1)
       PROVE  \E h, j \in Nat : Known(0, h, j, n) /\ p = Pos(h, j)
  <2>1. CASE p < Len(ns)
    <3>1. p \in 0..(Len(ns) - 1)
      BY <1>3, <1>5, <2>1
    <3>2. PICK h \in Nat, j \in Nat : Whole(h, j, n) /\ p = Pos(h, j)
      BY <3>1 DEF Grown
    <3>. QED
      BY <3>2 DEF Known
  <2>2. CASE ~(p < Len(ns))
    <3>1. p = Pos(0, n)
      BY <1>3, <1>4, <1>5, <2>2
    <3>2. Known(0, 0, n, n)
      BY <1>9 DEF Known
    <3>. QED
      BY <3>1, <3>2
  <2>. QED
    BY <2>1, <2>2
<1>14. LoopInv(t, qs, h1, j1, t, n)
  <2>1. Prefix(t, t)
    BY <1>3, <1>5 DEF Prefix
  <2>2. Len(qs) > 0 /\ Len(t) = qs[Len(qs)] + 1
    BY <1>2, <1>5, <1>7
  <2>. QED
    BY <1>5, <1>7, <1>8, <1>10, <1>11, <1>12, <1>13, <2>1, <2>2 DEF LoopInv
<1> DEFINE x == [nodes |-> t, peaks |-> qs]
<1>15. x.nodes = t /\ x.peaks = qs
  OBVIOUS
<1> HIDE DEF x
<1>16. Merging(x, t, n)
  BY <1>14, <1>15 DEF Merging
<1>. QED
  BY <1>16 DEF x, t, qs

\* The two last peaks are roots with the heights of the chain.
LEMMA LastHeights ==
  ASSUME NEW n \in Nat, NEW ns, NEW ps, NEW hs, NEW js, NEW old,
         LoopInv(ns, ps, hs, js, old, n), NEW i \in 1..Len(ps), i >= Len(ps) - 1
  PROVE  /\ Known(hs[Len(ps)], hs[i], js[i], n) /\ Rooted(ns, hs[i], js[i])
         /\ ns[ps[i] + 1] = Node(ns, hs[i], js[i]) /\ ns[ps[i] + 1].height = hs[i]
<1> DEFINE m == Len(ps)
<1>1. /\ Chain(ps, hs, js, n + 1) /\ m > 0
      /\ \A h, j \in Nat : Known(hs[m], h, j, n) => Rooted(ns, h, j)
  BY DEF LoopInv
<1>2. /\ ps \in Seq(Nat) /\ m \in Nat /\ hs \in [1..m -> Nat] /\ js \in [1..m -> Nat]
      /\ hs[i] \in Nat /\ js[i] \in Nat /\ hs[m] \in Nat /\ js[m] \in Nat
  <2>1. ps \in Seq(Nat) /\ hs \in [1..m -> Nat] /\ js \in [1..m -> Nat]
    BY <1>1 DEF Chain
  <2>2. m \in Nat /\ m \in 1..m
    BY <1>1, <2>1
  <2>. QED
    BY <2>1, <2>2
<1>3. ps[i] = Pos(hs[i], js[i])
  BY <1>1 DEF Chain
<1>4. Upto(hs[m], js[m] + 1) = n + 1
  BY <1>1 DEF Chain
<1>5. Known(hs[m], hs[i], js[i], n)
  <2>1. CASE i = m
    BY <1>2, <1>4, <2>1 DEF Known
  <2>2. CASE i = m - 1
    <3>1. Upto(hs[i], js[i] + 1) = Upto(hs[m], js[m])
      <4>1. i \in 1..(m - 1) /\ i + 1 = m
        BY <1>2, <2>2
      <4>. QED
        BY <1>1, <4>1 DEF Chain
    <3>2. Upto(hs[m], js[m]) < Upto(hs[m], js[m] + 1) /\ Upto(hs[m], js[m]) \in Nat
      <4>1. js[m] + 1 \in Nat /\ js[m] < js[m] + 1
        BY <1>2
      <4>. QED
        BY <1>2, <4>1, UptoGrows
    <3>3. Upto(hs[i], js[i] + 1) <= n
      BY <1>4, <3>1, <3>2
    <3>4. Whole(hs[i], js[i], n)
      BY <3>3 DEF Whole, Upto
    <3>. QED
      BY <3>4 DEF Known
  <2>. QED
    BY <1>2, <2>1, <2>2
<1>6. Rooted(ns, hs[i], js[i])
  BY <1>1, <1>2, <1>5
<1>. QED
  BY <1>3, <1>5, <1>6 DEF Node, Rooted

\* The parent of two last peaks of one size is the root of the block of both.
Pair(ps, hs, js, g, q) ==
  /\ Len(ps) > 1
  /\ hs[Len(ps)] = g /\ js[Len(ps)] = 2 * q + 1
  /\ hs[Len(ps) - 1] = g /\ js[Len(ps) - 1] = 2 * q
ParentOf(ns, g, q, parent) ==
  /\ parent.height = g + 1
  /\ parent.hash = MergeHashes(Node(ns, g, 2 * q).hash, Node(ns, g, 2 * q + 1).hash)
LoopNodes(ns, t, g, q, old, n) ==
  /\ IsArray(t) /\ Len(t) = Len(ns) + 1
  /\ Len(ns) = Pos(g + 1, q) /\ Len(ns) \in Nat
  /\ Prefix(old, t) /\ Upto(g + 1, q + 1) = n + 1
  /\ \A h, j \in Nat : Known(g + 1, h, j, n) => Rooted(t, h, j)
  /\ \A p \in 0..(Len(t) - 1) : \E h, j \in Nat : Known(g + 1, h, j, n) /\ p = Pos(h, j)

\* Pushing the parent of the two last peaks in append() adds one root, and every other
\* node stays where it is.
LEMMA ParentPushed ==
  ASSUME NEW n \in Nat, NEW ns, NEW ps, NEW hs, NEW js, NEW old, NEW q \in Nat, NEW g \in Nat,
         LoopInv(ns, ps, hs, js, old, n), Pair(ps, hs, js, g, q),
         NEW parent, ParentOf(ns, g, q, parent)
  PROVE  LoopNodes(ns, Append(ns, parent), g, q, old, n)
<1> DEFINE m == Len(ps)
           t == Append(ns, parent)
<1>a. /\ m > 1 /\ hs[m] = g /\ js[m] = 2 * q + 1 /\ hs[m - 1] = g /\ js[m - 1] = 2 * q
      /\ parent.height = g + 1
      /\ parent.hash = MergeHashes(Node(ns, g, 2 * q).hash, Node(ns, g, 2 * q + 1).hash)
  BY DEF Pair, ParentOf
<1>1. /\ Chain(ps, hs, js, n + 1) /\ IsArray(ns) /\ Len(ns) = ps[m] + 1 /\ Prefix(old, ns)
      /\ \A h, j \in Nat : Known(g, h, j, n) => Rooted(ns, h, j)
      /\ \A p \in 0..(Len(ns) - 1) : \E h, j \in Nat : Known(g, h, j, n) /\ p = Pos(h, j)
  BY <1>a DEF LoopInv
<1>2. ps \in Seq(Nat) /\ m \in Nat /\ m \in 1..m /\ m - 1 \in 1..m
  <2>1. ps \in Seq(Nat)
    BY <1>1 DEF Chain
  <2>. QED
    BY <1>a, <2>1
<1>3. Len(ns) = Pos(g + 1, q) /\ Len(ns) \in Nat
  <2>1. ps[m] = Pos(g, 2 * q + 1)
    BY <1>a, <1>1, <1>2 DEF Chain
  <2>. QED
    BY <1>1, <2>1, Positions, g + 1 \in Nat
<1>4. Upto(g + 1, q + 1) = n + 1
  <2>1. Upto(g, (2 * q + 1) + 1) = n + 1
    BY <1>a, <1>1, <1>2 DEF Chain
  <2>2. (2 * q + 1) + 1 = 2 * (q + 1) /\ q + 1 \in Nat
    OBVIOUS
  <2>3. Upto(g + 1, q + 1) = Upto(g, 2 * (q + 1))
    BY <2>2, Uptos
  <2>. QED
    BY <2>1, <2>2, <2>3
<1>5. IsArray(t) /\ Len(t) = Len(ns) + 1 /\ Prefix(ns, t) /\ t[Len(ns) + 1] = parent
  BY <1>1, AppendArray
<1> HIDE DEF t
<1>6. Prefix(old, t)
  <2>1. Len(old) <= Len(ns) /\ \A i \in 1..Len(old) : ns[i] = old[i]
    BY <1>1 DEF Prefix
  <2>2. \A i \in 1..Len(ns) : t[i] = ns[i]
    BY <1>5 DEF Prefix
  <2>3. PICK k \in Nat : k = Len(old)
    BY <1>1 DEF Prefix
  <2>4. Len(old) <= Len(t)
    BY <1>3, <1>5, <2>1, <2>3
  <2>5. \A i \in 1..Len(old) : i \in 1..Len(ns)
    BY <1>3, <2>1, <2>3
  <2>6. \A i \in 1..Len(old) : t[i] = old[i]
    BY ONLY <2>1, <2>2, <2>5
  <2>. QED
    BY <2>3, <2>4, <2>6 DEF Prefix
<1>7. Rooted(t, g + 1, q)
  <2>1. 2 * q \in Nat /\ 2 * q + 1 \in Nat
    OBVIOUS
  <2>2. Rooted(ns, g, 2 * q) /\ Rooted(ns, g, 2 * q + 1)
    <3>1. m >= Len(ps) - 1 /\ m - 1 >= Len(ps) - 1
      BY <1>2
    <3>2. Rooted(ns, hs[m], js[m])
      BY <1>2, <3>1, LastHeights
    <3>3. Rooted(ns, hs[m - 1], js[m - 1])
      BY <1>2, <3>1, LastHeights
    <3>. QED
      BY <1>a, <3>2, <3>3
  <2>3. Node(t, g, 2 * q) = Node(ns, g, 2 * q) /\ Node(t, g, 2 * q + 1) = Node(ns, g, 2 * q + 1)
    BY <1>1, <1>5, <2>1, <2>2, RootedStays
  <2>4. Node(t, g + 1, q) = parent
    BY <1>3, <1>5 DEF Node
  <2>5. ASSUME NEW f \in Nat, g + 1 = f + 1
        PROVE  Node(t, g + 1, q).hash
                 = MergeHashes(Node(t, f, 2 * q).hash, Node(t, f, 2 * q + 1).hash)
    <3>1. f = g
      BY <2>5
    <3>. QED
      BY <1>a, <2>3, <2>4, <3>1
  <2>6. Pos(g + 1, q) < Len(t)
    BY <1>3, <1>5
  <2>. QED
    BY <1>a, <2>4, <2>5, <2>6 DEF Rooted
<1>8. ASSUME NEW h \in Nat, NEW j \in Nat, Known(g + 1, h, j, n) PROVE Rooted(t, h, j)
  <2>1. CASE Known(g, h, j, n)
    <3>1. Rooted(ns, h, j)
      BY <1>1, <2>1
    <3>. QED
      BY <1>1, <1>5, <3>1, RootedStays
  <2>2. CASE ~Known(g, h, j, n)
    <3>1. h = g + 1 /\ Upto(h, j + 1) = n + 1
      BY <1>8, <2>2 DEF Known
    <3>2. j + 1 = q + 1
      BY <1>4, <3>1, g + 1 \in Nat, j + 1 \in Nat, q + 1 \in Nat, UptoSame
    <3>. QED
      BY <1>7, <3>1, <3>2
  <2>. QED
    BY <2>1, <2>2
<1>9. ASSUME NEW p \in 0..(Len(t) - 1)
      PROVE  \E h, j \in Nat : Known(g + 1, h, j, n) /\ p = Pos(h, j)
  <2>1. CASE p < Len(ns)
    <3>1. p \in 0..(Len(ns) - 1)
      BY <1>3, <1>5, <2>1
    <3>2. PICK h \in Nat, j \in Nat : Known(g, h, j, n) /\ p = Pos(h, j)
      BY <1>1, <3>1
    <3>3. Known(g + 1, h, j, n)
      BY <3>2 DEF Known
    <3>. QED
      BY <3>2, <3>3
  <2>2. CASE ~(p < Len(ns))
    <3>1. p = Pos(g + 1, q)
      BY <1>3, <1>5, <2>2
    <3>2. Known(g + 1, g + 1, q, n)
      BY <1>4 DEF Known
    <3>. QED
      BY <3>1, <3>2, g + 1 \in Nat
  <2>. QED
    BY <2>1, <2>2
<1>. QED
  BY <1>3, <1>4, <1>5, <1>6, <1>8, <1>9 DEF t, LoopNodes

\* One turn of the loop: two last peaks of one size are replaced by their parent.
LEMMA TurnMerges ==
  ASSUME NEW n \in Nat, NEW x, NEW old, NEW hs, NEW js,
         LoopInv(x.nodes, x.peaks, hs, js, old, n),
         Len(x.peaks) > 1, hs[Len(x.peaks) - 1] = hs[Len(x.peaks)]
  PROVE  Merging(MergeOnce(x), old, n) /\ Len(MergeOnce(x).peaks) = Len(x.peaks) - 1
<1> DEFINE ns == x.nodes
           ps == x.peaks
           m == Len(ps)
           g == hs[m]
<1>1. /\ Chain(ps, hs, js, n + 1) /\ Falling(hs, m - 1)
      /\ IsArray(ns) /\ Len(ns) = ps[m] + 1
  BY DEF LoopInv
<1>2. /\ ps \in Seq(Nat) /\ hs \in [1..m -> Nat] /\ js \in [1..m -> Nat]
      /\ m \in Nat /\ m > 1 /\ m \in 1..m /\ m - 1 \in 1..m /\ m - 1 \in 1..(m - 1) /\ (m - 1) + 1 = m
  <2>1. ps \in Seq(Nat) /\ hs \in [1..m -> Nat] /\ js \in [1..m -> Nat]
    BY <1>1 DEF Chain
  <2>2. m \in Nat
    BY <2>1
  <2>. QED
    BY <2>1, <2>2
<1>3. g \in Nat /\ hs[m - 1] = g /\ js[m] \in Nat /\ js[m - 1] \in Nat
  BY <1>2
<1>4. PICK q \in Nat : js[m - 1] = 2 * q
  <2>1. m - 1 > 1 => hs[(m - 1) - 1] > hs[m - 1]
    <3>1. m - 1 > 1 => (m - 1) - 1 \in 1..((m - 1) - 1) /\ ((m - 1) - 1) + 1 = m - 1
      BY <1>2
    <3>. QED
      BY <1>1, <3>1 DEF Falling
  <2>2. PICK i \in 1..Len(ps) : i = m - 1 /\ (i > 1 => hs[i - 1] > hs[i])
    BY <1>2, <2>1
  <2>3. \E q \in Nat : js[i] = 2 * q
    BY <1>1, <2>2, n + 1 \in Nat, EvenPeak
  <2>. QED
    BY <2>2, <2>3
<1>5. js[m] = 2 * q + 1
  <2>1. Upto(g, js[m - 1] + 1) = Upto(g, js[m])
    BY <1>1, <1>2, <1>3 DEF Chain
  <2>2. js[m - 1] + 1 = js[m]
    BY <1>3, <2>1, js[m - 1] + 1 \in Nat, UptoSame
  <2>. QED
    BY <1>4, <2>2
<1> HIDE DEF ns, ps, m, g
<1>6. /\ ns[ps[m - 1] + 1] = Node(ns, g, 2 * q) /\ ns[ps[m] + 1] = Node(ns, g, 2 * q + 1)
      /\ ns[ps[m - 1] + 1].height = g /\ ns[ps[m] + 1].height = g
  <2>1. LoopInv(ns, ps, hs, js, old, n) /\ m = Len(ps) /\ m >= Len(ps) - 1 /\ m - 1 >= Len(ps) - 1
    BY <1>2 DEF ns, ps, m
  <2>2. ns[ps[m] + 1] = Node(ns, hs[m], js[m]) /\ ns[ps[m] + 1].height = hs[m]
    <3>1. PICK i \in 1..Len(ps) : i = m /\ i >= Len(ps) - 1
      BY <1>2, <2>1
    <3>2. ns[ps[i] + 1] = Node(ns, hs[i], js[i]) /\ ns[ps[i] + 1].height = hs[i]
      BY <2>1, <3>1, LastHeights
    <3>. QED
      BY <3>1, <3>2
  <2>3. ns[ps[m - 1] + 1] = Node(ns, hs[m - 1], js[m - 1])
        /\ ns[ps[m - 1] + 1].height = hs[m - 1]
    <3>1. PICK i \in 1..Len(ps) : i = m - 1 /\ i >= Len(ps) - 1
      BY <1>2, <2>1
    <3>2. ns[ps[i] + 1] = Node(ns, hs[i], js[i]) /\ ns[ps[i] + 1].height = hs[i]
      BY <2>1, <3>1, LastHeights
    <3>. QED
      BY <3>1, <3>2
  <2>. QED
    BY <1>3, <1>4, <1>5, <2>2, <2>3 DEF g
<1> DEFINE parent == [hash |-> MergeHashes(Node(ns, g, 2 * q).hash, Node(ns, g, 2 * q + 1).hash),
                      height |-> g + 1]
           t == Append(ns, parent)
           qs == Append(SubSeq(ps, 1, m - 2), Len(ns))
<1>7. MergeOnce(x) = [nodes |-> t, peaks |-> qs]
  <2> DEFINE l == ns[ps[m - 1] + 1]
             r == ns[ps[m] + 1]
  <2>1. m >= 2 /\ l.height = r.height
    BY <1>2, <1>6
  <2>2. MergeOnce(x) = [nodes |-> Append(ns, [hash |-> MergeHashes(l.hash, r.hash),
                                              height |-> l.height + 1]),
                        peaks |-> qs]
    BY <2>1 DEF MergeOnce, ns, ps, m
  <2>3. MergeHashes(l.hash, r.hash)
          = MergeHashes(Node(ns, g, 2 * q).hash, Node(ns, g, 2 * q + 1).hash)
        /\ l.height + 1 = g + 1
    BY <1>6
  <2> HIDE DEF l, r, qs
  <2>. QED
    BY <2>2, <2>3
<1>8. /\ IsArray(t) /\ Len(t) = Len(ns) + 1
      /\ Len(ns) = Pos(g + 1, q) /\ Len(ns) \in Nat
      /\ Prefix(old, t) /\ Upto(g + 1, q + 1) = n + 1
      /\ \A h, j \in Nat : Known(g + 1, h, j, n) => Rooted(t, h, j)
      /\ \A p \in 0..(Len(t) - 1) : \E h, j \in Nat : Known(g + 1, h, j, n) /\ p = Pos(h, j)
  <2>1. ParentOf(ns, g, q, parent)
    BY DEF ParentOf
  <2>2. LoopInv(ns, ps, hs, js, old, n)
    BY DEF ns, ps
  <2>3. Pair(ps, hs, js, g, q)
    BY <1>2, <1>3, <1>4, <1>5 DEF Pair, m, g
  <2> HIDE DEF parent
  <2>4. LoopNodes(ns, t, g, q, old, n)
    BY <1>3, <2>1, <2>2, <2>3, ParentPushed
  <2>. QED
    BY <2>4 DEF LoopNodes
<1>9. /\ qs \in Seq(Nat) /\ Len(qs) = m - 1 /\ qs[m - 1] = Len(ns)
      /\ \A i \in 1..(m - 2) : qs[i] = ps[i]
  <2>1. PICK s \in Seq(Nat) : s = SubSeq(ps, 1, m - 2) /\ Len(s) = m - 2
                              /\ \A i \in 1..(m - 2) : s[i] = ps[i]
    <3>a. m = Len(ps) /\ m \in Nat /\ m > 1
      BY <1>2 DEF m
    <3>1. PICK k \in Nat : k = m - 2 /\ k <= Len(ps)
      BY ONLY <3>a
    <3>2. /\ SubSeq(ps, 1, k) \in Seq(Nat) /\ Len(SubSeq(ps, 1, k)) = k
          /\ \A i \in 1..k : SubSeq(ps, 1, k)[i] = ps[i]
      BY <1>2, <3>1, FrontOf
    <3>. QED
      BY <3>1, <3>2
  <2>2. qs = Append(s, Len(ns))
    BY <2>1
  <2>3. PICK k \in Nat : k = m - 2 /\ k + 1 = m - 1
    BY <1>2
  <2>4. /\ Append(s, Len(ns)) \in Seq(Nat) /\ Len(Append(s, Len(ns))) = k + 1
        /\ Append(s, Len(ns))[k + 1] = Len(ns)
        /\ \A i \in 1..k : Append(s, Len(ns))[i] = s[i]
    <3>1. Len(s) = k /\ Len(ns) \in Nat
      BY <1>8, <2>1, <2>3
    <3>. QED
      BY <3>1, BackOf
  <2> HIDE DEF qs
  <2>. QED
    BY <2>1, <2>2, <2>3, <2>4
<1> DEFINE h1 == [i \in 1..(m - 1) |-> IF i = m - 1 THEN g + 1 ELSE hs[i]]
           j1 == [i \in 1..(m - 1) |-> IF i = m - 1 THEN q ELSE js[i]]
<1>10. /\ h1 \in [1..(m - 1) -> Nat] /\ j1 \in [1..(m - 1) -> Nat]
       /\ h1[m - 1] = g + 1 /\ j1[m - 1] = q
       /\ \A i \in 1..(m - 2) : h1[i] = hs[i] /\ j1[i] = js[i]
  <2>1. ASSUME NEW i \in 1..(m - 1) PROVE hs[i] \in Nat /\ js[i] \in Nat
    <3>1. m \in Nat /\ hs \in [1..m -> Nat] /\ js \in [1..m -> Nat]
      BY <1>2
    <3>2. i \in 1..m
      BY <3>1
    <3>. QED
      BY ONLY <3>1, <3>2
  <2>2. \A i \in 1..(m - 2) : i \in 1..(m - 1) /\ i # m - 1
    BY <1>2
  <2>3. g + 1 \in Nat /\ q \in Nat /\ m - 1 \in 1..(m - 1)
    BY <1>2, <1>3
  <2>. QED
    BY <2>1, <2>2, <2>3
<1> HIDE DEF parent, t, qs, h1, j1
<1>11. Chain(qs, h1, j1, n + 1)
  <2>1. ASSUME NEW i \in 1..(m - 1)
        PROVE  qs[i] = Pos(h1[i], j1[i]) /\ Whole(h1[i], j1[i], n + 1)
    <3>1. CASE i = m - 1
      <4>1. Whole(g + 1, q, n + 1)
        BY <1>8 DEF Whole, Upto
      <4>. QED
        BY <1>8, <1>9, <1>10, <3>1, <4>1
    <3>2. CASE i # m - 1
      <4>1. i \in 1..(m - 2) /\ i \in 1..m
        BY <1>2, <3>2
      <4>2. ps[i] = Pos(hs[i], js[i]) /\ Whole(hs[i], js[i], n + 1)
        BY <1>1, <4>1 DEF Chain, m
      <4>. QED
        BY <1>9, <1>10, <4>1, <4>2
    <3>. QED
      BY <3>1, <3>2
  <2>2. j1[1] = 0
    <3>1. js[1] = 0
      BY <1>1, <1>2 DEF Chain, m
    <3>2. CASE m = 2
      BY <1>4, <1>10, <3>1, <3>2
    <3>3. CASE m # 2
      <4>1. 1 \in 1..(m - 2)
        BY <1>2, <3>3
      <4>. QED
        BY <1>10, <3>1, <4>1
    <3>. QED
      BY <3>2, <3>3
  <2>3. ASSUME NEW i \in 1..(m - 2)
        PROVE  Upto(h1[i], j1[i] + 1) = Upto(h1[i + 1], j1[i + 1])
    <3>1. Upto(hs[i], js[i] + 1) = Upto(hs[i + 1], js[i + 1])
      <4>1. i \in 1..(m - 1)
        BY <1>2
      <4>. QED
        BY <1>1, <4>1 DEF Chain, m
    <3>2. CASE i = m - 2
      <4>1. i + 1 = m - 1
        BY <1>2, <3>2
      <4>2. Upto(g + 1, q) = Upto(g, 2 * q)
        BY <1>3, Uptos
      <4>. QED
        BY <1>3, <1>4, <1>10, <3>1, <4>1, <4>2
    <3>3. CASE i # m - 2
      <4>1. i + 1 \in 1..(m - 2)
        BY <1>2, <3>3
      <4>. QED
        BY <1>10, <3>1, <4>1
    <3>. QED
      BY <3>2, <3>3
  <2>4. (m - 1) - 1 = m - 2 /\ m - 1 > 0
    BY <1>2
  <2>5. Upto(h1[m - 1], j1[m - 1] + 1) = n + 1
    BY <1>8, <1>10
  <2>. QED
    BY <1>9, <1>10, <2>1, <2>2, <2>3, <2>4, <2>5 DEF Chain
<1>12. Falling(h1, (m - 1) - 1) /\ (m - 1 > 1 => h1[(m - 1) - 1] >= h1[m - 1])
  <2>1. \A i \in 1..((m - 1) - 1) : hs[i] > hs[i + 1]
    BY <1>1 DEF Falling
  <2>2. ASSUME NEW i \in 1..(((m - 1) - 1) - 1) PROVE h1[i] > h1[i + 1]
    <3>1. i \in 1..(m - 2) /\ i + 1 \in 1..(m - 2) /\ i \in 1..((m - 1) - 1)
      BY <1>2
    <3>. QED
      BY <1>10, <2>1, <3>1
  <2>3. ASSUME m - 1 > 1 PROVE h1[(m - 1) - 1] >= h1[m - 1]
    <3>1. /\ (m - 1) - 1 \in 1..(m - 2) /\ (m - 1) - 1 \in 1..((m - 1) - 1)
          /\ ((m - 1) - 1) + 1 = m - 1 /\ (m - 1) - 1 \in 1..m
      BY <1>2, <2>3
    <3>2. hs[(m - 1) - 1] > g /\ h1[(m - 1) - 1] = hs[(m - 1) - 1] /\ hs[(m - 1) - 1] \in Nat
      BY <1>2, <1>3, <1>10, <2>1, <3>1
    <3>. QED
      BY <1>3, <1>10, <3>2
  <2>. QED
    BY <2>2, <2>3 DEF Falling
<1>13. LoopInv(t, qs, h1, j1, old, n)
  <2>1. Len(qs) > 0 /\ Len(t) = qs[Len(qs)] + 1
    BY <1>2, <1>8, <1>9
  <2>. QED
    BY <1>8, <1>9, <1>10, <1>11, <1>12, <2>1 DEF LoopInv
<1>14. MergeOnce(x).nodes = t /\ MergeOnce(x).peaks = qs
  BY <1>7
<1>15. Merging(MergeOnce(x), old, n)
  BY <1>13, <1>14 DEF Merging
<1>. QED
  BY <1>9, <1>14, <1>15 DEF m, ps

\* The loop ends with the peaks in falling order, and then the range is as it should be.
LEMMA TurnsEnd ==
  ASSUME NEW n \in Nat, NEW ns, NEW ps, NEW hs, NEW js, NEW old,
         LoopInv(ns, ps, hs, js, old, n), Len(ps) > 1 => hs[Len(ps) - 1] # hs[Len(ps)]
  PROVE  Grown(ns, n + 1) /\ Peaked(ps, n + 1) /\ Prefix(old, ns)
<1> DEFINE m == Len(ps)
           g == hs[m]
<1>1. /\ Chain(ps, hs, js, n + 1) /\ Falling(hs, m - 1) /\ m > 0 /\ (m > 1 => hs[m - 1] >= hs[m])
      /\ IsArray(ns) /\ Len(ns) = ps[m] + 1 /\ Prefix(old, ns)
      /\ \A h, j \in Nat : Known(g, h, j, n) => Rooted(ns, h, j)
      /\ \A p \in 0..(Len(ns) - 1) : \E h, j \in Nat : Known(g, h, j, n) /\ p = Pos(h, j)
  BY DEF LoopInv
<1>2. /\ ps \in Seq(Nat) /\ hs \in [1..m -> Nat] /\ js \in [1..m -> Nat]
      /\ m \in Nat /\ m \in 1..m /\ g \in Nat /\ js[m] \in Nat
  <2>1. ps \in Seq(Nat) /\ hs \in [1..m -> Nat] /\ js \in [1..m -> Nat]
    BY <1>1 DEF Chain
  <2>2. m \in Nat /\ m \in 1..m
    BY <1>1, <2>1
  <2>. QED
    BY <2>1, <2>2
<1>3. ASSUME m > 1 PROVE hs[m - 1] > hs[m]
  <2>1. PICK i \in 1..m : i = m - 1
    BY <1>2, <1>3
  <2>2. hs[i] \in Nat /\ hs[m] \in Nat
    BY <1>2
  <2>3. hs[i] >= hs[m] /\ hs[i] # hs[m]
    BY <1>1, <1>3, <2>1
  <2>4. hs[i] > hs[m]
    BY <2>2, <2>3
  <2>. QED
    BY <2>1, <2>4
<1>4. Falling(hs, m)
  <2>1. ASSUME NEW i \in 1..(m - 1) PROVE hs[i] > hs[i + 1]
    <3>1. CASE i = m - 1
      <4>1. i + 1 = m /\ m > 1
        BY <1>2, <3>1
      <4>. QED
        BY <1>3, <3>1, <4>1
    <3>2. CASE i # m - 1
      <4>1. i \in 1..((m - 1) - 1)
        BY <1>2, <3>2
      <4>. QED
        BY <1>1, <4>1 DEF Falling
    <3>. QED
      BY <3>1, <3>2
  <2>. QED
    BY <2>1 DEF Falling
<1>5. PICK q \in Nat : js[m] = 2 * q
  <2>1. PICK i \in 1..Len(ps) : i = m /\ (i > 1 => hs[i - 1] > hs[i])
    BY <1>2, <1>3
  <2>2. \E q \in Nat : js[i] = 2 * q
    BY <1>1, <2>1, n + 1 \in Nat, EvenPeak
  <2>. QED
    BY <2>1, <2>2
<1>6. Upto(g, 2 * q + 1) = n + 1 /\ ps[m] = Pos(g, 2 * q)
  BY <1>1, <1>2, <1>5 DEF Chain
<1> HIDE DEF g
<1>7. Len(ns) = 2 * (n + 1) - CountOnes[n + 1]
  <2>1. PICK t \in Nat : t = TwoTo[g]
    BY <1>2, Powers
  <2>2. PICK c \in Nat : c = CountOnes[q]
    BY Ones
  <2>3. CountOnes[2 * q] = c /\ CountOnes[2 * q + 1] = c + 1
    BY <2>2, Ones
  <2>4. (2 * q + 1) * TwoTo[g] = n + 1
    BY <1>6 DEF Upto
  <2>5. CountOnes[n + 1] = c + 1
    <3>1. PICK d \in Nat : d = 2 * q + 1
      OBVIOUS
    <3>2. CountOnes[d * TwoTo[g]] = CountOnes[d]
      BY <1>2, OnesShift
    <3>. QED
      BY <2>3, <2>4, <3>1, <3>2
  <2>6. Len(ns) = ((2 * (2 * q) + 2) * t - 2 - c) + 1
    BY <1>1, <1>6, <2>1, <2>3 DEF Pos
  <2>7. (2 * (2 * q) + 2) * t = 2 * ((2 * q + 1) * t) /\ (2 * q + 1) * t = n + 1
    BY <2>1, <2>4
  <2>. QED
    BY ONLY <2>5, <2>6, <2>7, n \in Nat, c \in Nat
<1>8. ASSUME NEW h \in Nat, NEW j \in Nat, Whole(h, j, n + 1) PROVE Rooted(ns, h, j)
  <2>1. Upto(h, j + 1) <= n + 1 /\ Upto(h, j + 1) \in Nat
    BY <1>8, j + 1 \in Nat, Uptos DEF Whole, Upto
  <2>2. CASE Upto(h, j + 1) <= n
    <3>1. Whole(h, j, n)
      BY <2>2 DEF Whole, Upto
    <3>. QED
      BY <1>1, <3>1 DEF Known
  <2>3. CASE Upto(h, j + 1) = n + 1
    <3>1. ~(h > g)
      <4>1. h > g => Upto(h, j + 1) # Upto(g, 2 * q + 1)
        BY <1>2, j + 1 \in Nat, OddEndsNoLarger
      <4>. QED
        BY <1>6, <2>3, <4>1
    <3>2. h <= g
      BY <1>2, <3>1
    <3>. QED
      BY <1>1, <2>3, <3>2 DEF Known
  <2>. QED
    BY <2>1, <2>2, <2>3
<1>9. ASSUME NEW p \in 0..(Len(ns) - 1)
      PROVE  \E h, j \in Nat : Whole(h, j, n + 1) /\ p = Pos(h, j)
  <2>1. PICK h \in Nat, j \in Nat : Known(g, h, j, n) /\ p = Pos(h, j)
    BY <1>1
  <2>2. Whole(h, j, n + 1)
    <3>1. CASE Whole(h, j, n)
      BY <3>1, n + 1 \in Nat, n <= n + 1, WholeStays
    <3>2. CASE Upto(h, j + 1) = n + 1
      BY <3>2 DEF Whole, Upto
    <3>. QED
      BY <2>1, <3>1, <3>2 DEF Known
  <2>. QED
    BY <2>1, <2>2
<1>10. Grown(ns, n + 1)
  BY <1>1, <1>7, <1>8, <1>9 DEF Grown
<1>11. Peaked(ps, n + 1)
  BY <1>1, <1>4 DEF Peaked
<1>. QED
  BY <1>1, <1>10, <1>11

\* Last peaks of different heights are left alone.
LEMMA NothingToMerge ==
  ASSUME NEW x,
         x.nodes[x.peaks[Len(x.peaks) - 1] + 1].height # x.nodes[x.peaks[Len(x.peaks)] + 1].height
  PROVE  MergeOnce(x) = x
BY DEF MergeOnce

\* A turn merges, or there is nothing left to merge.
Ended(x, old, n) == Grown(x.nodes, n + 1) /\ Peaked(x.peaks, n + 1) /\ Prefix(old, x.nodes)
\* A turn of the loop merges two peaks or finds that the loop has ended.
LEMMA OneTurn ==
  ASSUME NEW n \in Nat, NEW x, NEW old, Merging(x, old, n)
  PROVE  /\ Len(x.peaks) \in Nat \ {0}
         /\ \/ Merging(MergeOnce(x), old, n) /\ Len(MergeOnce(x).peaks) = Len(x.peaks) - 1
            \/ MergeOnce(x) = x /\ Ended(x, old, n)
<1>1. PICK hs, js : LoopInv(x.nodes, x.peaks, hs, js, old, n)
  BY DEF Merging
<1> DEFINE m == Len(x.peaks)
<1>2. Chain(x.peaks, hs, js, n + 1) /\ m > 0
  BY <1>1 DEF LoopInv
<1>3. x.peaks \in Seq(Nat) /\ m \in Nat \ {0}
  <2>1. x.peaks \in Seq(Nat)
    BY <1>2 DEF Chain
  <2>. QED
    BY <1>2, <2>1
<1>4. CASE m > 1 /\ hs[m - 1] = hs[m]
  <2>1. Merging(MergeOnce(x), old, n) /\ Len(MergeOnce(x).peaks) = m - 1
    BY <1>1, <1>4, TurnMerges
  <2>. QED
    BY <1>3, <2>1
<1>5. CASE m > 1 => hs[m - 1] # hs[m]
  <2>1. Ended(x, old, n)
    BY <1>1, <1>5, TurnsEnd DEF Ended
  <2>2. MergeOnce(x) = x
    <3>1. CASE m = 1
      BY <3>1 DEF MergeOnce
    <3>2. CASE m > 1
      <4>1. m \in 1..Len(x.peaks) /\ m - 1 \in 1..Len(x.peaks)
            /\ m >= Len(x.peaks) - 1 /\ m - 1 >= Len(x.peaks) - 1
        BY <1>3, <3>2
      <4>2. x.nodes[x.peaks[m] + 1].height = hs[m]
        BY <1>1, <4>1, LastHeights
      <4>3. x.nodes[x.peaks[m - 1] + 1].height = hs[m - 1]
        <5>1. PICK i \in 1..Len(x.peaks) : i = m - 1 /\ i >= Len(x.peaks) - 1
          BY <4>1
        <5>2. x.nodes[x.peaks[i] + 1].height = hs[i]
          BY <1>1, <5>1, LastHeights
        <5>. QED
          BY <5>1, <5>2
      <4>. QED
        <5>1. x.nodes[x.peaks[m - 1] + 1].height # x.nodes[x.peaks[m] + 1].height
          BY <1>5, <3>2, <4>2, <4>3
        <5>. QED
          BY <5>1, NothingToMerge
    <3>3. m = 1 \/ m > 1
      <4>1. PICK k \in Nat \ {0} : k = m
        BY <1>3
      <4>2. k = 1 \/ k > 1
        OBVIOUS
      <4>. QED
        BY <4>1, <4>2
    <3>. QED
      BY <3>1, <3>2, <3>3
  <2>. QED
    BY <1>3, <2>1, <2>2
<1>. QED
  BY <1>4, <1>5

-----------------------------------------------------------------------------
\* A sequence of turns exists and is as its definition says.
Turns(turn, len, x) ==
  turn = [k \in 0..len |-> IF k = 0 THEN x ELSE MergeOnce(turn[k - 1])]

\* The turns are defined for any number of peaks.
LEMMA TurnsExist ==
  ASSUME NEW len \in Nat, NEW x
  PROVE  \E turn : Turns(turn, len, x)
<1> DEFINE Has(k) == \E turn : Turns(turn, k, x)
           Bad == {k \in Nat : ~Has(k)}
<1>1. Has(0)
  <2> DEFINE f == [k \in 0..0 |-> x]
  <2>1. f = [k \in 0..0 |-> IF k = 0 THEN x ELSE MergeOnce(f[k - 1])]
    OBVIOUS
  <2> HIDE DEF f
  <2>. QED
    BY <2>1 DEF Turns
<1>2. ASSUME NEW k \in Nat, Has(k) PROVE Has(k + 1)
  <2>1. PICK f : Turns(f, k, x)
    BY <1>2
  <2>2. f = [i \in 0..k |-> IF i = 0 THEN x ELSE MergeOnce(f[i - 1])]
    BY <2>1 DEF Turns
  <2>3. \A i \in 0..k : f[i] = IF i = 0 THEN x ELSE MergeOnce(f[i - 1])
    BY <2>2
  <2> DEFINE g == [i \in 0..(k + 1) |-> IF i <= k THEN f[i] ELSE MergeOnce(f[k])]
  <2>4. ASSUME NEW i \in 0..(k + 1)
        PROVE  g[i] = IF i = 0 THEN x ELSE MergeOnce(g[i - 1])
    <3>1. CASE i <= k
      <4>1. i \in 0..k /\ g[i] = f[i] /\ (i # 0 => g[i - 1] = f[i - 1])
        BY <3>1
      <4>. QED
        BY <2>3, <4>1
    <3>2. CASE i = k + 1
      <4>1. g[i] = MergeOnce(f[k]) /\ g[i - 1] = f[k] /\ i # 0
        BY <3>2
      <4>. QED
        BY <4>1
    <3>. QED
      BY <3>1, <3>2
  <2>5. g = [i \in 0..(k + 1) |-> g[i]]
    OBVIOUS
  <2> HIDE DEF g
  <2>6. g = [i \in 0..(k + 1) |-> IF i = 0 THEN x ELSE MergeOnce(g[i - 1])]
    BY <2>4, <2>5
  <2>. QED
    BY <2>6 DEF Turns
<1> HIDE DEF Has
<1>3. ASSUME Bad # {} PROVE FALSE
  <2>1. PICK b \in Bad : \A c \in Bad : b <= c
    BY <1>3, SmallestOf
  <2>2. b \in Nat /\ ~Has(b)
    BY <2>1
  <2>3. PICK c \in Nat : b = c + 1
    BY <1>1, <2>2
  <2>4. Has(c)
    BY <2>1, <2>3
  <2>. QED
    BY <1>2, <2>2, <2>3, <2>4
<1>4. Has(len)
  BY <1>3
<1>. QED
  BY <1>4 DEF Has

\* append() keeps the range as it should be and what was in it where it was.
LEMMA LoopEnds ==
  ASSUME NEW n \in Nat, NEW x, NEW old, Merging(x, old, n)
  PROVE  Ended(MergePeaks(x), old, n)
<1> DEFINE m == Len(x.peaks)
<1>1. m \in Nat \ {0}
  BY OneTurn
<1>2. PICK turn : Turns(turn, m, x) /\ MergePeaks(x) = turn[m]
  <2> DEFINE Is(f) == f = [k \in 0..m |-> IF k = 0 THEN x ELSE MergeOnce(f[k - 1])]
             all == CHOOSE f : Is(f)
  <2>1. PICK f : Is(f)
    <3>1. \E f : Turns(f, m, x)
      BY <1>1, TurnsExist
    <3>. QED
      BY <3>1 DEF Turns
  <2>2. MergePeaks(x) = all[m]
    BY DEF MergePeaks
  <2> HIDE DEF Is
  <2>3. Is(all)
    BY <2>1
  <2>4. Turns(all, m, x)
    BY <2>3 DEF Is, Turns
  <2>. QED
    BY <2>2, <2>4
<1> HIDE DEF m
<1>3. \A k \in 0..m : turn[k] = IF k = 0 THEN x ELSE MergeOnce(turn[k - 1])
  <2>1. turn = [k \in 0..m |-> IF k = 0 THEN x ELSE MergeOnce(turn[k - 1])]
    BY <1>2 DEF Turns
  <2>. QED
    BY <2>1
<1> DEFINE Done(y) == MergeOnce(y) = y /\ Ended(y, old, n)
           Good(k) == \/ Merging(turn[k], old, n) /\ Len(turn[k].peaks) = m - k
                      \/ Done(turn[k])
           Bad == {k \in Nat : k <= m /\ ~Good(k)}
<1>4. Good(0)
  BY <1>1, <1>3 DEF m
<1>5. ASSUME NEW k \in 0..(m - 1), Good(k) PROVE Good(k + 1)
  <2>1. turn[k + 1] = MergeOnce(turn[k])
    <3>1. k + 1 \in 0..m /\ k + 1 # 0 /\ (k + 1) - 1 = k
      BY <1>1
    <3>. QED
      BY <1>3, <3>1
  <2>2. CASE Done(turn[k])
    BY <2>1, <2>2
  <2>3. CASE Merging(turn[k], old, n) /\ Len(turn[k].peaks) = m - k
    <3>1. \/ Merging(MergeOnce(turn[k]), old, n)
             /\ Len(MergeOnce(turn[k]).peaks) = Len(turn[k].peaks) - 1
          \/ Done(turn[k])
      BY <2>3, OneTurn
    <3>2. (m - k) - 1 = m - (k + 1)
      BY <1>1
    <3>. QED
      BY <2>1, <2>2, <2>3, <3>1, <3>2
  <2>. QED
    BY <1>5, <2>2, <2>3
<1>6. Good(m) => Ended(MergePeaks(x), old, n)
  <2>1. ASSUME Merging(turn[m], old, n) PROVE Len(turn[m].peaks) # m - m
    <3>1. Len(turn[m].peaks) \in Nat \ {0}
      BY <2>1, OneTurn
    <3>. QED
      BY <1>1, <3>1
  <2>. QED
    BY <1>2, <2>1
<1> HIDE DEF Good
<1>7. ASSUME Bad # {} PROVE FALSE
  <2>1. PICK b \in Bad : \A c \in Bad : b <= c
    BY <1>1, <1>7, SmallestOf
  <2>2. b \in 0..m /\ ~Good(b)
    BY <2>1
  <2>3. PICK c \in 0..(m - 1) : b = c + 1
    BY <1>1, <1>4, <2>2
  <2>4. c \in 0..m /\ c < b
    BY <1>1, <2>3
  <2>5. Good(c)
    BY <2>1, <2>4
  <2>. QED
    BY <1>5, <2>2, <2>3, <2>5
<1>8. Good(m)
  BY <1>1, <1>7
<1>. QED
  BY <1>6, <1>8

-----------------------------------------------------------------------------
\* The shape of the range: the nodes are the roots of all the blocks of leaves, each
\* where leaf_node_pos() and the search for siblings look for it, and the peaks are the
\* roots of the blocks of the digits of leaf_count.
MmrShape ==
  /\ leaf_count \in Nat /\ Grown(nodes, leaf_count) /\ Peaked(peaks, leaf_count)

\* What append() does to it.
LEMMA AppendShape ==
  ASSUME MmrShape, NEW h, AppendLeaf(h)
  PROVE  /\ MmrShape' /\ leaf_count' = leaf_count + 1
         /\ Prefix(nodes, nodes')
         /\ nodes'[LeafNodePos(leaf_count) + 1] = [hash |-> h, height |-> 0]
<1> DEFINE leaf == [hash |-> h, height |-> 0]
           old == Append(nodes, leaf)
           x == [nodes |-> old, peaks |-> Append(peaks, Len(nodes))]
<1>1. leaf_count \in Nat /\ Grown(nodes, leaf_count) /\ Peaked(peaks, leaf_count)
  BY DEF MmrShape
<1>2. nodes' = MergePeaks(x).nodes /\ peaks' = MergePeaks(x).peaks /\ leaf_count' = leaf_count + 1
  BY DEF AppendLeaf
<1>3. Merging(x, old, leaf_count)
  BY <1>1, LeafPushed
<1>4. IsArray(nodes) /\ Len(nodes) = 2 * leaf_count - CountOnes[leaf_count]
  BY <1>1 DEF Grown
<1>5. /\ Len(nodes) \in Nat /\ Len(old) = Len(nodes) + 1
      /\ Prefix(nodes, old) /\ old[Len(nodes) + 1] = leaf
  BY <1>4, AppendArray DEF IsArray
<1> HIDE DEF x, leaf, old
<1>6. Grown(nodes', leaf_count + 1) /\ Peaked(peaks', leaf_count + 1) /\ Prefix(old, nodes')
  <2>1. Ended(MergePeaks(x), old, leaf_count)
    BY <1>1, <1>3, LoopEnds
  <2>. QED
    BY <1>2, <2>1 DEF Ended
<1>7. MmrShape'
  BY <1>1, <1>2, <1>6 DEF MmrShape
<1>8. Prefix(nodes, nodes')
  <2>1. \A i \in 1..Len(nodes) : i \in 1..Len(old)
    BY <1>5
  <2>2. \A i \in 1..Len(nodes) : nodes'[i] = nodes[i]
    BY <1>5, <1>6, <2>1 DEF Prefix
  <2>3. Len(nodes) <= Len(nodes')
    <3>1. Len(old) <= Len(nodes') /\ Len(nodes') \in Nat
      BY <1>6 DEF Prefix, Grown, IsArray
    <3>. QED
      BY <1>5, <3>1
  <2>. QED
    BY <1>5, <2>2, <2>3 DEF Prefix
<1>9. nodes'[Len(nodes) + 1] = leaf
  <2>1. Len(nodes) + 1 \in 1..Len(old)
    BY <1>5
  <2>. QED
    BY <1>5, <1>6, <2>1 DEF Prefix
<1>. QED
  BY <1>2, <1>4, <1>7, <1>8, <1>9 DEF leaf, LeafNodePos

-----------------------------------------------------------------------------
\* The search for siblings.  A node of some height is the root of a block of that size.
LEMMA HeightTells ==
  ASSUME NEW n \in Nat, NEW ns, Grown(ns, n), NEW p \in 0..(Len(ns) - 1)
  PROVE  \E j \in Nat : /\ ns[p + 1].height \in Nat /\ Whole(ns[p + 1].height, j, n)
                        /\ p = Pos(ns[p + 1].height, j)
<1>1. PICK h \in Nat, j \in Nat : Whole(h, j, n) /\ p = Pos(h, j)
  BY DEF Grown
<1>2. Rooted(ns, h, j)
  BY <1>1 DEF Grown
<1>3. ns[p + 1].height = h
  BY <1>1, <1>2 DEF Rooted, Node
<1>. QED
  BY <1>1, <1>3

\* Between two neighbouring roots of a height there is no other of that height.
LEMMA NoneBetween ==
  ASSUME NEW h \in Nat, NEW i \in Nat, NEW j \in Nat,
         Pos(h, i) < Pos(h, j), Pos(h, j) < Pos(h, i + 1)
  PROVE  FALSE
<1>1. Pos(h, i) \in Nat /\ Pos(h, j) \in Nat /\ Pos(h, i + 1) \in Nat
  BY Positions, i + 1 \in Nat
<1>2. j < i => Pos(h, j) < Pos(h, i)
  BY PositionsGrow
<1>3. i + 1 < j => Pos(h, i + 1) < Pos(h, j)
  BY i + 1 \in Nat, PositionsGrow
<1>4. j = i => FALSE
  BY <1>1
<1>5. j = i + 1 => FALSE
  BY <1>1
<1>. QED
  BY <1>1, <1>2, <1>3, <1>4, <1>5

\* Whether find_sibling() would take what is at a position.
TakenAt(p, h) == p \in 0..(Len(nodes) - 1) /\ NodeAt(p).height = h

\* A node with a height in the array is the root of a whole block, ...
LEMMA TakenIsRoot ==
  ASSUME MmrShape, NEW h, NEW p, TakenAt(p, h)
  PROVE  h \in Nat /\ \E j \in Nat : Whole(h, j, leaf_count) /\ p = Pos(h, j)
<1>1. leaf_count \in Nat /\ Grown(nodes, leaf_count)
  BY DEF MmrShape
<1>2. p \in 0..(Len(nodes) - 1) /\ nodes[p + 1].height = h
  BY DEF TakenAt, NodeAt
<1>3. \E j \in Nat : /\ nodes[p + 1].height \in Nat /\ Whole(nodes[p + 1].height, j, leaf_count)
                     /\ p = Pos(nodes[p + 1].height, j)
  BY <1>1, <1>2, HeightTells
<1>. QED
  BY <1>2, <1>3

\* ... and the root of a whole block is in the array at its position.
LEMMA RootIsTaken ==
  ASSUME MmrShape, NEW h \in Nat, NEW j \in Nat, Whole(h, j, leaf_count)
  PROVE  TakenAt(Pos(h, j), h) /\ Pos(h, j) \in Nat /\ Pos(h, j) < Len(nodes) /\ Len(nodes) \in Nat
<1>1. Rooted(nodes, h, j) /\ Len(nodes) \in Nat
  BY DEF MmrShape, Grown, IsArray
<1>2. Pos(h, j) \in Nat
  BY Positions
<1>3. Pos(h, j) < Len(nodes) /\ NodeAt(Pos(h, j)).height = h
  BY <1>1 DEF Rooted, Node, NodeAt
<1>. QED
  BY <1>1, <1>2, <1>3 DEF TakenAt

\* find_sibling() takes the other half of the block of twice the size, if it is there.
LEMMA SiblingFound ==
  ASSUME MmrShape, NEW h \in Nat, NEW q \in Nat
  PROVE  /\ Whole(h, 2 * q + 1, leaf_count) =>
              /\ FindSibling(Pos(h, 2 * q), h) = Pos(h, 2 * q + 1)
              /\ FindSibling(Pos(h, 2 * q + 1), h) = Pos(h, 2 * q)
         /\ Whole(h, 2 * q, leaf_count) /\ ~Whole(h, 2 * q + 1, leaf_count) =>
              FindSibling(Pos(h, 2 * q), h) = None
<1>1. PICK far \in Nat : far = TwoTo[h + 1] - 1 /\ far > 0 /\ TwoTo[h + 1] = far + 1
  <2>1. TwoTo[h + 1] \in Nat /\ h + 1 < TwoTo[h + 1]
    BY h + 1 \in Nat, PowersGrow
  <2>. QED
    BY <2>1
<1>2. PICK len \in Nat : len = Len(nodes)
  BY DEF MmrShape, Grown, IsArray
<1>3. PICK step \in Nat : step = IF far < len THEN far ELSE len
  OBVIOUS
<1>4. \A p : FindSibling(p, h) = IF TakenAt(p + step, h) THEN p + step
                                 ELSE IF TakenAt(p - step, h) THEN p - step
                                 ELSE None
  BY <1>1, <1>2, <1>3 DEF FindSibling, TakenAt
<1>5. PICK l \in Nat, r \in Nat : l = Pos(h, 2 * q) /\ r = Pos(h, 2 * q + 1) /\ r = l + far
  <2>1. Pos(h, 2 * q) \in Nat /\ Pos(h, 2 * q + 1) \in Nat
    BY 2 * q \in Nat, 2 * q + 1 \in Nat, Positions
  <2>2. Pos(h, 2 * q + 1) = Pos(h, 2 * q) + far
    BY <1>1, Positions
  <2>. QED
    BY <2>1, <2>2
<1>6. \A p : TakenAt(p, h) => \E j \in Nat : Whole(h, j, leaf_count) /\ p = Pos(h, j)
  BY TakenIsRoot
<1>7. \A p : TakenAt(p, h) => p \in Nat /\ p < len
  BY <1>2 DEF TakenAt
<1>8. ASSUME Whole(h, 2 * q + 1, leaf_count)
      PROVE  FindSibling(l, h) = r /\ FindSibling(r, h) = l
  <2>1. Whole(h, 2 * q, leaf_count)
    BY <1>8, 2 * q \in Nat, 2 * q + 1 \in Nat, 2 * q <= 2 * q + 1, leaf_count <= leaf_count,
       WholeBlocks DEF MmrShape
  <2>2. TakenAt(r, h) /\ TakenAt(l, h) /\ r < len
    BY <1>2, <1>5, <1>8, <2>1, RootIsTaken, 2 * q \in Nat, 2 * q + 1 \in Nat
  <2>3. step = far
    BY <1>3, <1>5, <2>2
  <2>4. l + step = r /\ r - step = l
    BY <1>5, <2>3
  <2>5. ~TakenAt(r + step, h)
    <3>1. SUFFICES ASSUME TakenAt(r + step, h) PROVE FALSE
      OBVIOUS
    <3>2. PICK j \in Nat : r + step = Pos(h, j)
      BY <1>6, <3>1
    <3>3. Pos(h, 2 * q + 2) >= r + (far + 1)
      <4>1. Pos(h, 2 * q + 2) >= Pos(h, 2 * q + 1) + TwoTo[h + 1]
        BY Positions
      <4>. QED
        BY <1>1, <1>5, <4>1
    <3>4. 2 * q + 1 \in Nat /\ (2 * q + 1) + 1 = 2 * q + 2
      OBVIOUS
    <3>5. Pos(h, 2 * q + 2) \in Nat
      BY 2 * q + 2 \in Nat, Positions
    <3>6. Pos(h, 2 * q + 1) < Pos(h, j) /\ Pos(h, j) < Pos(h, 2 * q + 2)
      BY <1>1, <1>5, <2>3, <3>2, <3>3, <3>5
    <3>. QED
      BY <3>4, <3>6, NoneBetween
  <2>. QED
    BY <1>4, <2>2, <2>4, <2>5
<1>9. ASSUME Whole(h, 2 * q, leaf_count), ~Whole(h, 2 * q + 1, leaf_count)
      PROVE  FindSibling(l, h) = None
  <2>1. TakenAt(l, h) /\ l < len
    BY <1>2, <1>5, <1>9, RootIsTaken, 2 * q \in Nat
  <2>2. CASE far < len
    <3>1. step = far /\ l + step = r
      BY <1>3, <1>5, <2>2
    <3>2. ~TakenAt(r, h)
      <4>1. SUFFICES ASSUME TakenAt(r, h) PROVE FALSE
        OBVIOUS
      <4>2. PICK j \in Nat : Whole(h, j, leaf_count) /\ r = Pos(h, j)
        BY <1>6, <4>1
      <4>3. j = 2 * q + 1
        BY <1>5, <4>2, 2 * q + 1 \in Nat, PositionsDiffer
      <4>. QED
        BY <1>9, <4>2, <4>3
    <3>3. ~TakenAt(l - far, h)
      <4>1. SUFFICES ASSUME TakenAt(l - far, h) PROVE FALSE
        OBVIOUS
      <4>2. PICK j \in Nat : l - far = Pos(h, j)
        BY <1>6, <4>1
      <4>3. CASE q = 0
        <5>1. l = (far + 1) - 2
          <6>1. Pos(h, 0) = TwoTo[h + 1] - 2
            BY Positions
          <6>2. PICK e \in Nat : e = 2 * q /\ e = 0
            BY <4>3
          <6>3. l = Pos(h, e)
            BY <1>5, <6>2
          <6>. QED
            BY <1>1, <6>1, <6>2, <6>3
        <5>. QED
          BY <1>7, <4>1, <5>1
      <4>4. CASE q # 0
        <5>1. PICK p \in Nat : q = p + 1
          BY <4>4
        <5>2. Pos(h, 2 * p + 2) >= Pos(h, 2 * p + 1) + (far + 1)
          <6>1. Pos(h, 2 * p + 2) >= Pos(h, 2 * p + 1) + TwoTo[h + 1]
            BY Positions
          <6>. QED
            BY <1>1, <6>1
        <5>3. 2 * p + 1 \in Nat /\ (2 * p + 1) + 1 = 2 * p + 2 /\ 2 * p + 2 = 2 * q
          BY <5>1
        <5>4. Pos(h, 2 * p + 1) \in Nat /\ Pos(h, 2 * p + 2) = l
          BY <1>5, <5>3, Positions
        <5>5. Pos(h, 2 * p + 1) < Pos(h, j) /\ Pos(h, j) < Pos(h, 2 * p + 2)
          BY <1>1, <4>2, <5>2, <5>4
        <5>. QED
          BY <5>3, <5>5, NoneBetween
      <4>. QED
        BY <4>3, <4>4
    <3>. QED
      BY <1>4, <3>1, <3>2, <3>3
  <2>3. CASE ~(far < len)
    <3>1. step = len /\ ~(l + step < len) /\ l - step \notin Nat
      BY <1>3, <2>1, <2>3
    <3>. QED
      BY <1>4, <1>7, <3>1
  <2>. QED
    BY <2>2, <2>3
<1>. QED
  BY <1>5, <1>8, <1>9

\* find_parent() of two halves is the root of the whole.
LEMMA ParentFound ==
  ASSUME MmrShape, NEW h \in Nat, NEW q \in Nat, Whole(h, 2 * q + 1, leaf_count)
  PROVE  /\ FindParent(Pos(h, 2 * q), Pos(h, 2 * q + 1)) = Pos(h + 1, q)
         /\ FindParent(Pos(h, 2 * q + 1), Pos(h, 2 * q)) = Pos(h + 1, q)
         /\ Whole(h, 2 * q, leaf_count) /\ Whole(h + 1, q, leaf_count)
         /\ Pos(h, 2 * q) < Pos(h, 2 * q + 1)
         /\ Pos(h, 2 * q) \in Nat /\ Pos(h, 2 * q + 1) \in Nat
<1>a. leaf_count \in Nat
  BY DEF MmrShape
<1>1. 2 * q \in Nat /\ 2 * q + 1 \in Nat /\ 2 * q < 2 * q + 1
  OBVIOUS
<1>2. Whole(h, 2 * q, leaf_count) /\ Whole(h + 1, q, leaf_count)
  <2>1. Whole(h, 2 * q, leaf_count)
    BY <1>a, <1>1, leaf_count <= leaf_count, WholeBlocks
  <2>2. Whole(h + 1, q, leaf_count)
    BY <1>a, WholeBlocks
  <2>. QED
    BY <2>1, <2>2
<1>3. PICK l \in Nat, r \in Nat : l = Pos(h, 2 * q) /\ r = Pos(h, 2 * q + 1) /\ l < r
  <2>1. Pos(h, 2 * q) \in Nat /\ Pos(h, 2 * q + 1) \in Nat
    BY <1>1, Positions
  <2>2. Pos(h, 2 * q) < Pos(h, 2 * q + 1)
    BY <1>1, PositionsGrow
  <2>. QED
    BY <2>1, <2>2
<1>4. Pos(h + 1, q) = r + 1
  BY <1>3, Positions
<1>5. NodeAt(l).height = h /\ NodeAt(r).height = h
  <2>1. TakenAt(Pos(h, 2 * q), h)
    BY <1>1, <1>2, RootIsTaken
  <2>2. TakenAt(Pos(h, 2 * q + 1), h)
    BY <1>1, RootIsTaken
  <2>. QED
    BY <1>3, <2>1, <2>2 DEF TakenAt
<1>6. r + 1 < Len(nodes) /\ NodeAt(r + 1).height = h + 1
  <2>1. TakenAt(Pos(h + 1, q), h + 1) /\ Pos(h + 1, q) < Len(nodes)
    BY <1>2, h + 1 \in Nat, RootIsTaken
  <2>. QED
    BY <1>4, <2>1 DEF TakenAt
<1>7. FindParent(l, r) = r + 1
  BY <1>3, <1>5, <1>6 DEF FindParent
<1>8. FindParent(r, l) = r + 1
  BY <1>3, <1>5, <1>6 DEF FindParent
<1>. QED
  BY <1>2, <1>3, <1>4, <1>7, <1>8

-----------------------------------------------------------------------------
\* The block of a leaf at each size, and the mountain it is in.
Block(i, k) == i \div TwoTo[k]

\* The block of a leaf is the one whose ends enclose it, ...
LEMMA BlockIs ==
  ASSUME NEW i \in Nat, NEW k \in Nat, NEW q \in Nat, Upto(k, q) <= i, i < Upto(k, q + 1)
  PROVE  Block(i, k) = q
<1>1. PICK t \in Nat : t = TwoTo[k] /\ t > 0
  BY PowersGrow
<1>2. PICK x \in Nat : x = q * t
  OBVIOUS
<1>3. (q + 1) * t = x + t
  BY <1>2
<1>4. x <= i /\ i < x + t
  BY <1>1, <1>2, <1>3 DEF Upto
<1>5. PICK d \in Nat : d = i \div t
  BY <1>1
<1>6. d * t <= i /\ i < d * t + t
  BY <1>1, <1>5
<1>7. ~(d < q)
  <2>1. SUFFICES ASSUME d < q PROVE FALSE
    OBVIOUS
  <2>2. PICK e \in Nat : q = (d + 1) + e
    BY <2>1, q - (d + 1) \in Nat
  <2>3. q * t = (d * t + t) + e * t /\ e * t \in Nat /\ d * t \in Nat
    BY <2>2
  <2>. QED
    BY <1>2, <1>4, <1>6, <2>3
<1>8. ~(q < d)
  <2>1. SUFFICES ASSUME q < d PROVE FALSE
    OBVIOUS
  <2>2. PICK e \in Nat : d = (q + 1) + e
    BY <2>1, d - (q + 1) \in Nat
  <2>3. d * t = (q * t + t) + e * t /\ e * t \in Nat /\ d * t \in Nat
    BY <2>2
  <2>. QED
    BY <1>2, <1>4, <1>6, <2>3
<1>9. d = q
  BY <1>7, <1>8
<1>. QED
  BY <1>1, <1>5, <1>9 DEF Block

\* ... it does enclose it, ...
LEMMA BlockHolds ==
  ASSUME NEW i \in Nat, NEW k \in Nat
  PROVE  Block(i, k) \in Nat /\ Upto(k, Block(i, k)) <= i /\ i < Upto(k, Block(i, k) + 1)
<1>1. PICK t \in Nat : t = TwoTo[k] /\ t > 0
  BY PowersGrow
<1>2. PICK d \in Nat : d = i \div t
  BY <1>1
<1>3. d * t <= i /\ i < d * t + t
  BY <1>1, <1>2
<1>4. (d + 1) * t = d * t + t
  OBVIOUS
<1>5. Block(i, k) = d
  BY <1>1, <1>2 DEF Block
<1>. QED
  BY <1>1, <1>3, <1>4, <1>5 DEF Upto

\* ... and half its number is that of the block of twice the size.
LEMMA BlockAbove ==
  ASSUME NEW i \in Nat, NEW k \in Nat, NEW q \in Nat,
         Block(i, k) = 2 * q \/ Block(i, k) = 2 * q + 1
  PROVE  Block(i, k + 1) = q
<1>1. PICK d \in Nat : d = Block(i, k) /\ Upto(k, d) <= i /\ i < Upto(k, d + 1)
  BY BlockHolds
<1>2. Upto(k + 1, q) = Upto(k, 2 * q) /\ Upto(k + 1, q + 1) = Upto(k, 2 * (q + 1))
  BY q + 1 \in Nat, Uptos
<1>t. PICK t \in Nat : t = TwoTo[k]
  BY Powers
<1>x. PICK x \in Nat : x = q * t
  OBVIOUS
<1>3. x = q * t /\ t = TwoTo[k]
  BY <1>t, <1>x
<1>4. Upto(k, 2 * q) = 2 * x /\ Upto(k, 2 * (q + 1)) = 2 * x + 2 * t
  BY <1>3 DEF Upto
<1>5. CASE d = 2 * q
  <2>1. Upto(k, d) = 2 * x /\ Upto(k, d + 1) = 2 * x + t
    BY <1>3, <1>5 DEF Upto
  <2>2. Upto(k + 1, q) <= i /\ i < Upto(k + 1, q + 1)
    BY <1>1, <1>2, <1>3, <1>4, <2>1
  <2>. QED
    BY <2>2, k + 1 \in Nat, BlockIs
<1>6. CASE d = 2 * q + 1
  <2>1. Upto(k, d) = 2 * x + t /\ Upto(k, d + 1) = 2 * x + 2 * t
    <3>1. (2 * q + 1) * t = 2 * x + t /\ ((2 * q + 1) + 1) * t = 2 * x + 2 * t
      BY <1>x
    <3>. QED
      BY <1>t, <1>6, <3>1 DEF Upto
  <2>2. Upto(k + 1, q) <= i /\ i < Upto(k + 1, q + 1)
    BY <1>1, <1>2, <1>3, <1>4, <2>1
  <2>. QED
    BY <2>2, k + 1 \in Nat, BlockIs
<1>. QED
  BY <1>1, <1>5, <1>6

\* The mountain of a leaf: its blocks are whole up to that size, and there is no second
\* half to the block of the mountain.
Mountain(n, i, b) ==
  /\ \A k \in Nat : k <= b => Whole(k, Block(i, k), n)
  /\ b < n /\ b \in Digits(n) /\ Block(i, b) = LastBlock(n, b)
  /\ \E q \in Nat : Block(i, b) = 2 * q /\ ~Whole(b, 2 * q + 1, n)

\* Every leaf is under a mountain: its blocks are whole up to the height of the peak.
LEMMA MountainOf ==
  ASSUME NEW n \in Nat, NEW i \in Nat, i < n
  PROVE  \E b \in Nat : Mountain(n, i, b)
<1> DEFINE Cut == {k \in Nat : ~Whole(k, Block(i, k), n)}
<1>1. \A k \in Nat : Block(i, k) \in Nat
  BY BlockHolds
<1>2. Whole(0, Block(i, 0), n)
  <2>1. Upto(0, i) = i /\ Upto(0, i + 1) = i + 1
    BY Powers DEF Upto
  <2>2. Block(i, 0) = i
    BY <2>1, BlockIs
  <2>. QED
    BY <2>1, <2>2 DEF Whole, Upto
<1>3. ~Whole(n, Block(i, n), n)
  <2>1. Whole(n, Block(i, n), n) => n < n
    BY <1>1, WholeBlocks
  <2>. QED
    BY <2>1
<1>4. PICK c \in Cut : \A k \in Cut : c <= k
  <2>1. n \in Cut
    BY <1>3
  <2>. QED
    BY <2>1, SmallestOf
<1>5. PICK b \in Nat : c = b + 1
  BY <1>2, <1>4
<1>6. \A k \in Nat : k <= b => Whole(k, Block(i, k), n)
  BY <1>4, <1>5
<1>7. ~Whole(b + 1, Block(i, b + 1), n)
  BY <1>4, <1>5
<1>8. Whole(b, Block(i, b), n) /\ b < n
  <2>1. Whole(b, Block(i, b), n)
    BY <1>6
  <2>. QED
    BY <1>1, <2>1, WholeBlocks
<1>9. PICK q \in Nat : Block(i, b) = 2 * q \/ Block(i, b) = 2 * q + 1
  BY <1>1, Halves
<1>10. ~Whole(b, 2 * q + 1, n)
  <2>1. Block(i, b + 1) = q
    BY <1>9, BlockAbove
  <2>2. Whole(b + 1, q, n) <=> Whole(b, 2 * q + 1, n)
    BY WholeBlocks
  <2>. QED
    BY <1>7, <2>1, <2>2
<1>11. Block(i, b) = 2 * q
  BY <1>8, <1>9, <1>10
<1>12. Block(n, b) = 2 * q + 1
  <2>1. Upto(b, 2 * q + 1) <= n
    BY <1>8, <1>11 DEF Whole, Upto
  <2>2. n < Upto(b, (2 * q + 1) + 1)
    <3>1. Upto(b, (2 * q + 1) + 1) \in Nat
      BY (2 * q + 1) + 1 \in Nat, UptoNat
    <3>2. ~(Upto(b, (2 * q + 1) + 1) <= n)
      BY <1>10 DEF Whole, Upto
    <3>. QED
      BY <3>1, <3>2
  <2>. QED
    BY <2>1, <2>2, 2 * q + 1 \in Nat, BlockIs
<1>13. b \in Digits(n) /\ LastBlock(n, b) = 2 * q
  <2>1. (2 * q + 1) % 2 = 1 /\ (2 * q + 1) - 1 = 2 * q
    OBVIOUS
  <2>2. n \div TwoTo[b] = 2 * q + 1
    BY <1>12 DEF Block
  <2>3. b \in 0..n
    BY <1>8
  <2>. QED
    BY <2>1, <2>2, <2>3 DEF Digits, LastBlock
<1>14. Mountain(n, i, b)
  BY <1>6, <1>8, <1>10, <1>11, <1>13 DEF Mountain
<1>. QED
  BY <1>14

-----------------------------------------------------------------------------
\* The way up from a leaf, in closed form.
Other(j) == IF j % 2 = 0 THEN j + 1 ELSE j - 1
SiblingAt(ns, i, k) ==
  [hash |-> Node(ns, k, Other(Block(i, k))).hash, right |-> Block(i, k) % 2 = 0]
WayUp(ns, i, h) == [k \in 1..h |-> SiblingAt(ns, i, k - 1)]
ClimbAt(i, b, h) ==
  IF h <= b THEN [at |-> Pos(h, Block(i, h)), siblings |-> WayUp(nodes, i, h)]
  ELSE [at |-> None, siblings |-> WayUp(nodes, i, b)]

\* The way up to a height more has one sibling more.
LEMMA WayUpGrows ==
  ASSUME NEW ns, NEW i, NEW h \in Nat
  PROVE  /\ Append(WayUp(ns, i, h), SiblingAt(ns, i, h)) = WayUp(ns, i, h + 1)
         /\ Len(WayUp(ns, i, h)) = h
<1> DEFINE w == WayUp(ns, i, h)
           x == SiblingAt(ns, i, h)
<1>1. IsArray(w) /\ Len(w) = h
  <2>1. w = [k \in 1..h |-> w[k]] /\ Len(w) = h
    BY DEF WayUp
  <2>. QED
    BY <2>1 DEF IsArray
<1>2. /\ IsArray(Append(w, x)) /\ Len(Append(w, x)) = h + 1
      /\ Prefix(w, Append(w, x)) /\ Append(w, x)[h + 1] = x
  BY <1>1, AppendArray
<1>3. \A k \in 1..h : w[k] = SiblingAt(ns, i, k - 1)
  BY DEF WayUp
<1> HIDE DEF w, x
<1>4. \A k \in 1..(h + 1) : Append(w, x)[k] = SiblingAt(ns, i, k - 1)
  <2>1. ASSUME NEW k \in 1..(h + 1) PROVE Append(w, x)[k] = SiblingAt(ns, i, k - 1)
    <3>1. CASE k = h + 1
      <4>1. k - 1 = h
        BY <3>1
      <4>. QED
        BY <1>2, <3>1, <4>1 DEF x
    <3>2. CASE k # h + 1
      <4>1. k \in 1..h
        BY <3>2
      <4>. QED
        BY <1>1, <1>2, <1>3, <4>1 DEF Prefix
    <3>. QED
      BY <3>1, <3>2
  <2>. QED
    BY <2>1
<1>5. Append(w, x) = [k \in 1..(h + 1) |-> SiblingAt(ns, i, k - 1)]
  <2>1. Append(w, x) = [k \in 1..(h + 1) |-> Append(w, x)[k]]
    BY <1>2 DEF IsArray
  <2>. QED
    BY <1>4, <2>1
<1>. QED
  BY <1>1, <1>5 DEF w, x, WayUp

\* leaf_node_pos() is the position of the leaf.
LEMMA LeafPos == ASSUME NEW i \in Nat PROVE LeafNodePos(i) = Pos(0, i) /\ LeafNodePos(i) \in Nat
<1>1. PICK c \in Nat : c = CountOnes[i]
  BY Ones
<1>2. Pos(0, i) = (2 * i + 2) * 1 - 2 - c
  BY <1>1, Powers DEF Pos
<1>3. LeafNodePos(i) = Pos(0, i)
  BY <1>1, <1>2 DEF LeafNodePos
<1>. QED
  BY <1>3, Positions

\* A step of collect_siblings() finds the sibling and the parent on the way up, and at
\* the peak it finds none.
LEMMA ClimbStep ==
  ASSUME MmrShape, None \notin Nat, NEW i \in Nat, NEW b \in Nat, Mountain(leaf_count, i, b),
         NEW h \in Nat
  PROVE  ClimbOnce(ClimbAt(i, b, h), h) = ClimbAt(i, b, h + 1)
<1> DEFINE c == ClimbAt(i, b, h)
<1>a. leaf_count \in Nat
  BY DEF MmrShape
<1>1. PICK j \in Nat : j = Block(i, h)
  BY BlockHolds
<1>2. PICK q \in Nat : j = 2 * q \/ j = 2 * q + 1
  BY Halves
<1>3. Block(i, h + 1) = q
  BY <1>1, <1>2, BlockAbove
<1>4. Append(WayUp(nodes, i, h), SiblingAt(nodes, i, h)) = WayUp(nodes, i, h + 1)
  BY WayUpGrows
<1>5. CASE h < b
  <2>1. c = [at |-> Pos(h, j), siblings |-> WayUp(nodes, i, h)]
    BY <1>1, <1>5 DEF ClimbAt
  <2>2. ClimbAt(i, b, h + 1) = [at |-> Pos(h + 1, q), siblings |-> WayUp(nodes, i, h + 1)]
    BY <1>3, <1>5 DEF ClimbAt
  <2>3. Whole(h, 2 * q + 1, leaf_count)
    <3>1. Whole(h + 1, q, leaf_count)
      BY <1>3, <1>5, h + 1 \in Nat, h + 1 <= b DEF Mountain
    <3>. QED
      BY <1>a, <3>1, WholeBlocks
  <2>4. PICK l \in Nat, r \in Nat : l = Pos(h, 2 * q) /\ r = Pos(h, 2 * q + 1)
    BY <2>3, ParentFound
  <2>5. /\ l < r /\ FindParent(l, r) = Pos(h + 1, q) /\ FindParent(r, l) = Pos(h + 1, q)
        /\ FindSibling(l, h) = r /\ FindSibling(r, h) = l
    BY <2>3, <2>4, ParentFound, SiblingFound
  <2> HIDE DEF c
  <2>6. CASE j = 2 * q
    <3>1. c.at = l /\ c.siblings = WayUp(nodes, i, h) /\ c.at # None /\ FindSibling(c.at, h) = r
      BY <2>1, <2>4, <2>5, <2>6
    <3>2. ClimbOnce(c, h) = [at |-> Pos(h + 1, q),
                             siblings |-> Append(WayUp(nodes, i, h),
                                                 [hash |-> NodeAt(r).hash, right |-> r > l])]
      <4>1. r # None
        OBVIOUS
      <4>. QED
        BY <2>5, <3>1, <4>1 DEF ClimbOnce
    <3>3. Other(j) = 2 * q + 1 /\ j % 2 = 0
      <4>1. (2 * q) % 2 = 0
        OBVIOUS
      <4>. QED
        BY <2>6, <4>1 DEF Other
    <3>4. SiblingAt(nodes, i, h) = [hash |-> NodeAt(r).hash, right |-> r > l]
      <4>1. NodeAt(r).hash = Node(nodes, h, Other(j)).hash
        BY <2>4, <3>3 DEF NodeAt, Node
      <4>2. (r > l) = (j % 2 = 0)
        BY <2>5, <3>3
      <4>. QED
        BY <1>1, <4>1, <4>2 DEF SiblingAt
    <3>. QED
      BY <1>4, <2>2, <3>2, <3>4 DEF c
  <2>7. CASE j = 2 * q + 1
    <3>1. c.at = r /\ c.siblings = WayUp(nodes, i, h) /\ c.at # None /\ FindSibling(c.at, h) = l
      BY <2>1, <2>4, <2>5, <2>7
    <3>2. ClimbOnce(c, h) = [at |-> Pos(h + 1, q),
                             siblings |-> Append(WayUp(nodes, i, h),
                                                 [hash |-> NodeAt(l).hash, right |-> l > r])]
      <4>1. l # None
        OBVIOUS
      <4>. QED
        BY <2>5, <3>1, <4>1 DEF ClimbOnce
    <3>3. Other(j) = 2 * q /\ j % 2 # 0
      <4>1. (2 * q + 1) % 2 = 1 /\ (2 * q + 1) - 1 = 2 * q
        OBVIOUS
      <4>. QED
        BY <2>7, <4>1 DEF Other
    <3>4. SiblingAt(nodes, i, h) = [hash |-> NodeAt(l).hash, right |-> l > r]
      <4>1. NodeAt(l).hash = Node(nodes, h, Other(j)).hash
        BY <2>4, <3>3 DEF NodeAt, Node
      <4>2. (l > r) = (j % 2 = 0)
        BY <2>5, <3>3
      <4>. QED
        BY <1>1, <4>1, <4>2 DEF SiblingAt
    <3>. QED
      BY <1>4, <2>2, <3>2, <3>4 DEF c
  <2>. QED
    BY <1>2, <2>6, <2>7
<1>6. CASE h = b
  <2>1. c = [at |-> Pos(h, j), siblings |-> WayUp(nodes, i, b)]
    BY <1>1, <1>6 DEF ClimbAt
  <2>2. ClimbAt(i, b, h + 1) = [at |-> None, siblings |-> WayUp(nodes, i, b)]
    BY <1>6 DEF ClimbAt
  <2>3. FindSibling(Pos(h, j), h) = None
    <3>1. PICK p \in Nat : j = 2 * p /\ ~Whole(h, 2 * p + 1, leaf_count)
      BY <1>1, <1>6 DEF Mountain
    <3>2. Whole(h, 2 * p, leaf_count)
      BY <1>1, <1>6, <3>1, h <= h DEF Mountain
    <3>. QED
      BY <3>1, <3>2, SiblingFound
  <2> HIDE DEF c
  <2>4. c.at = Pos(h, j) /\ FindSibling(c.at, h) = None
    BY <2>1, <2>3
  <2>5. ClimbOnce(c, h) = [c EXCEPT !.at = None]
    BY <2>4 DEF ClimbOnce
  <2>. QED
    BY <2>1, <2>2, <2>5 DEF c
<1>7. CASE h > b
  <2>1. c = [at |-> None, siblings |-> WayUp(nodes, i, b)]
    BY <1>7 DEF ClimbAt
  <2>2. ClimbAt(i, b, h + 1) = [at |-> None, siblings |-> WayUp(nodes, i, b)]
    BY <1>7 DEF ClimbAt
  <2> HIDE DEF c
  <2>3. ClimbOnce(c, h) = [c EXCEPT !.at = None]
    BY <2>1 DEF ClimbOnce
  <2>. QED
    BY <2>1, <2>2, <2>3 DEF c
<1>. QED
  BY <1>5, <1>6, <1>7

\* collect_siblings() of a leaf.
LEMMA SiblingsCollected ==
  ASSUME MmrShape, None \notin Nat, NEW i \in Nat, i < leaf_count,
         NEW b \in Nat, Mountain(leaf_count, i, b)
  PROVE  CollectSiblings(LeafNodePos(i)) = WayUp(nodes, i, b)
<1> DEFINE n == leaf_count
           start == [at |-> LeafNodePos(i), siblings |-> <<>>]
           Is(f) == f = [h \in 0..n |-> IF h = 0 THEN start ELSE ClimbOnce(f[h - 1], h - 1)]
           climb == CHOOSE f : Is(f)
           way == [h \in 0..n |-> ClimbAt(i, b, h)]
<1>1. n \in Nat /\ b < n
  BY DEF MmrShape, Mountain
<1>2. CollectSiblings(LeafNodePos(i)) = climb[n].siblings
  BY DEF CollectSiblings
<1>3. ClimbAt(i, b, 0) = start
  <2>1. LeafNodePos(i) = Pos(0, i)
    BY LeafPos
  <2>2. Block(i, 0) = i
    <3>1. Upto(0, i) = i /\ Upto(0, i + 1) = i + 1
      BY Powers DEF Upto
    <3>. QED
      BY <3>1, BlockIs
  <2>3. WayUp(nodes, i, 0) = <<>>
    BY DEF WayUp
  <2>. QED
    BY <2>1, <2>2, <2>3 DEF ClimbAt
<1>4. \A h \in Nat : ClimbOnce(ClimbAt(i, b, h), h) = ClimbAt(i, b, h + 1)
  BY ClimbStep
<1> HIDE DEF n, start
<1>5. Is(way)
  <2>1. ASSUME NEW h \in 0..n
        PROVE  way[h] = IF h = 0 THEN start ELSE ClimbOnce(way[h - 1], h - 1)
    <3>1. CASE h = 0
      BY <1>1, <1>3, <3>1
    <3>2. CASE h # 0
      <4>1. h - 1 \in Nat /\ h - 1 \in 0..n /\ (h - 1) + 1 = h
        BY <1>1, <3>2
      <4>2. way[h - 1] = ClimbAt(i, b, h - 1) /\ way[h] = ClimbAt(i, b, h)
        BY <4>1
      <4> HIDE DEF way
      <4>. QED
        BY <1>4, <3>2, <4>1, <4>2
    <3>. QED
      BY <3>1, <3>2
  <2>2. way = [h \in 0..n |-> way[h]]
    OBVIOUS
  <2> HIDE DEF way
  <2>. QED
    BY <2>1, <2>2
<1>6. Is(climb)
  <2> HIDE DEF Is, way
  <2>. QED
    BY <1>5
<1>7. climb = [h \in 0..n |-> IF h = 0 THEN start ELSE ClimbOnce(climb[h - 1], h - 1)]
  <2> HIDE DEF climb
  <2>. QED
    BY <1>6
<1> HIDE DEF climb, way
<1>8. \A h \in 0..n : climb[h] = IF h = 0 THEN start ELSE ClimbOnce(climb[h - 1], h - 1)
  BY <1>7
<1> DEFINE Bad == {h \in Nat : h <= n /\ climb[h] # ClimbAt(i, b, h)}
<1>9. ASSUME Bad # {} PROVE FALSE
  <2>1. PICK g \in Bad : \A h \in Bad : g <= h
    BY <1>9, SmallestOf
  <2>2. g \in 0..n /\ climb[g] # ClimbAt(i, b, g)
    BY <1>1, <2>1
  <2>3. PICK h \in Nat : g = h + 1
    BY <1>1, <1>3, <1>8, <2>2
  <2>4. climb[h] = ClimbAt(i, b, h)
    BY <1>1, <2>1, <2>2, <2>3
  <2>5. climb[h + 1] = ClimbOnce(climb[h], h)
    <3>1. g # 0 /\ g - 1 = h
      BY <2>3
    <3>. QED
      BY <1>8, <2>2, <2>3, <3>1
  <2>. QED
    BY <1>4, <2>2, <2>3, <2>4, <2>5
<1>10. climb[n] = ClimbAt(i, b, n)
  BY <1>1, <1>9
<1>. QED
  BY <1>1, <1>2, <1>10 DEF ClimbAt

-----------------------------------------------------------------------------
\* Folding: the root of a block follows from the roots of its halves.
LEMMA RootOfHalves ==
  ASSUME NEW n \in Nat, NEW ns, Grown(ns, n), NEW k \in Nat, NEW q \in Nat, Whole(k + 1, q, n)
  PROVE  /\ Whole(k, 2 * q, n) /\ Whole(k, 2 * q + 1, n)
         /\ Node(ns, k + 1, q).hash
              = MergeHashes(Node(ns, k, 2 * q).hash, Node(ns, k, 2 * q + 1).hash)
<1>1. k + 1 \in Nat
  OBVIOUS
<1>2. Rooted(ns, k + 1, q)
  BY <1>1 DEF Grown
<1>3. Whole(k, 2 * q + 1, n)
  BY WholeBlocks
<1>4. Whole(k, 2 * q, n)
  BY <1>3, 2 * q \in Nat, 2 * q + 1 \in Nat, 2 * q <= 2 * q + 1, n <= n, WholeBlocks
<1>. QED
  BY <1>2, <1>3, <1>4 DEF Rooted

\* verify() folds a path in the way its recursion says, whatever the length.
LEMMA FoldIs ==
  ASSUME NEW leaf, NEW siblings, Len(siblings) \in Nat, NEW way,
         \A k \in 0..Len(siblings) :
           way[k] = IF k = 0 THEN leaf
                    ELSE IF siblings[k].right THEN MergeHashes(way[k - 1], siblings[k].hash)
                    ELSE MergeHashes(siblings[k].hash, way[k - 1])
  PROVE  FoldSiblings(leaf, siblings) = way[Len(siblings)]
<1> DEFINE n == Len(siblings)
           Step(k, x) == IF siblings[k].right THEN MergeHashes(x, siblings[k].hash)
                         ELSE MergeHashes(siblings[k].hash, x)
           Is(f) == f = [k \in 0..n |-> IF k = 0 THEN leaf ELSE Step(k, f[k - 1])]
           current == CHOOSE f : Is(f)
           f == [k \in 0..n |-> way[k]]
<1>1. FoldSiblings(leaf, siblings) = current[n]
  BY DEF FoldSiblings
<1>2. \A k \in 0..n : way[k] = IF k = 0 THEN leaf ELSE Step(k, way[k - 1])
  OBVIOUS
<1>n. n \in Nat
  OBVIOUS
<1> HIDE DEF n, Step
<1>3. Is(f)
  <2>1. ASSUME NEW k \in 0..n PROVE f[k] = IF k = 0 THEN leaf ELSE Step(k, f[k - 1])
    <3>1. CASE k = 0
      BY <1>2, <3>1
    <3>2. CASE k # 0
      <4>1. k - 1 \in 0..n
        BY <1>n, <3>2
      <4>. QED
        BY <1>2, <3>2, <4>1
    <3>. QED
      BY <3>1, <3>2
  <2>2. f = [k \in 0..n |-> f[k]]
    OBVIOUS
  <2> HIDE DEF f
  <2>. QED
    BY <2>1, <2>2
<1>4. Is(current)
  <2> HIDE DEF Is, f
  <2>. QED
    BY <1>3
<1>5. current = [k \in 0..n |-> IF k = 0 THEN leaf ELSE Step(k, current[k - 1])]
  <2> HIDE DEF current
  <2>. QED
    BY <1>4
<1> HIDE DEF current, f
<1>6. \A k \in 0..n : current[k] = IF k = 0 THEN leaf ELSE Step(k, current[k - 1])
  BY <1>5
<1> DEFINE Bad == {k \in Nat : k <= n /\ current[k] # way[k]}
<1>7. ASSUME Bad # {} PROVE FALSE
  <2>1. PICK g \in Bad : \A k \in Bad : g <= k
    BY <1>7, SmallestOf
  <2>2. g \in 0..n /\ current[g] # way[g]
    BY <1>n, <2>1
  <2>3. g # 0
    BY <1>2, <1>6, <2>2
  <2>4. g - 1 \in Nat /\ g - 1 <= n /\ g - 1 < g
    BY <1>n, <2>2, <2>3
  <2>5. current[g - 1] = way[g - 1]
    BY <2>1, <2>4
  <2>. QED
    BY <1>2, <1>6, <2>2, <2>3, <2>5
<1>8. current[n] = way[n]
  BY <1>n, <1>7
<1>. QED
  BY <1>1, <1>8 DEF n

\* The way up from a leaf folds to the root of its mountain.
LEMMA WayFolds ==
  ASSUME NEW n \in Nat, NEW ns, Grown(ns, n), NEW i \in Nat, NEW b \in Nat, Mountain(n, i, b)
  PROVE  /\ FoldSiblings(Node(ns, 0, i).hash, WayUp(ns, i, b)) = Node(ns, b, Block(i, b)).hash
         /\ Len(WayUp(ns, i, b)) = b
<1> DEFINE w == WayUp(ns, i, b)
           way == [k \in 0..b |-> Node(ns, k, Block(i, k)).hash]
<1>1. Len(w) = b /\ \A k \in 1..b : w[k] = SiblingAt(ns, i, k - 1)
  BY DEF WayUp
<1>2. Block(i, 0) = i
  <2>1. Upto(0, i) = i /\ Upto(0, i + 1) = i + 1
    BY Powers DEF Upto
  <2>. QED
    BY <2>1, BlockIs
<1> HIDE DEF w
<1>3. ASSUME NEW k \in 0..b
      PROVE  way[k] = IF k = 0 THEN Node(ns, 0, i).hash
                      ELSE IF w[k].right THEN MergeHashes(way[k - 1], w[k].hash)
                      ELSE MergeHashes(w[k].hash, way[k - 1])
  <2>1. CASE k = 0
    BY <1>2, <2>1
  <2>2. CASE k # 0
    <3>1. PICK g \in Nat : k = g + 1 /\ g <= b
      BY <2>2, k - 1 \in Nat /\ k = (k - 1) + 1
    <3>2. PICK j \in Nat : j = Block(i, g)
      BY BlockHolds
    <3>3. PICK q \in Nat : j = 2 * q \/ j = 2 * q + 1
      BY Halves
    <3>4. Block(i, k) = q
      BY <3>1, <3>2, <3>3, BlockAbove
    <3>5. Whole(g + 1, q, n)
      BY <3>1, <3>4 DEF Mountain
    <3>6. Node(ns, k, q).hash = MergeHashes(Node(ns, g, 2 * q).hash, Node(ns, g, 2 * q + 1).hash)
      BY <3>1, <3>5, RootOfHalves
    <3>7. w[k] = SiblingAt(ns, i, g)
      <4>1. k \in 1..b /\ k - 1 = g
        BY <2>2, <3>1
      <4>. QED
        BY <1>1, <4>1
    <3>8. way[k] = Node(ns, k, q).hash /\ way[k - 1] = Node(ns, g, j).hash
      <4>1. k - 1 = g /\ g \in 0..b
        BY <3>1
      <4>. QED
        BY <3>2, <3>4, <4>1
    <3> HIDE DEF way
    <3>9. CASE j = 2 * q
      <4>1. (2 * q) % 2 = 0
        OBVIOUS
      <4>2. w[k].right /\ w[k].hash = Node(ns, g, 2 * q + 1).hash
        <5>1. j % 2 = 0 /\ Other(j) = 2 * q + 1
          BY <3>9, <4>1 DEF Other
        <5>2. w[k] = [hash |-> Node(ns, g, Other(j)).hash, right |-> j % 2 = 0]
          BY <3>2, <3>7 DEF SiblingAt
        <5>3. w[k].right = (j % 2 = 0)
          BY ONLY <5>2
        <5>4. w[k].hash = Node(ns, g, Other(j)).hash
          BY ONLY <5>2
        <5>. QED
          BY ONLY <5>1, <5>3, <5>4
      <4>. QED
        BY <2>2, <3>6, <3>8, <3>9, <4>2
    <3>10. CASE j = 2 * q + 1
      <4>1. (2 * q + 1) % 2 = 1 /\ (2 * q + 1) - 1 = 2 * q
        OBVIOUS
      <4>2. ~w[k].right /\ w[k].hash = Node(ns, g, 2 * q).hash
        <5>1. ~(j % 2 = 0) /\ Other(j) = 2 * q
          BY <3>10, <4>1 DEF Other
        <5>2. w[k] = [hash |-> Node(ns, g, Other(j)).hash, right |-> j % 2 = 0]
          BY <3>2, <3>7 DEF SiblingAt
        <5>3. w[k].right = (j % 2 = 0)
          BY ONLY <5>2
        <5>4. w[k].hash = Node(ns, g, Other(j)).hash
          BY ONLY <5>2
        <5>. QED
          BY ONLY <5>1, <5>3, <5>4
      <4>. QED
        BY <2>2, <3>6, <3>8, <3>10, <4>2
    <3>. QED
      BY <3>3, <3>9, <3>10
  <2>. QED
    BY <2>1, <2>2
<1>4. way[b] = Node(ns, b, Block(i, b)).hash
  OBVIOUS
<1> HIDE DEF way
<1>5. FoldSiblings(Node(ns, 0, i).hash, w) = way[Len(w)]
  BY <1>1, <1>3, FoldIs
<1>. QED
  BY <1>1, <1>4, <1>5 DEF w

-----------------------------------------------------------------------------
\* The numbers of the abstract history are those of the range.
LEMMA SameNumbers ==
  /\ History!TwoTo = TwoTo
  /\ \A b, n : History!Blocks(b, n) = Blocks(b, n)
  /\ \A n : History!LowBit(n) = LowBit(n)
<1>1. History!TwoTo = TwoTo
  BY DEF History!TwoTo, TwoTo
<1>2. \A b, j, n : History!Whole(b, j, n) = Whole(b, j, n)
  BY <1>1 DEF History!Whole, Whole
<1>3. \A b, n : History!Blocks(b, n) = Blocks(b, n)
  BY <1>2 DEF History!Blocks, Blocks
<1>4. \A n : History!LowBit(n) = LowBit(n)
  BY <1>1 DEF History!LowBit, LowBit
<1>. QED
  BY <1>1, <1>3, <1>4

\* The leaves of a range of n leaves, and the roots of their perfect trees.
LeavesOf(s, ns, n) == Len(s) = n /\ \A k \in 1..n : s[k] = Node(ns, 0, k - 1).hash

\* The nodes of the range are the roots that the abstract history has by division.
LEMMA PerfectRootsAre ==
  ASSUME NEW n \in Nat, NEW ns, Grown(ns, n), NEW s, LeavesOf(s, ns, n)
  PROVE  \A b \in 0..n :
           History!PerfectRoots(s)[b] = [j \in Blocks(b, n) |-> Node(ns, b, j).hash]
<1> DEFINE Row(b, prev) == [j \in History!Blocks(b, n) |->
                              IF b = 0 THEN s[j + 1] ELSE <<prev[2 * j], prev[2 * j + 1]>>]
           Is(f) == f = [b \in 0..n |-> Row(b, f[b - 1])]
           root == CHOOSE f : Is(f)
           Known1(b) == [j \in Blocks(b, n) |-> Node(ns, b, j).hash]
           way == [b \in 0..n |-> Known1(b)]
<1>1. History!PerfectRoots(s) = root
  BY DEF History!PerfectRoots, LeavesOf
<1>2. \A b : \A j \in Blocks(b, n) : j \in Nat /\ j \in 0..(n - 1) /\ Whole(b, j, n)
  BY DEF Blocks
<1>3. ASSUME NEW b \in 0..n, NEW prev, b # 0 => prev = Known1(b - 1)
      PROVE  Row(b, prev) = Known1(b)
  <2>1. ASSUME NEW j \in Blocks(b, n)
        PROVE  (IF b = 0 THEN s[j + 1] ELSE <<prev[2 * j], prev[2 * j + 1]>>) = Node(ns, b, j).hash
    <3>1. CASE b = 0
      <4>1. j + 1 \in 1..n /\ (j + 1) - 1 = j
        BY <1>2
      <4>. QED
        BY <3>1, <4>1 DEF LeavesOf
    <3>2. CASE b # 0
      <4>1. PICK g \in Nat : b = g + 1 /\ g = b - 1
        BY <3>2
      <4>2. /\ Whole(g, 2 * j, n) /\ Whole(g, 2 * j + 1, n)
            /\ Node(ns, b, j).hash = MergeHashes(Node(ns, g, 2 * j).hash, Node(ns, g, 2 * j + 1).hash)
        BY <1>2, <4>1, RootOfHalves
      <4>3. 2 * j \in Blocks(g, n) /\ 2 * j + 1 \in Blocks(g, n)
        <5>1. j \in Nat
          BY <1>2
        <5>. QED
          BY <4>2, <5>1, 2 * j \in Nat, 2 * j + 1 \in Nat, WholeBlocks
      <4>4. prev = [i \in Blocks(g, n) |-> Node(ns, g, i).hash]
        BY <1>3, <3>2, <4>1
      <4>5. prev[2 * j] = Node(ns, g, 2 * j).hash /\ prev[2 * j + 1] = Node(ns, g, 2 * j + 1).hash
        BY <4>3, <4>4
      <4>. QED
        BY <3>2, <4>2, <4>5 DEF MergeHashes
    <3>. QED
      BY <3>1, <3>2
  <2>2. History!Blocks(b, n) = Blocks(b, n)
    BY SameNumbers
  <2>. QED
    BY <2>1, <2>2
<1> HIDE DEF Row, Known1
<1>4. Is(way)
  <2>1. ASSUME NEW b \in 0..n PROVE way[b] = Row(b, way[b - 1])
    <3>1. b # 0 => way[b - 1] = Known1(b - 1)
      <4>1. b # 0 => b - 1 \in 0..n
        OBVIOUS
      <4>. QED
        BY <4>1
    <3>2. way[b] = Known1(b)
      OBVIOUS
    <3> HIDE DEF way
    <3>. QED
      BY <1>3, <3>1, <3>2
  <2>2. way = [b \in 0..n |-> way[b]]
    OBVIOUS
  <2> HIDE DEF way
  <2>. QED
    BY <2>1, <2>2
<1>5. Is(root)
  <2> HIDE DEF Is, way
  <2>. QED
    BY <1>4
<1>6. root = [b \in 0..n |-> Row(b, root[b - 1])]
  <2> HIDE DEF root
  <2>. QED
    BY <1>5
<1> HIDE DEF root
<1>7. \A b \in 0..n : root[b] = Row(b, root[b - 1])
  BY <1>6
<1> DEFINE Bad == {b \in Nat : b <= n /\ root[b] # Known1(b)}
<1>8. ASSUME Bad # {} PROVE FALSE
  <2>1. PICK b \in Bad : \A c \in Bad : b <= c
    BY <1>8, SmallestOf
  <2>2. b \in 0..n /\ root[b] # Known1(b)
    BY <2>1
  <2>3. b # 0 => root[b - 1] = Known1(b - 1)
    <3>1. b # 0 => b - 1 \in Nat /\ b - 1 <= n /\ b - 1 < b
      BY <2>2
    <3>. QED
      BY <2>1, <3>1
  <2>4. Row(b, root[b - 1]) = Known1(b)
    BY <1>3, <2>2, <2>3
  <2>. QED
    BY <1>7, <2>2, <2>4
<1>9. \A b \in 0..n : root[b] = Known1(b)
  BY <1>8
<1>. QED
  BY <1>1, <1>9 DEF Known1

-----------------------------------------------------------------------------
\* A proof issued at some time leads from its leaf to the root of its mountain of then.
HeldIs(ns, n, p) ==
  \E i, b \in Nat :
    /\ p.leaf_index = i /\ p.at \in Nat /\ i < p.at /\ p.at <= n
    /\ Mountain(p.at, i, b) /\ Len(p.siblings) = b
    /\ p.leaf_hash = Node(ns, 0, i).hash
    /\ FoldSiblings(p.leaf_hash, p.siblings) = Node(ns, b, Block(i, b)).hash
HeldInv == held # None => HeldIs(nodes, leaf_count, held)
MmrInv == MmrShape /\ HeldInv

\* The blocks under a mountain stay whole while the range grows.
LEMMA MountainBlocks ==
  ASSUME NEW n \in Nat, NEW m \in Nat, m <= n, NEW i \in Nat, NEW b \in Nat, Mountain(m, i, b), i < m
  PROVE  /\ Whole(b, Block(i, b), n) /\ Whole(0, i, n) /\ Block(i, b) \in Nat
         /\ b \in 0..n /\ Block(i, b) \in Blocks(b, n)
<1>1. Block(i, b) \in Nat
  BY BlockHolds
<1>2. Whole(b, Block(i, b), m) /\ b < m
  BY b <= b DEF Mountain
<1>3. Whole(b, Block(i, b), n)
  BY <1>1, <1>2, WholeStays
<1>4. Whole(0, i, n)
  BY Powers DEF Whole
<1>. QED
  BY <1>1, <1>2, <1>3, <1>4, WholeBlocks

\* A proof issued stays what it is while the range grows.
LEMMA HeldStays ==
  ASSUME NEW n \in Nat, NEW m \in Nat, n <= m, NEW ns, NEW nt, Grown(ns, n), Grown(nt, m),
         Prefix(ns, nt), NEW p, HeldIs(ns, n, p)
  PROVE  HeldIs(nt, m, p)
<1>1. PICK i \in Nat, b \in Nat :
        /\ p.leaf_index = i /\ p.at \in Nat /\ i < p.at /\ p.at <= n
        /\ Mountain(p.at, i, b) /\ Len(p.siblings) = b
        /\ p.leaf_hash = Node(ns, 0, i).hash
        /\ FoldSiblings(p.leaf_hash, p.siblings) = Node(ns, b, Block(i, b)).hash
  BY DEF HeldIs
<1>2. Whole(b, Block(i, b), n) /\ Whole(0, i, n) /\ Block(i, b) \in Nat
  BY <1>1, MountainBlocks
<1>3. Rooted(ns, b, Block(i, b)) /\ Rooted(ns, 0, i) /\ IsArray(ns) /\ IsArray(nt)
  BY <1>2 DEF Grown
<1>4. Node(nt, b, Block(i, b)) = Node(ns, b, Block(i, b)) /\ Node(nt, 0, i) = Node(ns, 0, i)
  BY <1>2, <1>3, RootedStays
<1>5. p.at <= m
  BY <1>1
<1>. QED
  BY <1>1, <1>4, <1>5 DEF HeldIs

\* The empty range.
LEMMA InitShape == ASSUME MmrInit PROVE MmrInv
<1>1. nodes = <<>> /\ peaks = <<>> /\ leaf_count = 0 /\ held = None
  BY DEF MmrInit
<1>2. Grown(<<>>, 0)
  <2>1. IsArray(<<>>) /\ Len(<<>>) = 2 * 0 - CountOnes[0]
    <3>1. <<>> = [i \in 1..0 |-> <<>>[i]] /\ Len(<<>>) = 0
      OBVIOUS
    <3>. QED
      BY <3>1, Ones DEF IsArray
  <2>2. \A h, j \in Nat : ~Whole(h, j, 0)
    BY WholeBlocks
  <2>. QED
    BY <2>1, <2>2 DEF Grown
<1>3. Peaked(<<>>, 0)
  <2> DEFINE f == [i \in 1..0 |-> 0]
  <2>1. f \in [1..0 -> Nat] /\ <<>> \in Seq(Nat) /\ Len(<<>>) = 0
    OBVIOUS
  <2> HIDE DEF f
  <2>2. Chain(<<>>, f, f, 0) /\ Falling(f, Len(<<>>))
    BY <2>1 DEF Chain, Falling
  <2>. QED
    BY <2>2 DEF Peaked
<1>. QED
  BY <1>1, <1>2, <1>3 DEF MmrInv, MmrShape, HeldInv

\* generate_proof() issues such a proof.
LEMMA ProofIssued ==
  ASSUME MmrInv, None \notin Nat, NEW i \in Nat, GenerateProof(i)
  PROVE  HeldIs(nodes, leaf_count, held')
<1>a. MmrShape /\ leaf_count \in Nat /\ Grown(nodes, leaf_count) /\ i < leaf_count
  BY DEF MmrInv, MmrShape, GenerateProof
<1>1. PICK b \in Nat : Mountain(leaf_count, i, b)
  BY <1>a, MountainOf
<1>2. CollectSiblings(LeafNodePos(i)) = WayUp(nodes, i, b)
  BY <1>a, <1>1, SiblingsCollected
<1>3. NodeAt(LeafNodePos(i)).hash = Node(nodes, 0, i).hash
  BY LeafPos DEF NodeAt, Node
<1>4. /\ held'.leaf_index = i /\ held'.at = leaf_count
      /\ held'.leaf_hash = Node(nodes, 0, i).hash /\ held'.siblings = WayUp(nodes, i, b)
  BY <1>2, <1>3 DEF GenerateProof
<1>5. /\ FoldSiblings(Node(nodes, 0, i).hash, WayUp(nodes, i, b)) = Node(nodes, b, Block(i, b)).hash
      /\ Len(WayUp(nodes, i, b)) = b
  BY <1>a, <1>1, WayFolds
<1>. QED
  BY <1>a, <1>1, <1>4, <1>5 DEF HeldIs

\* Every call keeps the invariant, and none moves or changes a node (append() pushes,
\* the others leave the array alone).
LEMMA StepShape ==
  ASSUME MmrInv, MmrAssumption, [MmrNext]_mmrVars
  PROVE  MmrInv' /\ leaf_count <= leaf_count' /\ Prefix(nodes, nodes')
<1>a. /\ MmrShape /\ HeldInv /\ leaf_count \in Nat /\ Grown(nodes, leaf_count)
      /\ None \notin Nat /\ MaxLeaves \in Nat
  BY DEF MmrInv, MmrShape, MmrAssumption
<1>b. Prefix(nodes, nodes)
  BY <1>a DEF Prefix, Grown, IsArray
<1>1. ASSUME NEW h \in Hashes, AppendLeaf(h)
      PROVE  MmrInv' /\ leaf_count <= leaf_count' /\ Prefix(nodes, nodes')
  <2>1. MmrShape' /\ leaf_count' = leaf_count + 1 /\ Prefix(nodes, nodes') /\ held' = held
    BY <1>a, <1>1, AppendShape DEF AppendLeaf
  <2>2. Grown(nodes', leaf_count') /\ leaf_count' \in Nat /\ leaf_count <= leaf_count'
    BY <1>a, <2>1 DEF MmrShape
  <2>3. held' # None => HeldIs(nodes', leaf_count', held')
    <3>1. ASSUME held # None PROVE HeldIs(nodes', leaf_count', held)
      <4>1. HeldIs(nodes, leaf_count, held)
        BY <1>a, <3>1 DEF HeldInv
      <4>. QED
        BY <1>a, <2>1, <2>2, <4>1, HeldStays
    <3>. QED
      BY <2>1, <3>1
  <2>. QED
    BY <2>1, <2>2, <2>3 DEF MmrInv, HeldInv
<1>2. CASE UNCHANGED <<nodes, peaks, leaf_count, held>>
  BY <1>a, <1>b, <1>2 DEF MmrInv, MmrShape, HeldInv
<1>3. ASSUME NEW i \in 0..MaxLeaves, GenerateProof(i)
      PROVE  MmrInv' /\ leaf_count <= leaf_count' /\ Prefix(nodes, nodes')
  <2>1. HeldIs(nodes, leaf_count, held')
    <3>1. i \in Nat
      BY <1>a
    <3>. QED
      BY <1>a, <1>3, <3>1, ProofIssued DEF MmrInv
  <2>2. UNCHANGED <<nodes, peaks, leaf_count>>
    BY <1>3 DEF GenerateProof
  <2>. QED
    BY <1>a, <1>b, <2>1, <2>2 DEF MmrInv, MmrShape, HeldInv
<1>. QED
  BY <1>1, <1>2, <1>3 DEF MmrNext, SealEpoch, Nullify, mmrVars

\* The leaves of the abstract history are those of the range.
LEMMA LeavesAre ==
  ASSUME MmrShape
  PROVE  /\ LeavesOf(Leaves, nodes, leaf_count)
         /\ Leaves = [k \in 1..leaf_count |-> Node(nodes, 0, k - 1).hash]
<1>1. leaf_count \in Nat
  BY DEF MmrShape
<1>2. ASSUME NEW k \in 1..leaf_count
      PROVE  NodeAt(LeafNodePos(k - 1)).hash = Node(nodes, 0, k - 1).hash
  <2>1. k - 1 \in Nat
    BY <1>1
  <2>2. LeafNodePos(k - 1) = Pos(0, k - 1)
    BY <2>1, LeafPos
  <2>. QED
    BY <2>2 DEF NodeAt, Node
<1>3. Leaves = [k \in 1..leaf_count |-> Node(nodes, 0, k - 1).hash]
  BY <1>2 DEF Leaves
<1>. QED
  BY <1>1, <1>3 DEF LeavesOf

\* The invariant says where the last proof ends.
LEMMA PeakReached ==
  ASSUME MmrInv
  PROVE  ProofReachesPeak
<1>a. MmrShape /\ leaf_count \in Nat /\ Grown(nodes, leaf_count) /\ HeldInv
  BY DEF MmrInv, MmrShape
<1>1. SUFFICES ASSUME held # None PROVE ProofReachesPeak
  BY DEF ProofReachesPeak
<1>2. PICK i \in Nat, b \in Nat :
        /\ held.leaf_index = i /\ held.at \in Nat /\ i < held.at /\ held.at <= leaf_count
        /\ Mountain(held.at, i, b) /\ Len(held.siblings) = b
        /\ held.leaf_hash = Node(nodes, 0, i).hash
        /\ FoldSiblings(held.leaf_hash, held.siblings) = Node(nodes, b, Block(i, b)).hash
  BY <1>a, <1>1 DEF HeldInv, HeldIs
<1>3. b \in 0..leaf_count /\ Block(i, b) \in Blocks(b, leaf_count)
  BY <1>a, <1>2, MountainBlocks
<1>4. b \in Digits(held.at) /\ Block(i, b) = LastBlock(held.at, b)
  BY <1>2 DEF Mountain
<1>5. BlockRoot(held.at, b) = Node(nodes, b, Block(i, b)).hash
  <2>1. History!PerfectRoots(Leaves)[b] = [j \in Blocks(b, leaf_count) |-> Node(nodes, b, j).hash]
    BY <1>a, <1>3, LeavesAre, PerfectRootsAre
  <2>. QED
    BY <1>3, <1>4, <2>1 DEF BlockRoot
<1>6. Verify(held, BlockRoot(held.at, b))
  BY <1>2, <1>5 DEF Verify
<1>7. held.leaf_index \div TwoTo[b] = LastBlock(held.at, b)
  BY <1>2, <1>4 DEF Block
<1>. QED
  BY <1>2, <1>4, <1>6, <1>7 DEF ProofReachesPeak

\* The shape of the range holds after every call: each node is the root of its block at
\* the place leaf_node_pos() and the searches expect, and the proof held is good.
THEOREM RangeShape == MmrSpec => []MmrInv
<1>1. MmrInit => MmrInv
  BY InitShape
<1>2. MmrInv /\ [MmrNext]_mmrVars => MmrInv'
  BY MmrAssumption, StepShape
<1>. QED
  BY <1>1, <1>2, PTL DEF MmrSpec

\* generate_proof() leads to the root of the mountain its leaf was in, however many
\* leaves were appended, seals made and leaves erased since; mmr.rs:176-235.
THEOREM ProofsReachPeaks == MmrSpec => []ProofReachesPeak
<1>1. MmrInv => ProofReachesPeak
  BY PeakReached
<1>. QED
  BY <1>1, RangeShape, PTL

-----------------------------------------------------------------------------
\* Every number ends with an odd number of blocks of one size.
LEMMA OddBlocks == \A n \in Nat \ {0} : \E h, q \in Nat : n = Upto(h, 2 * q + 1)
<1> DEFINE Has(n) == \E h, q \in Nat : n = Upto(h, 2 * q + 1)
           Bad == {n \in Nat : n # 0 /\ ~Has(n)}
<1>1. ASSUME Bad # {} PROVE FALSE
  <2>1. PICK b \in Bad : \A c \in Bad : b <= c
    BY <1>1, SmallestOf
  <2>2. b \in Nat /\ b # 0 /\ ~Has(b)
    BY <2>1
  <2>3. PICK q \in Nat : b = 2 * q \/ b = 2 * q + 1
    BY <2>2, Halves
  <2>4. CASE b = 2 * q + 1
    <3>1. Upto(0, 2 * q + 1) = (2 * q + 1) * 1
      BY Powers DEF Upto
    <3>2. b = Upto(0, 2 * q + 1)
      BY <2>4, <3>1
    <3>. QED
      BY <2>2, <3>2
  <2>5. CASE b = 2 * q
    <3>1. q # 0 /\ q < b
      BY <2>2, <2>5
    <3> HIDE DEF Has
    <3>2. Has(q)
      BY <2>1, <3>1
    <3>3. PICK h \in Nat, e \in Nat : q = Upto(h, 2 * e + 1)
      BY <3>2 DEF Has
    <3>4. PICK t \in Nat : t = TwoTo[h]
      BY Powers
    <3>5. Upto(h + 1, 2 * e + 1) = (2 * e + 1) * (2 * t)
      BY <3>4, Powers DEF Upto
    <3>6. (2 * e + 1) * (2 * t) = 2 * ((2 * e + 1) * t)
      OBVIOUS
    <3>7. b = Upto(h + 1, 2 * e + 1)
      BY <2>5, <3>3, <3>4, <3>5, <3>6 DEF Upto
    <3>8. Has(b)
      BY <3>7, h + 1 \in Nat DEF Has
    <3>. QED
      BY <2>2, <3>8
  <2>. QED
    BY <2>3, <2>4, <2>5
<1>. QED
  BY <1>1

\* The lowest digit of a number written as its last odd block.
LEMMA LowBitIs ==
  ASSUME NEW h \in Nat, NEW q \in Nat
  PROVE  /\ LowBit(Upto(h, 2 * q + 1)) = h
         /\ Upto(h, 2 * q + 1) \in Nat \ {0}
         /\ Upto(h, 2 * q + 1) - TwoTo[h] = Upto(h, 2 * q)
         /\ (Upto(h, 2 * q + 1) = TwoTo[h] <=> q = 0)
         /\ Block(Upto(h, 2 * q + 1), h) = 2 * q + 1
         /\ Upto(h, 2 * q) \in Nat /\ Upto(h, 2 * q) < Upto(h, 2 * q + 1)
<1>1. PICK t \in Nat : t = TwoTo[h] /\ t > 0 /\ h < t
  BY PowersGrow
<1>2. PICK x \in Nat : x = q * t
  OBVIOUS
<1>3. (2 * q + 1) * t = 2 * x + t /\ (2 * q) * t = 2 * x
  BY <1>2
<1>4. PICK n \in Nat : n = Upto(h, 2 * q + 1) /\ n = 2 * x + t
  BY <1>1, <1>3 DEF Upto
<1>5. Upto(h, 2 * q) = 2 * x
  BY <1>1, <1>3 DEF Upto
<1>6. x = 0 <=> q = 0
  BY <1>1, <1>2
<1>7. q <= x
  BY <1>1, <1>2
<1>8. n = (2 * q + 1) * TwoTo[h] /\ h \in 0..n /\ q \in 0..n
  BY <1>1, <1>4, <1>7 DEF Upto
<1>9. ASSUME NEW g \in 0..n, NEW e \in 0..n, n = (2 * e + 1) * TwoTo[g]
      PROVE  g = h
  <2>1. Upto(g, 2 * e + 1) = Upto(h, 2 * q + 1)
    BY <1>4, <1>9 DEF Upto
  <2>2. g \in Nat /\ e \in Nat /\ 2 * e + 1 \in Nat /\ 2 * q + 1 \in Nat
    OBVIOUS
  <2>3. ~(g > h)
    BY <2>1, <2>2, OddEndsNoLarger
  <2>4. ~(h > g)
    BY <2>1, <2>2, OddEndsNoLarger
  <2>. QED
    BY <2>2, <2>3, <2>4
<1>10. LowBit(n) = h
  <2> DEFINE Is(b) == b \in 0..n /\ \E e \in 0..n : n = (2 * e + 1) * TwoTo[b]
  <2>1. Is(h)
    BY <1>8
  <2>2. \A b : Is(b) => b = h
    BY <1>9
  <2>3. LowBit(n) = CHOOSE b : Is(b)
    BY DEF LowBit
  <2> HIDE DEF Is
  <2>. QED
    BY <2>1, <2>2, <2>3
<1>11. Block(n, h) = 2 * q + 1
  <2>1. Upto(h, (2 * q + 1) + 1) = 2 * x + 2 * t
    <3>1. ((2 * q + 1) + 1) * t = 2 * x + 2 * t
      BY <1>2
    <3>. QED
      BY <1>1, <3>1 DEF Upto
  <2>2. Upto(h, 2 * q + 1) <= n /\ n < Upto(h, (2 * q + 1) + 1)
    BY <1>1, <1>4, <2>1
  <2>. QED
    BY <2>2, 2 * q + 1 \in Nat, BlockIs
<1>. QED
  BY <1>1, <1>4, <1>5, <1>6, <1>10, <1>11

\* The root of the first n leaves, by the definition of the abstract history.
EndRoot(ns, k) == Node(ns, LowBit(k), k \div TwoTo[LowBit(k)] - 1).hash
RootsOf(f, ns, n) ==
  \A k \in 1..n :
    f[k] = IF k = TwoTo[LowBit(k)] THEN EndRoot(ns, k)
           ELSE <<f[k - TwoTo[LowBit(k)]], EndRoot(ns, k)>>
RootAt(ns, n, r) == \E f : RootsOf(f, ns, n) /\ r = f[n]

\* The smallest mountain of so many leaves, by its height and block.
LEMMA EndRootIs ==
  ASSUME NEW ns, NEW h \in Nat, NEW q \in Nat
  PROVE  EndRoot(ns, Upto(h, 2 * q + 1)) = Node(ns, h, 2 * q).hash
<1>1. PICK n \in Nat : n = Upto(h, 2 * q + 1) /\ LowBit(n) = h /\ Block(n, h) = 2 * q + 1
  BY LowBitIs
<1>2. n \div TwoTo[h] - 1 = 2 * q
  <2>1. PICK d \in Nat : d = n \div TwoTo[h] /\ d = 2 * q + 1
    BY <1>1 DEF Block
  <2>. QED
    BY <2>1
<1>. QED
  BY <1>1, <1>2 DEF EndRoot

\* One step of that definition.
LEMMA RootAtStep ==
  ASSUME NEW ns, NEW n \in Nat, NEW f, RootsOf(f, ns, n), NEW h \in Nat, NEW q \in Nat,
         Upto(h, 2 * q + 1) <= n
  PROVE  f[Upto(h, 2 * q + 1)] = IF q = 0 THEN Node(ns, h, 2 * q).hash
                                 ELSE <<f[Upto(h, 2 * q)], Node(ns, h, 2 * q).hash>>
<1>1. PICK k \in Nat \ {0} : k = Upto(h, 2 * q + 1)
  BY LowBitIs
<1>2. LowBit(k) = h /\ k - TwoTo[h] = Upto(h, 2 * q) /\ (k = TwoTo[h] <=> q = 0)
  BY <1>1, LowBitIs
<1>3. EndRoot(ns, k) = Node(ns, h, 2 * q).hash
  BY <1>1, EndRootIs
<1>4. f[k] = IF k = TwoTo[LowBit(k)] THEN EndRoot(ns, k)
             ELSE <<f[k - TwoTo[LowBit(k)]], EndRoot(ns, k)>>
  <2>1. k \in 1..n
    BY <1>1
  <2>. QED
    BY <2>1 DEF RootsOf
<1>. QED
  BY <1>1, <1>2, <1>3, <1>4

\* There is a table of roots for every number of leaves, ...
LEMMA RootsExist ==
  ASSUME NEW ns, NEW n \in Nat
  PROVE  \E f : RootsOf(f, ns, n)
<1> DEFINE Has(k) == \E f : RootsOf(f, ns, k)
           Bad == {k \in Nat : ~Has(k)}
<1>1. Has(0)
  BY DEF RootsOf
<1>2. ASSUME NEW k \in Nat, Has(k) PROVE Has(k + 1)
  <2>1. PICK f : RootsOf(f, ns, k)
    BY <1>2
  <2>2. PICK n1 \in Nat : n1 = k + 1 /\ n1 # 0
    OBVIOUS
  <2>3. PICK h \in Nat, q \in Nat : n1 = Upto(h, 2 * q + 1)
    BY <2>2, OddBlocks
  <2> DEFINE low(i) == TwoTo[LowBit(i)]
             Step(i, x) == IF i = low(i) THEN EndRoot(ns, i) ELSE <<x, EndRoot(ns, i)>>
             g == [i \in 1..(k + 1) |-> IF i <= k THEN f[i] ELSE Step(i, f[i - low(i)])]
  <2>4. \A i \in 1..k : f[i] = Step(i, f[i - low(i)])
    BY <2>1 DEF RootsOf
  <2>5. \A i \in 1..(k + 1) : i - low(i) \in Int /\ i - low(i) < i /\ (i # low(i) => i - low(i) >= 1)
    <3>1. ASSUME NEW i \in 1..(k + 1)
          PROVE  i - low(i) \in Int /\ i - low(i) < i /\ (i # low(i) => i - low(i) >= 1)
      <4>1. PICK e \in Nat, p \in Nat : i = Upto(e, 2 * p + 1)
        BY OddBlocks, i \in Nat \ {0}
      <4>2. low(i) = TwoTo[e] /\ i - TwoTo[e] = Upto(e, 2 * p) /\ (i = TwoTo[e] <=> p = 0)
            /\ Upto(e, 2 * p) \in Nat /\ Upto(e, 2 * p) < i
        BY <4>1, LowBitIs
      <4>3. p # 0 => Upto(e, 2 * p) >= 1
        <5>1. 2 * p \in Nat /\ 2 * p <= Upto(e, 2 * p)
          BY 2 * p \in Nat, Uptos
        <5>. QED
          BY <4>2, <5>1
      <4> HIDE DEF low
      <4>. QED
        BY <4>2, <4>3
    <3>. QED
      BY <3>1
  <2> HIDE DEF low, Step
  <2>6. ASSUME NEW i \in 1..(k + 1) PROVE g[i] = Step(i, g[i - low(i)])
    <3>1. CASE i = low(i)
      <4>1. \A x, y : Step(i, x) = Step(i, y)
        BY <3>1 DEF Step
      <4>2. g[i] = Step(i, f[i - low(i)])
        BY <2>4
      <4> HIDE DEF g
      <4>. QED
        BY <4>1, <4>2
    <3>2. CASE i # low(i)
      <4>1. i - low(i) \in 1..k
        BY <2>5, <3>2
      <4>2. g[i - low(i)] = f[i - low(i)] /\ g[i] = Step(i, f[i - low(i)])
        BY <2>4, <4>1
      <4> HIDE DEF g
      <4>. QED
        BY <4>2
    <3>. QED
      BY <3>1, <3>2
  <2> HIDE DEF g
  <2>7. RootsOf(g, ns, k + 1)
    BY <2>6 DEF RootsOf, Step, low
  <2>. QED
    BY <2>7
<1> HIDE DEF Has
<1>3. ASSUME Bad # {} PROVE FALSE
  <2>1. PICK b \in Bad : \A c \in Bad : b <= c
    BY <1>3, SmallestOf
  <2>2. b \in Nat /\ ~Has(b)
    BY <2>1
  <2>3. PICK c \in Nat : b = c + 1
    BY <1>1, <2>2
  <2>4. Has(c)
    BY <2>1, <2>3
  <2>. QED
    BY <1>2, <2>2, <2>3, <2>4
<1>4. Has(n)
  BY <1>3
<1>. QED
  BY <1>4 DEF Has

\* ... its entries are determined, ...
LEMMA RootsUnique ==
  ASSUME NEW ns, NEW n \in Nat, NEW f, NEW g, RootsOf(f, ns, n), RootsOf(g, ns, n),
         NEW k \in 1..n
  PROVE  f[k] = g[k]
<1> DEFINE Bad == {i \in Nat : i >= 1 /\ i <= n /\ f[i] # g[i]}
<1>1. ASSUME Bad # {} PROVE FALSE
  <2>1. PICK b \in Bad : \A c \in Bad : b <= c
    BY <1>1, SmallestOf
  <2>2. b \in Nat \ {0} /\ b <= n /\ f[b] # g[b]
    BY <2>1
  <2>3. PICK h \in Nat, q \in Nat : b = Upto(h, 2 * q + 1)
    BY <2>2, OddBlocks
  <2>4. Upto(h, 2 * q) \in Nat /\ Upto(h, 2 * q) < b
    BY <2>3, LowBitIs
  <2>5. q # 0 => Upto(h, 2 * q) >= 1
    <3>1. 2 * q \in Nat /\ 2 * q <= Upto(h, 2 * q)
      BY 2 * q \in Nat, Uptos
    <3>. QED
      BY <2>4, <3>1
  <2>6. q # 0 => f[Upto(h, 2 * q)] = g[Upto(h, 2 * q)]
    <3>1. q # 0 => ~(Upto(h, 2 * q) \in Bad)
      BY <2>1, <2>2, <2>4
    <3>. QED
      BY <2>2, <2>4, <2>5, <3>1
  <2>7. /\ f[b] = IF q = 0 THEN Node(ns, h, 2 * q).hash
                  ELSE <<f[Upto(h, 2 * q)], Node(ns, h, 2 * q).hash>>
        /\ g[b] = IF q = 0 THEN Node(ns, h, 2 * q).hash
                  ELSE <<g[Upto(h, 2 * q)], Node(ns, h, 2 * q).hash>>
    BY <2>2, <2>3, RootAtStep
  <2>. QED
    BY <2>2, <2>6, <2>7
<1>. QED
  BY <1>1

\* ... and so the root of so many leaves is one.
LEMMA RootAtOne ==
  ASSUME NEW ns, NEW n \in Nat \ {0}, NEW r, NEW p, RootAt(ns, n, r), RootAt(ns, n, p)
  PROVE  r = p
<1>1. PICK f : RootsOf(f, ns, n) /\ r = f[n]
  BY DEF RootAt
<1>2. PICK g : RootsOf(g, ns, n) /\ p = g[n]
  BY DEF RootAt
<1>3. n \in Nat /\ n \in 1..n
  OBVIOUS
<1>4. f[n] = g[n]
  BY <1>1, <1>2, <1>3, RootsUnique
<1>. QED
  BY <1>1, <1>2, <1>4

\* The root of one mountain is its peak; of several, it pairs the root of the mountains
\* before with the last peak, as bag_peaks() does.
LEMMA RootAtIs ==
  ASSUME NEW ns, NEW h \in Nat, NEW q \in Nat, NEW r, RootAt(ns, Upto(h, 2 * q + 1), r)
  PROVE  /\ q = 0 => r = Node(ns, h, 0).hash
         /\ q # 0 => \E x : RootAt(ns, Upto(h, 2 * q), x) /\ r = <<x, Node(ns, h, 2 * q).hash>>
<1>1. PICK n \in Nat \ {0} : n = Upto(h, 2 * q + 1)
  BY LowBitIs
<1>2. PICK f : RootsOf(f, ns, n) /\ r = f[n]
  BY <1>1 DEF RootAt
<1>3. r = IF q = 0 THEN Node(ns, h, 2 * q).hash
          ELSE <<f[Upto(h, 2 * q)], Node(ns, h, 2 * q).hash>>
  BY <1>1, <1>2, n <= n, n \in Nat, RootAtStep
<1>4. RootsOf(f, ns, Upto(h, 2 * q))
  <2>1. PICK m \in Nat : m = Upto(h, 2 * q) /\ m < n
    BY <1>1, LowBitIs
  <2>2. \A k \in 1..m : k \in 1..n
    BY <2>1
  <2>. QED
    BY <1>2, <2>1, <2>2 DEF RootsOf
<1>5. q = 0 => 2 * q = 0
  OBVIOUS
<1>. QED
  BY <1>3, <1>4, <1>5 DEF RootAt

\* The root of several mountains is a pair.
LEMMA RootOfMore ==
  ASSUME NEW ns, NEW h \in Nat, NEW q \in Nat, q # 0, NEW r, RootAt(ns, Upto(h, 2 * q + 1), r)
  PROVE  \E x : RootAt(ns, Upto(h, 2 * q), x) /\ r = <<x, Node(ns, h, 2 * q).hash>>
<1>1. /\ q = 0 => r = Node(ns, h, 0).hash
      /\ q # 0 => \E x : RootAt(ns, Upto(h, 2 * q), x) /\ r = <<x, Node(ns, h, 2 * q).hash>>
  BY RootAtIs
<1>. QED
  BY <1>1

\* ... and a pair of that form is the root.
LEMMA RootAtMade ==
  ASSUME NEW ns, NEW h \in Nat, NEW q \in Nat, NEW x, q # 0 => RootAt(ns, Upto(h, 2 * q), x)
  PROVE  RootAt(ns, Upto(h, 2 * q + 1),
                IF q = 0 THEN Node(ns, h, 0).hash ELSE <<x, Node(ns, h, 2 * q).hash>>)
<1>1. PICK n \in Nat \ {0} : n = Upto(h, 2 * q + 1)
  BY LowBitIs
<1>2. PICK f : RootsOf(f, ns, n)
  BY RootsExist
<1>3. RootAt(ns, Upto(h, 2 * q + 1), f[n])
  BY <1>1, <1>2 DEF RootAt
<1>4. CASE q = 0
  <2>1. f[n] = Node(ns, h, 0).hash
    BY <1>3, <1>4, RootAtIs
  <2>. QED
    BY <1>3, <1>4, <2>1
<1>5. CASE q # 0
  <2>1. PICK y : RootAt(ns, Upto(h, 2 * q), y) /\ f[n] = <<y, Node(ns, h, 2 * q).hash>>
    BY <1>3, <1>5, RootAtIs
  <2>2. PICK m \in Nat \ {0} : m = Upto(h, 2 * q)
    <3>1. 2 * q \in Nat /\ 2 * q # 0 /\ 2 * q <= Upto(h, 2 * q) /\ Upto(h, 2 * q) \in Nat
      BY <1>5, 2 * q \in Nat, Uptos
    <3>. QED
      BY <3>1
  <2>3. y = x
    BY <1>5, <2>1, <2>2, RootAtOne
  <2>. QED
    BY <1>3, <1>5, <2>1, <2>3
<1>. QED
  BY <1>4, <1>5

\* The root of the first leaves is not touched by later ones.
LEMMA EndRootStays ==
  ASSUME NEW n \in Nat, NEW m \in Nat, NEW ns, NEW nt, Grown(ns, n), Grown(nt, m),
         Prefix(ns, nt), NEW k \in Nat \ {0}, k <= n
  PROVE  EndRoot(nt, k) = EndRoot(ns, k)
<1>1. PICK h \in Nat, q \in Nat : k = Upto(h, 2 * q + 1)
  BY OddBlocks
<1>2. Whole(h, 2 * q, n)
  BY <1>1 DEF Whole, Upto
<1>3. Rooted(ns, h, 2 * q) /\ IsArray(ns) /\ IsArray(nt)
  BY <1>2, 2 * q \in Nat DEF Grown
<1>4. Node(nt, h, 2 * q) = Node(ns, h, 2 * q)
  BY <1>3, 2 * q \in Nat, RootedStays
<1>5. EndRoot(nt, k) = Node(nt, h, 2 * q).hash /\ EndRoot(ns, k) = Node(ns, h, 2 * q).hash
  BY <1>1, EndRootIs
<1>. QED
  BY <1>4, <1>5

\* The root of so many leaves stays the same while the range grows.
LEMMA RootStays ==
  ASSUME NEW n \in Nat, NEW m \in Nat, NEW ns, NEW nt, Grown(ns, n), Grown(nt, m),
         Prefix(ns, nt), NEW k \in Nat, k <= n, NEW r, RootAt(ns, k, r)
  PROVE  RootAt(nt, k, r)
<1>1. PICK f : RootsOf(f, ns, k) /\ r = f[k]
  BY DEF RootAt
<1>2. \A i \in 1..k : EndRoot(nt, i) = EndRoot(ns, i)
  <2>1. \A i \in 1..k : i \in Nat \ {0} /\ i <= n
    OBVIOUS
  <2>. QED
    BY <2>1, EndRootStays
<1>3. RootsOf(f, nt, k)
  BY <1>1, <1>2 DEF RootsOf
<1>. QED
  BY <1>1, <1>3 DEF RootAt

\* The root of a history is that root.
LEMMA HistoryRootIs ==
  ASSUME NEW n \in Nat \ {0}, NEW ns, Grown(ns, n), NEW s, LeavesOf(s, ns, n)
  PROVE  RootAt(ns, n, History!HistoryRoot(s))
<1> DEFINE perfect == History!PerfectRoots(s)
           Tip(k) == perfect[History!LowBit(k)]
                        [k \div History!TwoTo[History!LowBit(k)] - 1]
           Step(k, x) == IF k = History!TwoTo[History!LowBit(k)] THEN Tip(k) ELSE <<x, Tip(k)>>
           low(k) == History!TwoTo[History!LowBit(k)]
           Is(f) == f = [k \in 1..n |-> Step(k, f[k - low(k)])]
           root == CHOOSE f : Is(f)
<1>1. History!HistoryRoot(s) = root[n]
  BY DEF History!HistoryRoot, LeavesOf
<1>2. ASSUME NEW k \in 1..n PROVE Tip(k) = EndRoot(ns, k) /\ low(k) = TwoTo[LowBit(k)]
  <2>1. PICK h \in Nat, q \in Nat : k = Upto(h, 2 * q + 1)
    BY k \in Nat \ {0}, OddBlocks
  <2>2. LowBit(k) = h /\ Block(k, h) = 2 * q + 1
    BY <2>1, LowBitIs
  <2>3. Whole(h, 2 * q, n)
    BY <2>1 DEF Whole, Upto
  <2>4. h \in 0..n /\ 2 * q \in Blocks(h, n)
    <3>1. h < n /\ 2 * q \in Blocks(h, n)
      BY <2>3, n \in Nat, 2 * q \in Nat, WholeBlocks
    <3>. QED
      BY <3>1
  <2>5. perfect[h] = [j \in Blocks(h, n) |-> Node(ns, h, j).hash]
    BY <2>4, n \in Nat, PerfectRootsAre
  <2>6. perfect[h][2 * q] = Node(ns, h, 2 * q).hash
    BY <2>4, <2>5
  <2>7. k \div TwoTo[h] - 1 = 2 * q
    <3>1. PICK d \in Nat : d = k \div TwoTo[h] /\ d = 2 * q + 1
      BY <2>2 DEF Block
    <3>. QED
      BY <3>1
  <2>8. EndRoot(ns, k) = Node(ns, h, 2 * q).hash
    BY <2>1, EndRootIs
  <2>9. History!LowBit(k) = h /\ History!TwoTo = TwoTo
    BY <2>2, SameNumbers
  <2> HIDE DEF perfect
  <2>. QED
    BY <2>2, <2>6, <2>7, <2>8, <2>9
<1>3. PICK f : RootsOf(f, ns, n)
  BY n \in Nat, RootsExist
<1> DEFINE way == [k \in 1..n |-> f[k]]
<1>a. \A k : Step(k, 0) = Tip(k) \/ k # low(k)
  OBVIOUS
<1>b. \A k, x : Step(k, x) = IF k = low(k) THEN Tip(k) ELSE <<x, Tip(k)>>
  OBVIOUS
<1> HIDE DEF perfect, Tip, Step, low
<1>4. Is(way)
  <2>1. ASSUME NEW k \in 1..n PROVE way[k] = Step(k, way[k - low(k)])
    <3>1. way[k] = IF k = low(k) THEN Tip(k) ELSE <<f[k - low(k)], Tip(k)>>
      BY <1>2, <1>3 DEF RootsOf
    <3>2. k # low(k) => way[k - low(k)] = f[k - low(k)]
      <4>1. PICK h \in Nat, q \in Nat : k = Upto(h, 2 * q + 1)
        BY k \in Nat \ {0}, OddBlocks
      <4>2. LowBit(k) = h /\ k - TwoTo[h] = Upto(h, 2 * q) /\ (k = TwoTo[h] <=> q = 0)
            /\ Upto(h, 2 * q) \in Nat /\ Upto(h, 2 * q) < k
        BY <4>1, LowBitIs
      <4>3. q # 0 => Upto(h, 2 * q) >= 1
        <5>1. 2 * q \in Nat /\ 2 * q <= Upto(h, 2 * q)
          BY 2 * q \in Nat, Uptos
        <5>. QED
          BY <4>2, <5>1
      <4>4. k # low(k) => k - low(k) \in 1..n
        BY <1>2, <4>2, <4>3
      <4>. QED
        BY <4>4
    <3> HIDE DEF way
    <3>. QED
      BY <1>b, <3>1, <3>2
  <2>2. way = [k \in 1..n |-> way[k]]
    OBVIOUS
  <2> HIDE DEF way
  <2>. QED
    BY <2>1, <2>2
<1>5. Is(root)
  <2> HIDE DEF Is, way
  <2>. QED
    BY <1>4
<1>6. root = [k \in 1..n |-> Step(k, root[k - low(k)])]
  <2> HIDE DEF root
  <2>. QED
    BY <1>5
<1> HIDE DEF root
<1>7. \A k \in 1..n : root[k] = Step(k, root[k - low(k)])
  BY <1>6
<1>8. RootsOf(root, ns, n)
  <2>1. ASSUME NEW k \in 1..n
        PROVE  root[k] = IF k = TwoTo[LowBit(k)] THEN EndRoot(ns, k)
                         ELSE <<root[k - TwoTo[LowBit(k)]], EndRoot(ns, k)>>
    BY <1>2, <1>7, <1>b
  <2>. QED
    BY <2>1 DEF RootsOf
<1>. QED
  BY <1>1, <1>8 DEF RootAt

\* bag_peaks() makes that root out of the peaks.
LEMMA BagIsRoot ==
  ASSUME MmrShape, leaf_count > 0
  PROVE  RootAt(nodes, leaf_count, BagPeaks)
<1> DEFINE m == Len(peaks)
           Step(i, x) == IF i = 1 THEN NodeAt(peaks[1]).hash
                         ELSE MergeHashes(x, NodeAt(peaks[i]).hash)
           Is(f) == f = [i \in 1..m |-> Step(i, f[i - 1])]
           bag == CHOOSE f : Is(f)
<1>a. leaf_count \in Nat
  BY DEF MmrShape
<1>1. PICK hs, js : Chain(peaks, hs, js, leaf_count) /\ Falling(hs, m)
  BY DEF MmrShape, Peaked
<1>2. peaks \in Seq(Nat) /\ hs \in [1..m -> Nat] /\ js \in [1..m -> Nat] /\ m \in Nat
  <2>1. peaks \in Seq(Nat) /\ hs \in [1..m -> Nat] /\ js \in [1..m -> Nat]
    BY <1>1 DEF Chain
  <2>. QED
    BY <2>1
<1>3. m > 0 /\ js[1] = 0 /\ Upto(hs[m], js[m] + 1) = leaf_count
  BY <1>1, <1>2, <1>a DEF Chain
<1> DEFINE e(i) == Upto(hs[i], js[i] + 1)
           Roots(i, x) == RootAt(nodes, e(i), x)
<1>4. ASSUME NEW i \in 1..m, NEW x, i > 1 => Roots(i - 1, x) PROVE Roots(i, Step(i, x))
  <2>1. i > 1 => hs[i - 1] > hs[i]
    <3>1. i > 1 => i - 1 \in 1..(m - 1) /\ (i - 1) + 1 = i
      BY <1>2
    <3>. QED
      BY <1>1, <3>1 DEF Falling
  <2>2. PICK q \in Nat : js[i] = 2 * q
    BY <1>1, <1>a, <2>1, EvenPeak
  <2>3. PICK h \in Nat : h = hs[i]
    BY <1>2
  <2>4. NodeAt(peaks[i]).hash = Node(nodes, h, 2 * q).hash
    <3>1. peaks[i] = Pos(hs[i], js[i])
      BY <1>1 DEF Chain
    <3>. QED
      BY <2>2, <2>3, <3>1 DEF NodeAt, Node
  <2>5. CASE i = 1
    <3>1. q = 0
      BY <1>3, <2>2, <2>5
    <3>2. RootAt(nodes, Upto(h, 2 * q + 1), Node(nodes, h, 0).hash)
      BY <3>1, RootAtMade
    <3>3. Step(i, x) = Node(nodes, h, 0).hash /\ e(i) = Upto(h, 2 * q + 1)
      BY <2>2, <2>3, <2>4, <2>5, <3>1, 2 * 0 = 0
    <3>. QED
      BY <3>2, <3>3
  <2>6. CASE i > 1
    <3>1. i - 1 \in 1..(m - 1) /\ (i - 1) + 1 = i /\ i - 1 \in 1..m
      BY <1>2, <2>6
    <3>2. e(i - 1) = Upto(h, 2 * q)
      <4>1. Upto(hs[i - 1], js[i - 1] + 1) = Upto(hs[(i - 1) + 1], js[(i - 1) + 1])
        BY <1>1, <3>1 DEF Chain
      <4>. QED
        BY <2>2, <2>3, <3>1, <4>1
    <3>3. q # 0
      <4>1. SUFFICES ASSUME q = 0 PROVE FALSE
        OBVIOUS
      <4>2. PICK g \in Nat, j \in Nat : g = hs[i - 1] /\ j = js[i - 1] + 1 /\ j > 0
        <5>1. hs[i - 1] \in Nat /\ js[i - 1] \in Nat
          BY <1>2, <3>1
        <5>2. js[i - 1] + 1 \in Nat /\ js[i - 1] + 1 > 0
          BY <5>1
        <5>. QED
          BY <5>1, <5>2
      <4>3. Upto(g, j) = Upto(h, 0)
        <5>1. 2 * q = 0
          BY <4>1
        <5>2. e(i - 1) = Upto(g, j)
          BY <4>2
        <5>. QED
          BY <3>2, <5>1, <5>2
      <4>4. Upto(g, j) >= j /\ Upto(h, 0) = 0
        BY Uptos
      <4>. QED
        BY <4>2, <4>3, <4>4
    <3>4. RootAt(nodes, Upto(h, 2 * q), x)
      BY <1>4, <2>6, <3>2
    <3>5. RootAt(nodes, Upto(h, 2 * q + 1), <<x, Node(nodes, h, 2 * q).hash>>)
      BY <3>3, <3>4, RootAtMade
    <3>6. Step(i, x) = <<x, Node(nodes, h, 2 * q).hash>> /\ e(i) = Upto(h, 2 * q + 1)
      BY <2>2, <2>3, <2>4, <2>6 DEF MergeHashes
    <3>. QED
      BY <3>5, <3>6
  <2>. QED
    BY <1>2, <2>5, <2>6
<1>5. BagPeaks = bag[m]
  BY DEF BagPeaks
<1>6. e(m) = leaf_count
  BY <1>3
<1> HIDE DEF m, Step, e, Roots
<1>7. PICK way : Is(way)
  <2> DEFINE Has(k) == \E f : \A i \in 1..k : f[i] = Step(i, f[i - 1])
             Bad == {k \in Nat : ~Has(k)}
  <2>1. Has(0)
    OBVIOUS
  <2>2. ASSUME NEW k \in Nat, Has(k) PROVE Has(k + 1)
    <3>1. PICK f : \A i \in 1..k : f[i] = Step(i, f[i - 1])
      BY <2>2
    <3> DEFINE g == [i \in 0..(k + 1) |-> IF i <= k THEN f[i] ELSE Step(i, f[i - 1])]
    <3>2. \A i \in 1..(k + 1) : g[i] = Step(i, f[i - 1]) /\ g[i - 1] = f[i - 1]
      BY <3>1
    <3> HIDE DEF g
    <3>. QED
      BY <3>2
  <2> HIDE DEF Has
  <2>3. ASSUME Bad # {} PROVE FALSE
    <3>1. PICK b \in Bad : \A c \in Bad : b <= c
      BY <2>3, SmallestOf
    <3>2. b \in Nat /\ ~Has(b)
      BY <3>1
    <3>3. PICK c \in Nat : b = c + 1
      BY <2>1, <3>2
    <3>4. Has(c)
      BY <3>1, <3>3
    <3>. QED
      BY <2>2, <3>2, <3>3, <3>4
  <2>4. Has(m)
    BY <1>2, <2>3
  <2>5. PICK f : \A i \in 1..m : f[i] = Step(i, f[i - 1])
    BY <2>4 DEF Has
  <2> DEFINE g == [i \in 1..m |-> f[i]]
  <2>6. ASSUME NEW i \in 1..m PROVE g[i] = Step(i, g[i - 1])
    <3>1. CASE i = 1
      <4>1. \A x, y : Step(i, x) = Step(i, y)
        BY <3>1 DEF Step
      <4>2. g[i] = Step(i, f[i - 1])
        BY <2>5
      <4> HIDE DEF g
      <4>. QED
        BY <4>1, <4>2
    <3>2. CASE i # 1
      <4>1. i - 1 \in 1..m
        BY <1>2, <3>2
      <4>2. g[i] = Step(i, f[i - 1]) /\ g[i - 1] = f[i - 1]
        BY <2>5, <4>1
      <4> HIDE DEF g
      <4>. QED
        BY <4>2
    <3>. QED
      BY <3>1, <3>2
  <2>7. g = [i \in 1..m |-> g[i]]
    OBVIOUS
  <2> HIDE DEF g
  <2>8. Is(g)
    BY <2>6, <2>7
  <2>. QED
    BY <2>8
<1>8. Is(bag)
  <2> HIDE DEF Is
  <2>. QED
    BY <1>7
<1>9. bag = [i \in 1..m |-> Step(i, bag[i - 1])]
  <2> HIDE DEF bag
  <2>. QED
    BY <1>8
<1> HIDE DEF bag
<1>10. \A i \in 1..m : bag[i] = Step(i, bag[i - 1])
  BY <1>9
<1> DEFINE Bad == {i \in Nat : i >= 1 /\ i <= m /\ ~Roots(i, bag[i])}
<1>11. ASSUME Bad # {} PROVE FALSE
  <2>1. PICK b \in Bad : \A c \in Bad : b <= c
    BY <1>11, SmallestOf
  <2>2. b \in 1..m /\ ~Roots(b, bag[b])
    BY <1>2, <2>1
  <2>3. b > 1 => Roots(b - 1, bag[b - 1])
    <3>1. b > 1 => b - 1 \in Nat /\ b - 1 >= 1 /\ b - 1 <= m /\ b - 1 < b
      BY <1>2, <2>2
    <3>. QED
      BY <2>1, <3>1
  <2>4. Roots(b, Step(b, bag[b - 1]))
    BY <1>4, <2>2, <2>3
  <2>. QED
    BY <1>10, <2>2, <2>4
<1>12. Roots(m, bag[m])
  <2>1. m \in Nat /\ m >= 1 /\ m <= m
    BY <1>2, <1>3
  <2>2. \A i \in Nat : i >= 1 /\ i <= m => Roots(i, bag[i])
    BY <1>11
  <2>. QED
    BY <2>1, <2>2
<1>. QED
  BY <1>5, <1>6, <1>12 DEF Roots

-----------------------------------------------------------------------------
\* The range implements the history, call by call.
LEMMA LeavesKept == ASSUME UNCHANGED <<nodes, leaf_count>> PROVE Leaves' = Leaves
BY DEF Leaves, NodeAt

\* append() adds one leaf to the history and keeps the others.
LEMMA AppendAdds ==
  ASSUME MmrInv, NEW h \in Hashes, AppendLeaf(h)
  PROVE  History!AddLeaf
<1> DEFINE n == leaf_count
<1>a. MmrShape /\ n \in Nat /\ Grown(nodes, n)
  BY DEF MmrInv, MmrShape
<1>1. /\ leaf_count' = n + 1 /\ Prefix(nodes, nodes')
      /\ nodes'[LeafNodePos(n) + 1] = [hash |-> h, height |-> 0]
  BY <1>a, AppendShape
<1>2. Leaves' = [k \in 1..(n + 1) |-> nodes'[LeafNodePos(k - 1) + 1].hash]
  BY <1>1 DEF Leaves, NodeAt
<1>3. Leaves = [k \in 1..n |-> nodes[LeafNodePos(k - 1) + 1].hash]
  BY DEF Leaves, NodeAt
<1>4. IsArray(Leaves) /\ Len(Leaves) = n
  BY <1>a, <1>3 DEF IsArray
<1>5. /\ IsArray(Append(Leaves, h)) /\ Len(Append(Leaves, h)) = n + 1
      /\ Prefix(Leaves, Append(Leaves, h)) /\ Append(Leaves, h)[n + 1] = h
  BY <1>4, AppendArray
<1>6. ASSUME NEW k \in 1..(n + 1)
      PROVE  Append(Leaves, h)[k] = nodes'[LeafNodePos(k - 1) + 1].hash
  <2>1. CASE k = n + 1
    <3>1. k - 1 = n
      BY <1>a, <2>1
    <3>. QED
      BY <1>1, <1>5, <2>1, <3>1
  <2>2. CASE k # n + 1
    <3>1. k \in 1..n /\ k - 1 \in Nat
      BY <1>a, <2>2
    <3>2. Append(Leaves, h)[k] = Leaves[k]
      BY <1>4, <1>5, <3>1 DEF Prefix
    <3>3. Leaves[k] = nodes[LeafNodePos(k - 1) + 1].hash
      BY <1>3, <3>1
    <3>4. LeafNodePos(k - 1) \in Nat /\ LeafNodePos(k - 1) < Len(nodes) /\ Len(nodes) \in Nat
      <4>1. Upto(0, (k - 1) + 1) = (k - 1) + 1
        BY <3>1, Powers DEF Upto
      <4>2. Whole(0, k - 1, n)
        BY <3>1, <4>1 DEF Whole, Upto
      <4>3. Rooted(nodes, 0, k - 1)
        BY <1>a, <3>1, <4>2 DEF Grown
      <4>. QED
        BY <1>a, <3>1, <4>3, LeafPos DEF Rooted, Grown, IsArray
    <3>5. nodes'[LeafNodePos(k - 1) + 1] = nodes[LeafNodePos(k - 1) + 1]
      <4>1. LeafNodePos(k - 1) + 1 \in 1..Len(nodes)
        BY <3>4
      <4>. QED
        BY <1>1, <4>1 DEF Prefix
    <3>. QED
      BY <3>2, <3>3, <3>5
  <2>. QED
    BY <2>1, <2>2
<1>7. Leaves' = Append(Leaves, h)
  <2>1. Append(Leaves, h) = [k \in 1..(n + 1) |-> Append(Leaves, h)[k]]
    BY <1>5 DEF IsArray
  <2>. QED
    BY <1>2, <1>6, <2>1
<1>8. UNCHANGED <<epoch, nullified, seals>>
  BY DEF AppendLeaf
<1>. QED
  BY <1>7, <1>8 DEF History!AddLeaf

\* The root that seal_epoch() bags is the root of the history.
LEMMA SealSeals ==
  ASSUME MmrInv, SealEpoch
  PROVE  History!SealHistory
<1>a. MmrShape /\ leaf_count \in Nat \ {0} /\ Grown(nodes, leaf_count) /\ leaf_count > 0
  BY DEF MmrInv, MmrShape, SealEpoch
<1>1. LeavesOf(Leaves, nodes, leaf_count)
  BY <1>a, LeavesAre
<1>2. BagPeaks = History!HistoryRoot(Leaves)
  <2>1. RootAt(nodes, leaf_count, History!HistoryRoot(Leaves))
    BY <1>a, <1>1, HistoryRootIs
  <2>2. RootAt(nodes, leaf_count, BagPeaks)
    BY <1>a, BagIsRoot
  <2>. QED
    BY <1>a, <2>1, <2>2, RootAtOne
<1>3. Len(Leaves) = leaf_count /\ Leaves # <<>>
  BY <1>a, <1>1 DEF LeavesOf
<1>4. /\ seals' = Append(seals, [epoch |-> epoch, root |-> BagPeaks, leaf_count |-> leaf_count])
      /\ epoch' = epoch + 1 /\ UNCHANGED <<nodes, leaf_count, nullified>>
  BY DEF SealEpoch
<1>5. Leaves' = Leaves
  BY <1>4, LeavesKept
<1>. QED
  BY <1>2, <1>3, <1>4, <1>5 DEF History!SealHistory

\* Every call is a step of the history or a stutter.
LEMMA RangeStep ==
  ASSUME MmrInv, MmrAssumption, [MmrNext]_mmrVars
  PROVE  [History!HistoryNext]_(History!historyVars)
<1>a. MmrShape /\ leaf_count \in Nat /\ Erasable \subseteq Nat
  BY DEF MmrInv, MmrShape, MmrAssumption
<1>1. ASSUME NEW h \in Hashes, AppendLeaf(h) PROVE History!HistoryNext
  BY <1>1, AppendAdds DEF History!HistoryNext
<1>2. CASE SealEpoch
  BY <1>2, SealSeals DEF History!HistoryNext
<1>3. ASSUME NEW i \in Erasable, Nullify(i) PROVE History!HistoryNext
  <2>1. /\ i < leaf_count /\ nullified' = nullified \cup {i}
        /\ UNCHANGED <<nodes, leaf_count, epoch, seals>>
    BY <1>3 DEF Nullify
  <2>2. Leaves' = Leaves
    BY <2>1, LeavesKept
  <2>3. Len(Leaves) = leaf_count
    BY <1>a, LeavesAre DEF LeavesOf
  <2>4. i \in 0..(Len(Leaves) - 1)
    BY <1>a, <2>1, <2>3
  <2>5. History!EraseLeaf
    BY <2>1, <2>2, <2>4 DEF History!EraseLeaf
  <2>. QED
    BY <2>5 DEF History!HistoryNext
<1>4. CASE UNCHANGED <<nodes, leaf_count, epoch, nullified, seals>>
  BY <1>4, LeavesKept DEF History!historyVars
<1>5. ASSUME NEW i \in 0..MaxLeaves, GenerateProof(i)
      PROVE  UNCHANGED <<nodes, leaf_count, epoch, nullified, seals>>
  BY <1>5 DEF GenerateProof
<1>6. UNCHANGED mmrVars => UNCHANGED <<nodes, leaf_count, epoch, nullified, seals>>
  BY DEF mmrVars
<1>. QED
  BY <1>1, <1>2, <1>3, <1>4, <1>5, <1>6 DEF MmrNext

\* Node arrays and peaks implement a growing list of leaves: every append adds its leaf
\* and moves none, erasure touches none, and a seal commits to all the leaves of its
\* time in their order; mmr.rs:92-129, 136-173.
THEOREM MmrImplementsHistory == MmrSpec => ImplementsHistory
<1>1. MmrInit => History!HistoryInit
  BY DEF MmrInit, History!HistoryInit, Leaves
<1>2. MmrInv /\ [MmrNext]_mmrVars => [History!HistoryNext]_(History!historyVars)
  BY MmrAssumption, RangeStep
<1>. QED
  BY <1>1, <1>2, RangeShape, PTL DEF MmrSpec, ImplementsHistory, History!HistorySpec

-----------------------------------------------------------------------------
\* Equal hashes were made alike: the trees are of one height and have the same leaves.
Hashed(ns, n) == \A i \in Nat : Whole(0, i, n) => Node(ns, 0, i).hash \in Hashes
Alike(ns, a, i, j) ==
  \A l \in Nat : Block(l, a) = i =>
    \E k \in Nat : Block(k, a) = j /\ Node(ns, 0, k).hash = Node(ns, 0, l).hash
SameTree(ns, n, a) ==
  \A b, i, j \in Nat :
    Whole(a, i, n) /\ Whole(b, j, n) /\ Node(ns, a, i).hash = Node(ns, b, j).hash
      => a = b /\ Alike(ns, a, i, j)

\* The hash of a datum is not the hash of two hashes.
LEMMA OneIsNoPair == ASSUME NEW x \in Hashes, NEW y, NEW z PROVE x # <<y, z>>
<1>1. PICK d \in Data : x = <<d>>
  BY DEF Hashes
<1>2. Len(<<d>>) = 1 /\ Len(<<y, z>>) = 2
  OBVIOUS
<1>. QED
  BY <1>1, <1>2

\* merge_hashes() of different hashes differ.
LEMMA PairsDiffer ==
  ASSUME NEW u, NEW v, NEW x, NEW y, MergeHashes(u, v) = MergeHashes(x, y)
  PROVE  u = x /\ v = y
BY DEF MergeHashes

\* So it is for leaves, ...
LEMMA LeafTrees ==
  ASSUME NEW n \in Nat, NEW ns, Grown(ns, n), Hashed(ns, n)
  PROVE  SameTree(ns, n, 0)
<1>1. \A i \in Nat : Block(i, 0) = i
  <2>1. ASSUME NEW i \in Nat PROVE Block(i, 0) = i
    <3>1. Upto(0, i) = i /\ Upto(0, i + 1) = i + 1
      BY Powers DEF Upto
    <3>. QED
      BY <3>1, BlockIs
  <2>. QED
    BY <2>1
<1>2. ASSUME NEW b \in Nat, NEW i \in Nat, NEW j \in Nat, Whole(0, i, n), Whole(b, j, n),
             Node(ns, 0, i).hash = Node(ns, b, j).hash
      PROVE  0 = b /\ Alike(ns, 0, i, j)
  <2>1. Node(ns, 0, i).hash \in Hashes
    BY <1>2 DEF Hashed
  <2>2. b = 0
    <3>1. SUFFICES ASSUME b # 0 PROVE FALSE
      OBVIOUS
    <3>2. PICK c \in Nat : b = c + 1
      BY <3>1
    <3>3. Node(ns, b, j).hash = MergeHashes(Node(ns, c, 2 * j).hash, Node(ns, c, 2 * j + 1).hash)
      BY <1>2, <3>2, RootOfHalves
    <3>. QED
      BY <1>2, <2>1, <3>3, OneIsNoPair DEF MergeHashes
  <2>3. Alike(ns, 0, i, j)
    BY <1>1, <1>2, <2>2 DEF Alike
  <2>. QED
    BY <2>2, <2>3
<1>. QED
  BY <1>2 DEF SameTree

\* ... for trees of the next height, ...
LEMMA LargerTrees ==
  ASSUME NEW n \in Nat, NEW ns, Grown(ns, n), Hashed(ns, n), NEW a \in Nat, SameTree(ns, n, a)
  PROVE  SameTree(ns, n, a + 1)
<1>1. ASSUME NEW b \in Nat, NEW i \in Nat, NEW j \in Nat, Whole(a + 1, i, n), Whole(b, j, n),
             Node(ns, a + 1, i).hash = Node(ns, b, j).hash
      PROVE  a + 1 = b /\ Alike(ns, a + 1, i, j)
  <2>1. /\ Whole(a, 2 * i, n) /\ Whole(a, 2 * i + 1, n)
        /\ Node(ns, a + 1, i).hash
             = MergeHashes(Node(ns, a, 2 * i).hash, Node(ns, a, 2 * i + 1).hash)
    BY <1>1, RootOfHalves
  <2>2. b # 0
    <3>1. SUFFICES ASSUME b = 0 PROVE FALSE
      OBVIOUS
    <3>2. Node(ns, b, j).hash \in Hashes
      BY <1>1, <3>1 DEF Hashed
    <3>. QED
      BY <1>1, <2>1, <3>2, OneIsNoPair DEF MergeHashes
  <2>3. PICK c \in Nat : b = c + 1
    BY <2>2
  <2>4. /\ Whole(c, 2 * j, n) /\ Whole(c, 2 * j + 1, n)
        /\ Node(ns, b, j).hash
             = MergeHashes(Node(ns, c, 2 * j).hash, Node(ns, c, 2 * j + 1).hash)
    BY <1>1, <2>3, RootOfHalves
  <2>5. /\ Node(ns, a, 2 * i).hash = Node(ns, c, 2 * j).hash
        /\ Node(ns, a, 2 * i + 1).hash = Node(ns, c, 2 * j + 1).hash
    BY <1>1, <2>1, <2>4, PairsDiffer
  <2>6. a = c /\ Alike(ns, a, 2 * i, 2 * j)
    BY <2>1, <2>4, <2>5, 2 * i \in Nat, 2 * j \in Nat DEF SameTree
  <2>7. Alike(ns, a, 2 * i + 1, 2 * j + 1)
    BY <2>1, <2>4, <2>5, 2 * i + 1 \in Nat, 2 * j + 1 \in Nat DEF SameTree
  <2>8. ASSUME NEW l \in Nat, Block(l, a + 1) = i
        PROVE  \E k \in Nat : Block(k, a + 1) = j /\ Node(ns, 0, k).hash = Node(ns, 0, l).hash
    <3>1. PICK q \in Nat : Block(l, a) = 2 * q \/ Block(l, a) = 2 * q + 1
      BY BlockHolds, Halves
    <3>2. q = i
      <4>1. Block(l, a + 1) = q
        BY <3>1, BlockAbove
      <4>. QED
        BY <2>8, <4>1
    <3>3. CASE Block(l, a) = 2 * i
      <4>1. PICK k \in Nat : Block(k, a) = 2 * j /\ Node(ns, 0, k).hash = Node(ns, 0, l).hash
        BY <2>6, <3>3 DEF Alike
      <4>2. Block(k, a + 1) = j
        BY <4>1, BlockAbove
      <4>. QED
        BY <4>1, <4>2
    <3>4. CASE Block(l, a) = 2 * i + 1
      <4>1. PICK k \in Nat : Block(k, a) = 2 * j + 1 /\ Node(ns, 0, k).hash = Node(ns, 0, l).hash
        BY <2>7, <3>4 DEF Alike
      <4>2. Block(k, a + 1) = j
        BY <4>1, BlockAbove
      <4>. QED
        BY <4>1, <4>2
    <3>. QED
      BY <3>1, <3>2, <3>3, <3>4
  <2>9. Alike(ns, a + 1, i, j)
    BY <2>8 DEF Alike
  <2>. QED
    BY <2>3, <2>6, <2>9
<1>. QED
  BY <1>1 DEF SameTree

\* ... and for all.
LEMMA SameTrees ==
  ASSUME NEW n \in Nat, NEW ns, Grown(ns, n), Hashed(ns, n)
  PROVE  \A a \in Nat : SameTree(ns, n, a)
<1> DEFINE Bad == {a \in Nat : ~SameTree(ns, n, a)}
<1>1. ASSUME Bad # {} PROVE FALSE
  <2>1. PICK b \in Bad : \A c \in Bad : b <= c
    BY <1>1, SmallestOf
  <2>2. b \in Nat /\ ~SameTree(ns, n, b)
    BY <2>1
  <2>3. PICK c \in Nat : b = c + 1
    BY <2>2, LeafTrees
  <2>4. SameTree(ns, n, c)
    BY <2>1, <2>3
  <2>. QED
    BY <2>2, <2>3, <2>4, LargerTrees
<1>. QED
  BY <1>1

\* The root of some leaves is the root of a block only if their number is its size.
LEMMA PerfectIsPower ==
  ASSUME NEW n \in Nat, NEW ns, Grown(ns, n), Hashed(ns, n),
         NEW m \in Nat \ {0}, m <= n, NEW r, RootAt(ns, m, r),
         NEW b \in Nat, NEW j \in Nat, Whole(b, j, n), r = Node(ns, b, j).hash
  PROVE  m = TwoTo[b]
<1> DEFINE Fine(k) == \A x : \A c, i \in Nat :
                        RootAt(ns, k, x) /\ Whole(c, i, n) /\ x = Node(ns, c, i).hash
                          => k = TwoTo[c]
           Bad == {k \in Nat : k # 0 /\ k <= n /\ ~Fine(k)}
<1>1. \A a \in Nat : SameTree(ns, n, a)
  BY SameTrees
<1>2. ASSUME NEW k \in Nat \ {0}, k <= n, \A i \in Nat : i # 0 /\ i < k => Fine(i),
             NEW x, NEW c \in Nat, NEW i \in Nat,
             RootAt(ns, k, x), Whole(c, i, n), x = Node(ns, c, i).hash
      PROVE  k = TwoTo[c]
  <2>1. PICK h \in Nat, q \in Nat : k = Upto(h, 2 * q + 1)
    BY OddBlocks
  <2>2. Whole(h, 2 * q, n)
    BY <1>2, <2>1 DEF Whole, Upto
  <2>3. CASE q = 0
    <3>0. RootAt(ns, Upto(h, 2 * q + 1), x)
      BY <1>2, <2>1
    <3>1. x = Node(ns, h, 0).hash
      BY <2>3, <3>0, RootAtIs
    <3>2. Whole(h, 0, n)
      BY <2>2, <2>3, 2 * 0 = 0
    <3>3. h = c
      BY <1>1, <1>2, <3>1, <3>2, 0 \in Nat DEF SameTree
    <3>4. k = TwoTo[h]
      BY <2>1, <2>3, LowBitIs
    <3>. QED
      BY <3>3, <3>4
  <2>4. CASE q # 0
    <3>0. RootAt(ns, Upto(h, 2 * q + 1), x)
      BY <1>2, <2>1
    <3>1. PICK y : RootAt(ns, Upto(h, 2 * q), y) /\ x = <<y, Node(ns, h, 2 * q).hash>>
      BY <2>4, <3>0, RootOfMore
    <3>2. c # 0
      <4>1. SUFFICES ASSUME c = 0 PROVE FALSE
        OBVIOUS
      <4>2. x \in Hashes
        BY <1>2, <4>1 DEF Hashed
      <4>. QED
        BY <3>1, <4>2, OneIsNoPair
    <3>3. PICK d \in Nat : c = d + 1
      BY <3>2
    <3>4. /\ Whole(d, 2 * i, n) /\ Whole(d, 2 * i + 1, n)
          /\ x = MergeHashes(Node(ns, d, 2 * i).hash, Node(ns, d, 2 * i + 1).hash)
      BY <1>2, <3>3, RootOfHalves
    <3>5. y = Node(ns, d, 2 * i).hash /\ Node(ns, h, 2 * q).hash = Node(ns, d, 2 * i + 1).hash
      <4>1. x = MergeHashes(y, Node(ns, h, 2 * q).hash)
        BY <3>1 DEF MergeHashes
      <4>. QED
        BY <3>4, <4>1, PairsDiffer
    <3>6. h = d
      BY <1>1, <2>2, <3>4, <3>5, 2 * q \in Nat, 2 * i + 1 \in Nat DEF SameTree
    <3>7. PICK e \in Nat : e = Upto(h, 2 * q) /\ e < k /\ e # 0
      <4>1. 2 * q \in Nat /\ 2 * q # 0 /\ 2 * q <= Upto(h, 2 * q)
        BY <2>4, 2 * q \in Nat, Uptos
      <4>2. Upto(h, 2 * q) \in Nat /\ Upto(h, 2 * q) < k
        BY <2>1, LowBitIs
      <4>. QED
        BY <4>1, <4>2
    <3>8. Fine(e)
      BY <1>2, <3>7
    <3>9. e = TwoTo[h]
      BY <3>1, <3>4, <3>5, <3>6, <3>7, <3>8, 2 * i \in Nat
    <3>10. Upto(h, 2 * q) = Upto(h, 1)
      BY <3>7, <3>9, Uptos
    <3>11. 2 * q = 1
      BY <3>10, 2 * q \in Nat, UptoSame
    <3>. QED
      BY <3>11
  <2>. QED
    BY <2>3, <2>4
<1>3. \A k \in Nat \ {0} : k <= n /\ (\A i \in Nat : i # 0 /\ i < k => Fine(i)) => Fine(k)
  BY <1>2
<1> HIDE DEF Fine
<1>4. ASSUME Bad # {} PROVE FALSE
  <2>1. PICK k \in Bad : \A i \in Bad : k <= i
    BY <1>4, SmallestOf
  <2>2. k \in Nat \ {0} /\ k <= n /\ ~Fine(k)
    BY <2>1
  <2>3. ASSUME NEW i \in Nat, i # 0, i < k PROVE Fine(i)
    <3>1. i <= n
      BY <2>2, <2>3
    <3>. QED
      BY <2>1, <2>2, <2>3, <3>1
  <2>. QED
    BY <1>3, <2>2, <2>3
<1>5. Fine(m)
  BY <1>4
<1>. QED
  BY <1>5 DEF Fine

-----------------------------------------------------------------------------
\* With one mountain, every way up ends at its peak.
LEMMA OneMountain ==
  ASSUME NEW n \in Nat, NEW i \in Nat, i < n, NEW b \in Nat, Mountain(n, i, b),
         NEW c \in Nat, n = TwoTo[c]
  PROVE  b = c /\ Block(i, b) = 0
<1>1. PICK q \in Nat : Block(i, b) = 2 * q /\ ~Whole(b, 2 * q + 1, n)
  BY DEF Mountain
<1>2. Whole(b, 2 * q, n)
  BY <1>1, b <= b DEF Mountain
<1>3. n = Upto(c, 1)
  BY Uptos
<1>4. PICK u \in Nat : u = 2 * q
  OBVIOUS
<1>5. Upto(b, u + 1) <= n /\ ~(Upto(b, u + 2) <= n)
  <2>1. u + 1 \in Nat /\ (u + 1) + 1 = u + 2
    OBVIOUS
  <2>. QED
    BY <1>1, <1>2, <1>4, <2>1, WholeBlocks
<1>6. ~(b < c)
  <2>1. SUFFICES ASSUME b < c PROVE FALSE
    OBVIOUS
  <2>a. PICK o \in Nat : o = 1 /\ c > b
    BY <2>1
  <2>b. PICK e \in Nat : Upto(c, o) = Upto(b, 2 * e) /\ o <= e
    BY <2>a, LargerIsEven
  <2>2. Upto(c, 1) = Upto(b, 2 * e)
    BY <2>a, <2>b
  <2>3. PICK v \in Nat : v = 2 * e
    OBVIOUS
  <2>4. n = Upto(b, v)
    BY <1>3, <2>2, <2>3
  <2>5. u + 1 \in Nat /\ u + 2 \in Nat
    OBVIOUS
  <2>6. u + 1 <= v
    BY <1>5, <2>4, <2>5, Uptos
  <2>7. v < u + 2
    <3>1. SUFFICES ASSUME u + 2 <= v PROVE FALSE
      OBVIOUS
    <3>2. CASE u + 2 = v
      BY <1>5, <2>4, <3>2
    <3>3. CASE u + 2 < v
      <4>1. Upto(b, u + 2) < Upto(b, v)
        BY <2>5, <3>3, UptoGrows
      <4>2. Upto(b, u + 2) \in Nat
        BY <2>5, UptoNat
      <4>. QED
        BY <1>5, <2>4, <4>1, <4>2
    <3>. QED
      BY <3>1, <3>2, <3>3
  <2>. QED
    BY ONLY <1>4, <2>3, <2>6, <2>7, q \in Nat, e \in Nat, u \in Nat, v \in Nat
<1>7. ~(c < b)
  <2>1. SUFFICES ASSUME c < b PROVE FALSE
    OBVIOUS
  <2>2. TwoTo[c] < TwoTo[b] /\ TwoTo[c] \in Nat /\ TwoTo[b] \in Nat
    BY <2>1, PowersGrow
  <2>3. TwoTo[b] = Upto(b, 1)
    BY Uptos
  <2>4. u + 1 \in Nat
    OBVIOUS
  <2>a. PICK o \in Nat : o = 1
    OBVIOUS
  <2>b. PICK w \in Nat : w = u + 1
    OBVIOUS
  <2>c. Upto(b, o) \in Nat /\ Upto(b, w) \in Nat
    BY UptoNat
  <2>d. Upto(b, o) <= Upto(b, w)
    <3>1. CASE o = w
      BY <2>c, <3>1
    <3>2. CASE o < w
      BY <2>c, <3>2, UptoGrows
    <3>. QED
      BY <2>a, <2>b, <3>1, <3>2
  <2>5. Upto(b, 1) <= Upto(b, u + 1)
    BY <2>a, <2>b, <2>d
  <2>6. Upto(b, u + 1) \in Nat
    BY <2>4, UptoNat
  <2>. QED
    BY <1>5, <2>2, <2>3, <2>5, <2>6
<1>8. b = c
  BY <1>6, <1>7
<1>9. u = 0
  <2>1. u + 1 \in Nat /\ 1 \in Nat
    OBVIOUS
  <2>2. Upto(b, u + 1) <= Upto(b, 1)
    BY <1>3, <1>5, <1>8
  <2>3. u + 1 <= 1
    BY <2>1, <2>2, Uptos
  <2>. QED
    BY <2>3
<1>. QED
  BY <1>1, <1>4, <1>8, <1>9

-----------------------------------------------------------------------------
\* The invariant of the prover: the leaves are hashes of data, and every seal, queued
\* or consolidated, is the root of the first leaf_count leaves to this day.
HashedLeaves == \A k \in 1..leaf_count : Leaves[k] \in Hashes
GoodSeal(s, ns, n) ==
  s.leaf_count \in Nat \ {0} /\ s.leaf_count <= n /\ RootAt(ns, s.leaf_count, s.root)
GoodSeals(ss, ns, n) == IsArray(ss) /\ \A k \in 1..Len(ss) : GoodSeal(ss[k], ns, n)
SealsInv == GoodSeals(seals, nodes, leaf_count) /\ GoodSeals(sealed_epochs, nodes, leaf_count)
ProverInv == MmrInv /\ HashedLeaves /\ SealsInv /\ ProvenIsCommitted

\* The leaves in the array are hashes of data.
LEMMA HashedNodes == ASSUME MmrShape, HashedLeaves PROVE Hashed(nodes, leaf_count)
<1>1. leaf_count \in Nat
  BY DEF MmrShape
<1>2. ASSUME NEW i \in Nat, Whole(0, i, leaf_count) PROVE Node(nodes, 0, i).hash \in Hashes
  <2>1. i < leaf_count
    BY <1>1, <1>2, WholeBlocks
  <2>2. PICK k \in 1..leaf_count : k = i + 1
    BY <1>1, <2>1
  <2>3. Leaves[k] = Node(nodes, 0, k - 1).hash /\ k - 1 = i
    BY <2>2, LeavesAre
  <2>. QED
    BY <2>3 DEF HashedLeaves
<1>. QED
  BY <1>2 DEF Hashed

\* What a proof folds to is the root of a seal only if the leaf is under the seal.
LEMMA WitnessCovered ==
  ASSUME MmrInv, HashedLeaves, held # None, NEW s, GoodSeal(s, nodes, leaf_count),
         FoldSiblings(held.leaf_hash, held.siblings) = s.root
  PROVE  /\ \E k \in 1..s.leaf_count : held.leaf_hash = Leaves[k]
         /\ \E b \in 0..s.leaf_count : s.leaf_count = TwoTo[b]
<1>a. MmrShape /\ leaf_count \in Nat /\ Grown(nodes, leaf_count) /\ HeldInv
  BY DEF MmrInv, MmrShape
<1>b. Hashed(nodes, leaf_count)
  BY <1>a, HashedNodes
<1>1. PICK i \in Nat, b \in Nat :
        /\ held.leaf_index = i /\ held.at \in Nat /\ i < held.at /\ held.at <= leaf_count
        /\ Mountain(held.at, i, b) /\ Len(held.siblings) = b
        /\ held.leaf_hash = Node(nodes, 0, i).hash
        /\ FoldSiblings(held.leaf_hash, held.siblings) = Node(nodes, b, Block(i, b)).hash
  BY <1>a DEF HeldInv, HeldIs
<1>2. PICK m \in Nat \ {0} : m = s.leaf_count /\ m <= leaf_count /\ RootAt(nodes, m, s.root)
  BY DEF GoodSeal
<1>3. PICK j \in Nat : j = Block(i, b) /\ Whole(b, j, leaf_count)
  BY <1>a, <1>1, MountainBlocks
<1>4. s.root = Node(nodes, b, j).hash
  BY <1>1, <1>3
<1>5. m = TwoTo[b]
  BY <1>a, <1>b, <1>2, <1>3, <1>4, PerfectIsPower
<1>6. m = Upto(b, 2 * 0 + 1) /\ m = Upto(b, 1)
  <2>1. 2 * 0 + 1 = 1
    OBVIOUS
  <2>. QED
    BY <1>5, <2>1, Uptos
<1>7. s.root = Node(nodes, b, 0).hash
  <2>1. RootAt(nodes, Upto(b, 2 * 0 + 1), s.root)
    BY <1>2, <1>6
  <2>. QED
    BY <2>1, 0 \in Nat, RootAtIs
<1>8. Whole(b, 0, leaf_count)
  <2>1. Upto(b, 0 + 1) <= leaf_count
    <3>1. 0 + 1 = 1
      OBVIOUS
    <3>. QED
      BY <1>2, <1>6, <3>1
  <2>. QED
    BY <1>a, <2>1, 0 \in Nat, WholeBlocks
<1>9. SameTree(nodes, leaf_count, b)
  BY <1>a, <1>b, SameTrees
<1>10. Alike(nodes, b, j, 0)
  BY <1>3, <1>4, <1>7, <1>8, <1>9, 0 \in Nat DEF SameTree
<1>11. PICK l \in Nat : Block(l, b) = 0 /\ Node(nodes, 0, l).hash = Node(nodes, 0, i).hash
  BY <1>3, <1>10 DEF Alike
<1>12. l < m
  <2>1. l < Upto(b, Block(l, b) + 1)
    BY BlockHolds
  <2>2. Block(l, b) + 1 = 1
    BY <1>11
  <2>. QED
    BY <1>6, <2>1, <2>2
<1>13. PICK k \in 1..m : k = l + 1
  BY <1>2, <1>12
<1>14. Leaves[k] = Node(nodes, 0, k - 1).hash /\ k - 1 = l
  <2>1. k \in 1..leaf_count
    BY <1>a, <1>2
  <2>. QED
    BY <1>a, <1>13, <2>1, LeavesAre
<1>15. held.leaf_hash = Leaves[k]
  BY <1>1, <1>11, <1>14
<1>16. b \in 0..m
  BY <1>2, <1>5, PowersGrow
<1>. QED
  BY <1>2, <1>5, <1>13, <1>15, <1>16

\* With one mountain, a proof folds to the root of the range.
LEMMA WitnessAccepted ==
  ASSUME MmrInv, held # None, NEW s, GoodSeal(s, nodes, leaf_count), s.leaf_count = held.at,
         NEW c \in Nat, s.leaf_count = TwoTo[c]
  PROVE  FoldSiblings(held.leaf_hash, held.siblings) = s.root
<1>1. PICK i \in Nat, b \in Nat :
        /\ held.leaf_index = i /\ held.at \in Nat /\ i < held.at /\ held.at <= leaf_count
        /\ Mountain(held.at, i, b) /\ Len(held.siblings) = b
        /\ held.leaf_hash = Node(nodes, 0, i).hash
        /\ FoldSiblings(held.leaf_hash, held.siblings) = Node(nodes, b, Block(i, b)).hash
  BY DEF MmrInv, HeldInv, HeldIs
<1>2. b = c /\ Block(i, b) = 0
  BY <1>1, OneMountain
<1>3. s.leaf_count = Upto(c, 2 * 0 + 1)
  <2>1. 2 * 0 + 1 = 1
    OBVIOUS
  <2>. QED
    BY <2>1, Uptos
<1>4. RootAt(nodes, Upto(c, 2 * 0 + 1), s.root)
  BY <1>3 DEF GoodSeal
<1>5. s.root = Node(nodes, c, 0).hash
  BY <1>4, 0 \in Nat, RootAtIs
<1>. QED
  BY <1>1, <1>2, <1>5

\* The verdict: the fold of the witness, for a consolidated seal.
LEMMA VerdictIs ==
  ASSUME NEW st, NEW h, NEW path
  PROVE  Verdict(st, h, path) = "Ok" <=>
           /\ \E s \in ToSet(sealed_epochs) : s.root = st.epoch_root /\ s.epoch = st.epoch
           /\ FoldSiblings(h, path) = st.epoch_root
<1>1. "Ok" # "UnknownEpoch" /\ "Ok" # "InvalidWitness"
  OBVIOUS
<1>. QED
  BY <1>1 DEF Verdict, VerifyWitnessInternally, RecomputeRoot

\* Every seal the prover consolidated is a good one.
LEMMA ConsolidatedAre ==
  ASSUME SealsInv, NEW s \in ToSet(sealed_epochs)
  PROVE  GoodSeal(s, nodes, leaf_count)
<1>1. IsArray(sealed_epochs) /\ DOMAIN sealed_epochs = 1..Len(sealed_epochs)
  BY DEF SealsInv, GoodSeals, IsArray
<1>2. PICK k \in 1..Len(sealed_epochs) : s = sealed_epochs[k]
  BY <1>1 DEF ToSet
<1>. QED
  BY <1>2 DEF SealsInv, GoodSeals

\* The invariant decides what prove_inclusion() accepts of the range as it was sealed.
LEMMA OneMountainProved == ASSUME MmrInv, HashedLeaves, SealsInv PROVE OneMountainProves
<1>1. SUFFICES ASSUME held # None, NEW s \in ToSet(sealed_epochs), s.leaf_count = held.at
               PROVE  Verdict([epoch_root |-> s.root, leaf_index |-> held.leaf_index,
                               epoch |-> s.epoch, is_nullified |-> FALSE],
                              held.leaf_hash, held.siblings) = "Ok"
                        <=> \E b \in 0..s.leaf_count : s.leaf_count = TwoTo[b]
  BY DEF OneMountainProves
<1>2. GoodSeal(s, nodes, leaf_count)
  BY ConsolidatedAre
<1> DEFINE st == [epoch_root |-> s.root, leaf_index |-> held.leaf_index,
                  epoch |-> s.epoch, is_nullified |-> FALSE]
<1>3. st.epoch_root = s.root /\ st.epoch = s.epoch
  OBVIOUS
<1> HIDE DEF st
<1>4. Verdict(st, held.leaf_hash, held.siblings) = "Ok"
        <=> FoldSiblings(held.leaf_hash, held.siblings) = s.root
  BY <1>3, VerdictIs
<1>5. ASSUME FoldSiblings(held.leaf_hash, held.siblings) = s.root
      PROVE  \E b \in 0..s.leaf_count : s.leaf_count = TwoTo[b]
  BY <1>1, <1>2, <1>5, WitnessCovered
<1>6. ASSUME NEW b \in 0..s.leaf_count, s.leaf_count = TwoTo[b]
      PROVE  FoldSiblings(held.leaf_hash, held.siblings) = s.root
  <2>1. b \in Nat
    BY <1>2 DEF GoodSeal
  <2>. QED
    BY <1>1, <1>2, <1>6, <2>1, WitnessAccepted
<1>. QED
  BY <1>4, <1>5, <1>6 DEF st

\* Seals stay good while the range grows.
LEMMA SealsStay ==
  ASSUME NEW n \in Nat, NEW m \in Nat, n <= m, NEW ns, NEW nt, Grown(ns, n), Grown(nt, m),
         Prefix(ns, nt), NEW ss, GoodSeals(ss, ns, n)
  PROVE  GoodSeals(ss, nt, m)
<1>1. ASSUME NEW k \in 1..Len(ss) PROVE GoodSeal(ss[k], nt, m)
  <2>1. PICK c \in Nat \ {0} : c = ss[k].leaf_count /\ c <= n /\ RootAt(ns, c, ss[k].root)
    BY DEF GoodSeals, GoodSeal
  <2>2. RootAt(nt, c, ss[k].root)
    BY <2>1, c \in Nat, RootStays
  <2>. QED
    BY <2>1, <2>2 DEF GoodSeal
<1>. QED
  BY <1>1 DEF GoodSeals

\* A good seal more.
LEMMA SealsPushed ==
  ASSUME NEW n, NEW ns, NEW ss, GoodSeals(ss, ns, n), NEW s, GoodSeal(s, ns, n)
  PROVE  GoodSeals(Append(ss, s), ns, n)
<1>1. /\ IsArray(ss) /\ IsArray(Append(ss, s)) /\ Len(Append(ss, s)) = Len(ss) + 1
      /\ Append(ss, s)[Len(ss) + 1] = s /\ Len(ss) \in Nat
      /\ \A k \in 1..Len(ss) : Append(ss, s)[k] = ss[k]
  BY AppendArray DEF GoodSeals, IsArray, Prefix
<1>2. ASSUME NEW k \in 1..Len(Append(ss, s)) PROVE GoodSeal(Append(ss, s)[k], ns, n)
  <2>1. CASE k = Len(ss) + 1
    BY <1>1, <2>1
  <2>2. CASE k # Len(ss) + 1
    <3>1. k \in 1..Len(ss)
      BY <1>1, <2>2
    <3>. QED
      BY <1>1, <3>1 DEF GoodSeals
  <2>. QED
    BY <2>1, <2>2
<1>. QED
  BY <1>1, <1>2 DEF GoodSeals

\* What was consolidated stays consolidated.
LEMMA MoreInArray ==
  ASSUME NEW ss, IsArray(ss), NEW s
  PROVE  \A x \in ToSet(ss) : x \in ToSet(Append(ss, s))
<1>1. /\ IsArray(Append(ss, s)) /\ Len(Append(ss, s)) = Len(ss) + 1 /\ Len(ss) \in Nat
      /\ \A k \in 1..Len(ss) : Append(ss, s)[k] = ss[k]
  BY AppendArray DEF IsArray, Prefix
<1>2. DOMAIN ss = 1..Len(ss) /\ DOMAIN Append(ss, s) = 1..(Len(ss) + 1)
  BY <1>1 DEF IsArray
<1>3. ASSUME NEW x \in ToSet(ss) PROVE x \in ToSet(Append(ss, s))
  <2>1. PICK k \in 1..Len(ss) : x = ss[k]
    BY <1>2 DEF ToSet
  <2>2. k \in DOMAIN Append(ss, s) /\ x = Append(ss, s)[k]
    BY <1>1, <1>2, <2>1
  <2>. QED
    BY <2>2 DEF ToSet
<1>. QED
  BY <1>3

\* The leaves so far stay where they are.
LEMMA LeavesStay ==
  ASSUME MmrInv, MmrAssumption, [MmrNext]_mmrVars, HashedLeaves
  PROVE  HashedLeaves' /\ \A k \in 1..leaf_count : Leaves'[k] = Leaves[k]
<1>a. MmrShape /\ leaf_count \in Nat
  BY DEF MmrInv, MmrShape
<1>1. ASSUME NEW h \in Hashes, AppendLeaf(h)
      PROVE  HashedLeaves' /\ \A k \in 1..leaf_count : Leaves'[k] = Leaves[k]
  <2>1. leaf_count' = leaf_count + 1 /\ Prefix(nodes, nodes')
        /\ nodes'[LeafNodePos(leaf_count) + 1] = [hash |-> h, height |-> 0]
    BY <1>a, <1>1, AppendShape
  <2>2. Leaves' = [k \in 1..(leaf_count + 1) |-> nodes'[LeafNodePos(k - 1) + 1].hash]
    BY <2>1 DEF Leaves, NodeAt
  <2>3. Leaves'[leaf_count + 1] = h
    <3>1. leaf_count + 1 \in 1..(leaf_count + 1) /\ (leaf_count + 1) - 1 = leaf_count
      BY <1>a
    <3>2. Leaves'[leaf_count + 1] = nodes'[LeafNodePos((leaf_count + 1) - 1) + 1].hash
      BY <2>2, <3>1
    <3>. QED
      BY <2>1, <3>1, <3>2
  <2>4. ASSUME NEW k \in 1..leaf_count PROVE Leaves'[k] = Leaves[k]
    <3>1. Leaves[k] = nodes[LeafNodePos(k - 1) + 1].hash
      BY DEF Leaves, NodeAt
    <3>2. Leaves'[k] = nodes'[LeafNodePos(k - 1) + 1].hash
      BY <1>a, <2>2
    <3>3. LeafNodePos(k - 1) + 1 \in 1..Len(nodes)
      <4>1. PICK i \in Nat : i = k - 1 /\ i < leaf_count
        BY <1>a
      <4>2. LeafNodePos(i) = Pos(0, i) /\ LeafNodePos(i) \in Nat
        BY LeafPos
      <4>3. Whole(0, i, leaf_count)
        BY <1>a, <4>1, Powers DEF Whole
      <4>4. Rooted(nodes, 0, i)
        BY <1>a, <4>3 DEF MmrShape, Grown
      <4>. QED
        BY <4>1, <4>2, <4>4 DEF Rooted
    <3>4. nodes'[LeafNodePos(k - 1) + 1] = nodes[LeafNodePos(k - 1) + 1]
      BY <2>1, <3>3 DEF Prefix
    <3>. QED
      BY <3>1, <3>2, <3>4
  <2>5. ASSUME NEW k \in 1..leaf_count' PROVE Leaves'[k] \in Hashes
    <3>1. CASE k = leaf_count + 1
      BY <1>1, <2>3, <3>1
    <3>2. CASE k # leaf_count + 1
      <4>1. k \in 1..leaf_count
        BY <1>a, <2>1, <3>2
      <4>. QED
        BY <2>4, <4>1 DEF HashedLeaves
    <3>. QED
      BY <3>1, <3>2
  <2>. QED
    BY <2>4, <2>5 DEF HashedLeaves
<1>2. ASSUME UNCHANGED <<nodes, leaf_count>>
      PROVE  HashedLeaves' /\ \A k \in 1..leaf_count : Leaves'[k] = Leaves[k]
  <2>1. Leaves' = Leaves /\ leaf_count' = leaf_count
    BY <1>2, LeavesKept
  <2>. QED
    BY <2>1 DEF HashedLeaves
<1>3. (\E h \in Hashes : AppendLeaf(h)) \/ UNCHANGED <<nodes, leaf_count>>
  BY DEF MmrNext, mmrVars, SealEpoch, Nullify, GenerateProof
<1>. QED
  BY <1>1, <1>2, <1>3

\* What has been proved stays committed while the range grows.
CoveredBy(p, ss, ls) ==
  \E s \in ToSet(ss) :
    /\ s.root = p.statement.epoch_root /\ s.epoch = p.statement.epoch
    /\ \E k \in 1..s.leaf_count : p.leaf_hash = ls[k]

\* A call on the range keeps the invariant of the prover.
LEMMA RangeKeepsProver ==
  ASSUME ProverInv, MmrAssumption, [MmrNext]_mmrVars, UNCHANGED proverVars
  PROVE  ProverInv'
<1>a. /\ MmrInv /\ HashedLeaves /\ SealsInv /\ ProvenIsCommitted
      /\ MmrShape /\ leaf_count \in Nat /\ Grown(nodes, leaf_count)
  BY DEF ProverInv, MmrInv, MmrShape
<1>1. MmrInv' /\ leaf_count <= leaf_count' /\ Prefix(nodes, nodes')
  BY <1>a, StepShape
<1>2. leaf_count' \in Nat /\ Grown(nodes', leaf_count')
  BY <1>1 DEF MmrInv, MmrShape
<1>3. HashedLeaves' /\ \A k \in 1..leaf_count : Leaves'[k] = Leaves[k]
  BY <1>a, LeavesStay
<1>4. sealed_epochs' = sealed_epochs /\ proof' = proof
  BY DEF proverVars
<1>5. /\ GoodSeals(seals, nodes', leaf_count')
      /\ GoodSeals(sealed_epochs, nodes', leaf_count')
  <2>1. GoodSeals(seals, nodes, leaf_count) /\ GoodSeals(sealed_epochs, nodes, leaf_count)
    BY <1>a DEF SealsInv
  <2>. QED
    BY <1>a, <1>1, <1>2, <2>1, SealsStay
<1>6. GoodSeals(seals', nodes', leaf_count')
  <2>1. CASE SealEpoch
    <3> DEFINE s == [epoch |-> epoch, root |-> BagPeaks, leaf_count |-> leaf_count]
    <3>1. seals' = Append(seals, s) /\ nodes' = nodes /\ leaf_count' = leaf_count /\ leaf_count > 0
      BY <2>1 DEF SealEpoch
    <3>2. RootAt(nodes, leaf_count, BagPeaks)
      BY <1>a, <3>1, BagIsRoot
    <3>3. s.leaf_count = leaf_count /\ s.root = BagPeaks
      OBVIOUS
    <3> HIDE DEF s
    <3>4. GoodSeal(s, nodes', leaf_count')
      BY <1>a, <3>1, <3>2, <3>3 DEF GoodSeal
    <3>. QED
      BY <1>5, <3>1, <3>4, SealsPushed
  <2>2. CASE seals' = seals
    BY <1>5, <2>2
  <2>3. SealEpoch \/ seals' = seals
    BY DEF MmrNext, mmrVars, AppendLeaf, Nullify, GenerateProof
  <2>. QED
    BY <2>1, <2>2, <2>3
<1>7. SealsInv'
  BY <1>4, <1>5, <1>6 DEF SealsInv
<1>8. ProvenIsCommitted'
  <2>1. CASE proof = None
    BY <1>4, <2>1 DEF ProvenIsCommitted
  <2>2. CASE proof # None
    <3>1. VerifyZk(proof) /\ CoveredBy(proof, sealed_epochs, Leaves)
      BY <1>a, <2>2 DEF ProvenIsCommitted, CoveredBy
    <3>2. PICK s \in ToSet(sealed_epochs) :
            /\ s.root = proof.statement.epoch_root /\ s.epoch = proof.statement.epoch
            /\ \E k \in 1..s.leaf_count : proof.leaf_hash = Leaves[k]
      BY <3>1 DEF CoveredBy
    <3>3. PICK k \in 1..s.leaf_count : proof.leaf_hash = Leaves[k]
      BY <3>2
    <3>4. k \in 1..leaf_count
      <4>1. GoodSeal(s, nodes, leaf_count)
        BY <1>a, ConsolidatedAre
      <4>. QED
        BY <1>a, <4>1 DEF GoodSeal
    <3>5. proof.leaf_hash = Leaves'[k]
      BY <1>3, <3>3, <3>4
    <3>6. VerifyZk(proof)' /\ CoveredBy(proof, sealed_epochs, Leaves)'
      BY <1>4, <3>1, <3>2, <3>3, <3>5 DEF CoveredBy, VerifyZk, DeriveStubCommitment
    <3>. QED
      BY <3>6 DEF ProvenIsCommitted, CoveredBy
  <2>. QED
    BY <2>1, <2>2
<1>. QED
  BY <1>1, <1>3, <1>7, <1>8 DEF ProverInv

\* What a step of the prover alone leaves as it is.
LEMMA ProverLeaves ==
  ASSUME ProverInv, UNCHANGED mmrVars
  PROVE  MmrInv' /\ HashedLeaves' /\ Leaves' = Leaves /\ leaf_count' = leaf_count
         /\ nodes' = nodes /\ seals' = seals
<1>1. nodes' = nodes /\ peaks' = peaks /\ leaf_count' = leaf_count /\ seals' = seals /\ held' = held
  BY DEF mmrVars
<1>2. Leaves' = Leaves
  BY <1>1, LeavesKept
<1>3. MmrShape'
  BY <1>1 DEF ProverInv, MmrInv, MmrShape
<1>4. HeldInv'
  BY <1>1 DEF ProverInv, MmrInv, HeldInv
<1>. QED
  BY <1>1, <1>2, <1>3, <1>4 DEF ProverInv, MmrInv, HashedLeaves

\* consolidate() keeps it, ...
LEMMA ConsolidateKeeps ==
  ASSUME ProverInv, NEW k \in DOMAIN seals, Consolidate(k)
  PROVE  ProverInv'
<1>a. SealsInv /\ ProvenIsCommitted
  BY DEF ProverInv
<1>1. /\ sealed_epochs' = Append(sealed_epochs, seals[k])
      /\ UNCHANGED mmrVars /\ proof' = proof
  BY DEF Consolidate
<1>2. /\ MmrInv' /\ HashedLeaves' /\ Leaves' = Leaves /\ leaf_count' = leaf_count
      /\ nodes' = nodes /\ seals' = seals
  BY <1>1, ProverLeaves
<1>3. GoodSeals(seals, nodes, leaf_count) /\ GoodSeals(sealed_epochs, nodes, leaf_count)
  BY <1>a DEF SealsInv
<1>4. GoodSeal(seals[k], nodes, leaf_count)
  <2>1. DOMAIN seals = 1..Len(seals)
    BY <1>3 DEF GoodSeals, IsArray
  <2>. QED
    BY <1>3, <2>1 DEF GoodSeals
<1>5. GoodSeals(sealed_epochs', nodes, leaf_count)
  BY <1>1, <1>3, <1>4, SealsPushed
<1>6. SealsInv'
  BY <1>2, <1>3, <1>5 DEF SealsInv
<1>7. \A x \in ToSet(sealed_epochs) : x \in ToSet(sealed_epochs')
  <2>1. IsArray(sealed_epochs)
    BY <1>3 DEF GoodSeals
  <2>. QED
    BY <1>1, <2>1, MoreInArray
<1>8. ProvenIsCommitted'
  <2>1. CASE proof = None
    BY <1>1, <2>1 DEF ProvenIsCommitted
  <2>2. CASE proof # None
    <3>1. VerifyZk(proof) /\ CoveredBy(proof, sealed_epochs, Leaves)
      BY <1>a, <2>2 DEF ProvenIsCommitted, CoveredBy
    <3>2. CoveredBy(proof, sealed_epochs', Leaves)
      BY <1>7, <3>1 DEF CoveredBy
    <3>3. VerifyZk(proof)' /\ CoveredBy(proof, sealed_epochs, Leaves)'
      BY <1>1, <1>2, <3>1, <3>2 DEF CoveredBy, VerifyZk, DeriveStubCommitment
    <3>. QED
      BY <3>3 DEF ProvenIsCommitted, CoveredBy
  <2>. QED
    BY <2>1, <2>2
<1>. QED
  BY <1>2, <1>6, <1>8 DEF ProverInv

\* ... prove_inclusion() as well, since a witness it accepts is under the seal, ...
LEMMA ProveInclusionKeeps ==
  ASSUME ProverInv, NEW root, NEW number, ProveInclusion(root, number)
  PROVE  ProverInv'
<1>a. MmrInv /\ HashedLeaves /\ SealsInv
  BY DEF ProverInv
<1> DEFINE statement == [epoch_root |-> root, leaf_index |-> held.leaf_index,
                         epoch |-> number, is_nullified |-> IsNullified]
<1>1. /\ held # None /\ Verdict(statement, held.leaf_hash, held.siblings) = "Ok"
      /\ proof' = [statement |-> statement, leaf_hash |-> held.leaf_hash,
                   proof_bytes |-> DeriveStubCommitment(statement)]
      /\ UNCHANGED mmrVars /\ sealed_epochs' = sealed_epochs
  BY DEF ProveInclusion
<1>2. statement.epoch_root = root /\ statement.epoch = number
  OBVIOUS
<1> HIDE DEF statement
<1>3. /\ \E s \in ToSet(sealed_epochs) : s.root = root /\ s.epoch = number
      /\ FoldSiblings(held.leaf_hash, held.siblings) = root
  BY <1>1, <1>2, VerdictIs
<1>4. PICK s \in ToSet(sealed_epochs) : s.root = root /\ s.epoch = number
  BY <1>3
<1>5. \E k \in 1..s.leaf_count : held.leaf_hash = Leaves[k]
  <2>1. GoodSeal(s, nodes, leaf_count)
    BY <1>a, ConsolidatedAre
  <2>. QED
    BY <1>a, <1>1, <1>3, <1>4, <2>1, WitnessCovered
<1>6. /\ MmrInv' /\ HashedLeaves' /\ Leaves' = Leaves /\ leaf_count' = leaf_count
      /\ nodes' = nodes /\ seals' = seals
  BY <1>1, ProverLeaves
<1>7. SealsInv'
  BY <1>a, <1>1, <1>6 DEF SealsInv
<1>8. /\ proof'.statement = statement /\ proof'.leaf_hash = held.leaf_hash
      /\ proof'.proof_bytes = DeriveStubCommitment(statement)
  BY <1>1
<1>9. VerifyZk(proof)' /\ CoveredBy(proof, sealed_epochs, Leaves)'
  BY <1>1, <1>2, <1>4, <1>5, <1>6, <1>8 DEF CoveredBy, VerifyZk, DeriveStubCommitment
<1>10. ProvenIsCommitted'
  BY <1>9 DEF ProvenIsCommitted, CoveredBy
<1>. QED
  BY <1>6, <1>7, <1>10 DEF ProverInv

\* ... it holds at the start, ...
LEMMA InitProver == ASSUME ProverInit PROVE ProverInv
<1>1. MmrInit /\ sealed_epochs = <<>> /\ proof = None
  BY DEF ProverInit
<1>2. MmrInv
  BY <1>1, InitShape
<1>3. leaf_count = 0 /\ seals = <<>>
  BY <1>1 DEF MmrInit
<1>4. HashedLeaves
  BY <1>3 DEF HashedLeaves
<1>5. \A n, ns : GoodSeals(<<>>, ns, n)
  BY DEF GoodSeals, IsArray
<1>6. SealsInv
  BY <1>1, <1>3, <1>5 DEF SealsInv
<1>7. ProvenIsCommitted
  BY <1>1 DEF ProvenIsCommitted
<1>. QED
  BY <1>2, <1>4, <1>6, <1>7 DEF ProverInv

\* ... and in every step, each of which is one of the range or leaves the range alone.
LEMMA ProverStep ==
  ASSUME ProverInv, MmrAssumption, [ProverNext]_<<mmrVars, proverVars>>
  PROVE  ProverInv' /\ [MmrNext]_mmrVars
<1>1. CASE [MmrNext]_mmrVars /\ UNCHANGED proverVars
  BY <1>1, RangeKeepsProver
<1>2. ASSUME NEW k \in DOMAIN seals, Consolidate(k) PROVE ProverInv' /\ UNCHANGED mmrVars
  BY <1>2, ConsolidateKeeps DEF Consolidate
<1>3. ASSUME NEW root, NEW number, ProveInclusion(root, number)
      PROVE  ProverInv' /\ UNCHANGED mmrVars
  BY <1>3, ProveInclusionKeeps DEF ProveInclusion
<1>4. ASSUME NEW root, NEW number, ProveNullification(root, number)
      PROVE  ProverInv' /\ UNCHANGED mmrVars
  BY <1>3, <1>4 DEF ProveNullification
<1>. QED
  BY <1>1, <1>2, <1>3, <1>4 DEF ProverNext

\* The prover on top changes nothing of the range: what holds of the range in any order
\* of its calls holds of the range whose proofs and seals the prover takes.
THEOREM ProverKeepsRange == ProverSpec => MmrSpec
<1>1. ProverInit => ProverInv /\ MmrInit
  BY InitProver DEF ProverInit
<1>2. ProverInv /\ [ProverNext]_<<mmrVars, proverVars>> => ProverInv' /\ [MmrNext]_mmrVars
  BY MmrAssumption, ProverStep
<1>. QED
  BY <1>1, <1>2, PTL DEF ProverSpec, MmrSpec

\* The prover vouches for leaves under the seals it has consolidated and for nothing
\* else, with any number of appends, seals and erasures between the seal, the witness and
\* the call; and for the range as it was sealed it vouches for every leaf if there was
\* one mountain and for none if there were several (prove_inclusion()).
THEOREM ProverExactly == ProverSpec => []ProverExact
<1>1. ProverInit => ProverInv
  BY InitProver
<1>2. ProverInv /\ [ProverNext]_<<mmrVars, proverVars>> => ProverInv'
  BY MmrAssumption, ProverStep
<1>3. ProverInv => ProverExact
  BY OneMountainProved DEF ProverInv, ProverExact
<1>. QED
  BY <1>1, <1>2, <1>3, PTL DEF ProverSpec

=============================================================================
