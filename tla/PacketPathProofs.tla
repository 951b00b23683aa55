------------------------- MODULE PacketPathProofs -------------------------
(***************************************************************************)
(* Theorems of module PacketPath, for bytes and packets of every size, any *)
(* bytes out of the air and any damage on the wire.                        *)
(***************************************************************************)
EXTENDS PacketPath, FiniteSetTheorems, FunctionTheorems, WellFoundedInduction, TLAPS

-----------------------------------------------------------------------------
(* Induction over a set of numbers, from the library's order on Nat.       *)

LEMMA NaturalsAreWellFounded ==
  \E R : IsWellFoundedOn(R, Nat) /\ \A x, y \in Nat : x < y => <<x, y>> \in R
<1>1. \A x, y \in Nat : x < y => <<x, y>> \in OpToRel(<, Nat)
  BY Zenon DEF OpToRel
<1>2. QED
  BY <1>1, NatLessThanWellFounded, Zenon

LEMMA MinimalExists ==
  ASSUME NEW R, IsWellFoundedOn(R, Nat), NEW A, A \subseteq Nat, A # {}
  PROVE  \E x \in A : \A y \in A : <<y, x>> \notin R
BY WFMin

LEMMA LeastExists ==
  ASSUME NEW A \in SUBSET Nat, A # {}
  PROVE  \E x \in A : \A y \in A : x <= y
<1>1. PICK R : IsWellFoundedOn(R, Nat) /\ \A x, y \in Nat : x < y => <<x, y>> \in R
  BY NaturalsAreWellFounded
<1>2. A \subseteq Nat
  OBVIOUS
<1>3. \E x \in A : \A y \in A : <<y, x>> \notin R
  BY <1>1, <1>2, MinimalExists, Zenon
<1>4. PICK x \in A : \A y \in A : <<y, x>> \notin R
  BY <1>3
<1>5. ASSUME NEW y \in A PROVE x <= y
  <2>1. x \in Nat /\ y \in Nat /\ ~(y < x)
    BY <1>1, <1>4, Zenon
  <2>2. QED
    BY <2>1
<1>6. QED
  BY <1>5

LEMMA SetInduction ==
  ASSUME NEW S, 0 \in S, \A n \in Nat \cap S : n + 1 \in S
  PROVE  Nat \subseteq S
<1>1. SUFFICES ASSUME Nat \ S # {} PROVE FALSE
  OBVIOUS
<1>2. PICK x \in Nat \ S : \A y \in Nat \ S : x <= y
  BY <1>1, LeastExists
<1>3. x # 0 /\ x - 1 \in Nat /\ ~(x <= x - 1)
  BY <1>2
<1>4. x - 1 \in S
  BY <1>2, <1>3
<1>5. (x - 1) + 1 \in S
  BY <1>3, <1>4
<1>6. QED
  BY <1>2, <1>5

-----------------------------------------------------------------------------
(* Recursive functions exist.                                              *)

\* A loop that takes value v to step[i][v] in turn i has a value in each turn.
LEMMA LoopExists ==
  ASSUME NEW T, NEW base \in T, NEW n \in Nat, NEW step \in [1 .. n -> [T -> T]]
  PROVE  \E s \in [0 .. n -> T] : s[0] = base /\ \A i \in 1 .. n : s[i] = step[i][s[i - 1]]
<1> DEFINE Runs(m, s) == s[0] = base /\ \A i \in 1 .. m : s[i] = step[i][s[i - 1]]
           Good == {m \in Nat : m <= n => \E s \in [0 .. m -> T] : Runs(m, s)}
<1>1. 0 \in Good
  <2>1. [i \in 0 .. 0 |-> base] \in [0 .. 0 -> T] /\ Runs(0, [i \in 0 .. 0 |-> base])
    OBVIOUS
  <2>2. QED
    BY <2>1
<1>2. ASSUME NEW m \in Nat \cap Good PROVE m + 1 \in Good
  <2>1. SUFFICES ASSUME m + 1 <= n PROVE \E s \in [0 .. m + 1 -> T] : Runs(m + 1, s)
    OBVIOUS
  <2>2. PICK s \in [0 .. m -> T] : Runs(m, s)
    BY <2>1
  <2> DEFINE t == [i \in 0 .. m + 1 |-> IF i = m + 1 THEN step[i][s[m]] ELSE s[i]]
  <2>3. s[m] \in T /\ step[m + 1] \in [T -> T] /\ step[m + 1][s[m]] \in T
    BY <2>1
  <2>4. t \in [0 .. m + 1 -> T]
    BY <2>3
  <2>5. t[0] = base
    BY <2>2
  <2>6. ASSUME NEW i \in 1 .. m + 1 PROVE t[i] = step[i][t[i - 1]]
    <3>1. CASE i = m + 1
      BY <3>1
    <3>2. CASE i # m + 1
      BY <2>2, <3>2
    <3>3. QED
      BY <3>1, <3>2
  <2>7. QED
    BY <2>4, <2>5, <2>6
<1> HIDE DEF Good
<1>3. Nat \subseteq Good
  BY <1>1, <1>2, SetInduction
<1>4. QED
  BY <1>3 DEF Good

-----------------------------------------------------------------------------
(* Powers of two.                                                          *)

LEMMA TwoToEquation ==
  TwoTo = [n \in 0 .. W |-> IF n = 0 THEN 1 ELSE 2 * TwoTo[n - 1]]
<1> DEFINE step == [i \in 1 .. W |-> [v \in Nat |-> 2 * v]]
<1>1. W \in Nat
  BY PathAssumption
<1>2. step \in [1 .. W -> [Nat -> Nat]]
  OBVIOUS
<1>3. PICK s \in [0 .. W -> Nat] :
             s[0] = 1 /\ \A i \in 1 .. W : s[i] = step[i][s[i - 1]]
  <2> HIDE DEF step
  <2>1. PICK T : T = Nat
    OBVIOUS
  <2>2. step \in [1 .. W -> [T -> T]] /\ 1 \in T
    BY <1>2, <2>1
  <2>3. \E s \in [0 .. W -> T] : s[0] = 1 /\ \A i \in 1 .. W : s[i] = step[i][s[i - 1]]
    BY <1>1, <2>2, LoopExists
  <2>4. QED
    BY <2>1, <2>3
<1>4. ASSUME NEW n \in 0 .. W PROVE s[n] = IF n = 0 THEN 1 ELSE 2 * s[n - 1]
  <2>1. CASE n = 0
    BY <1>3, <2>1
  <2>2. CASE n # 0
    <3>1. n \in 1 .. W /\ n - 1 \in 0 .. W
      BY <1>1, <2>2
    <3>2. s[n] = step[n][s[n - 1]] /\ s[n - 1] \in Nat
      BY <1>3, <3>1
    <3>3. QED
      BY <2>2, <3>1, <3>2
  <2>3. QED
    BY <2>1, <2>2
<1> HIDE DEF step
<1>5. s = [n \in 0 .. W |-> s[n]]
  BY <1>3
<1>6. s = [n \in 0 .. W |-> IF n = 0 THEN 1 ELSE 2 * s[n - 1]]
  BY <1>4, <1>5, Zenon
<1>7. \E f : f = [n \in 0 .. W |-> IF n = 0 THEN 1 ELSE 2 * f[n - 1]]
  BY <1>6, Zenon
<1>8. QED
  BY <1>7 DEF TwoTo

LEMMA TwoToStep ==
  /\ TwoTo[0] = 1
  /\ \A n \in Nat : n < W => TwoTo[n + 1] = 2 * TwoTo[n]
<1>1. W \in Nat
  BY PathAssumption
<1>2. QED
  BY <1>1, TwoToEquation

LEMMA TwoToType == \A n \in 0 .. W : TwoTo[n] \in Nat /\ TwoTo[n] > 0
<1> DEFINE Good == {n \in Nat : n <= W => TwoTo[n] \in Nat /\ TwoTo[n] > 0}
<1>1. W \in Nat
  BY PathAssumption
<1>2. 0 \in Good
  BY TwoToStep
<1>3. ASSUME NEW n \in Nat \cap Good PROVE n + 1 \in Good
  BY <1>1, TwoToStep
<1> HIDE DEF Good
<1>4. Nat \subseteq Good
  BY <1>2, <1>3, SetInduction
<1>5. QED
  BY <1>1, <1>4 DEF Good

LEMMA ByteType ==
  /\ W \in Nat /\ TwoTo[W] \in Nat /\ TwoTo[W] > 0
  /\ Byte \subseteq Nat /\ 0 \in Byte /\ Ones \in Byte /\ Header \in Byte
  /\ MaxLen \in Byte /\ MaxLen >= 2 /\ HashFactor \in Nat
<1>1. W \in Nat
  BY PathAssumption
<1>2. TwoTo[W] \in Nat /\ TwoTo[W] > 0
  BY <1>1, TwoToType
<1>3. QED
  BY <1>1, <1>2, PathAssumption DEF Byte, Ones

-----------------------------------------------------------------------------
(* Sums.                                                                   *)

SumOf(g, n, s) == s = [i \in 0 .. n |-> IF i = 0 THEN 0 ELSE s[i - 1] + g[i - 1]]

LEMMA SumExists ==
  ASSUME NEW n \in Nat, NEW g, \A i \in 0 .. n - 1 : g[i] \in Int
  PROVE  \E s : SumOf(g, n, s)
<1> DEFINE step == [i \in 1 .. n |-> [v \in Int |-> v + g[i - 1]]]
<1>1. step \in [1 .. n -> [Int -> Int]]
  OBVIOUS
<1>2. PICK s \in [0 .. n -> Int] :
             s[0] = 0 /\ \A i \in 1 .. n : s[i] = step[i][s[i - 1]]
  <2> HIDE DEF step
  <2>1. PICK T : T = Int
    OBVIOUS
  <2>2. step \in [1 .. n -> [T -> T]] /\ 0 \in T
    BY <1>1, <2>1
  <2>3. \E s \in [0 .. n -> T] : s[0] = 0 /\ \A i \in 1 .. n : s[i] = step[i][s[i - 1]]
    BY <2>2, LoopExists
  <2>4. QED
    BY <2>1, <2>3
<1>3. ASSUME NEW i \in 0 .. n PROVE s[i] = IF i = 0 THEN 0 ELSE s[i - 1] + g[i - 1]
  <2>1. CASE i = 0
    BY <1>2, <2>1
  <2>2. CASE i # 0
    <3>1. i \in 1 .. n /\ i - 1 \in 0 .. n
      BY <2>2
    <3>2. s[i] = step[i][s[i - 1]] /\ s[i - 1] \in Int
      BY <1>2, <3>1
    <3>3. QED
      BY <2>2, <3>1, <3>2
  <2>3. QED
    BY <2>1, <2>2
<1> HIDE DEF step
<1>4. s = [i \in 0 .. n |-> s[i]]
  BY <1>2
<1>5. s = [i \in 0 .. n |-> IF i = 0 THEN 0 ELSE s[i - 1] + g[i - 1]]
  BY <1>3, <1>4, Zenon
<1>6. QED
  BY <1>5, Zenon DEF SumOf

LEMMA SumsAgree ==
  ASSUME NEW n \in Nat, NEW m \in 0 .. n, NEW g, NEW h,
         \A i \in 0 .. m - 1 : g[i] \in Int /\ h[i] = g[i],
         NEW s, NEW t, SumOf(g, n, s), SumOf(h, m, t)
  PROVE  \A i \in 0 .. m : s[i] \in Int /\ t[i] = s[i]
<1> DEFINE Good == {i \in Nat : i <= m => s[i] \in Int /\ t[i] = s[i]}
<1>1. 0 \in Good
  BY DEF SumOf
<1>2. ASSUME NEW i \in Nat \cap Good PROVE i + 1 \in Good
  BY DEF SumOf
<1> HIDE DEF Good
<1>3. Nat \subseteq Good
  BY <1>1, <1>2, SetInduction
<1>4. QED
  BY <1>3 DEF Good

LEMMA TotalIs ==
  ASSUME NEW n \in Nat, NEW g, \A i \in 0 .. n - 1 : g[i] \in Int
  PROVE  \E s : SumOf(g, n, s) /\ Total(g, n) = s[n]
<1>1. \E s : SumOf(g, n, s)
  BY SumExists
<1>2. QED
  BY <1>1 DEF Total, SumOf

\* A sum is a number, and depends on its terms only.
LEMMA TotalSame ==
  ASSUME NEW n \in Nat, NEW g, NEW h, \A i \in 0 .. n - 1 : g[i] \in Int /\ h[i] = g[i]
  PROVE  Total(g, n) \in Int /\ Total(h, n) = Total(g, n)
<1>1. PICK s : SumOf(g, n, s) /\ Total(g, n) = s[n]
  BY TotalIs
<1>2. PICK t : SumOf(h, n, t) /\ Total(h, n) = t[n]
  BY TotalIs
<1>3. QED
  BY <1>1, <1>2, SumsAgree

LEMMA TotalOfNone ==
  ASSUME NEW g
  PROVE  Total(g, 0) = 0
<1>1. PICK s : SumOf(g, 0, s) /\ Total(g, 0) = s[0]
  BY TotalIs
<1>2. QED
  BY <1>1 DEF SumOf

LEMMA TotalStep ==
  ASSUME NEW n \in Nat, NEW g, \A i \in 0 .. n : g[i] \in Int
  PROVE  Total(g, n) \in Int /\ Total(g, n + 1) = Total(g, n) + g[n]
<1>1. PICK s : SumOf(g, n + 1, s) /\ Total(g, n + 1) = s[n + 1]
  BY TotalIs
<1>2. PICK t : SumOf(g, n, t) /\ Total(g, n) = t[n]
  BY TotalIs
<1>3. s[n] \in Int /\ t[n] = s[n]
  BY <1>1, <1>2, SumsAgree
<1>4. s[n + 1] = s[n] + g[n]
  BY <1>1 DEF SumOf
<1>5. QED
  BY <1>1, <1>2, <1>3, <1>4

-----------------------------------------------------------------------------
(* The check byte.                                                         *)

LEMMA HalfOfProduct ==
  ASSUME NEW p \in Nat, p > 0, NEW a \in Int, NEW e \in Int, NEW q \in Int,
         (2 * a + 1) * (p * e) = p * (2 * q)
  PROVE  e = 2 * (q - a * e)
<1>1. p * ((2 * a + 1) * e) = p * (2 * q)
  OBVIOUS
<1>2. (2 * a + 1) * e \in Int /\ 2 * q \in Int
  OBVIOUS
<1>3. (2 * a + 1) * e = 2 * q
  BY <1>1, <1>2
<1>4. (2 * a + 1) * e = 2 * (a * e) + e
  OBVIOUS
<1>5. a * e \in Int
  OBVIOUS
<1>6. QED
  BY <1>3, <1>4, <1>5

\* If a power of two divides an odd multiple of a number, it divides the number.
LEMMA OddFactor ==
  ASSUME NEW a \in Int, NEW n \in 0 .. W, NEW d \in Int, NEW q \in Int,
         (2 * a + 1) * d = TwoTo[n] * q
  PROVE  \E e \in Int : d = TwoTo[n] * e
<1> DEFINE Good == {k \in Nat : k <= W => \A x, y \in Int :
                      (2 * a + 1) * x = TwoTo[k] * y => \E e \in Int : x = TwoTo[k] * e}
<1>1. W \in Nat
  BY ByteType
<1>2. 0 \in Good
  BY TwoToStep
<1>3. ASSUME NEW k \in Nat \cap Good PROVE k + 1 \in Good
  <2>1. SUFFICES ASSUME k + 1 <= W, NEW x \in Int, NEW y \in Int,
                        (2 * a + 1) * x = TwoTo[k + 1] * y
                 PROVE  \E e \in Int : x = TwoTo[k + 1] * e
    BY <1>1
  <2>2. TwoTo[k] \in Nat /\ TwoTo[k] > 0 /\ TwoTo[k + 1] = 2 * TwoTo[k]
    BY <1>1, <2>1, TwoToStep, TwoToType
  <2>3. 2 * y \in Int /\ (2 * a + 1) * x = TwoTo[k] * (2 * y)
    BY <2>1, <2>2
  <2>4. PICK e \in Int : x = TwoTo[k] * e
    BY <1>1, <2>1, <2>3
  <2>5. e = 2 * (y - a * e) /\ y - a * e \in Int
    BY <2>2, <2>3, <2>4, HalfOfProduct
  <2>6. x = TwoTo[k + 1] * (y - a * e)
    <3>1. \A u, v \in Int : u * (2 * v) = (2 * u) * v
      OBVIOUS
    <3>2. TwoTo[k] * (2 * (y - a * e)) = (2 * TwoTo[k]) * (y - a * e)
      BY <2>2, <2>5, <3>1
    <3>3. QED
      BY <2>2, <2>4, <2>5, <3>2
  <2>7. QED
    BY <2>5, <2>6
<1> HIDE DEF Good
<1>4. Nat \subseteq Good
  BY <1>2, <1>3, SetInduction
<1>5. n \in Good /\ n <= W
  BY <1>1, <1>4
<1>6. QED
  BY <1>5 DEF Good

\* Sums that differ in one term differ by that term.
LEMMA TotalDiffers ==
  ASSUME NEW n \in Nat, NEW g, NEW h, NEW j \in 0 .. n - 1,
         \A i \in 0 .. n - 1 : g[i] \in Int /\ h[i] \in Int,
         \A i \in 0 .. n - 1 : i # j => h[i] = g[i]
  PROVE  Total(h, n) - Total(g, n) = h[j] - g[j]
<1> DEFINE Good == {m \in Nat : m <= n => Total(h, m) - Total(g, m)
                                           = IF j < m THEN h[j] - g[j] ELSE 0}
<1>1. 0 \in Good
  BY TotalOfNone
<1>2. ASSUME NEW m \in Nat \cap Good PROVE m + 1 \in Good
  <2>1. SUFFICES ASSUME m + 1 <= n
                 PROVE  Total(h, m + 1) - Total(g, m + 1)
                          = IF j < m + 1 THEN h[j] - g[j] ELSE 0
    OBVIOUS
  <2>2. \A i \in 0 .. m : g[i] \in Int /\ h[i] \in Int
    BY <2>1
  <2>3. Total(h, m) - Total(g, m) = IF j < m THEN h[j] - g[j] ELSE 0
    BY <2>1
  <2>4. Total(h, m) \in Int /\ Total(h, m + 1) = Total(h, m) + h[m]
    BY <2>2, TotalStep
  <2>5. Total(g, m) \in Int /\ Total(g, m + 1) = Total(g, m) + g[m]
    BY <2>2, TotalStep
  <2>6. h[m] \in Int /\ g[m] \in Int /\ h[j] \in Int /\ g[j] \in Int
        /\ (m # j => h[m] = g[m])
    BY <2>1
  <2>7. QED
    BY <2>3, <2>4, <2>5, <2>6
<1> HIDE DEF Good
<1>3. Nat \subseteq Good
  BY <1>1, <1>2, SetInduction
<1>4. QED
  BY <1>3 DEF Good

\* A sum does not tell the order of its terms.
LEMMA TotalOfSwap ==
  ASSUME NEW n \in Nat, NEW g, NEW h, NEW i \in 0 .. n - 1, NEW j \in 0 .. n - 1,
         \A k \in 0 .. n - 1 : g[k] \in Int, h[i] = g[j], h[j] = g[i],
         \A k \in 0 .. n - 1 : k # i /\ k # j => h[k] = g[k]
  PROVE  Total(h, n) = Total(g, n)
<1> DEFINE mid == [k \in 0 .. n - 1 |-> IF k = i THEN g[j] ELSE g[k]]
<1>1. \A k \in 0 .. n - 1 : mid[k] \in Int /\ h[k] \in Int
  OBVIOUS
<1>2. mid[i] = g[j] /\ \A k \in 0 .. n - 1 : k # i => mid[k] = g[k]
  OBVIOUS
<1>3. CASE i = j
  BY <1>3, TotalSame
<1>4. CASE i # j
  <2> HIDE DEF mid
  <2>1. Total(mid, n) - Total(g, n) = mid[i] - g[i]
    BY <1>1, <1>2, TotalDiffers
  <2>2. \A k \in 0 .. n - 1 : k # j => h[k] = mid[k]
    BY <1>2
  <2>3. Total(h, n) - Total(mid, n) = h[j] - mid[j]
    BY <1>1, <2>2, TotalDiffers
  <2>4. mid[j] = g[j] /\ g[i] \in Int /\ g[j] \in Int
    BY <1>2, <1>4
  <2>5. Total(g, n) \in Int /\ Total(mid, n) \in Int /\ Total(h, n) \in Int
    BY <1>1, TotalSame
  <2>6. QED
    BY <1>2, <2>1, <2>3, <2>4, <2>5
<1>5. QED
  BY <1>3, <1>4

LEMMA SameRemainder ==
  ASSUME NEW m \in Nat, m > 0, NEW x \in Int, NEW y \in Int, x % m = y % m
  PROVE  \E q \in Int : x - y = m * q
<1>1. x = m * (x \div m) + (x % m) /\ x \div m \in Int
  OBVIOUS
<1>2. y = m * (y \div m) + (y % m) /\ y \div m \in Int
  OBVIOUS
<1>3. x - y = m * ((x \div m) - (y \div m))
  BY <1>1, <1>2
<1>4. QED
  BY <1>1, <1>2, <1>3

WeighedIn(f, size) == [i \in 0 .. size - 1 |-> Weigh(f[i])]

LEMMA WeighedType ==
  ASSUME NEW size \in Nat, NEW f, \A i \in 0 .. size - 1 : f[i] \in Byte
  PROVE  \A i \in 0 .. size - 1 : /\ WeighedIn(f, size)[i] = f[i] * HashFactor
                                   /\ WeighedIn(f, size)[i] \in Int
<1>1. ASSUME NEW i \in 0 .. size - 1
      PROVE  WeighedIn(f, size)[i] = f[i] * HashFactor /\ f[i] \in Int
  <2>1. WeighedIn(f, size)[i] = Weigh(f[i])
    BY DEF WeighedIn
  <2>2. f[i] \in Byte /\ \A x \in Byte : x \in Int
    BY ByteType
  <2>3. QED
    BY <2>1, <2>2 DEF Weigh
<1>2. \A x \in Int : x * HashFactor \in Int
  <2>1. HashFactor \in Int
    BY ByteType
  <2>2. QED
    BY <2>1
<1>3. QED
  BY <1>1, <1>2

LEMMA HashType ==
  ASSUME NEW size \in Nat, NEW f, \A i \in 0 .. size - 1 : f[i] \in Byte
  PROVE  GetHash(f, size) \in Byte
<1>1. Total(WeighedIn(f, size), size) \in Int
  BY WeighedType, TotalSame
<1>2. QED
  BY <1>1, ByteType DEF GetHash, WeighedIn, Byte

\* get_hash reads size bytes.
LEMMA HashSame ==
  ASSUME NEW size \in Nat, NEW f, NEW g, \A i \in 0 .. size - 1 : g[i] = f[i]
  PROVE  GetHash(g, size) = GetHash(f, size)
<1>1. WeighedIn(g, size) = WeighedIn(f, size)
  BY DEF WeighedIn
<1>2. QED
  BY <1>1 DEF GetHash, WeighedIn

\* Two blocks that differ in one byte have different check bytes, since the
\* factor of get_hash is odd.
LEMMA HashTells ==
  ASSUME NEW size \in Nat, NEW f, NEW g, NEW j \in 0 .. size - 1, f[j] # g[j],
         \A i \in 0 .. size - 1 : f[i] \in Byte /\ g[i] \in Byte,
         \A i \in 0 .. size - 1 : i # j => g[i] = f[i]
  PROVE  GetHash(g, size) # GetHash(f, size)
<1> DEFINE F == Total(WeighedIn(f, size), size)
           G == Total(WeighedIn(g, size), size)
<1>1. SUFFICES ASSUME GetHash(g, size) = GetHash(f, size) PROVE FALSE
  OBVIOUS
<1>2. F \in Int /\ G \in Int
  BY WeighedType, TotalSame
<1>3. G - F = WeighedIn(g, size)[j] - WeighedIn(f, size)[j]
  <2>1. \A i \in 0 .. size - 1 : /\ WeighedIn(f, size)[i] \in Int
                                 /\ WeighedIn(g, size)[i] \in Int
    BY WeighedType
  <2>2. \A i \in 0 .. size - 1 : i # j => WeighedIn(g, size)[i] = WeighedIn(f, size)[i]
    BY DEF WeighedIn
  <2>3. QED
    BY <2>1, <2>2, TotalDiffers
<1>4. f[j] \in Nat /\ g[j] \in Nat /\ f[j] < TwoTo[W] /\ g[j] < TwoTo[W]
  BY ByteType DEF Byte
<1>5. G - F = HashFactor * (g[j] - f[j])
  <2>1. WeighedIn(g, size)[j] = g[j] * HashFactor /\ WeighedIn(f, size)[j] = f[j] * HashFactor
    BY WeighedType
  <2>2. QED
    BY <1>3, <1>4, <2>1, ByteType
<1>6. F % TwoTo[W] = G % TwoTo[W]
  BY <1>1 DEF GetHash, WeighedIn
<1>7. PICK q \in Int : G - F = TwoTo[W] * q
  BY <1>2, <1>6, ByteType, SameRemainder
<1>8. PICK a \in Int : HashFactor = 2 * a + 1
  <2>1. HashFactor = 2 * (HashFactor \div 2) + (HashFactor % 2) /\ HashFactor \div 2 \in Int
    BY ByteType
  <2>2. QED
    BY <2>1, PathAssumption
<1> DEFINE d == g[j] - f[j]
<1>9. d \in Int /\ (2 * a + 1) * d = TwoTo[W] * q
  BY <1>4, <1>5, <1>7, <1>8
<1>10. PICK e \in Int : d = TwoTo[W] * e
  <2> HIDE DEF d
  <2>1. W \in 0 .. W
    BY ByteType
  <2>2. QED
    BY <1>9, <2>1, OddFactor
<1>11. d < TwoTo[W] /\ -d < TwoTo[W] /\ d # 0
  BY <1>4, ByteType
<1> HIDE DEF d
<1>12. e < 1
  BY <1>9, <1>10, <1>11, ByteType
<1>13. e > -1
  BY <1>9, <1>10, <1>11, ByteType
<1>14. QED
  BY <1>10, <1>11, <1>12, <1>13, ByteType

-----------------------------------------------------------------------------
(* Frames.                                                                 *)

Packets == {p \in [PackBytes -> Byte] : p[0] < MaxLen}
Frames  == [FrameBytes -> Byte]

\* The frame of a packet begins with the header, ends with the check byte of what
\* is before, and has the packet between them.
LEMMA FrameFacts ==
  ASSUME NEW p \in Packets
  PROVE  /\ p[0] \in 0 .. MaxLen - 1 /\ FrameOf(p) \in Frames
         /\ \A i \in 0 .. p[0] : FrameOf(p)[i + 1] = p[i]
         /\ FrameOf(p)[2 + p[0]] = GetHash(FrameOf(p), 2 + p[0])
<1> DEFINE size == 2 + p[0]
           data == [i \in FrameBytes |-> IF i = 0 THEN Header
                                        ELSE IF i < size THEN p[i - 1] ELSE Ones]
<1>1. MaxLen \in Nat /\ MaxLen >= 2 /\ Header \in Byte /\ Ones \in Byte /\ Byte \subseteq Nat
  BY ByteType
<1>2. 0 \in PackBytes /\ p \in [PackBytes -> Byte]
  BY <1>1 DEF PackBytes, Packets
<1>3. p[0] \in Nat /\ p[0] < MaxLen
  BY <1>1, <1>2 DEF Packets
<1>4. size \in FrameBytes /\ size \in Nat /\ \A i \in 0 .. size : i \in FrameBytes
  BY <1>1, <1>3 DEF FrameBytes
<1>5. ASSUME NEW i \in FrameBytes PROVE data[i] \in Byte
  <2>1. CASE i # 0 /\ i < size
    <3>1. i - 1 \in PackBytes
      BY <1>1, <1>3, <2>1 DEF FrameBytes, PackBytes
    <3>2. QED
      BY <1>2, <2>1, <3>1
  <2>2. CASE i = 0 \/ ~(i < size)
    BY <1>1, <2>2
  <2>3. QED
    BY <2>1, <2>2
<1>6. data \in Frames
  BY <1>5 DEF Frames
<1> DEFINE sealed == [data EXCEPT ![size] = GetHash(data, size)]
<1>7. sealed = FrameOf(p)
  BY DEF FrameOf
<1> HIDE DEF data
<1>8. GetHash(data, size) \in Byte
  <2>1. \A i \in 0 .. size - 1 : data[i] \in Byte
    BY <1>4, <1>6 DEF Frames
  <2>2. QED
    BY <1>4, <2>1, HashType
<1>9. /\ sealed \in Frames /\ sealed[size] = GetHash(data, size)
      /\ \A i \in 0 .. size - 1 : sealed[i] = data[i]
  BY <1>4, <1>6, <1>8 DEF Frames
<1>10. GetHash(sealed, size) = GetHash(data, size)
  BY <1>4, <1>9, HashSame
<1>11. ASSUME NEW i \in 0 .. p[0] PROVE sealed[i + 1] = p[i]
  <2>1. i + 1 \in 0 .. size - 1 /\ i + 1 \in FrameBytes /\ i + 1 # 0 /\ i + 1 < size
    BY <1>3, <1>4
  <2>2. data[i + 1] = p[(i + 1) - 1]
    BY <2>1 DEF data
  <2>3. QED
    BY <1>3, <1>9, <2>1, <2>2
<1> HIDE DEF sealed
<1>12. p[0] \in 0 .. MaxLen - 1
  BY <1>1, <1>3
<1>13. QED
  BY <1>7, <1>9, <1>10, <1>11, <1>12

\* The places of the frame of packet p at which f is damaged.
Hit(f, p) == Damage(f, FrameOf(p)) \cap 0 .. 2 + p[0]

\* check_hash accepts a frame of which at most one byte is damaged, the length
\* apart, exactly if none is.
LEMMA CheckTells ==
  ASSUME NEW p \in Packets, NEW f \in Frames,
         Cardinality(Hit(f, p)) <= 1, 1 \notin Hit(f, p)
  PROVE  CheckHash(f) = {Hit(f, p) = {}} /\ f[1] = p[0]
<1> DEFINE size == 2 + p[0]
           F == FrameOf(p)
<1>1. /\ p[0] \in Nat /\ p[0] < MaxLen /\ F \in Frames /\ F[1] = p[0] /\ F[size] = GetHash(F, size)
      /\ MaxLen \in Nat
  <2>1. p[0] \in 0 .. MaxLen - 1 /\ MaxLen \in Nat /\ 0 \in 0 .. p[0]
    BY FrameFacts, ByteType
  <2>2. QED
    BY <2>1, FrameFacts
<1> HIDE DEF F
<1>2. /\ size \in Nat /\ 1 \in 0 .. size - 1 /\ size \in FrameBytes /\ 1 \in FrameBytes
      /\ \A i \in 0 .. size : i \in FrameBytes
  BY <1>1 DEF FrameBytes
<1>3. Hit(f, p) = {i \in 0 .. size : f[i] # F[i]}
  BY <1>2 DEF Hit, Damage, F
<1>4. f[1] = p[0]
  BY <1>1, <1>2, <1>3
<1>5. RxLen(f) - 1 = size
  BY <1>1, <1>4 DEF RxLen
<1>6. CheckHash(f) = {GetHash(f, size) = f[size]}
  <2> HIDE DEF size
  <2>1. RxLen(f) - 1 \in FrameBytes
    BY <1>2, <1>5
  <2>2. CheckHash(f) = {GetHash(f, RxLen(f) - 1) = f[RxLen(f) - 1]}
    BY <2>1 DEF CheckHash
  <2>3. QED
    BY <1>5, <2>2
<1>7. \A i \in 0 .. size - 1 : f[i] \in Byte /\ F[i] \in Byte
  BY <1>1, <1>2 DEF Frames
<1>8. CASE Hit(f, p) = {}
  <2>1. \A i \in 0 .. size : f[i] = F[i]
    BY <1>3, <1>8
  <2>2. GetHash(f, size) = GetHash(F, size)
    BY <1>2, <2>1, HashSame
  <2>3. GetHash(f, size) = f[size]
    BY <1>1, <1>2, <2>1, <2>2
  <2>4. QED
    BY <1>4, <1>6, <1>8, <2>3
<1>9. CASE Hit(f, p) # {}
  <2>1. PICK j : Hit(f, p) = {j}
    <3>1. IsFiniteSet(0 .. size)
      BY <1>2, FS_Interval
    <3>2. IsFiniteSet(Hit(f, p))
      BY <1>3, <3>1, FS_Subset
    <3>3. Cardinality(Hit(f, p)) \in Nat /\ Cardinality(Hit(f, p)) # 0
      BY <1>9, <3>2, FS_CardinalityType, FS_EmptySet
    <3>4. Cardinality(Hit(f, p)) = 1
      BY <3>3
    <3>5. QED
      BY <3>2, <3>4, FS_Singleton
  <2>2. j \in 0 .. size /\ f[j] # F[j] /\ \A i \in 0 .. size : i # j => f[i] = F[i]
    BY <1>3, <2>1
  <2>3. CASE j = size
    <3>1. \A i \in 0 .. size - 1 : f[i] = F[i]
      BY <1>2, <2>2, <2>3
    <3>2. GetHash(f, size) = GetHash(F, size)
      BY <1>2, <3>1, HashSame
    <3>3. GetHash(f, size) # f[size]
      BY <1>1, <2>2, <2>3, <3>2
    <3>4. QED
      BY <1>4, <1>6, <1>9, <3>3
  <2>4. CASE j # size
    <3>1. /\ j \in 0 .. size - 1
          /\ \A i \in 0 .. size - 1 : i # j => f[i] = F[i]
          /\ size \in 0 .. size /\ f[size] = F[size]
      BY <1>2, <2>2, <2>4
    <3>2. GetHash(f, size) # GetHash(F, size)
      BY <1>2, <1>7, <2>2, <3>1, HashTells
    <3>3. GetHash(f, size) # f[size]
      BY <1>1, <3>1, <3>2
    <3>4. QED
      BY <1>4, <1>6, <1>9, <3>3
  <2>5. QED
    BY <2>3, <2>4
<1>10. QED
  BY <1>8, <1>9

\* The limit of the check: get_hash adds the bytes with one factor for all, so a
\* frame in which two bytes before the check byte have changed places passes, for
\* every packet (the length byte apart, which says where the check byte is).
THEOREM SwappedBytesPass ==
  ASSUME NEW p \in Packets, NEW f \in Frames,
         NEW i \in 0 .. 1 + p[0], NEW j \in 0 .. 1 + p[0], i # 1, j # 1,
         f[i] = FrameOf(p)[j], f[j] = FrameOf(p)[i],
         \A k \in FrameBytes : k # i /\ k # j => f[k] = FrameOf(p)[k]
  PROVE  CheckHash(f) = {TRUE}
<1> DEFINE size == 2 + p[0]
           F == FrameOf(p)
<1>1. /\ p[0] \in Nat /\ p[0] < MaxLen /\ F \in Frames /\ F[1] = p[0] /\ F[size] = GetHash(F, size)
      /\ MaxLen \in Nat
  <2>1. p[0] \in 0 .. MaxLen - 1 /\ MaxLen \in Nat /\ 0 \in 0 .. p[0]
    BY FrameFacts, ByteType
  <2>2. QED
    BY <2>1, FrameFacts
<1> HIDE DEF F
<1>2. /\ size \in Nat /\ size \in FrameBytes /\ 1 \in FrameBytes /\ size # i /\ size # j
      /\ i \in 0 .. size - 1 /\ j \in 0 .. size - 1
      /\ \A k \in 0 .. size - 1 : k \in FrameBytes
  BY <1>1 DEF FrameBytes
<1>3. f[1] = p[0] /\ f[size] = F[size]
  BY <1>1, <1>2 DEF F
<1>4. RxLen(f) - 1 = size
  BY <1>1, <1>3 DEF RxLen
<1>5. GetHash(f, size) = GetHash(F, size)
  <2> HIDE DEF size
  <2>1. \A k \in 0 .. size - 1 : F[k] \in Byte
    BY <1>1, <1>2 DEF Frames
  <2>2. \A k \in 0 .. size - 1 : WeighedIn(F, size)[k] \in Int
    BY <1>2, <2>1, WeighedType
  <2>3. /\ WeighedIn(f, size)[i] = WeighedIn(F, size)[j]
        /\ WeighedIn(f, size)[j] = WeighedIn(F, size)[i]
        /\ \A k \in 0 .. size - 1 : k # i /\ k # j => WeighedIn(f, size)[k] = WeighedIn(F, size)[k]
    BY <1>2 DEF WeighedIn, F
  <2>4. Total(WeighedIn(f, size), size) = Total(WeighedIn(F, size), size)
    BY <1>2, <2>2, <2>3, TotalOfSwap
  <2>5. QED
    BY <2>4 DEF GetHash, WeighedIn
<1>6. CheckHash(f) = {GetHash(f, size) = f[size]}
  <2> HIDE DEF size
  <2>1. RxLen(f) - 1 \in FrameBytes
    BY <1>2, <1>4
  <2>2. CheckHash(f) = {GetHash(f, RxLen(f) - 1) = f[RxLen(f) - 1]}
    BY <2>1 DEF CheckHash
  <2>3. QED
    BY <1>4, <2>2
<1>7. QED
  BY <1>1, <1>3, <1>5, <1>6

-----------------------------------------------------------------------------
(* Division.                                                               *)

LEMMA QuotientIs ==
  ASSUME NEW m \in Nat, m > 0, NEW x \in Int, NEW q \in Int, NEW r \in 0 .. m - 1,
         x = m * q + r
  PROVE  x \div m = q
<1> DEFINE z == x \div m
           u == x % m
           e == q - z
<1>1. x = m * z + u /\ z \in Int /\ u \in Int /\ 0 <= u /\ u < m
  OBVIOUS
<1>2. m * (q - z) = u - r
  BY <1>1
<1>3. e \in Int /\ m * e < m /\ m * e > -m
  BY <1>1, <1>2
<1> HIDE DEF e, z, u
<1>4. e < 1
  BY <1>3
<1>5. e > -1
  BY <1>3
<1>6. e = 0
  BY <1>3, <1>4, <1>5
<1>7. QED
  BY <1>1, <1>6 DEF e, z

LEMMA HalfType ==
  ASSUME NEW x \in Nat
  PROVE  /\ x \div 2 \in Nat /\ x % 2 \in 0 .. 1 /\ x = 2 * (x \div 2) + (x % 2)
         /\ x # 0 => x \div 2 < x
<1>1. x \div 2 \in Nat /\ x % 2 \in 0 .. 1 /\ x = 2 * (x \div 2) + (x % 2)
  OBVIOUS
<1>2. QED
  BY <1>1

\* Dividing a half is dividing by twice as much.
LEMMA HalfDivided ==
  ASSUME NEW x \in Nat, NEW m \in Nat, m > 0
  PROVE  (x \div 2) \div m = x \div (2 * m)
<1> DEFINE h == x \div 2
           e == x % 2
           q == h \div m
           r == h % m
<1>1. h \in Nat /\ e \in 0 .. 1 /\ x = 2 * h + e
  BY HalfType
<1>2. q \in Int /\ r \in Int /\ 0 <= r /\ r < m /\ h = m * q + r
  BY <1>1
<1> HIDE DEF h, e, q, r
<1>3. x = (2 * m) * q + (2 * r + e)
  BY <1>1, <1>2
<1>4. 2 * r + e \in 0 .. 2 * m - 1 /\ 2 * m \in Nat /\ 2 * m > 0
  BY <1>1, <1>2
<1>5. x \div (2 * m) = q
  BY <1>2, <1>3, <1>4, QuotientIs
<1>6. QED
  BY <1>5 DEF q, h

-----------------------------------------------------------------------------
(* Bits.                                                                   *)

Bit(n, b) == (n \div TwoTo[b]) % 2

\* The bits in which two bytes differ.
Differ(x, y) == {b \in 0 .. W - 1 : Bit(x, b) # Bit(y, b)}

LEMMA BitType ==
  ASSUME NEW x \in Nat
  PROVE  Bit(x, 0) = x % 2 /\ \A b \in 0 .. W - 1 : Bit(x \div 2, b) = Bit(x, b + 1)
<1>1. x \div 1 = x
  OBVIOUS
<1>2. Bit(x, 0) = x % 2
  BY <1>1, TwoToStep DEF Bit
<1>3. ASSUME NEW b \in 0 .. W - 1 PROVE Bit(x \div 2, b) = Bit(x, b + 1)
  <2>1. TwoTo[b] \in Nat /\ TwoTo[b] > 0 /\ TwoTo[b + 1] = 2 * TwoTo[b]
    BY ByteType, TwoToType, TwoToStep
  <2>2. (x \div 2) \div TwoTo[b] = x \div TwoTo[b + 1]
    BY <2>1, HalfDivided
  <2>3. QED
    BY <2>2 DEF Bit
<1>4. QED
  BY <1>2, <1>3

LEMMA NoBitBeyond ==
  ASSUME NEW x \in Byte
  PROVE  Bit(x, W) = 0
<1>1. x \in 0 .. TwoTo[W] - 1 /\ x = TwoTo[W] * 0 + x
  BY ByteType DEF Byte
<1>2. x \div TwoTo[W] = 0
  BY <1>1, ByteType, QuotientIs
<1>3. QED
  BY <1>2 DEF Bit

LEMMA DifferType ==
  ASSUME NEW x, NEW y
  PROVE  /\ IsFiniteSet(Differ(x, y))
         /\ Cardinality(Differ(x, y)) \in 0 .. W
<1>1. Differ(x, y) \in SUBSET (0 .. W - 1)
  BY DEF Differ
<1>2. IsFiniteSet(0 .. W - 1) /\ Cardinality(0 .. W - 1) = W
  <2>1. 0 \in Int /\ W - 1 \in Int /\ W \in Nat
    BY ByteType
  <2>2. /\ IsFiniteSet(0 .. W - 1)
        /\ Cardinality(0 .. W - 1) = IF 0 > W - 1 THEN 0 ELSE W - 1 - 0 + 1
    BY <2>1, FS_Interval
  <2>3. QED
    BY <2>1, <2>2
<1>3. IsFiniteSet(Differ(x, y)) /\ Cardinality(Differ(x, y)) <= W
  BY <1>1, <1>2, FS_Subset
<1>4. Cardinality(Differ(x, y)) \in Nat
  BY <1>3, FS_CardinalityType
<1>5. QED
  BY <1>3, <1>4, ByteType

LEMMA HalfOfByte ==
  ASSUME NEW x \in Byte
  PROVE  x \in Nat /\ x \div 2 \in Byte /\ (x # 0 => x \div 2 < x)
<1>1. x \in Nat /\ x < TwoTo[W]
  BY ByteType DEF Byte
<1>2. x \div 2 \in Nat /\ (x # 0 => x \div 2 < x) /\ x \div 2 <= x
  BY <1>1, HalfType
<1>3. QED
  BY <1>1, <1>2, ByteType DEF Byte

\* Two bytes differ in their lowest bits and in the bits of their halves.
LEMMA DifferStep ==
  ASSUME NEW x \in Byte, NEW y \in Byte
  PROVE  Cardinality(Differ(x, y)) = (IF x % 2 # y % 2 THEN 1 ELSE 0)
                                     + Cardinality(Differ(x \div 2, y \div 2))
<1> DEFINE Low  == IF x % 2 # y % 2 THEN {0} ELSE {}
           Half == Differ(x \div 2, y \div 2)
           High == {b \in Differ(x, y) : b # 0}
           up   == [b \in Half |-> b + 1]
<1>1. W \in Nat /\ W # 0 /\ x \in Nat /\ y \in Nat
  BY HalfOfByte, PathAssumption
<1>2. \A b \in 0 .. W - 1 : /\ Bit(x \div 2, b) = Bit(x, b + 1)
                           /\ Bit(y \div 2, b) = Bit(y, b + 1)
  BY <1>1, BitType
<1>3. Bit(x, 0) = x % 2 /\ Bit(y, 0) = y % 2
  BY <1>1, BitType
<1>4. Differ(x, y) = Low \cup High /\ Low \cap High = {}
  BY <1>1, <1>3 DEF Differ
<1>5. \A b \in Half : b \in 0 .. W - 1 /\ b + 1 \in High
  <2>1. SUFFICES ASSUME NEW b \in Half PROVE b \in 0 .. W - 1 /\ b + 1 \in High
    OBVIOUS
  <2>2. b \in 0 .. W - 1 /\ Bit(x, b + 1) # Bit(y, b + 1)
    BY <1>2 DEF Differ
  <2>3. b + 1 # W
    BY <2>2, NoBitBeyond
  <2>4. b + 1 \in 0 .. W - 1 /\ b + 1 # 0
    BY <1>1, <2>2, <2>3
  <2>5. QED
    BY <2>2, <2>4 DEF Differ
<1>6. \A c \in High : \E b \in Half : c = b + 1
  <2>1. SUFFICES ASSUME NEW c \in High PROVE \E b \in Half : c = b + 1
    OBVIOUS
  <2>2. c \in 1 .. W - 1 /\ Bit(x, c) # Bit(y, c)
    BY <1>1 DEF Differ
  <2>3. c - 1 \in 0 .. W - 1 /\ (c - 1) + 1 = c
    BY <1>1, <2>2
  <2>4. Bit(x \div 2, c - 1) # Bit(y \div 2, c - 1)
    BY <1>2, <2>2, <2>3
  <2>5. c - 1 \in Half
    BY <2>3, <2>4 DEF Differ
  <2>6. QED
    BY <2>3, <2>5
<1>7. up \in [Half -> High]
  BY <1>5
<1>8. \A b, c \in Half : up[b] = up[c] => b = c
  BY <1>5
<1>9. \A c \in High : \E b \in Half : up[b] = c
  BY <1>6
<1>10. up \in Bijection(Half, High)
  BY <1>7, <1>8, <1>9, Fun_IsBij
<1>11. IsFiniteSet(High) /\ Cardinality(High) = Cardinality(Half)
  <2>1. ExistsBijection(Half, High)
    BY <1>10 DEF ExistsBijection
  <2>2. IsFiniteSet(Half)
    BY DifferType
  <2>3. QED
    BY <2>1, <2>2, FS_Bijection
<1>12. IsFiniteSet(Low) /\ Cardinality(Low) = IF x % 2 # y % 2 THEN 1 ELSE 0
  BY FS_Singleton, FS_EmptySet
<1>13. Cardinality(Low \cup High) = Cardinality(Low) + Cardinality(High) - Cardinality(Low \cap High)
  BY <1>11, <1>12, FS_Union
<1>14. Cardinality(Low \cap High) = 0
  BY <1>4, FS_EmptySet
<1>15. Cardinality(Half) \in Int
  BY DifferType
<1>16. QED
  <2> HIDE DEF Low, High, Half
  <2>1. Cardinality(Differ(x, y)) = Cardinality(Low \cup High)
    BY <1>4
  <2>2. QED
    BY <1>11, <1>12, <1>13, <1>14, <1>15, <2>1 DEF Half

\* What diff_bits returns, as the loop computes it.
DiffLoop(d) ==
  d = [ab \in Byte \X Byte |->
         IF ab[1] = 0 /\ ab[2] = 0 THEN 0
         ELSE (IF ab[1] % 2 # ab[2] % 2 THEN 1 ELSE 0)
              + d[<<ab[1] \div 2, ab[2] \div 2>>]]

LEMMA DiffLoopStep ==
  ASSUME NEW d, DiffLoop(d), NEW x \in Byte, NEW y \in Byte
  PROVE  d[<<x, y>>] = IF x = 0 /\ y = 0 THEN 0
                       ELSE (IF x % 2 # y % 2 THEN 1 ELSE 0) + d[<<x \div 2, y \div 2>>]
<1> DEFINE p == <<x, y>>
<1>1. p \in Byte \X Byte /\ p = <<x, y>> /\ p[1] = x /\ p[2] = y
  OBVIOUS
<1> HIDE DEF p
<1>2. d[p] = IF p[1] = 0 /\ p[2] = 0 THEN 0
             ELSE (IF p[1] % 2 # p[2] % 2 THEN 1 ELSE 0)
                  + d[<<p[1] \div 2, p[2] \div 2>>]
  BY <1>1, Zenon DEF DiffLoop
<1>3. QED
  BY <1>1, <1>2

LEMMA DiffLoopExists == \E d : DiffLoop(d)
<1> DEFINE d == [p \in Byte \X Byte |-> Cardinality(Differ(p[1], p[2]))]
<1>1. ASSUME NEW x \in Byte, NEW y \in Byte
      PROVE  d[<<x, y>>] = Cardinality(Differ(x, y))
  OBVIOUS
<1>2. ASSUME NEW p \in Byte \X Byte
      PROVE  d[p] = IF p[1] = 0 /\ p[2] = 0 THEN 0
                    ELSE (IF p[1] % 2 # p[2] % 2 THEN 1 ELSE 0)
                         + d[<<p[1] \div 2, p[2] \div 2>>]
  <2>1. /\ p[1] \in Byte /\ p[2] \in Byte /\ d[p] = Cardinality(Differ(p[1], p[2]))
        /\ p[1] \div 2 \in Byte /\ p[2] \div 2 \in Byte
    BY HalfOfByte
  <2>2. d[<<p[1] \div 2, p[2] \div 2>>] = Cardinality(Differ(p[1] \div 2, p[2] \div 2))
    BY <1>1, <2>1
  <2>3. CASE p[1] = 0 /\ p[2] = 0
    <3>1. Differ(p[1], p[2]) = {}
      BY <2>3 DEF Differ
    <3>2. QED
      BY <2>1, <2>3, <3>1, FS_EmptySet
  <2>4. CASE ~(p[1] = 0 /\ p[2] = 0)
    BY <2>1, <2>2, <2>4, DifferStep
  <2>5. QED
    BY <2>3, <2>4
<1>3. d = [p \in Byte \X Byte |-> d[p]]
  OBVIOUS
<1> HIDE DEF d
<1>4. DiffLoop(d)
  BY <1>2, <1>3, Zenon DEF DiffLoop
<1>5. QED
  BY <1>4

\* diff_bits counts the bits in which two bytes differ.
LEMMA DiffBitsCounts ==
  ASSUME NEW x \in Byte, NEW y \in Byte
  PROVE  DiffBits(x, y) = Cardinality(Differ(x, y))
<1>1. PICK d : DiffLoop(d) /\ DiffBits(x, y) = d[<<x, y>>]
  BY DiffLoopExists DEF DiffBits, DiffLoop
<1> DEFINE Good == {n \in Nat : \A u, v \in Byte :
                      u + v <= n => d[<<u, v>>] = Cardinality(Differ(u, v))}
<1>2. ASSUME NEW u \in Byte, NEW v \in Byte, u = 0 /\ v = 0
      PROVE  d[<<u, v>>] = Cardinality(Differ(u, v))
  <2>1. Differ(u, v) = {}
    BY <1>2 DEF Differ
  <2>2. d[<<u, v>>] = 0
    BY <1>1, <1>2, DiffLoopStep
  <2>3. QED
    BY <2>1, <2>2, FS_EmptySet
<1>3. 0 \in Good
  <2>1. SUFFICES ASSUME NEW u \in Byte, NEW v \in Byte, u + v <= 0
                 PROVE  d[<<u, v>>] = Cardinality(Differ(u, v))
    OBVIOUS
  <2>0. u \in Nat /\ v \in Nat
    BY HalfOfByte
  <2>2. u = 0 /\ v = 0
    BY <2>0, <2>1
  <2>3. QED
    BY <1>2, <2>2
<1>4. ASSUME NEW n \in Nat \cap Good PROVE n + 1 \in Good
  <2>1. SUFFICES ASSUME NEW u \in Byte, NEW v \in Byte, u + v <= n + 1
                 PROVE  d[<<u, v>>] = Cardinality(Differ(u, v))
    OBVIOUS
  <2>2. CASE u = 0 /\ v = 0
    BY <1>2, <2>2
  <2>3. CASE ~(u = 0 /\ v = 0)
    <3>1. /\ u \div 2 \in Byte /\ v \div 2 \in Byte
          /\ u \in Nat /\ v \in Nat /\ u \div 2 \in Nat /\ v \div 2 \in Nat
          /\ u # 0 => u \div 2 < u
          /\ v # 0 => v \div 2 < v
          /\ u = 0 => u \div 2 = 0
          /\ v = 0 => v \div 2 = 0
      BY HalfOfByte
    <3>2. u \div 2 + v \div 2 <= n
      BY <2>1, <2>3, <3>1
    <3>3. d[<<u \div 2, v \div 2>>] = Cardinality(Differ(u \div 2, v \div 2))
      BY <3>1, <3>2
    <3>4. d[<<u, v>>] = (IF u % 2 # v % 2 THEN 1 ELSE 0) + d[<<u \div 2, v \div 2>>]
      BY <1>1, <2>3, DiffLoopStep
    <3>5. QED
      BY <3>3, <3>4, DifferStep
  <2>4. QED
    BY <2>2, <2>3
<1> HIDE DEF Good
<1>5. Nat \subseteq Good
  BY <1>3, <1>4, SetInduction
<1>6. x + y \in Nat
  BY HalfOfByte
<1>7. x + y \in Good
  BY <1>5, <1>6
<1>8. QED
  BY <1>1, <1>6, <1>7 DEF Good

LEMMA DiffBitsType ==
  ASSUME NEW x \in Byte, NEW y \in Byte
  PROVE  DiffBits(x, y) \in 0 .. W
BY DiffBitsCounts, DifferType

-----------------------------------------------------------------------------
(* Sums of bits.                                                           *)

Nonzero(g, n) == {i \in 0 .. n - 1 : g[i] # 0}

LEMMA NonzeroStep ==
  ASSUME NEW n \in Nat, NEW g
  PROVE  /\ IsFiniteSet(Nonzero(g, n)) /\ Cardinality(Nonzero(g, n)) \in Nat
         /\ Cardinality(Nonzero(g, n + 1))
              = Cardinality(Nonzero(g, n)) + (IF g[n] # 0 THEN 1 ELSE 0)
<1>1. IsFiniteSet(0 .. n - 1)
  BY FS_Interval
<1>2. Nonzero(g, n) \in SUBSET (0 .. n - 1)
  BY DEF Nonzero
<1>3. IsFiniteSet(Nonzero(g, n)) /\ Cardinality(Nonzero(g, n)) \in Nat
  BY <1>1, <1>2, FS_Subset, FS_CardinalityType
<1>4. Nonzero(g, n + 1) = IF g[n] # 0 THEN Nonzero(g, n) \cup {n} ELSE Nonzero(g, n)
  BY DEF Nonzero
<1>5. n \notin Nonzero(g, n)
  BY DEF Nonzero
<1>6. Cardinality(Nonzero(g, n) \cup {n}) = Cardinality(Nonzero(g, n)) + 1
  BY <1>3, <1>5, FS_AddElement
<1>7. QED
  BY <1>3, <1>4, <1>6

\* Each term that is not zero adds between 1 and W.
LEMMA TotalBounds ==
  ASSUME NEW n \in Nat, NEW g, \A i \in 0 .. n - 1 : g[i] \in 0 .. W
  PROVE  /\ Total(g, n) \in Nat /\ Cardinality(Nonzero(g, n)) \in Nat
         /\ Cardinality(Nonzero(g, n)) <= Total(g, n)
         /\ Total(g, n) <= W * Cardinality(Nonzero(g, n))
<1> DEFINE Card(m) == Cardinality(Nonzero(g, m))
           Good == {m \in Nat : m <= n => /\ Total(g, m) \in Nat /\ Card(m) \in Nat
                                         /\ Card(m) <= Total(g, m)
                                         /\ Total(g, m) <= W * Card(m)}
<1>1. 0 \in Good
  <2>1. Nonzero(g, 0) = {}
    BY DEF Nonzero
  <2>2. Card(0) = 0 /\ Total(g, 0) = 0
    BY <2>1, FS_EmptySet, TotalOfNone
  <2>3. QED
    BY <2>2, ByteType
<1>2. ASSUME NEW m \in Nat \cap Good PROVE m + 1 \in Good
  <2>1. SUFFICES ASSUME m + 1 <= n
                 PROVE  /\ Total(g, m + 1) \in Nat /\ Card(m + 1) \in Nat
                        /\ Card(m + 1) <= Total(g, m + 1)
                        /\ Total(g, m + 1) <= W * Card(m + 1)
    OBVIOUS
  <2>2. /\ Total(g, m) \in Nat /\ Card(m) \in Nat
        /\ Card(m) <= Total(g, m) /\ Total(g, m) <= W * Card(m)
    BY <2>1
  <2>3. \A i \in 0 .. m : g[i] \in 0 .. W /\ g[i] \in Int
    BY <2>1, ByteType
  <2>4. Total(g, m + 1) = Total(g, m) + g[m]
    BY <2>3, TotalStep
  <2>5. Card(m + 1) = Card(m) + (IF g[m] # 0 THEN 1 ELSE 0)
    BY NonzeroStep
  <2>6. g[m] \in 0 .. W /\ W \in Nat
    BY <2>3, ByteType
  <2> HIDE DEF Card
  <2>7. W * (Card(m) + 1) = W * Card(m) + W /\ W * Card(m) \in Nat
    BY <2>2, <2>6
  <2>8. CASE g[m] = 0
    BY <2>2, <2>4, <2>5, <2>8
  <2>9. CASE g[m] # 0
    BY <2>2, <2>4, <2>5, <2>6, <2>7, <2>9
  <2>10. QED
    BY <2>8, <2>9
<1> HIDE DEF Good
<1>3. Nat \subseteq Good
  BY <1>1, <1>2, SetInduction
<1>4. QED
  BY <1>3 DEF Good

LEMMA Interval ==
  ASSUME NEW a \in Nat, NEW n \in Nat
  PROVE  IsFiniteSet(a .. n - 1) /\ Cardinality(a .. n - 1) = IF a > n - 1 THEN 0 ELSE n - a
<1> DEFINE b == n - 1
<1>1. a \in Int /\ b \in Int
  OBVIOUS
<1>2. b - a + 1 = n - a
  OBVIOUS
<1> HIDE DEF b
<1>3. IsFiniteSet(a .. b) /\ Cardinality(a .. b) = IF a > b THEN 0 ELSE b - a + 1
  BY <1>1, FS_Interval
<1>4. QED
  BY <1>2, <1>3 DEF b

\* Pairs of an index and a bit that sets D[i] allow.
Chosen(D, n) == {ib \in (0 .. n - 1) \X (0 .. W - 1) : ib[2] \in D[ib[1]]}

LEMMA ChosenFinite ==
  ASSUME NEW D, NEW n \in Nat
  PROVE  IsFiniteSet(Chosen(D, n)) /\ Cardinality(Chosen(D, n)) \in Nat
<1>1. IsFiniteSet(0 .. n - 1) /\ IsFiniteSet(0 .. W - 1)
  <2>1. W \in Nat /\ 0 \in Nat
    BY PathAssumption
  <2>2. QED
    BY <2>1, Interval
<1>2. IsFiniteSet((0 .. n - 1) \X (0 .. W - 1))
  BY <1>1, FS_Product
<1>3. Chosen(D, n) \in SUBSET ((0 .. n - 1) \X (0 .. W - 1))
  BY DEF Chosen
<1>4. QED
  BY <1>2, <1>3, FS_Subset, FS_CardinalityType

\* The sum of the sizes of sets of bits is the number of pairs they make.
LEMMA TotalCounts ==
  ASSUME NEW n \in Nat, NEW g, NEW D,
         \A i \in 0 .. n - 1 : /\ D[i] \subseteq 0 .. W - 1
                              /\ g[i] = Cardinality(D[i]) /\ g[i] \in Int
  PROVE  Total(g, n) = Cardinality(Chosen(D, n))
<1> DEFINE Good == {m \in Nat : m <= n => Total(g, m) = Cardinality(Chosen(D, m))}
<1>1. 0 \in Good
  <2>1. Chosen(D, 0) = {}
    BY DEF Chosen
  <2>2. QED
    BY <2>1, FS_EmptySet, TotalOfNone
<1>2. ASSUME NEW m \in Nat \cap Good PROVE m + 1 \in Good
  <2>1. SUFFICES ASSUME m + 1 <= n PROVE Total(g, m + 1) = Cardinality(Chosen(D, m + 1))
    OBVIOUS
  <2> DEFINE Row == {m} \X D[m]
  <2>2. Total(g, m) = Cardinality(Chosen(D, m))
    BY <2>1
  <2>3. Total(g, m + 1) = Total(g, m) + g[m]
    <3>1. \A i \in 0 .. m : g[i] \in Int
      BY <2>1
    <3>2. QED
      BY <3>1, TotalStep
  <2>4. m \in 0 .. n - 1 /\ D[m] \subseteq 0 .. W - 1 /\ g[m] = Cardinality(D[m])
    BY <2>1
  <2>5. IsFiniteSet(Row) /\ Cardinality(Row) = g[m]
    <3>1. IsFiniteSet(0 .. W - 1)
      <4>1. W \in Nat /\ 0 \in Nat
        BY PathAssumption
      <4>2. QED
        BY <4>1, Interval
    <3>2. IsFiniteSet(D[m]) /\ Cardinality(D[m]) \in Nat
      BY <2>4, <3>1, FS_Subset, FS_CardinalityType
    <3>3. IsFiniteSet({m}) /\ Cardinality({m}) = 1
      BY FS_Singleton
    <3>4. IsFiniteSet(Row) /\ Cardinality(Row) = Cardinality({m}) * Cardinality(D[m])
      BY <3>2, <3>3, FS_Product
    <3>5. QED
      BY <2>4, <3>2, <3>3, <3>4
  <2>6. Chosen(D, m + 1) = Chosen(D, m) \cup Row
    <3>1. ASSUME NEW i, NEW b
          PROVE  <<i, b>> \in Chosen(D, m + 1) <=> <<i, b>> \in Chosen(D, m) \cup Row
      <4>1. i \in 0 .. m <=> i \in 0 .. m - 1 \/ i = m
        OBVIOUS
      <4>2. QED
        BY <2>4, <4>1 DEF Chosen
    <3>2. \A ib \in Chosen(D, m + 1) : \E i, b : ib = <<i, b>>
      BY DEF Chosen
    <3>3. \A ib \in Chosen(D, m) \cup Row : \E i, b : ib = <<i, b>>
      BY DEF Chosen
    <3>4. QED
      BY <3>1, <3>2, <3>3
  <2>7. Chosen(D, m) \cap Row = {}
    BY DEF Chosen
  <2>8. Cardinality(Chosen(D, m) \cup Row)
          = Cardinality(Chosen(D, m)) + Cardinality(Row) - Cardinality(Chosen(D, m) \cap Row)
    BY <2>5, ChosenFinite, FS_Union
  <2>9. Cardinality(Chosen(D, m) \cap Row) = 0 /\ Cardinality(Chosen(D, m)) \in Int
    BY <2>7, ChosenFinite, FS_EmptySet
  <2>10. g[m] \in Int
    BY <2>4
  <2> HIDE DEF Row
  <2> DEFINE old == Cardinality(Chosen(D, m))
             new == Cardinality(Chosen(D, m + 1))
  <2>11. new = old + g[m]
    <3>1. new = old + Cardinality(Row) - Cardinality(Chosen(D, m) \cap Row)
      BY <2>6, <2>8
    <3>2. old \in Int /\ new = old + g[m] - 0
      BY <2>5, <2>9, <3>1
    <3> HIDE DEF old, new
    <3>3. QED
      BY <2>10, <3>2
  <2>12. QED
    BY <2>2, <2>3, <2>11
<1> HIDE DEF Good
<1>3. Nat \subseteq Good
  BY <1>1, <1>2, SetInduction
<1>4. QED
  BY <1>3 DEF Good

-----------------------------------------------------------------------------
(* The statistics of a packet.                                             *)

LEMMA MinMax ==
  ASSUME NEW x \in Int, NEW y \in Int
  PROVE  /\ Min({x, y}) = IF x <= y THEN x ELSE y
         /\ Max({x, y}) = IF x <= y THEN y ELSE x
<1>1. \A z \in {x, y} : z \in Int
  OBVIOUS
<1>2. PICK m \in {x, y} : m = Min({x, y}) /\ m <= x /\ m <= y
  BY DEF Min
<1>3. PICK n \in {x, y} : n = Max({x, y}) /\ n >= x /\ n >= y
  BY DEF Max
<1>4. QED
  BY <1>1, <1>2, <1>3

Texts == [PackBytes -> Byte]

\* The shorter of a sent and a read packet lies within both, whatever the length
\* that was read.
LEMMA LengthsKnown ==
  ASSUME NEW t \in Packets, NEW l \in Texts
  PROVE  /\ t[0] \in Nat /\ t[0] < MaxLen /\ l[0] \in Nat /\ MaxLen \in Nat
         /\ Min({t[0], l[0]}) = IF t[0] <= l[0] THEN t[0] ELSE l[0]
         /\ Max({t[0], l[0]}) = IF t[0] <= l[0] THEN l[0] ELSE t[0]
         /\ Compared(t, l) \in Nat /\ Compared(t, l) = Min({t[0], l[0]}) + 1
         /\ \A i \in 0 .. Compared(t, l) - 1 : i \in PackBytes /\ i <= t[0] /\ i <= l[0]
<1>1. MaxLen \in Nat /\ MaxLen >= 2 /\ \A x \in Byte : x \in Nat
  BY ByteType
<1>2. 0 \in PackBytes
  BY <1>1 DEF PackBytes
<1>3. t[0] \in Nat /\ t[0] < MaxLen /\ l[0] \in Nat
  BY <1>1, <1>2 DEF Packets, Texts
<1>4. /\ Min({t[0], l[0]}) = IF t[0] <= l[0] THEN t[0] ELSE l[0]
      /\ Max({t[0], l[0]}) = IF t[0] <= l[0] THEN l[0] ELSE t[0]
  <2> DEFINE x == t[0]
             y == l[0]
  <2>1. x \in Int /\ y \in Int
    BY <1>3
  <2> HIDE DEF x, y
  <2>2. /\ Min({x, y}) = IF x <= y THEN x ELSE y
        /\ Max({x, y}) = IF x <= y THEN y ELSE x
    BY <2>1, MinMax
  <2>3. QED
    BY <2>2 DEF x, y
<1>5. Compared(t, l) = Min({t[0], l[0]}) + 1
  BY DEF Compared
<1>6. Compared(t, l) \in Nat
  BY <1>3, <1>4, <1>5
<1>7. ASSUME NEW i \in 0 .. Compared(t, l) - 1
      PROVE  i \in PackBytes /\ i <= t[0] /\ i <= l[0]
  <2>1. i \in Nat /\ i <= t[0] /\ i <= l[0]
    BY <1>3, <1>4, <1>5
  <2>2. i < MaxLen
    BY <1>1, <1>3, <2>1
  <2>3. QED
    BY <1>1, <2>1, <2>2 DEF PackBytes
<1>8. QED
  BY <1>1, <1>3, <1>4, <1>5, <1>6, <1>7

\* The bits that the loop of check_rx finds in each byte.
BitsOf(t, l) == [i \in 0 .. Compared(t, l) - 1 |-> DiffBits(t[i], l[i])]

LEMMA BitsOfType ==
  ASSUME NEW t \in Packets, NEW l \in Texts
  PROVE  \A i \in 0 .. Compared(t, l) - 1 :
           /\ t[i] \in Byte /\ l[i] \in Byte
           /\ BitsOf(t, l)[i] = DiffBits(t[i], l[i])
           /\ BitsOf(t, l)[i] \in 0 .. W
<1> SUFFICES ASSUME NEW i \in 0 .. Compared(t, l) - 1
             PROVE  /\ t[i] \in Byte /\ l[i] \in Byte
                    /\ BitsOf(t, l)[i] = DiffBits(t[i], l[i])
                    /\ BitsOf(t, l)[i] \in 0 .. W
  OBVIOUS
<1>1. i \in PackBytes
  BY LengthsKnown
<1>2. t[i] \in Byte /\ l[i] \in Byte
  BY <1>1 DEF Packets, Texts
<1>3. QED
  BY <1>2, DiffBitsType DEF BitsOf

LenDif(t, l) == Max({t[0], l[0]}) - Min({t[0], l[0]})
BitSum(t, l) == LenDif(t, l) * W + Total(BitsOf(t, l), Compared(t, l))
ByteSum(t, l) == LenDif(t, l) + Cardinality(Nonzero(BitsOf(t, l), Compared(t, l)))

LEMMA CheckRxIs ==
  ASSUME NEW t, NEW l
  PROVE  CheckRx(t, l) = IF l[0] = 0 THEN OneLost ELSE OneHeard(BitSum(t, l), ByteSum(t, l))
BY DEF CheckRx, BitSum, ByteSum, LenDif, BitsOf, Nonzero, LenBits

\* CountsAgree, said of any statistics.
Agree(r) ==
  /\ r.damaged_packs + r.lost_packs <= r.packs_sent
  /\ r.damaged_packs <= r.damaged_bytes
  /\ r.damaged_bytes <= r.damaged_bits
  /\ r.damaged_bits <= W * r.damaged_bytes

LEMMA CheckRxAgrees ==
  ASSUME NEW t \in Packets, NEW l \in Texts
  PROVE  CheckRx(t, l) \in Results /\ Agree(CheckRx(t, l))
<1> DEFINE len   == Compared(t, l)
           total == Total(BitsOf(t, l), len)
           card  == Cardinality(Nonzero(BitsOf(t, l), len))
           dif   == LenDif(t, l)
<1>1. W \in Nat /\ W > 0
  BY PathAssumption
<1>2. /\ total \in Nat /\ card \in Nat
      /\ card <= total /\ total <= W * card
  BY LengthsKnown, BitsOfType, TotalBounds
<1>3. dif \in Nat
  BY LengthsKnown DEF LenDif
<1> HIDE DEF total, card, dif
<1>4. dif * W \in Nat /\ dif <= dif * W /\ W * (dif + card) = dif * W + W * card
  BY <1>1, <1>2, <1>3
<1> DEFINE bits  == dif * W + total
           bytes == dif + card
<1>5. /\ bits \in Nat /\ bytes \in Nat /\ bytes <= bits /\ bits <= W * bytes
  BY <1>1, <1>2, <1>3, <1>4
<1>6. bits # 0 => 1 <= bytes
  <2>1. bytes = 0 => bits = 0
    BY <1>1, <1>5
  <2>2. QED
    BY <1>5, <2>1
<1>7. CheckRx(t, l) = IF l[0] = 0 THEN OneLost ELSE OneHeard(bits, bytes)
  BY CheckRxIs DEF BitSum, ByteSum, total, card, dif
<1> HIDE DEF bits, bytes
<1>8. OneHeard(bits, bytes) \in Results /\ Agree(OneHeard(bits, bytes))
  BY <1>5, <1>6 DEF OneHeard, Results, Agree
<1>9. OneLost \in Results /\ Agree(OneLost)
  <2>1. W * 0 = 0
    BY <1>1
  <2>2. QED
    BY <2>1 DEF OneLost, Results, Agree
<1>10. QED
  BY <1>7, <1>8, <1>9

\* check_rx reads no byte behind the packet.
LEMMA CheckRxSame ==
  ASSUME NEW t \in Packets, NEW r \in Packets, NEW l \in Texts,
         \A i \in 0 .. r[0] : l[i] = r[i]
  PROVE  CheckRx(t, l) = CheckRx(t, r)
<1>1. r \in Texts
  BY DEF Packets, Texts
<1>2. r[0] \in Nat
  BY <1>1, LengthsKnown
<1>3. l[0] = r[0]
  BY <1>2
<1>4. Compared(t, l) = Compared(t, r) /\ LenDif(t, l) = LenDif(t, r)
  BY <1>3 DEF Compared, LenDif
<1>5. \A i \in 0 .. Compared(t, r) - 1 : l[i] = r[i]
  <2>1. \A i \in 0 .. Compared(t, r) - 1 : i <= r[0]
    BY <1>1, LengthsKnown
  <2>2. \A i \in 0 .. Compared(t, r) - 1 : i \in 0 .. r[0]
    BY <1>2, <2>1
  <2>3. QED
    BY <2>2
<1>6. BitsOf(t, l) = BitsOf(t, r)
  BY <1>4, <1>5 DEF BitsOf
<1>7. BitSum(t, l) = BitSum(t, r) /\ ByteSum(t, l) = ByteSum(t, r)
  BY <1>4, <1>6 DEF BitSum, ByteSum
<1>8. QED
  BY <1>3, <1>7, CheckRxIs

-----------------------------------------------------------------------------
(* The statistics of a packet say what is wrong with it.                   *)

\* The bits that Truth counts.
Wrong(t, r) ==
  {ib \in (0 .. Max({t[0], r[0]})) \X (0 .. W - 1) :
     ib[1] > Min({t[0], r[0]}) \/ Bit(t[ib[1]], ib[2]) # Bit(r[ib[1]], ib[2])}

LEMMA TruthIs ==
  ASSUME NEW t, NEW r
  PROVE  Truth(t, r) = IF r[0] = 0 THEN OneLost
                       ELSE OneHeard(Cardinality(Wrong(t, r)),
                                     Cardinality({ib[1] : ib \in Wrong(t, r)}))
BY DEF Truth, Wrong, Bit

LEMMA DisjointUnion ==
  ASSUME NEW S, IsFiniteSet(S), NEW T, IsFiniteSet(T), S \cap T = {}
  PROVE  /\ IsFiniteSet(S \cup T)
         /\ Cardinality(S \cup T) = Cardinality(S) + Cardinality(T)
<1>1. Cardinality(S) \in Nat /\ Cardinality(T) \in Nat
  BY FS_CardinalityType
<1>2. /\ IsFiniteSet(S \cup T)
      /\ Cardinality(S \cup T) = Cardinality(S) + Cardinality(T) - Cardinality(S \cap T)
  BY FS_Union
<1>3. Cardinality(S \cap T) = 0
  BY FS_EmptySet
<1>4. QED
  BY <1>1, <1>2, <1>3

\* The bytes that only the longer packet has.
Rest(t, r) == Compared(t, r) .. Max({t[0], r[0]})

LEMMA RestSize ==
  ASSUME NEW t \in Packets, NEW r \in Packets
  PROVE  /\ IsFiniteSet(Rest(t, r)) /\ Cardinality(Rest(t, r)) = LenDif(t, r)
         /\ LenDif(t, r) \in Nat
         /\ Max({t[0], r[0]}) \in Nat /\ Min({t[0], r[0]}) \in Nat
         /\ Min({t[0], r[0]}) <= Max({t[0], r[0]})
         /\ Compared(t, r) = Min({t[0], r[0]}) + 1 /\ Compared(t, r) \in Nat
<1> DEFINE near == Min({t[0], r[0]})
           far  == Max({t[0], r[0]})
<1>1. r \in Texts
  BY DEF Packets, Texts
<1>2. near \in Nat /\ far \in Nat /\ near <= far /\ Compared(t, r) = near + 1
  BY <1>1, LengthsKnown
<1> HIDE DEF near, far
<1> DEFINE a == near + 1
           n == far + 1
<1>3. a \in Nat /\ n \in Nat /\ n - 1 = far
  BY <1>2
<1> HIDE DEF a, n
<1>4. IsFiniteSet(a .. n - 1) /\ Cardinality(a .. n - 1) = IF a > n - 1 THEN 0 ELSE n - a
  BY <1>3, Interval
<1>5. (IF a > n - 1 THEN 0 ELSE n - a) = far - near
  BY <1>2, <1>3 DEF a, n
<1>6. a .. n - 1 = Rest(t, r)
  BY <1>2, <1>3 DEF Rest, a, far
<1>7. LenDif(t, r) = far - near
  BY DEF LenDif, far, near
<1>8. far - near \in Nat /\ near + 1 \in Nat
  BY <1>2
<1>9. QED
  BY <1>2, <1>4, <1>5, <1>6, <1>7, <1>8 DEF near, far

\* Which bits differ, byte by byte.
DifferOf(t, r) == [i \in 0 .. Compared(t, r) - 1 |-> Differ(t[i], r[i])]

LEMMA WrongParts ==
  ASSUME NEW t \in Packets, NEW r \in Packets
  PROVE  /\ Wrong(t, r) = Chosen(DifferOf(t, r), Compared(t, r))
                            \cup (Rest(t, r) \X (0 .. W - 1))
         /\ Chosen(DifferOf(t, r), Compared(t, r)) \cap (Rest(t, r) \X (0 .. W - 1)) = {}
<1> DEFINE near == Min({t[0], r[0]})
           far  == Max({t[0], r[0]})
           len  == Compared(t, r)
           bits == 0 .. W - 1
           seen == Chosen(DifferOf(t, r), len)
           rest == Rest(t, r) \X bits
<1>1. far \in Nat /\ near \in Nat /\ near <= far /\ len = near + 1
  BY RestSize
<1>2. \A ib \in Wrong(t, r) : \E i, b : ib = <<i, b>>
  BY DEF Wrong
<1>3. \A ib \in seen \cup rest : \E i, b : ib = <<i, b>>
  BY DEF Chosen
<1>4. ASSUME NEW i, NEW b
      PROVE  <<i, b>> \in Wrong(t, r) <=>
               i \in 0 .. far /\ b \in bits /\ (i > near \/ Bit(t[i], b) # Bit(r[i], b))
  BY DEF Wrong
<1>5. ASSUME NEW i, NEW b
      PROVE  <<i, b>> \in seen <=>
               i \in 0 .. len - 1 /\ b \in bits /\ Bit(t[i], b) # Bit(r[i], b)
  BY DEF Chosen, DifferOf, Differ
<1>6. ASSUME NEW i, NEW b
      PROVE  <<i, b>> \in rest <=> i \in len .. far /\ b \in bits
  BY DEF Rest
<1> HIDE DEF near, far, len, bits, seen, rest
<1>7. /\ \A i : i \in 0 .. far /\ i > near <=> i \in len .. far
      /\ \A i : i \in 0 .. far /\ ~(i > near) <=> i \in 0 .. len - 1
      /\ \A i : ~(i \in len .. far /\ i \in 0 .. len - 1)
  BY <1>1
<1>8. ASSUME NEW i, NEW b
      PROVE  /\ <<i, b>> \in Wrong(t, r) <=> <<i, b>> \in seen \cup rest
             /\ ~(<<i, b>> \in seen /\ <<i, b>> \in rest)
  <2>1. /\ i \in 0 .. far /\ i > near <=> i \in len .. far
        /\ i \in 0 .. far /\ ~(i > near) <=> i \in 0 .. len - 1
        /\ ~(i \in len .. far /\ i \in 0 .. len - 1)
    BY <1>7
  <2>2. QED
    BY <2>1, <1>4, <1>5, <1>6, Zenon
<1>9. Wrong(t, r) = seen \cup rest
  <2>1. ASSUME NEW ib \in Wrong(t, r) PROVE ib \in seen \cup rest
    <3>1. PICK i, b : ib = <<i, b>>
      BY <1>2
    <3>2. <<i, b>> \in Wrong(t, r)
      BY <3>1, Zenon
    <3>3. QED
      BY <1>8, <3>1, <3>2, Zenon
  <2>2. ASSUME NEW ib \in seen \cup rest PROVE ib \in Wrong(t, r)
    <3>1. PICK i, b : ib = <<i, b>>
      BY <1>3
    <3>2. <<i, b>> \in seen \cup rest
      BY <3>1, Zenon
    <3>3. QED
      BY <1>8, <3>1, <3>2, Zenon
  <2>3. QED
    BY <2>1, <2>2
<1>10. seen \cap rest = {}
  BY <1>3, <1>8
<1>11. QED
  BY <1>9, <1>10 DEF seen, rest, len, bits

LEMMA WrongBits ==
  ASSUME NEW t \in Packets, NEW r \in Packets
  PROVE  Cardinality(Wrong(t, r)) = BitSum(t, r)
<1> DEFINE len  == Compared(t, r)
           D    == DifferOf(t, r)
           g    == BitsOf(t, r)
           rest == Rest(t, r) \X (0 .. W - 1)
<1>1. W \in Nat /\ W > 0 /\ len \in Nat /\ r \in Texts /\ \A x \in 0 .. W : x \in Int
  <2>1. W \in Nat /\ W > 0
    BY PathAssumption
  <2>2. len \in Nat
    BY RestSize
  <2>3. QED
    BY <2>1, <2>2 DEF Packets, Texts
<1>2. IsFiniteSet(0 .. W - 1) /\ Cardinality(0 .. W - 1) = W
  <2>1. 0 \in Nat /\ (IF 0 > W - 1 THEN 0 ELSE W - 0) = W
    BY <1>1
  <2>2. IsFiniteSet(0 .. W - 1) /\ Cardinality(0 .. W - 1) = IF 0 > W - 1 THEN 0 ELSE W - 0
    BY <1>1, <2>1, Interval
  <2>3. QED
    BY <2>1, <2>2
<1>3. IsFiniteSet(rest) /\ Cardinality(rest) = LenDif(t, r) * W
  <2>1. IsFiniteSet(Rest(t, r)) /\ Cardinality(Rest(t, r)) = LenDif(t, r)
    BY RestSize
  <2>2. IsFiniteSet(rest) /\ Cardinality(rest) = Cardinality(Rest(t, r)) * Cardinality(0 .. W - 1)
    BY <1>2, <2>1, FS_Product
  <2>3. QED
    BY <1>2, <2>1, <2>2
<1>4. ASSUME NEW i \in 0 .. len - 1
      PROVE  D[i] \subseteq 0 .. W - 1 /\ g[i] = Cardinality(D[i]) /\ g[i] \in Int
  <2>1. D[i] = Differ(t[i], r[i]) /\ D[i] \subseteq 0 .. W - 1
    BY DEF DifferOf, Differ
  <2>2. t[i] \in Byte /\ r[i] \in Byte /\ g[i] = DiffBits(t[i], r[i]) /\ g[i] \in 0 .. W
    BY <1>1, BitsOfType
  <2>3. DiffBits(t[i], r[i]) = Cardinality(Differ(t[i], r[i]))
    BY <2>2, DiffBitsCounts
  <2>4. QED
    BY <1>1, <2>1, <2>2, <2>3
<1> HIDE DEF len, D, g, rest
<1>5. Total(g, len) = Cardinality(Chosen(D, len))
  BY <1>1, <1>4, TotalCounts
<1>6. IsFiniteSet(Chosen(D, len)) /\ Cardinality(Chosen(D, len)) \in Nat
  BY <1>1, ChosenFinite
<1>7. Wrong(t, r) = Chosen(D, len) \cup rest /\ Chosen(D, len) \cap rest = {}
  BY WrongParts DEF D, len, rest
<1>8. Cardinality(Wrong(t, r)) = Cardinality(Chosen(D, len)) + Cardinality(rest)
  BY <1>3, <1>6, <1>7, DisjointUnion
<1>9. Cardinality(rest) \in Nat
  BY <1>3, FS_CardinalityType
<1>10. Cardinality(Wrong(t, r)) = Cardinality(rest) + Total(g, len)
  BY <1>5, <1>6, <1>8, <1>9
<1>11. QED
  BY <1>3, <1>10 DEF BitSum, len, g

LEMMA WrongBytes ==
  ASSUME NEW t \in Packets, NEW r \in Packets
  PROVE  Cardinality({ib[1] : ib \in Wrong(t, r)}) = ByteSum(t, r)
<1> DEFINE len  == Compared(t, r)
           D    == DifferOf(t, r)
           g    == BitsOf(t, r)
           rest == Rest(t, r) \X (0 .. W - 1)
           bad  == {ib[1] : ib \in Wrong(t, r)}
<1>1. /\ W \in Nat /\ 0 \in 0 .. W - 1 /\ len \in Nat /\ r \in Texts
      /\ \A i \in Rest(t, r) : i \notin 0 .. len - 1
  <2>1. W \in Nat /\ 0 \in 0 .. W - 1
    BY PathAssumption
  <2>2. len \in Nat /\ \A i \in Rest(t, r) : i \notin 0 .. len - 1
    BY RestSize DEF Rest
  <2>3. QED
    BY <2>1, <2>2 DEF Packets, Texts
<1>2. \A i \in 0 .. len - 1 : g[i] # 0 <=> D[i] # {}
  <2>1. SUFFICES ASSUME NEW i \in 0 .. len - 1 PROVE g[i] # 0 <=> D[i] # {}
    OBVIOUS
  <2>2. D[i] = Differ(t[i], r[i])
    BY DEF DifferOf
  <2>3. t[i] \in Byte /\ r[i] \in Byte /\ g[i] = DiffBits(t[i], r[i])
    BY <1>1, BitsOfType
  <2>4. g[i] = Cardinality(D[i]) /\ IsFiniteSet(D[i])
    BY <2>2, <2>3, DiffBitsCounts, DifferType
  <2>5. QED
    BY <2>4, FS_EmptySet
<1>3. Wrong(t, r) = Chosen(D, len) \cup rest
  BY WrongParts
<1>4. \A ib \in Chosen(D, len) : ib[1] \in 0 .. len - 1 /\ ib[2] \in D[ib[1]]
  BY DEF Chosen
<1>5. \A i \in 0 .. len - 1 : \A b \in D[i] : <<i, b>> \in Chosen(D, len)
  <2>1. \A i \in 0 .. len - 1 : D[i] \subseteq 0 .. W - 1
    BY DEF DifferOf, Differ
  <2>2. QED
    BY <2>1 DEF Chosen
<1>6. \A ib \in rest : ib[1] \in Rest(t, r)
  OBVIOUS
<1>7. \A i \in Rest(t, r) : <<i, 0>> \in rest
  BY <1>1
<1> HIDE DEF len, D, g, rest
<1>8. bad = Nonzero(g, len) \cup Rest(t, r)
  <2>1. ASSUME NEW i \in bad PROVE i \in Nonzero(g, len) \cup Rest(t, r)
    <3>1. PICK ib \in Wrong(t, r) : i = ib[1]
      OBVIOUS
    <3>2. CASE ib \in Chosen(D, len)
      BY <1>2, <1>4, <3>1, <3>2 DEF Nonzero
    <3>3. CASE ib \in rest
      BY <1>6, <3>1, <3>3
    <3>4. QED
      BY <1>3, <3>2, <3>3
  <2>2. ASSUME NEW i \in Nonzero(g, len) PROVE i \in bad
    <3>1. PICK b : i \in 0 .. len - 1 /\ b \in D[i]
      BY <1>2 DEF Nonzero
    <3>2. <<i, b>> \in Wrong(t, r)
      BY <1>3, <1>5, <3>1
    <3>3. QED
      BY <3>2
  <2>3. ASSUME NEW i \in Rest(t, r) PROVE i \in bad
    <3>1. <<i, 0>> \in Wrong(t, r)
      BY <1>3, <1>7
    <3>2. QED
      BY <3>1
  <2> HIDE DEF bad
  <2>4. QED
    BY <2>1, <2>2, <2>3
<1>9. Nonzero(g, len) \cap Rest(t, r) = {}
  BY <1>1 DEF Nonzero
<1>10. IsFiniteSet(Nonzero(g, len)) /\ Cardinality(Nonzero(g, len)) \in Nat
  BY <1>1, NonzeroStep
<1>11. /\ IsFiniteSet(Rest(t, r)) /\ Cardinality(Rest(t, r)) = LenDif(t, r)
       /\ LenDif(t, r) \in Nat
  BY RestSize
<1>12. Cardinality(bad) = Cardinality(Nonzero(g, len)) + Cardinality(Rest(t, r))
  BY <1>8, <1>9, <1>10, <1>11, DisjointUnion
<1> HIDE DEF bad
<1>13. Cardinality(bad) = LenDif(t, r) + Cardinality(Nonzero(g, len))
  BY <1>10, <1>11, <1>12
<1>14. QED
  BY <1>13 DEF ByteSum, len, g, bad

\* For packets that came whole, check_rx says just what is wrong with them.
LEMMA CheckRxIsTruth ==
  ASSUME NEW t \in Packets, NEW r \in Packets
  PROVE  CheckRx(t, r) = Truth(t, r)
BY CheckRxIs, TruthIs, WrongBits, WrongBytes

LEMMA SumAgrees ==
  ASSUME NEW a \in Results, Agree(a), NEW b \in Results, Agree(b)
  PROVE  TxResultSum(a, b) \in Results /\ Agree(TxResultSum(a, b))
<1>1. W \in Nat
  BY PathAssumption
<1>2. /\ a.packs_sent \in Nat /\ a.damaged_bits \in Nat /\ a.damaged_bytes \in Nat
      /\ a.damaged_packs \in Nat /\ a.lost_packs \in Nat
      /\ b.packs_sent \in Nat /\ b.damaged_bits \in Nat /\ b.damaged_bytes \in Nat
      /\ b.damaged_packs \in Nat /\ b.lost_packs \in Nat
  BY DEF Results
<1>3. W * (a.damaged_bytes + b.damaged_bytes) = W * a.damaged_bytes + W * b.damaged_bytes
  BY <1>1, <1>2
<1>4. W * a.damaged_bytes \in Nat /\ W * b.damaged_bytes \in Nat
  BY <1>1, <1>2
<1>5. TxResultSum(a, b) \in Results
  BY <1>2 DEF TxResultSum, Results
<1>6. /\ a.damaged_bits + b.damaged_bits <= W * a.damaged_bytes + W * b.damaged_bytes
      /\ a.damaged_bytes + b.damaged_bytes <= a.damaged_bits + b.damaged_bits
      /\ a.damaged_packs + b.damaged_packs <= a.damaged_bytes + b.damaged_bytes
      /\ (a.damaged_packs + b.damaged_packs) + (a.lost_packs + b.lost_packs)
           <= a.packs_sent + b.packs_sent
  BY <1>2, <1>4 DEF Agree
<1>7. Agree(TxResultSum(a, b))
  BY <1>3, <1>6 DEF Agree, TxResultSum
<1>8. QED
  BY <1>5, <1>7

-----------------------------------------------------------------------------
(* The invariant.                                                          *)

\* Client and transmitter agree on the length of what is sent.
LengthKnown == pc # "idle" => cli_len = radio_tx[0] + 1

\* What the statistics lack is the packet on its way.
Truthful ==
  clean => /\ pc = "send" => result = truth
           /\ pc = "request" => truth = TxResultSum(result, Truth(radio_tx, slot))

PathInv ==
  /\ TypeOK
  /\ pc = "request" => count < MaxPacks
  /\ LengthKnown
  /\ CountsAgree
  /\ Truthful

LEMMA PacketsSent == TypeOK => radio_tx \in Packets /\ slot \in Packets
BY DEF TypeOK, Packets

LEMMA BlankIsEmpty == Blank \in Packets /\ Blank[0] = 0
<1>1. MaxLen \in Nat /\ MaxLen >= 2 /\ 0 \in Byte
  BY ByteType DEF Byte
<1>2. 0 \in PackBytes
  BY <1>1 DEF PackBytes
<1>3. QED
  BY <1>1, <1>2 DEF Blank, Packets

LEMMA NoResultAgrees == NoResult \in Results /\ Agree(NoResult)
<1>1. W * 0 = 0
  BY PathAssumption
<1>2. QED
  BY <1>1 DEF NoResult, Results, Agree

\* Whatever the wire does, spi_rx holds bytes.
LEMMA NearIsFrames ==
  ASSUME NEW g \in Frames
  PROVE  Near(g) \subseteq Frames
<1>1. SUFFICES ASSUME NEW D \in SUBSET FrameBytes, NEW d \in [D -> Byte]
               PROVE  [i \in FrameBytes |-> IF i \in D THEN d[i] ELSE g[i]] \in Frames
  BY DEF Near, kSubset
<1>2. QED
  BY DEF Frames

LEMMA LastFramesType == slot \in Packets => LastFrames \subseteq Frames
<1>1. SUFFICES ASSUME slot \in Packets PROVE LastFrames \subseteq Frames
  OBVIOUS
<1>2. FrameOf(slot) \in Frames /\ FrameOf(Blank) \in Frames
  BY <1>1, BlankIsEmpty, FrameFacts
<1>3. Near(FrameOf(slot)) \subseteq Frames /\ Near(FrameOf(Blank)) \subseteq Frames
  BY <1>2, NearIsFrames
<1>4. 0 \in Byte /\ Ones \in Byte
  BY ByteType DEF Byte
<1>5. \A b \in {0, Ones} : [i \in FrameBytes |-> b] \in Frames
  BY <1>4 DEF Frames
<1>6. QED
  BY <1>3, <1>5 DEF LastFrames

\* What check_rx reads of a frame.
TextOf(f) == [i \in PackBytes |-> f[i + 1]]

LEMMA TextType ==
  ASSUME NEW f \in Frames
  PROVE  TextOf(f) \in Texts
<1>1. MaxLen \in Nat
  BY ByteType
<1>2. \A i \in PackBytes : i + 1 \in FrameBytes
  BY <1>1 DEF PackBytes, FrameBytes
<1>3. QED
  BY <1>2 DEF TextOf, Texts, Frames

\* An accepted frame with at most one damaged byte, the length apart, tells
\* check_rx what the slot would have told.
LEMMA AcceptedIsSlot ==
  ASSUME NEW f \in Frames, slot \in Packets, NEW t \in Packets, OneOff(f), TRUE \in CheckHash(f)
  PROVE  CheckRx(t, TextOf(f)) = Truth(t, slot)
<1>1. Cardinality(Hit(f, slot)) <= 1 /\ 1 \notin Hit(f, slot)
  BY DEF OneOff, Hit
<1>2. CheckHash(f) = {Hit(f, slot) = {}}
  BY <1>1, CheckTells
<1>3. Hit(f, slot) = {}
  BY <1>2
<1>4. MaxLen \in Nat /\ slot[0] \in 0 .. MaxLen - 1
  BY ByteType, FrameFacts
<1>5. ASSUME NEW i \in 0 .. slot[0] PROVE TextOf(f)[i] = slot[i]
  <2>1. i \in PackBytes /\ i + 1 \in FrameBytes /\ i + 1 \in 0 .. 2 + slot[0]
    BY <1>4 DEF PackBytes, FrameBytes
  <2>2. f[i + 1] = FrameOf(slot)[i + 1]
    BY <1>3, <2>1 DEF Hit, Damage
  <2>3. FrameOf(slot)[i + 1] = slot[i]
    BY FrameFacts
  <2>4. QED
    BY <2>1, <2>2, <2>3 DEF TextOf
<1>6. CheckRx(t, TextOf(f)) = CheckRx(t, slot)
  BY <1>5, TextType, CheckRxSame
<1>7. QED
  BY <1>6, CheckRxIsTruth

LEMMA InitHolds == Init => PathInv
<1>1. MaxLen \in Nat /\ MaxLen >= 2 /\ MaxPacks \in Nat
  BY ByteType, PathAssumption
<1>2. SUFFICES ASSUME Init PROVE PathInv
  OBVIOUS
<1>3. radio_tx \in [PackBytes -> Byte] /\ radio_tx[0] < MaxLen
      /\ slot \in [PackBytes -> Byte] /\ slot[0] < MaxLen
  BY <1>2, BlankIsEmpty DEF Init, Packets
<1>4. TypeOK
  <2>1. cli_len \in Lengths /\ radio_len \in Lengths /\ count \in 0 .. MaxPacks
    BY <1>1, <1>2 DEF Init, Lengths
  <2>2. QED
    BY <1>2, <1>3, <2>1, NoResultAgrees DEF Init, TypeOK
<1>5. CountsAgree
  BY <1>2, NoResultAgrees DEF Init, CountsAgree, Agree
<1>6. QED
  BY <1>2, <1>4, <1>5 DEF Init, PathInv, LengthKnown, Truthful

LEMMA ClampedType ==
  ASSUME NEW n \in Nat
  PROVE  Clamped(n) \in Lengths
<1>1. MaxLen \in Nat /\ MaxLen >= 2
  BY ByteType
<1> DEFINE m == Max({n, 2})
<1>2. m = IF n <= 2 THEN 2 ELSE n
  BY MinMax
<1>3. m \in Nat /\ m >= 2
  BY <1>2
<1> HIDE DEF m
<1>4. Min({m, MaxLen}) = IF m <= MaxLen THEN m ELSE MaxLen
  BY <1>1, <1>3, MinMax
<1>5. QED
  BY <1>1, <1>3, <1>4 DEF Clamped, m, Lengths

LEMMA SetLengthKeeps == PathInv /\ SetLength => PathInv'
<1>1. SUFFICES ASSUME PathInv, SetLength PROVE PathInv'
  OBVIOUS
<1>2. MaxLen \in Nat
  BY ByteType
<1>3. cli_len' \in Lengths
  BY <1>1, <1>2, ClampedType DEF SetLength
<1>4. TypeOK'
  BY <1>1, <1>3 DEF PathInv, SetLength, TypeOK
<1>5. CountsAgree'
  BY <1>1 DEF PathInv, SetLength, CountsAgree
<1>6. QED
  BY <1>1, <1>4, <1>5 DEF PathInv, SetLength, LengthKnown, Truthful

LEMMA TestKeeps == PathInv /\ Test => PathInv'
<1>1. SUFFICES ASSUME PathInv, Test PROVE PathInv'
  OBVIOUS
<1>2. MaxLen \in Nat /\ MaxLen >= 2 /\ MaxLen \in Byte /\ \A x \in Byte : x \in Nat
  BY ByteType, PathAssumption
<1>3. cli_len \in Nat /\ cli_len >= 2 /\ cli_len <= MaxLen /\ radio_tx \in [PackBytes -> Byte]
  BY <1>1, <1>2 DEF PathInv, TypeOK, Lengths
<1>4. radio_len' = cli_len
  <2>1. Min({cli_len, MaxLen}) = IF cli_len <= MaxLen THEN cli_len ELSE MaxLen
    BY <1>2, <1>3, MinMax
  <2>2. QED
    BY <1>1, <1>3, <2>1 DEF Test, ConfigTransmitter
<1>5. radio_tx' \in [PackBytes -> Byte] /\ radio_tx'[0] = cli_len - 1
  <2>1. PICK pattern \in Byte :
          radio_tx' = [i \in PackBytes |-> IF i = 0 THEN cli_len - 1
                                           ELSE IF i < cli_len THEN pattern
                                           ELSE radio_tx[i]]
    BY <1>1, <1>4 DEF Test
  <2>2. cli_len - 1 \in Byte
    <3>1. TwoTo[W] \in Nat
      BY ByteType
    <3>2. QED
      BY <1>2, <1>3, <3>1 DEF Byte
  <2>3. 0 \in PackBytes
    BY <1>2 DEF PackBytes
  <2>4. QED
    BY <1>3, <2>1, <2>2, <2>3
<1>6. radio_tx'[0] < MaxLen
  BY <1>2, <1>3, <1>5
<1>7. /\ slot' \in [PackBytes -> Byte] /\ slot'[0] < MaxLen
      /\ cli_len' \in Lengths /\ radio_len' \in Lengths
  BY <1>1, <1>2, <1>4, BlankIsEmpty DEF Test, Packets, PathInv, TypeOK
<1>8. count' \in 0 .. MaxPacks
  BY <1>1, PathAssumption DEF Test
<1>9. TypeOK'
  BY <1>1, <1>5, <1>6, <1>7, <1>8, NoResultAgrees DEF Test, TypeOK
<1>10. CountsAgree'
  BY <1>1, NoResultAgrees DEF Test, CountsAgree, Agree
<1>11. LengthKnown'
  BY <1>1, <1>3, <1>5 DEF Test, LengthKnown
<1>12. QED
  BY <1>1, <1>9, <1>10, <1>11 DEF Test, PathInv, Truthful

LEMMA SendKeeps == PathInv /\ Send => PathInv'
<1>1. SUFFICES ASSUME PathInv, Send PROVE PathInv'
  OBVIOUS
<1>2. radio_tx \in Packets /\ slot' \in Packets
  BY <1>1, PacketsSent DEF PathInv, Send, Packets
<1>3. slot' \in Texts
  BY <1>2 DEF Packets, Texts
<1>4. Truth(radio_tx, slot') \in Results /\ Agree(Truth(radio_tx, slot'))
  BY <1>2, <1>3, CheckRxAgrees, CheckRxIsTruth
<1>5. truth' \in Results
  <2>1. ASSUME NEW a \in Results, NEW b \in Results PROVE TxResultSum(a, b) \in Results
    BY DEF Results, TxResultSum
  <2>2. QED
    BY <1>1, <1>4, <2>1 DEF Send, PathInv, TypeOK
<1>6. TypeOK'
  BY <1>1, <1>2, <1>5 DEF Send, PathInv, TypeOK, Packets
<1>7. CountsAgree'
  BY <1>1 DEF PathInv, Send, CountsAgree
<1>8. LengthKnown'
  BY <1>1 DEF PathInv, Send, LengthKnown
<1>9. Truthful'
  BY <1>1 DEF PathInv, Send, Truthful
<1>10. QED
  BY <1>1, <1>6, <1>7, <1>8, <1>9 DEF PathInv, Send

LEMMA CollectKeeps == PathInv /\ Collect => PathInv'
<1>1. SUFFICES ASSUME PathInv, Collect PROVE PathInv'
  OBVIOUS
<1>2. radio_tx \in Packets /\ slot \in Packets
  BY <1>1, PacketsSent DEF PathInv
<1> DEFINE Read(f, ok) ==
        /\ result' = TxResultSum(result, CheckRx(radio_tx, TextOf(f)))
        /\ clean' = (clean /\ ok /\ OneOff(f))
        /\ truth' = IF clean' THEN truth ELSE NoResult
<1>3. PICK f \in LastFrames : \E ok \in CheckHash(f) : Read(f, ok)
  BY <1>1 DEF Collect, TextOf
<1>4. PICK ok \in CheckHash(f) : Read(f, ok)
  BY <1>3
<1>5. f \in Frames /\ TextOf(f) \in Texts
  BY <1>2, LastFramesType, TextType
<1>6. ok \in BOOLEAN
  BY DEF CheckHash
<1>7. CheckRx(radio_tx, TextOf(f)) \in Results /\ Agree(CheckRx(radio_tx, TextOf(f)))
  BY <1>2, <1>5, CheckRxAgrees
<1>8. result \in Results /\ Agree(result)
  BY <1>1 DEF PathInv, TypeOK, CountsAgree, Agree
<1>9. result' \in Results /\ Agree(result')
  BY <1>4, <1>7, <1>8, SumAgrees
<1>10. truth' \in Results
  BY <1>1, <1>4, NoResultAgrees DEF PathInv, TypeOK
<1>11. clean' \in BOOLEAN
  BY <1>4
<1>12. count' \in 0 .. MaxPacks /\ pc' = "send"
  BY <1>1, PathAssumption DEF PathInv, TypeOK, Collect
<1>13. slot' \in [PackBytes -> Byte] /\ slot'[0] < MaxLen
  BY <1>1, BlankIsEmpty, ByteType DEF Collect, Packets
<1>14. TypeOK'
  BY <1>1, <1>9, <1>10, <1>11, <1>12, <1>13 DEF Collect, PathInv, TypeOK
<1>15. CountsAgree'
  BY <1>9 DEF CountsAgree, Agree
<1>16. LengthKnown'
  BY <1>1 DEF PathInv, Collect, LengthKnown
<1>17. ASSUME clean' PROVE result' = truth'
  <2>1. clean /\ ok /\ OneOff(f)
    BY <1>4, <1>17
  <2>2. TRUE \in CheckHash(f)
    BY <1>6, <2>1
  <2>3. CheckRx(radio_tx, TextOf(f)) = Truth(radio_tx, slot)
    BY <1>2, <1>5, <2>1, <2>2, AcceptedIsSlot
  <2>4. truth = TxResultSum(result, Truth(radio_tx, slot))
    BY <1>1, <2>1 DEF PathInv, Truthful, Collect
  <2>5. QED
    BY <1>4, <1>17, <2>3, <2>4
<1>18. QED
  BY <1>12, <1>14, <1>15, <1>16, <1>17 DEF PathInv, Truthful

LEMMA ReportKeeps == PathInv /\ Report => PathInv'
<1>1. SUFFICES ASSUME PathInv, Report PROVE PathInv'
  OBVIOUS
<1>2. 0 \in 0 .. MaxPacks
  BY PathAssumption
<1>3. TypeOK'
  BY <1>1, <1>2, NoResultAgrees DEF PathInv, Report, TypeOK
<1>4. CountsAgree'
  BY <1>1, NoResultAgrees DEF Report, CountsAgree, Agree
<1>5. QED
  BY <1>1, <1>3, <1>4 DEF Report, PathInv, LengthKnown, Truthful

LEMMA InvHolds == Spec => []PathInv
<1>1. PathInv /\ UNCHANGED vars => PathInv'
  BY DEF vars, PathInv, TypeOK, LengthKnown, CountsAgree, Truthful
<1>2. PathInv /\ [Next]_vars => PathInv'
  BY <1>1, SetLengthKeeps, TestKeeps, SendKeeps, CollectKeeps, ReportKeeps DEF Next
<1>3. QED
  BY <1>2, InitHolds, PTL DEF Spec

-----------------------------------------------------------------------------
\* Lengths stay within 2 and IEEE_MAX_PAYLOAD_LEN, patterns and lengths in a
\* byte, and counts within the series, whatever comes out of the air.
THEOREM PathTypeCorrect == Spec => []TypeOK
<1>1. PathInv => TypeOK
  BY DEF PathInv
<1>2. QED
  BY <1>1, InvHolds, PTL

\* The factor of get_hash being odd, check_hash refuses every frame with one
\* damaged byte other than the length, and accepts the frame itself, for
\* packets of every length and content.
THEOREM CheckIsReliable == Spec => []CheckByteTells
<1>1. ASSUME TypeOK PROVE CheckByteTells
  <2>1. SUFFICES ASSUME NEW f \in Near(FrameOf(slot)), OneOff(f)
                 PROVE  CheckHash(f) = {Damage(f, FrameOf(slot)) \cap 0 .. 2 + slot[0] = {}}
    BY DEF CheckByteTells
  <2>2. slot \in Packets
    BY <1>1, PacketsSent
  <2>3. f \in Frames
    BY <2>2, FrameFacts, NearIsFrames
  <2>4. Cardinality(Hit(f, slot)) <= 1 /\ 1 \notin Hit(f, slot)
    BY <2>1 DEF OneOff, Hit
  <2>5. CheckHash(f) = {Hit(f, slot) = {}}
    BY <2>2, <2>3, <2>4, CheckTells
  <2>6. QED
    BY <2>5 DEF Hit
<1>2. QED
  BY <1>1, PathTypeCorrect, PTL

\* When every answer of a series was accepted with at most one byte damaged, the
\* length apart, the report of the series is what went wrong in the air, bit for
\* bit: check_rx counts no old byte of the slot, of spi_rx or of loopback.
THEOREM ReportIsTrue == Spec => []ReportIsTruth
<1>1. PathInv => ReportIsTruth
  BY DEF PathInv, Truthful, ReportIsTruth
<1>2. QED
  BY <1>1, InvHolds, PTL

\* The figures of check_rx and tx_result_sum agree with each other even when the
\* frames they are made from are damaged beyond what the check byte tells.
THEOREM FiguresAgree == Spec => []CountsAgree
<1>1. PathInv => CountsAgree
  BY DEF PathInv
<1>2. QED
  BY <1>1, InvHolds, PTL

\* The length report_test_result divides by is that of the packets sent.
THEOREM LengthIsKnown == Spec => []ReportKnowsLength
<1>1. PathInv => ReportKnowsLength
  BY DEF PathInv, LengthKnown, ReportKnowsLength
<1>2. QED
  BY <1>1, InvHolds, PTL

=============================================================================
