--------------------------- MODULE Backoff_proofs ---------------------------
(***************************************************************************)
(* The wait is exponential for integers of any width, any bases and any    *)
(* cap up to half of the largest integer.                                  *)
(*                                                                         *)
(* Powers of two are a recursive function.  What it computes is shown by   *)
(* the least counterexample: the set of the numbers that a law holds for   *)
(* has no least number outside.                                            *)
(***************************************************************************)
EXTENDS Backoff, WellFoundedInduction, TLAPS

(* A set of numbers has a least one.                                       *)
LEMMA LeastNumber ==
  ASSUME NEW S \in SUBSET Nat, S # {}
  PROVE  \E m \in S : \A n \in S : m <= n
<1>1. PICK m \in S : \A n \in S : <<n, m>> \notin OpToRel(<, Nat)
  BY NatLessThanWellFounded, WFMin, Zenon
<1>2. \A n \in S : ~ (n < m)
  BY <1>1, Zenon DEF OpToRel
<1> QED
  BY <1>2

(* A set with 0, and with n + 1 for each of its n, has all numbers.        *)
LEMMA Induction ==
  ASSUME NEW S \in SUBSET Nat, 0 \in S, \A n \in S : n + 1 \in S
  PROVE  S = Nat
<1>1. SUFFICES ASSUME Nat \ S # {} PROVE FALSE
  OBVIOUS
<1>2. PICK m \in Nat \ S : \A n \in Nat \ S : m <= n
  BY <1>1, LeastNumber
<1>3. m - 1 \in S
  BY <1>2
<1> QED
  BY <1>2, <1>3

Iterates(f, start, step) == f[0] = start /\ \A n \in Nat : f[n + 1] = step[f[n]]

(* A step can be repeated any number of times from any start.              *)
LEMMA Iteration ==
  ASSUME NEW T, NEW start \in T, NEW step \in [T -> T]
  PROVE  \E f \in [Nat -> T] : Iterates(f, start, step)
<1> DEFINE Runs(k) == {f \in [0..k -> T] : /\ f[0] = start
                                           /\ \A n \in 0..k : n # k => f[n + 1] = step[f[n]]}
           Long == {k \in Nat : Runs(k) # {}}
<1>1. Long = Nat
  <2>1. 0 \in Long
    <3>1. [n \in 0..0 |-> start] \in Runs(0)
      OBVIOUS
    <3> QED
      BY <3>1
  <2>2. ASSUME NEW k \in Long PROVE k + 1 \in Long
    <3>1. PICK f \in Runs(k) : TRUE
      OBVIOUS
    <3> DEFINE g == [n \in 0..(k + 1) |-> IF n = k + 1 THEN step[f[k]] ELSE f[n]]
    <3>2. f \in [0..k -> T] /\ k \in Nat
      BY <3>1
    <3>3. g \in [0..(k + 1) -> T]
      BY <3>2
    <3>4. g[0] = start
      BY <3>1, <3>2
    <3>5. ASSUME NEW n \in 0..(k + 1), n # k + 1 PROVE g[n + 1] = step[g[n]]
      BY <3>1, <3>2, <3>5
    <3>6. g \in Runs(k + 1)
      BY <3>3, <3>4, <3>5
    <3> QED
      BY <3>2, <3>6
  <2> HIDE DEF Long
  <2>3. Long \in SUBSET Nat
    BY DEF Long
  <2> QED
    BY <2>1, <2>2, <2>3, Induction
<1>2. ASSUME NEW k \in Nat, NEW m \in Nat, NEW f \in Runs(k), NEW g \in Runs(m)
      PROVE  \A n \in Nat : n <= k /\ n <= m => f[n] = g[n]
  <2> DEFINE Same == {n \in Nat : n <= k /\ n <= m => f[n] = g[n]}
  <2>1. 0 \in Same
    OBVIOUS
  <2>2. ASSUME NEW n \in Same PROVE n + 1 \in Same
    <3>1. SUFFICES ASSUME n + 1 <= k, n + 1 <= m PROVE f[n + 1] = g[n + 1]
      OBVIOUS
    <3>2. n \in 0..k /\ n # k /\ n \in 0..m /\ n # m
      BY <3>1
    <3>3. f[n + 1] = step[f[n]] /\ g[n + 1] = step[g[n]]
      BY <3>2
    <3> QED
      BY <3>2, <3>3
  <2> HIDE DEF Same
  <2>3. Same = Nat
    <3>1. Same \in SUBSET Nat
      BY DEF Same
    <3> QED
      BY <2>1, <2>2, <3>1, Induction
  <2> QED
    BY <2>3 DEF Same
<1> DEFINE pick == [k \in Nat |-> CHOOSE f \in Runs(k) : TRUE]
           all  == [n \in Nat |-> pick[n][n]]
<1>3. \A k \in Nat : pick[k] \in Runs(k)
  BY <1>1
<1> HIDE DEF pick
<1>4. all \in [Nat -> T]
  <2>1. ASSUME NEW n \in Nat PROVE pick[n][n] \in T
    <3>1. pick[n] \in [0..n -> T] /\ n \in 0..n
      BY <1>3
    <3> QED
      BY <3>1
  <2> QED
    BY <2>1
<1>5. all[0] = start
  BY <1>3
<1>6. ASSUME NEW n \in Nat PROVE all[n + 1] = step[all[n]]
  <2> HIDE DEF Runs
  <2>1. n + 1 \in Nat /\ pick[n + 1] \in Runs(n + 1) /\ pick[n] \in Runs(n)
    BY <1>3
  <2>2. pick[n + 1][n] = pick[n][n]
    BY <1>2, <2>1
  <2>3. pick[n + 1][n + 1] = step[pick[n + 1][n]]
    BY <2>1 DEF Runs
  <2> QED
    BY <2>1, <2>2, <2>3
<1> HIDE DEF all
<1> QED
  BY <1>4, <1>5, <1>6 DEF Iterates

-----------------------------------------------------------------------------
(* Powers of two.                                                          *)
LEMMA PowerStep ==
  /\ Pow2 \in [Nat -> Nat] /\ Pow2[0] = 1
  /\ \A n \in Nat : Pow2[n + 1] = 2 * Pow2[n]
<1> DEFINE twice == [x \in Nat |-> 2 * x]
<1>1. twice \in [Nat -> Nat] /\ 1 \in Nat
  OBVIOUS
<1>2. PICK f \in [Nat -> Nat] : f[0] = 1 /\ \A n \in Nat : f[n + 1] = twice[f[n]]
  <2> HIDE DEF twice
  <2>1. \E f \in [Nat -> Nat] : Iterates(f, 1, twice)
    BY <1>1, Iteration
  <2> QED
    BY <2>1 DEF Iterates
<1>3. f = [n \in Nat |-> IF n = 0 THEN 1 ELSE 2 * f[n - 1]]
  <2>1. ASSUME NEW n \in Nat, n # 0 PROVE f[n] = 2 * f[n - 1]
    <3>1. n - 1 \in Nat /\ (n - 1) + 1 = n
      BY <2>1
    <3> QED
      BY <1>2, <3>1
  <2> QED
    BY <1>2, <2>1
<1> HIDE DEF twice
<1>4. Pow2 = [n \in Nat |-> IF n = 0 THEN 1 ELSE 2 * Pow2[n - 1]]
  BY <1>3 DEF Pow2
<1>5. Pow2[0] = 1 /\ \A n \in Nat : Pow2[n + 1] = 2 * Pow2[n]
  BY <1>4
<1>6. \A n \in Nat : Pow2[n] \in Nat
  <2> DEFINE Good == {n \in Nat : Pow2[n] \in Nat}
  <2>1. 0 \in Good /\ \A n \in Good : n + 1 \in Good
    BY <1>5
  <2>2. Good \in SUBSET Nat
    OBVIOUS
  <2> HIDE DEF Good
  <2>3. Good = Nat
    BY <2>1, <2>2, Induction
  <2> QED
    BY <2>3 DEF Good
<1>7. Pow2 \in [Nat -> Nat]
  <2> DEFINE body == [n \in Nat |-> IF n = 0 THEN 1 ELSE 2 * Pow2[n - 1]]
  <2>1. \A n \in Nat : body[n] \in Nat
    BY <1>4, <1>6
  <2>2. body \in [Nat -> Nat]
    BY <2>1
  <2> QED
    BY <1>4, <2>2
<1> QED
  BY <1>5, <1>7

(* The power of a sum is the product of the powers.                        *)
LEMMA PowerSum ==
  ASSUME NEW m \in Nat, NEW n \in Nat
  PROVE  Pow2[m + n] = Pow2[m] * Pow2[n]
<1> DEFINE Good == {k \in Nat : Pow2[m + k] = Pow2[m] * Pow2[k]}
<1>1. 0 \in Good
  BY PowerStep
<1>2. ASSUME NEW k \in Good PROVE k + 1 \in Good
  <2>1. m + k \in Nat /\ (m + k) + 1 = m + (k + 1) /\ k \in Nat
    OBVIOUS
  <2>2. Pow2[m + (k + 1)] = 2 * Pow2[m + k] /\ Pow2[k + 1] = 2 * Pow2[k]
    BY <2>1, PowerStep
  <2>3. Pow2[m] \in Nat /\ Pow2[k] \in Nat
    BY <2>1, PowerStep
  <2>4. 2 * (Pow2[m] * Pow2[k]) = Pow2[m] * (2 * Pow2[k])
    BY <2>3
  <2>5. Pow2[m + (k + 1)] = Pow2[m] * Pow2[k + 1]
    BY <2>2, <2>4
  <2> QED
    BY <2>1, <2>5
<1> HIDE DEF Good
<1>3. Good = Nat
  <2>1. Good \in SUBSET Nat
    BY DEF Good
  <2> QED
    BY <1>1, <1>2, <2>1, Induction
<1> QED
  BY <1>3 DEF Good

(* Powers are positive and grow.                                           *)
LEMMA PowerGrows ==
  ASSUME NEW m \in Nat, NEW n \in Nat, m <= n
  PROVE  Pow2[m] \in Nat /\ Pow2[m] >= 1 /\ Pow2[m] <= Pow2[n]
<1> DEFINE Good == {k \in Nat : Pow2[k] >= 1}
<1>1. 0 \in Good /\ \A k \in Good : k + 1 \in Good
  BY PowerStep
<1>2. Good \in SUBSET Nat
  OBVIOUS
<1> HIDE DEF Good
<1>3. \A k \in Nat : Pow2[k] >= 1 /\ Pow2[k] \in Nat
  <2>1. Good = Nat
    BY <1>1, <1>2, Induction
  <2> QED
    BY <2>1, PowerStep DEF Good
<1>4. n - m \in Nat /\ m + (n - m) = n
  OBVIOUS
<1>5. Pow2[n] = Pow2[m] * Pow2[n - m]
  BY <1>4, PowerSum
<1>6. \A x, y \in Nat : y >= 1 => x <= x * y
  OBVIOUS
<1> QED
  BY <1>3, <1>4, <1>5, <1>6

(* The zeros before the first bit of a number that fits.                   *)
LEMMA LeadingZerosBound ==
  ASSUME NEW n \in Nat \ {0}, n <= Pow2[Width - 2]
  PROVE  LET z == LeadingZeros(n) IN
         z \in 1..(Width - 1) /\ Pow2[Width - z] > n /\ n >= Pow2[Width - z - 1]
<1>1. Width \in Nat /\ Width - 2 \in Nat /\ Width - 1 \in Nat /\ (Width - 2) + 1 = Width - 1
  BY WidthAssumption
<1> DEFINE Above == {k \in Nat : Pow2[k] > n}
<1>2. Pow2[Width - 1] = 2 * Pow2[Width - 2] /\ Pow2[Width - 2] \in Nat
  BY <1>1, PowerStep
<1>3. Width - 1 \in Above
  BY <1>1, <1>2
<1>4. PICK m \in Above : \A k \in Above : m <= k
  <2>1. Above \in SUBSET Nat /\ Above # {}
    BY <1>3
  <2> HIDE DEF Above
  <2> QED
    BY <2>1, LeastNumber
<1>5. m # 0 /\ m \in Nat
  BY <1>4, PowerStep
<1>6. m <= Width - 1
  BY <1>3, <1>4
<1>7. m - 1 \in Nat /\ ~ (Pow2[m - 1] > n) /\ Pow2[m - 1] \in Nat
  BY <1>4, <1>5, PowerStep
<1> DEFINE Fits(z) == Pow2[Width - z] > n /\ n >= Pow2[Width - z - 1]
<1>8. Width - m \in 1..(Width - 1) /\ Width - (Width - m) = m /\ Width - (Width - m) - 1 = m - 1
  BY <1>1, <1>5, <1>6
<1>9. Fits(Width - m)
  BY <1>4, <1>7, <1>8
<1>10. \E z \in 0..(Width - 1) : Fits(z)
  BY <1>8, <1>9
<1> DEFINE z == LeadingZeros(n)
<1>11. z \in 0..(Width - 1) /\ Fits(z)
  BY <1>10 DEF LeadingZeros
<1>12. z # 0
  <2>1. Pow2[Width - 1] > n
    BY <1>3
  <2>2. ASSUME z = 0 PROVE Width - z - 1 = Width - 1
    BY <1>1, <2>2
  <2> QED
    BY <1>1, <1>2, <1>11, <2>1, <2>2
<1> HIDE DEF z
<1> QED
  BY <1>1, <1>11, <1>12 DEF z

-----------------------------------------------------------------------------
(* The growth of a base is its product with a power of two, capped.        *)
LEMMA GrowthIsPower ==
  ASSUME NEW b \in Nat, b <= MaxBackOff, NEW n \in 1..MaxAttempts
  PROVE  Growth(b)[n] = Capped(b * Pow2[n - 1])
<1>1. MaxBackOff \in Nat /\ MaxAttempts \in Nat
  BY CapAssumption, WidthAssumption
<1> DEFINE ideal == [k \in 1..MaxAttempts |-> Capped(b * Pow2[k - 1])]
<1>2. ASSUME NEW k \in 1..MaxAttempts
      PROVE  ideal[k] = IF k = 1 THEN b ELSE Capped(2 * ideal[k - 1])
  <2>1. CASE k = 1
    <3>1. k - 1 = 0
      BY <2>1
    <3>2. b * Pow2[k - 1] = b
      BY <3>1, PowerStep
    <3>3. ideal[k] = Capped(b)
      BY <3>2
    <3> QED
      BY <1>1, <2>1, <3>3 DEF Capped
  <2>2. CASE k # 1
    <3>1. k - 2 \in Nat /\ (k - 2) + 1 = k - 1 /\ (k - 1) - 1 = k - 2 /\ k - 1 \in 1..MaxAttempts
      BY <1>1, <2>2
    <3>2. Pow2[k - 1] = 2 * Pow2[k - 2] /\ Pow2[k - 2] \in Nat
      BY <3>1, PowerStep
    <3>3. b * Pow2[k - 1] = 2 * (b * Pow2[k - 2]) /\ b * Pow2[k - 2] \in Nat
      BY <3>2
    <3>4. \A x \in Nat : Capped(2 * x) = Capped(2 * Capped(x))
      BY <1>1 DEF Capped
    <3>5. ideal[k] = Capped(2 * (b * Pow2[k - 2])) /\ ideal[k - 1] = Capped(b * Pow2[k - 2])
      BY <3>1, <3>3
    <3> QED
      BY <2>2, <3>3, <3>4, <3>5
  <2> QED
    BY <2>1, <2>2
<1>3. ideal = [k \in 1..MaxAttempts |-> IF k = 1 THEN b ELSE Capped(2 * ideal[k - 1])]
  BY <1>2
<1> HIDE DEF ideal
<1> DEFINE Doubles(f) == f = [k \in 1..MaxAttempts |-> IF k = 1 THEN b
                                                                 ELSE Capped(2 * f[k - 1])]
<1>4. Growth(b) = CHOOSE f : Doubles(f)
  BY DEF Growth
<1>5. Doubles(Growth(b))
  BY <1>3, <1>4
<1> DEFINE Same == {k \in Nat : k + 1 \in 1..MaxAttempts => Growth(b)[k + 1] = ideal[k + 1]}
<1>6. \A k \in 1..MaxAttempts : /\ Growth(b)[k] = IF k = 1 THEN b ELSE Capped(2 * Growth(b)[k - 1])
                                /\ ideal[k] = IF k = 1 THEN b ELSE Capped(2 * ideal[k - 1])
  BY <1>2, <1>5
<1>7. 0 \in Same
  BY <1>6
<1>8. ASSUME NEW k \in Same PROVE k + 1 \in Same
  <2>1. SUFFICES ASSUME (k + 1) + 1 \in 1..MaxAttempts
                 PROVE  Growth(b)[(k + 1) + 1] = ideal[(k + 1) + 1]
    OBVIOUS
  <2>2. k + 1 \in 1..MaxAttempts /\ (k + 1) + 1 # 1 /\ ((k + 1) + 1) - 1 = k + 1
    BY <1>1, <2>1
  <2>3. Growth(b)[k + 1] = ideal[k + 1]
    BY <2>2
  <2> QED
    BY <1>6, <2>1, <2>2, <2>3
<1> HIDE DEF Same, Doubles
<1>9. Same = Nat
  <2>1. Same \in SUBSET Nat
    BY DEF Same
  <2> QED
    BY <1>7, <1>8, <2>1, Induction
<1>10. n - 1 \in Same /\ (n - 1) + 1 = n
  BY <1>1, <1>9
<1>11. Growth(b)[n] = ideal[n]
  BY <1>10 DEF Same
<1> QED
  BY <1>11 DEF ideal

(* Before the jitter the code computes the growth: what is shifted fits as *)
(* long as there are leading zeros, and then the cap is reached.           *)
LEMMA BackoffIsGrowth ==
  ASSUME base \in Bases, NEW n \in 1..MaxAttempts
  PROVE  BeforeJitter(n) = Growth(base)[n] /\ BeforeJitter(n) \in 5..MaxBackOff
<1> DEFINE z == LeadingZeros(base)
           p == Pow2[n - 1]
<1>1. /\ Width \in Nat /\ Width - 2 \in Nat /\ Width - 1 \in Nat /\ (Width - 2) + 1 = Width - 1
      /\ (Width - 1) + 1 = Width /\ MaxBackOff \in Nat /\ MaxBackOff <= Pow2[Width - 2]
      /\ base \in 5..MaxBackOff
  BY WidthAssumption, CapAssumption, BaseAssumption
<1>2. base \in Nat \ {0} /\ base <= MaxBackOff /\ base >= 5
  BY <1>1
<1>3. Pow2[Width - 2] \in Nat
  BY <1>1, PowerStep
<1>4. base <= Pow2[Width - 2]
  BY <1>1, <1>2, <1>3
<1>5. z \in 1..(Width - 1) /\ Pow2[Width - z] > base /\ base >= Pow2[Width - z - 1]
  BY <1>2, <1>4, LeadingZerosBound
<1>6. n \in Nat /\ n >= 1 /\ n - 1 \in Nat /\ p \in Nat /\ p >= 1
  <2>1. n \in Nat /\ n >= 1 /\ n - 1 \in Nat
    BY WidthAssumption
  <2> QED
    BY <2>1, PowerGrows
<1>7. base * p \in Nat /\ base * p >= 5
  <2>1. \A x, y \in Nat : x >= 5 /\ y >= 1 => x * y \in Nat /\ x * y >= 5
    <3>1. \A x, y \in Nat : y >= 1 => x * y \in Nat /\ x <= x * y
      OBVIOUS
    <3> QED
      BY <3>1
  <2> HIDE DEF p
  <2> QED
    BY <1>2, <1>6, <2>1
<1>8. Growth(base)[n] = Capped(base * p)
  BY <1>2, GrowthIsPower
<1>9. Capped(base * p) \in 5..MaxBackOff
  <2> HIDE DEF p
  <2> QED
    BY <1>1, <1>2, <1>7 DEF Capped
<1>10. CASE n < z
  <2> HIDE DEF z
  <2>1. /\ Width - z \in Nat /\ (Width - z) + (n - 1) \in Nat
        /\ (Width - z) + (n - 1) <= Width - 2
    BY <1>1, <1>5, <1>6, <1>10
  <2>2. Pow2[Width - z] * p = Pow2[(Width - z) + (n - 1)] /\ Pow2[Width - z] \in Nat
    BY <1>6, <2>1, PowerSum, PowerStep
  <2>3. Pow2[(Width - z) + (n - 1)] <= Pow2[Width - 2] /\ Pow2[(Width - z) + (n - 1)] \in Nat
    BY <1>1, <2>1, PowerGrows
  <2>4. \A x, y, t \in Nat : x < y => x * t <= y * t
    OBVIOUS
  <2>5. base * p <= Pow2[Width - z] * p
    BY <1>2, <1>5, <1>6, <2>2, <2>4
  <2>6. base * p <= Pow2[Width - 2]
    BY <1>3, <1>7, <2>2, <2>3, <2>5
  <2>7. /\ Pow2[Width - 1] = 2 * Pow2[Width - 2] /\ Pow2[Width] = 2 * Pow2[Width - 1]
        /\ Pow2[Width - 2] >= 1
    BY <1>1, PowerStep, PowerGrows
  <2>8. ASSUME NEW x \in Nat, NEW h \in Nat, h >= 1, x < h
        PROVE  ((x + h) % (2 * h)) - h = x
    <3>1. (x + h) % (2 * h) = x + h
      BY <2>8, SMTT(30)
    <3> QED
      BY <3>1
  <2>9. Wrap(base * p) = base * p
    <3>1. Pow2[Width - 1] \in Nat /\ Pow2[Width - 1] >= 1 /\ base * p < Pow2[Width - 1]
      BY <1>3, <1>7, <2>6, <2>7
    <3> DEFINE x == base * p
    <3>2. x \in Nat
      BY <1>7
    <3> HIDE DEF x, p
    <3> QED
      BY <2>7, <2>8, <3>1, <3>2 DEF Wrap, x
  <2>10. BeforeJitter(n) = Capped(base * p)
    BY <1>1, <1>5, <1>6, <1>10, <2>9 DEF BeforeJitter, z
  <2> QED
    BY <1>8, <1>9, <2>10
<1>11. CASE n >= z
  <2> HIDE DEF z
  <2>1. /\ Width - z - 1 \in Nat /\ (Width - z - 1) + (n - 1) \in Nat
        /\ Width - 2 <= (Width - z - 1) + (n - 1)
    BY <1>1, <1>5, <1>6, <1>11
  <2>2. /\ Pow2[Width - z - 1] * p = Pow2[(Width - z - 1) + (n - 1)]
        /\ Pow2[Width - z - 1] \in Nat /\ Pow2[(Width - z - 1) + (n - 1)] \in Nat
    BY <1>6, <2>1, PowerSum, PowerStep
  <2>3. Pow2[Width - 2] <= Pow2[(Width - z - 1) + (n - 1)]
    BY <1>1, <2>1, PowerGrows
  <2>4. \A x, y, t \in Nat : y <= x => y * t <= x * t
    OBVIOUS
  <2>5. Pow2[Width - z - 1] * p <= base * p
    BY <1>2, <1>5, <1>6, <2>2, <2>4
  <2>6. MaxBackOff <= base * p
    BY <1>1, <1>3, <1>7, <2>2, <2>3, <2>5
  <2>7. Capped(base * p) = MaxBackOff
    BY <1>1, <1>7, <2>6 DEF Capped
  <2>8. BeforeJitter(n) = MaxBackOff
    BY <1>11 DEF BeforeJitter, z
  <2> QED
    BY <1>8, <1>9, <2>7, <2>8
<1>12. n < z \/ n >= z
  <2> HIDE DEF z
  <2> QED
    BY <1>5, <1>6
<1> QED
  BY <1>10, <1>11, <1>12

(* The jitter is at most a tenth either way, and its range is not empty.   *)
LEMMA JitterBound ==
  ASSUME NEW b \in Nat, b >= 5
  PROVE  /\ b \div 5 > 0
         /\ \A j \in 0..(b \div 5 - 1) :
              LET w == b + j - b \div 10 IN w \in Int /\ 9 * b <= 10 * w /\ 10 * w < 11 * b
  OBVIOUS

(* At every attempt the wait is that of an exponential backoff with a cap, *)
(* give or take a tenth, for integers of any width, any bases and attempts *)
(* and every cap up to half of the largest integer.                        *)
THEOREM BackoffIsExponential == Spec => []WaitIsExponential
<1> DEFINE Inv == base \in Bases /\ attempt \in 0..MaxAttempts /\ WaitIsExponential
<1>1. Init => Inv
  BY WidthAssumption DEF Init, WaitIsExponential
<1>2. ASSUME Inv, Fail PROVE Inv'
  <2>1. attempt + 1 \in 1..MaxAttempts /\ attempt' = attempt + 1 /\ base' = base
    BY <1>2, WidthAssumption DEF Fail
  <2> DEFINE b == BeforeJitter(attempt + 1)
  <2>2. b = Growth(base)[attempt + 1] /\ b \in 5..MaxBackOff
    BY <1>2, <2>1, BackoffIsGrowth
  <2>3. b \in Nat /\ b >= 5
    BY <2>2, CapAssumption
  <2>4. wait' \in CalculateBackoff(attempt + 1)
    BY <1>2 DEF Fail
  <2>5. b \div 5 > 0 /\ b \div 5 \in Int
    <3> HIDE DEF b
    <3> QED
      BY <2>3, JitterBound
  <2>6. PICK j \in 0..(b \div 5 - 1) : wait' = b + j - b \div 10
    BY <2>4, <2>5 DEF CalculateBackoff
  <2>7. wait' \in Int /\ 9 * b <= 10 * wait' /\ 10 * wait' < 11 * b
    <3> HIDE DEF b
    <3> QED
      BY <2>3, <2>6, JitterBound
  <2>8. Ideal' = b
    BY <2>1, <2>2 DEF Ideal, Growth, Capped
  <2>9. wait' # Panic
    BY <2>7, OutcomeAssumption
  <2> HIDE DEF b
  <2>10. WaitIsExponential'
    BY <2>7, <2>8, <2>9 DEF WaitIsExponential
  <2> QED
    BY <1>2, <2>1, <2>10, WidthAssumption
<1>3. ASSUME Inv, UNCHANGED vars PROVE Inv'
  BY <1>3 DEF vars, WaitIsExponential, Ideal, Growth, Capped
<1>4. Inv /\ [Fail]_vars => Inv'
  BY <1>2, <1>3
<1>5. Inv => WaitIsExponential
  OBVIOUS
<1> QED
  BY <1>1, <1>4, <1>5, PTL DEF Spec
=============================================================================
