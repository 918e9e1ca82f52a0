---------------------------- MODULE FadingProofs ----------------------------
(***************************************************************************)
(* What holds of the arithmetic of the grey state for every idle time and  *)
(* every value of fading.  Quotient is a recursive function: first come    *)
(* induction over the natural numbers, with a set where NatInduction has a *)
(* predicate, and primitive recursion, both first-order.                   *)
(***************************************************************************)
EXTENDS Fading, WellFoundedInduction, TLAPS

LEMMA SetInduction ==
  ASSUME NEW S, 0 \in S, \A n \in Nat : n \in S => n + 1 \in S
  PROVE  Nat \subseteq S
<1> DEFINE less == {ss \in Nat \X Nat : ss[1] < ss[2]}
<1> SUFFICES ASSUME Nat \ S # {} PROVE FALSE
  OBVIOUS
<1>1. IsWellFoundedOn(less, Nat)
  BY NatLessThanWellFounded DEF OpToRel
<1>2. PICK n \in Nat \ S : \A m \in Nat \ S : ~(<<m, n>> \in less)
  BY <1>1, WFMin
<1>3. \A m \in Nat \ S : ~(m < n)
  BY <1>2
<1>4. n - 1 \in Nat /\ n - 1 < n /\ (n - 1) + 1 = n
  OBVIOUS
<1> QED BY <1>3, <1>4

(* Primitive recursion up to n.                                            *)
Follows(f, n, start, step) ==
  f[0] = start /\ \A k \in 0..(n - 1) : f[k + 1] = step[f[k]]

LEMMA FollowsUnique ==
  ASSUME NEW n \in Nat, NEW m \in Nat, n <= m, NEW start, NEW step,
         NEW f, NEW g, Follows(f, n, start, step), Follows(g, m, start, step)
  PROVE  \A k \in 0..n : f[k] = g[k]
<1> DEFINE S == {k \in Nat : k <= n => f[k] = g[k]}
<1>1. 0 \in S
  BY DEF Follows
<1>2. ASSUME NEW k \in Nat, k \in S PROVE k + 1 \in S
  <2> SUFFICES ASSUME k + 1 <= n PROVE f[k + 1] = g[k + 1]
    OBVIOUS
  <2>1. k \in 0..(n - 1) /\ k \in 0..(m - 1) /\ k <= n
    OBVIOUS
  <2>2. f[k] = g[k]
    BY <1>2, <2>1
  <2> QED BY <2>1, <2>2 DEF Follows
<1>3. Nat \subseteq S
  <2> HIDE DEF S
  <2> QED BY <1>1, <1>2, SetInduction
<1> QED BY <1>3

LEMMA FollowsExists ==
  ASSUME NEW T, NEW start \in T, NEW step \in [T -> T], NEW n \in Nat
  PROVE  \E f \in [0..n -> T] : Follows(f, n, start, step)
<1> DEFINE S == {k \in Nat : \E f \in [0..k -> T] : Follows(f, k, start, step)}
<1>1. 0 \in S
  <2> DEFINE f == [j \in 0..0 |-> start]
  <2>1. f \in [0..0 -> T] /\ Follows(f, 0, start, step)
    BY DEF Follows
  <2> QED BY <2>1
<1>2. ASSUME NEW k \in Nat, k \in S PROVE k + 1 \in S
  <2>1. PICK f \in [0..k -> T] : Follows(f, k, start, step)
    BY <1>2
  <2> DEFINE g == [j \in 0..(k + 1) |-> IF j <= k THEN f[j] ELSE step[f[k]]]
  <2>2. g \in [0..(k + 1) -> T]
    OBVIOUS
  <2>3. g[0] = start
    BY <2>1 DEF Follows
  <2>4. ASSUME NEW j \in 0..k PROVE g[j + 1] = step[g[j]]
    <3>1. CASE j = k
      BY <3>1
    <3>2. CASE j # k
      BY <2>1, <3>2 DEF Follows
    <3> QED BY <3>1, <3>2
  <2>5. Follows(g, k + 1, start, step)
    <3> HIDE DEF g
    <3>1. \A j \in 0..((k + 1) - 1) : j \in 0..k
      OBVIOUS
    <3> QED BY <2>3, <2>4, <3>1 DEF Follows
  <2> QED BY <2>2, <2>5
<1>3. Nat \subseteq S
  <2> HIDE DEF S
  <2> QED BY <1>1, <1>2, SetInduction
<1> QED BY <1>3

(* f is what primitive recursion defines, a function from Nat to T.        *)
Recursive(f, T, start, step) ==
  /\ f \in [Nat -> T]
  /\ f[0] = start
  /\ \A n \in Nat : f[n + 1] = step[f[n]]

LEMMA RecursionExists ==
  ASSUME NEW T, NEW start \in T, NEW step \in [T -> T]
  PROVE  \E f : Recursive(f, T, start, step)
<1> DEFINE upto(n) == CHOOSE f \in [0..n -> T] : Follows(f, n, start, step)
           f == [n \in Nat |-> upto(n)[n]]
<1>1. \A n \in Nat : upto(n) \in [0..n -> T] /\ Follows(upto(n), n, start, step)
  BY FollowsExists
<1> HIDE DEF upto
<1>2. f \in [Nat -> T]
  BY <1>1
<1>3. f[0] = start
  BY <1>1 DEF Follows
<1>4. ASSUME NEW n \in Nat PROVE f[n + 1] = step[f[n]]
  <2>1. upto(n + 1)[n] = upto(n)[n]
    BY <1>1, FollowsUnique
  <2>2. upto(n + 1)[n + 1] = step[upto(n + 1)[n]]
    BY <1>1 DEF Follows
  <2> QED BY <2>1, <2>2
<1> QED BY <1>2, <1>3, <1>4 DEF Recursive

(* Recursion over an index, as of a sequence with n elements.              *)
Indexed(f, n, T, start, step) ==
  /\ f \in [0..n -> T]
  /\ f[0] = start
  /\ \A i \in 1..n : f[i] = step[<<i, f[i - 1]>>]

LEMMA IndexedExists ==
  ASSUME NEW n \in Nat, NEW T, NEW start \in T, NEW step \in [(1..n) \X T -> T]
  PROVE  \E f : Indexed(f, n, T, start, step)
<1> DEFINE S == {m \in Nat : m <= n => \E f : Indexed(f, m, T, start, step)}
<1>1. 0 \in S
  <2> DEFINE f == [j \in 0..0 |-> start]
  <2>1. Indexed(f, 0, T, start, step)
    BY DEF Indexed
  <2> QED BY <2>1
<1>2. ASSUME NEW m \in Nat, m \in S PROVE m + 1 \in S
  <2> SUFFICES ASSUME m + 1 <= n PROVE \E f : Indexed(f, m + 1, T, start, step)
    OBVIOUS
  <2>1. PICK f : Indexed(f, m, T, start, step)
    BY <1>2
  <2>2. f[m] \in T /\ m + 1 \in 1..n
    BY <2>1 DEF Indexed
  <2>3. step[<<m + 1, f[m]>>] \in T
    BY <2>2
  <2> DEFINE g == [j \in 0..(m + 1) |-> IF j <= m THEN f[j] ELSE step[<<m + 1, f[m]>>]]
  <2>4. g \in [0..(m + 1) -> T] /\ g[0] = start
    BY <2>1, <2>3 DEF Indexed
  <2>5. ASSUME NEW i \in 1..(m + 1) PROVE g[i] = step[<<i, g[i - 1]>>]
    <3>1. CASE i = m + 1
      BY <3>1
    <3>2. CASE i # m + 1
      BY <2>1, <3>2 DEF Indexed
    <3> QED BY <3>1, <3>2
  <2>6. Indexed(g, m + 1, T, start, step)
    <3> HIDE DEF g
    <3> QED BY <2>4, <2>5 DEF Indexed
  <2> QED BY <2>6
<1>3. Nat \subseteq S
  <2> HIDE DEF S
  <2> QED BY <1>1, <1>2, SetInduction
<1> QED BY <1>3

-----------------------------------------------------------------------------
(* The powers of 1.05                                                      *)

(* A recursive function as Quotient is what its definition says.           *)
LEMMA PowersUnfold ==
  ASSUME NEW start \in Nat, NEW Q,
         Q = CHOOSE g : g = [k \in Nat |-> IF k = 0 THEN start
                                           ELSE (g[k - 1] * 20) \div 21]
  PROVE  Q = [k \in Nat |-> IF k = 0 THEN start ELSE (Q[k - 1] * 20) \div 21]
<1> DEFINE T == [v \in Nat |-> (v * 20) \div 21]
           R(f) == [k \in Nat |-> IF k = 0 THEN start ELSE (f[k - 1] * 20) \div 21]
<1>1. T \in [Nat -> Nat]
  OBVIOUS
<1>2. PICK f : Recursive(f, Nat, start, T)
  <2> HIDE DEF T
  <2> QED BY <1>1, RecursionExists
<1>3. f = R(f)
  <2>1. ASSUME NEW k \in Nat PROVE f[k] = R(f)[k]
    <3>1. CASE k = 0
      BY <1>2, <3>1 DEF Recursive
    <3>2. CASE k # 0
      <4>1. k - 1 \in Nat /\ (k - 1) + 1 = k
        BY <3>2
      <4>2. f[k] = T[f[k - 1]] /\ f[k - 1] \in Nat
        BY <1>2, <4>1 DEF Recursive
      <4> QED BY <3>2, <4>1, <4>2
    <3> QED BY <3>1, <3>2
  <2> QED BY <1>2, <2>1 DEF Recursive
<1>4. Q = CHOOSE g : g = R(g)
  OBVIOUS
<1>5. Q = R(Q)
  <2> HIDE DEF R
  <2> QED BY <1>3, <1>4
<1> QED BY <1>5

LEMMA PowersValues ==
  ASSUME NEW start \in Nat, NEW Q,
         Q = [k \in Nat |-> IF k = 0 THEN start ELSE (Q[k - 1] * 20) \div 21]
  PROVE  /\ Q \in [Nat -> Nat]
         /\ Q[0] = start
         /\ \A n \in Nat : Q[n + 1] = (Q[n] * 20) \div 21
<1>6. Q[0] = start
  OBVIOUS
<1>7. ASSUME NEW n \in Nat PROVE Q[n + 1] = (Q[n] * 20) \div 21
  OBVIOUS
<1>8. ASSUME NEW n \in Nat PROVE Q[n] \in Nat
  <2> DEFINE S == {k \in Nat : Q[k] \in Nat}
  <2>1. 0 \in S
    BY <1>6
  <2>2. \A k \in Nat : k \in S => k + 1 \in S
    BY <1>7
  <2>3. Nat \subseteq S
    <3> HIDE DEF S
    <3> QED BY <2>1, <2>2, SetInduction
  <2> QED BY <2>3
<1>9. Q \in [Nat -> Nat]
  <2>1. DOMAIN Q = Nat /\ Q = [k \in Nat |-> Q[k]]
    OBVIOUS
  <2> QED BY <1>8, <2>1
<1> QED BY <1>6, <1>7, <1>9

LEMMA PowersFall ==
  ASSUME NEW Q \in [Nat -> Nat], Q[0] = 67108864,
         \A n \in Nat : Q[n + 1] = (Q[n] * 20) \div 21
  PROVE  \A n \in Nat : Q[n + 1] <= 63913204
<1> DEFINE S == {k \in Nat : Q[k + 1] <= 63913204}
<1>1. 0 \in S
  BY SMT
<1>2. ASSUME NEW k \in Nat, k \in S PROVE k + 1 \in S
  <2>1. Q[(k + 1) + 1] = (Q[k + 1] * 20) \div 21 /\ Q[k + 1] \in Nat
    OBVIOUS
  <2> QED BY <1>2, <2>1, SMT
<1>3. Nat \subseteq S
  <2> HIDE DEF S
  <2> QED BY <1>1, <1>2, SetInduction
<1> QED BY <1>3

LEMMA QuotientValues ==
  /\ Quotient \in [Nat -> Nat]
  /\ Quotient[0] = 67108864
  /\ \A n \in Nat : Quotient[n + 1] = (Quotient[n] * 20) \div 21
<1> DEFINE start == 256 * FixedPoint
<1>1. start \in Nat /\ start = 67108864
  BY SMT DEF FixedPoint
<1>2. Quotient = CHOOSE g : g = [k \in Nat |-> IF k = 0 THEN start
                                               ELSE (g[k - 1] * 20) \div 21]
  BY DEF Quotient
<1>3. start \in Nat
  BY <1>1, SMT
<1> HIDE DEF start
<1>4. Quotient = [k \in Nat |-> IF k = 0 THEN start ELSE (Quotient[k - 1] * 20) \div 21]
  BY <1>2, <1>3, PowersUnfold
<1>5. /\ Quotient \in [Nat -> Nat]
      /\ Quotient[0] = start
      /\ \A n \in Nat : Quotient[n + 1] = (Quotient[n] * 20) \div 21
  BY <1>3, <1>4, PowersValues
<1> QED BY <1>1, <1>5, SMT

LEMMA QuotientFalls ==
  ASSUME NEW n \in Nat
  PROVE  Quotient[n + 1] \in Nat /\ Quotient[n + 1] <= 63913204
BY QuotientValues, PowersFall

LEMMA IdleTicksTyped ==
  ASSUME NEW i \in Nat
  PROVE  IdleTicks(i) \in Nat
<1>1. 1000000 \div Suspend = 4
  BY DEF Suspend
<1> QED BY <1>1 DEF IdleTicks

(* An icon is never opaque at once.                                        *)
LEMMA FadeOffsetGrey ==
  ASSUME NEW i \in Nat
  PROVE  /\ FadeOffset(i) \in 0..(Complete - 1)
         /\ FadeOffset(i) * FixedPoint <= Quotient[IdleTicks(i) + 1]
<1>1. IdleTicks(i) \in Nat
  BY IdleTicksTyped
<1>2. Quotient[IdleTicks(i) + 1] \in Nat /\ Quotient[IdleTicks(i) + 1] <= 63913204
  BY <1>1, QuotientFalls
<1> QED BY <1>2 DEF FadeOffset, FixedPoint, Complete

LEMMA FadeStepTyped ==
  ASSUME NEW f \in 0..Complete
  PROVE  FadeStep(f) \in 0..Complete
BY DEF FadeStep, Complete

(* A tick gives back one power at most.                                    *)
LEMMA FadeStepBehind ==
  ASSUME NEW f \in 0..Complete, NEW n \in Nat, f * FixedPoint <= Quotient[n + 1]
  PROVE  FadeStep(f) * FixedPoint <= Quotient[n]
<1>1. Quotient[n] \in Nat /\ Quotient[n + 1] = (Quotient[n] * 20) \div 21
  BY QuotientValues
<1>2. FadeStep(f) \in Nat /\ 20 * FadeStep(f) <= 21 * f
  BY DEF FadeStep, Complete
<1>3. 21 * Quotient[n + 1] <= 20 * Quotient[n]
  BY <1>1
<1>4. ASSUME NEW g \in Nat, NEW e \in Nat, NEW q \in Nat, NEW r \in Nat,
             20 * g <= 21 * e, e * 262144 <= q, 21 * q <= 20 * r
      PROVE  g * 262144 <= r
  BY <1>4, SMT
<1>5. f \in Nat /\ Quotient[n + 1] \in Nat
  BY QuotientValues DEF Complete
<1>6. FixedPoint = 262144
  BY SMT DEF FixedPoint
<1> QED BY <1>1, <1>2, <1>3, <1>4, <1>5, <1>6, SMT

(* Below FadeFloor an icon stays as grey as it is, from there on every tick*)
(* makes it more opaque.                                                   *)
LEMMA FadeStepGrows ==
  ASSUME NEW f \in 0..Complete
  PROVE  /\ f < FadeFloor => FadeStep(f) = f
         /\ f >= FadeFloor /\ f < Complete => FadeStep(f) > f
         /\ FadeStep(Complete) = Complete
BY SMT DEF FadeStep, FadeFloor, Complete

-----------------------------------------------------------------------------
(* Idle times whose icons never become opaque                              *)

LEMMA FourPowers ==
  ASSUME NEW n \in Nat, NEW v \in Nat, Quotient[n] = v
  PROVE  Quotient[n + 4] =
           (((((((v * 20) \div 21) * 20) \div 21) * 20) \div 21) * 20) \div 21
<1>1. /\ Quotient[n + 1] = (Quotient[n] * 20) \div 21
      /\ Quotient[(n + 1) + 1] = (Quotient[n + 1] * 20) \div 21
      /\ Quotient[((n + 1) + 1) + 1] = (Quotient[(n + 1) + 1] * 20) \div 21
      /\ Quotient[(((n + 1) + 1) + 1) + 1] =
           (Quotient[((n + 1) + 1) + 1] * 20) \div 21
  <2>1. n + 1 \in Nat /\ (n + 1) + 1 \in Nat /\ ((n + 1) + 1) + 1 \in Nat
    OBVIOUS
  <2>2. \A k \in Nat : Quotient[k + 1] = (Quotient[k] * 20) \div 21
    BY QuotientValues, SMT
  <2> QED BY <2>1, <2>2, Zenon
<1>2. (((n + 1) + 1) + 1) + 1 = n + 4
  OBVIOUS
<1> QED BY <1>1, <1>2, Zenon

(* 256 / 1.05^52 is above FadeFloor, 256 / 1.05^53 is below it.            *)
LEMMA FloorReached ==
  Quotient[52] >= FadeFloor * FixedPoint /\ Quotient[53] < FadeFloor * FixedPoint
<1>0. Quotient[0] = 67108864
  BY QuotientValues, SMT
<1>1. Quotient[4] = 55210627
  BY <1>0, FourPowers, SMT
<1>2. Quotient[8] = 45421918
  BY <1>1, FourPowers, SMT
<1>3. Quotient[12] = 37368723
  BY <1>2, FourPowers, SMT
<1>4. Quotient[16] = 30743340
  BY <1>3, FourPowers, SMT
<1>5. Quotient[20] = 25292620
  BY <1>4, FourPowers, SMT
<1>6. Quotient[24] = 20808300
  BY <1>5, FourPowers, SMT
<1>7. Quotient[28] = 17119038
  BY <1>6, FourPowers, SMT
<1>8. Quotient[32] = 14083873
  BY <1>7, FourPowers, SMT
<1>9. Quotient[36] = 11586836
  BY <1>8, FourPowers, SMT
<1>10. Quotient[40] = 9532516
  BY <1>9, FourPowers, SMT
<1>11. Quotient[44] = 7842422
  BY <1>10, FourPowers, SMT
<1>12. Quotient[48] = 6451979
  BY <1>11, FourPowers, SMT
<1>13. Quotient[52] = 5308057
  BY <1>12, FourPowers, SMT
<1>14. Quotient[52 + 1] = (Quotient[52] * 20) \div 21
  BY QuotientValues, SMT
<1> QED BY <1>13, <1>14, SMT DEF FadeFloor, FixedPoint

LEMMA QuotientDecreases ==
  ASSUME NEW n \in Nat, NEW m \in Nat, n <= m
  PROVE  Quotient[m] <= Quotient[n]
<1> DEFINE S == {k \in Nat : Quotient[n + k] <= Quotient[n]}
<1>1. 0 \in S
  BY QuotientValues, SMT
<1>2. ASSUME NEW k \in Nat, k \in S PROVE k + 1 \in S
  <2>1. /\ Quotient[(n + k) + 1] = (Quotient[n + k] * 20) \div 21
        /\ Quotient[n + k] \in Nat /\ Quotient[n] \in Nat
        /\ Quotient[n + k] <= Quotient[n]
    BY <1>2, QuotientValues, SMT
  <2>2. \A v \in Nat : (v * 20) \div 21 <= v /\ (v * 20) \div 21 \in Nat
    OBVIOUS
  <2>3. Quotient[(n + k) + 1] <= Quotient[n]
    BY <2>1, <2>2
  <2>4. n + (k + 1) = (n + k) + 1
    OBVIOUS
  <2> QED BY <2>3, <2>4
<1>3. Nat \subseteq S
  <2> HIDE DEF S
  <2> QED BY <1>1, <1>2, SetInduction
<1>4. m - n \in S /\ n + (m - n) = m
  BY <1>3
<1> QED BY <1>4

(* The fade-in of an icon never ends just if its idle time is 13 seconds or*)
(* more.                                                                   *)
THEOREM LongIdleNeverEnds ==
  \A i \in Nat : FadeOffset(i) < FadeFloor <=> i >= 13000
<1> SUFFICES ASSUME NEW i \in Nat PROVE FadeOffset(i) < FadeFloor <=> i >= 13000
  OBVIOUS
<1>1. IdleTicks(i) \in Nat /\ (IdleTicks(i) >= 52 <=> i >= 13000)
  <2>1. 1000000 \div Suspend = 4
    BY SMT DEF Suspend
  <2>2. IdleTicks(i) = (i * 4) \div 1000
    BY <2>1, SMT DEF IdleTicks
  <2> QED BY <2>2, SMT
<1> DEFINE n == IdleTicks(i) + 1
<1>2. Quotient[n] \in Nat /\ Quotient[52] \in Nat /\ Quotient[53] \in Nat
  BY <1>1, QuotientValues, SMT
<1>3. n >= 53 => Quotient[n] <= Quotient[53]
  BY <1>1, QuotientDecreases
<1>4. n < 53 => Quotient[n] >= Quotient[52]
  BY <1>1, QuotientDecreases
<1>5. FadeOffset(i) < FadeFloor <=> Quotient[n] < FadeFloor * FixedPoint
  BY <1>2, SMT DEF FadeOffset, FadeFloor, FixedPoint
<1>6. n >= 53 <=> i >= 13000
  BY <1>1
<1>7. FadeFloor * FixedPoint \in Nat /\ n \in Nat
  BY <1>1, SMT DEF FadeFloor, FixedPoint
<1> HIDE DEF n
<1> QED BY <1>2, <1>3, <1>4, <1>5, <1>6, <1>7, FloorReached

=============================================================================
