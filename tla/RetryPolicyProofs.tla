-------------------------- MODULE RetryPolicyProofs --------------------------
(***************************************************************************)
(* The retry schedule for integers of any width: the delays are the        *)
(* documented ones and never shrink, wherever the product saturates.       *)
(***************************************************************************)
EXTENDS MCRetryPolicy, SequenceTheorems, WellFoundedInduction, TLAPS

(* Induction on 0..n, by the least member that would be missing. *)
LEMMA UpTo ==
  ASSUME NEW n \in Nat, NEW S, 0 \in S,
         \A k \in 0..n : k \in S /\ k < n => k + 1 \in S
  PROVE  0..n \subseteq S
<1> DEFINE Missing == (0..n) \ S
<1>1. SUFFICES ASSUME Missing # {} PROVE FALSE
  OBVIOUS
<1>2. Missing \subseteq Nat
  OBVIOUS
<1>3. PICK k \in Missing : \A j \in Missing : ~ (<<j, k>> \in OpToRel(<, Nat))
  <2> HIDE DEF Missing
  <2> QED BY <1>1, <1>2, NatLessThanWellFounded, WFMin
<1>4. \A j \in Missing : ~ (j < k)
  BY <1>2, <1>3 DEF OpToRel
<1>5. k # 0 /\ k - 1 \in 0..n /\ k - 1 < n
  OBVIOUS
<1>6. k - 1 \in S
  BY <1>4, <1>5
<1> QED BY <1>5, <1>6

(* b lists the powers of 2 up to the n-th. *)
Doubles(b, n) == b = [i \in 0..n |-> IF i = 0 THEN 1 ELSE 2 * b[i - 1]]

(* Two lists agree as far as both go. *)
LEMMA DoublesAgree ==
  ASSUME NEW n \in Nat, NEW m \in 0..n, NEW b, NEW c, Doubles(b, n), Doubles(c, m)
  PROVE  \A k \in 0..m : b[k] = c[k]
<1> DEFINE S == {k \in 0..m : b[k] = c[k]}
<1>1. /\ \A i \in 0..n : b[i] = IF i = 0 THEN 1 ELSE 2 * b[i - 1]
      /\ \A i \in 0..m : c[i] = IF i = 0 THEN 1 ELSE 2 * c[i - 1]
  BY DEF Doubles
<1>2. 0 \in S
  BY <1>1
<1>3. ASSUME NEW k \in 0..m, k \in S, k < m PROVE k + 1 \in S
  <2>1. k + 1 \in 0..m /\ k + 1 \in 0..n /\ k + 1 # 0 /\ (k + 1) - 1 = k
    BY <1>3
  <2>2. b[k + 1] = 2 * b[k] /\ c[k + 1] = 2 * c[k]
    BY <1>1, <2>1
  <2> QED BY <1>3, <2>1, <2>2
<1>4. m \in Nat
  OBVIOUS
<1>5. 0..m \subseteq S
  <2> HIDE DEF S
  <2> QED BY <1>2, <1>3, <1>4, UpTo
<1> QED BY <1>5

(* There is such a list of every length. *)
LEMMA DoublesExist ==
  ASSUME NEW n \in Nat
  PROVE  \E b : Doubles(b, n)
<1> DEFINE S == {k \in 0..n : \E b : Doubles(b, k)}
<1>1. 0 \in S
  <2>1. Doubles([k \in 0..0 |-> 1], 0)
    BY DEF Doubles
  <2> QED BY <2>1
<1>2. ASSUME NEW k \in 0..n, k \in S, k < n PROVE k + 1 \in S
  <2>1. PICK b : Doubles(b, k)
    BY <1>2
  <2>2. k \in Nat /\ \A j \in 0..k : b[j] = IF j = 0 THEN 1 ELSE 2 * b[j - 1]
    BY <2>1 DEF Doubles
  <2> DEFINE g == [j \in 0..(k + 1) |-> IF j = k + 1 THEN 2 * b[k] ELSE b[j]]
  <2>3. ASSUME NEW j \in 0..(k + 1)
        PROVE  g[j] = IF j = 0 THEN 1 ELSE 2 * g[j - 1]
    <3>1. CASE j = k + 1
      BY <2>2, <3>1
    <3>2. CASE j # k + 1
      <4>1. j \in 0..k
        BY <3>2, <2>2
      <4>2. g[j] = b[j] /\ (j # 0 => g[j - 1] = b[j - 1])
        BY <2>2, <4>1
      <4> QED BY <2>2, <4>1, <4>2
    <3> QED BY <3>1, <3>2
  <2>4. Doubles(g, k + 1)
    <3>1. g = [j \in 0..(k + 1) |-> g[j]]
      OBVIOUS
    <3> HIDE DEF g
    <3> QED BY <2>3, <3>1 DEF Doubles
  <2>5. \E x : Doubles(x, k + 1)
    BY <2>4
  <2> QED BY <1>2, <2>5
<1>3. 0..n \subseteq S
  <2> HIDE DEF S
  <2> QED BY <1>1, <1>2, UpTo
<1> QED BY <1>3

(* The n-th power is the last of any list of n. *)
LEMMA PowerIsListed ==
  ASSUME NEW n \in Nat
  PROVE  \E b : Doubles(b, n) /\ power2(n) = b[n]
<1> DEFINE bit == CHOOSE b : Doubles(b, n)
<1>1. Doubles(bit, n)
  BY DoublesExist
<1>2. power2(n) = bit[n]
  BY DEF power2, Doubles
<1> HIDE DEF bit
<1> QED BY <1>1, <1>2

(* Every power is twice the one before. *)
LEMMA PowerDoubles ==
  ASSUME NEW n \in Nat
  PROVE  power2(0) = 1 /\ power2(n + 1) = 2 * power2(n)
<1>1. PICK a : Doubles(a, 0) /\ power2(0) = a[0]
  BY PowerIsListed
<1>2. PICK b : Doubles(b, n) /\ power2(n) = b[n]
  BY PowerIsListed
<1>3. PICK c : Doubles(c, n + 1) /\ power2(n + 1) = c[n + 1]
  BY PowerIsListed
<1>4. a[0] = 1
  BY <1>1 DEF Doubles
<1>5. n \in 0..(n + 1) /\ n + 1 \in Nat /\ n \in 0..n
  OBVIOUS
<1>6. c[n] = b[n]
  BY <1>2, <1>3, <1>5, DoublesAgree
<1>7. c[n + 1] = 2 * c[n]
  <2>1. n + 1 \in 0..(n + 1) /\ n + 1 # 0 /\ (n + 1) - 1 = n
    OBVIOUS
  <2> QED BY <1>3, <2>1 DEF Doubles
<1> QED BY <1>1, <1>2, <1>3, <1>4, <1>6, <1>7

(* Powers are positive numbers ... *)
LEMMA PowerPositive ==
  ASSUME NEW n \in Nat
  PROVE  power2(n) \in Nat \ {0}
<1> DEFINE S == {k \in 0..n : power2(k) \in Nat \ {0}}
<1>1. 0 \in S
  BY PowerDoubles
<1>2. ASSUME NEW k \in 0..n, k \in S, k < n PROVE k + 1 \in S
  <2>1. power2(k + 1) = 2 * power2(k)
    BY <1>2, PowerDoubles
  <2> QED BY <1>2, <2>1
<1>3. 0..n \subseteq S
  <2> HIDE DEF S
  <2> QED BY <1>1, <1>2, UpTo
<1> QED BY <1>3

(* ... that grow. *)
LEMMA PowerGrows ==
  ASSUME NEW n \in Nat, NEW m \in 0..n
  PROVE  power2(m) <= power2(n)
<1> DEFINE S == {k \in 0..n : k < m \/ power2(m) <= power2(k)}
<1>0. \A k \in 0..n : power2(k) \in Nat \ {0}
  BY PowerPositive
<1>1. 0 \in S
  BY <1>0
<1>2. ASSUME NEW k \in 0..n, k \in S, k < n PROVE k + 1 \in S
  <2>1. power2(k + 1) = 2 * power2(k) /\ k + 1 \in 0..n
    BY <1>2, PowerDoubles
  <2>2. CASE k + 1 < m
    BY <2>1, <2>2
  <2>3. CASE k + 1 = m
    <3>1. power2(m) <= power2(k + 1)
      BY <1>0, <2>1, <2>3
    <3> QED BY <2>1, <3>1
  <2>4. CASE k + 1 > m
    <3>1. power2(m) <= power2(k)
      BY <1>2, <2>4
    <3>2. power2(m) <= power2(k + 1)
      BY <1>0, <2>1, <3>1
    <3> QED BY <2>1, <3>2
  <2> QED BY <2>2, <2>3, <2>4
<1>3. 0..n \subseteq S
  <2> HIDE DEF S
  <2> QED BY <1>1, <1>2, UpTo
<1> QED BY <1>3
-----------------------------------------------------------------------------
(* The smaller and the larger of two numbers. *)
LEMMA OfTwo ==
  ASSUME NEW a \in Int, NEW b \in Int
  PROVE  /\ Min({a, b}) = IF a <= b THEN a ELSE b
         /\ Max({a, b}) = IF a >= b THEN a ELSE b
<1>1. \A x \in {a, b} : (\A y \in {a, b} : x <= y) => x = IF a <= b THEN a ELSE b
  OBVIOUS
<1>2. \A x \in {a, b} : (\A y \in {a, b} : x >= y) => x = IF a >= b THEN a ELSE b
  OBVIOUS
<1>3. /\ \E x \in {a, b} : \A y \in {a, b} : x <= y
      /\ \E x \in {a, b} : \A y \in {a, b} : x >= y
  OBVIOUS
<1> QED BY <1>1, <1>2, <1>3 DEF Min, Max

(* The shift that the n-th failure is given. *)
Shift(n) == IF n - 1 <= MaxShift THEN n - 1 ELSE MaxShift

Product(p, n) == p.base_delay * power2(Shift(n))

(* The delay is the least of the product, the width and the cap; the width  *)
(* never matters, as the cap fits into it.                                  *)
LEMMA BackoffIsLeast ==
  ASSUME NEW p \in Policies, NEW n \in Nat \ {0}
  PROVE  /\ Shift(n) \in 0..MaxShift /\ Product(p, n) \in Nat
         /\ backoff(p, n) = IF Product(p, n) <= p.max_delay THEN Product(p, n) ELSE p.max_delay
<1>1. /\ p.base_delay \in 0..Max_u64 /\ p.max_delay \in 0..Max_u64
      /\ MaxShift \in Nat /\ Max_u64 \in Nat
  BY WidthAssumption DEF Policies
<1>2. saturating_sub(n, 1) = n - 1
  <2>1. n - 1 \in Int /\ 0 \in Int /\ n - 1 >= 0
    OBVIOUS
  <2> QED BY <2>1, OfTwo DEF saturating_sub
<1>3. Min({saturating_sub(n, 1), MaxShift}) = Shift(n) /\ Shift(n) \in 0..MaxShift
  BY <1>1, <1>2, OfTwo DEF Shift
<1>4. power2(Shift(n)) \in Nat
  BY <1>1, <1>3, PowerPositive
<1>5. PICK prod \in Nat : prod = Product(p, n)
  BY <1>1, <1>4 DEF Product
<1>6. saturating_mul(p.base_delay, power2(Shift(n))) =
        IF prod <= Max_u64 THEN prod ELSE Max_u64
  BY <1>1, <1>5, OfTwo DEF saturating_mul, Product
<1>7. backoff(p, n) = Min({IF prod <= Max_u64 THEN prod ELSE Max_u64, p.max_delay})
  BY <1>3, <1>6 DEF backoff
<1>8. Min({IF prod <= Max_u64 THEN prod ELSE Max_u64, p.max_delay}) =
        IF prod <= p.max_delay THEN prod ELSE p.max_delay
  <2>1. CASE prod <= Max_u64
    BY <1>1, <2>1, OfTwo
  <2>2. CASE prod > Max_u64
    BY <1>1, <2>2, OfTwo
  <2> QED BY <1>1, <2>1, <2>2
<1> QED BY <1>3, <1>5, <1>7, <1>8

(* One more failure makes the product no smaller. *)
LEMMA ProductGrows ==
  ASSUME NEW b \in Nat, NEW x \in Nat, NEW y \in Nat, x <= y
  PROVE  b * x <= b * y
<1>1. PICK d \in Nat : y = x + d
  <2>1. y - x \in Nat /\ y = x + (y - x)
    OBVIOUS
  <2> QED BY <2>1
<1>2. b * y = b * x + b * d /\ b * d \in Nat /\ b * x \in Nat
  BY <1>1
<1> QED BY <1>2

(* The delays so far are those of the policy, one for each failure. *)
ScheduleInv ==
  /\ policy \in Policies
  /\ attempts \in Nat
  /\ delays \in Seq(Nat)
  /\ \A n \in 1..Len(delays) : delays[n] = backoff(policy, n)
  /\ ~ is_exhausted(policy, attempts) => Len(delays) = attempts

(* A mail that was never tried has no delays. *)
LEMMA ScheduleInit == Init => ScheduleInv
<1> SUFFICES ASSUME Init PROVE ScheduleInv
  OBVIOUS
<1>1. delays \in Seq(Nat) /\ Len(delays) = 0
  BY DEF Init
<1> QED BY <1>1 DEF Init, ScheduleInv

(* Every failure adds the delay of its number. *)
LEMMA ScheduleNext ==
  ASSUME ScheduleInv, [FailOnce \/ FailPanics \/ FailLast]_vars
  PROVE  ScheduleInv'
<1>0. /\ policy \in Policies /\ attempts \in Nat /\ delays \in Seq(Nat)
      /\ policy.max_attempts \in Nat
  BY BoundsAssumption DEF ScheduleInv, Policies
<1>1. CASE FailOnce
  <2>1. PICK delay : delay = backoff(policy, attempts + 1)
    OBVIOUS
  <2>2. delay \in Nat
    BY <1>0, <2>1, BackoffIsLeast DEF Policies
  <2>3. /\ ~ is_exhausted(policy, attempts + 1) /\ attempts' = attempts + 1
        /\ delays' = Append(delays, delay) /\ policy' = policy
    BY <1>1, <2>1 DEF FailOnce
  <2>4. Len(delays) = attempts
    BY <1>0, <2>3 DEF ScheduleInv, is_exhausted
  <2>5. delays' \in Seq(Nat) /\ Len(delays') = attempts + 1
    BY <1>0, <2>2, <2>3, <2>4
  <2>6. ASSUME NEW n \in 1..Len(delays') PROVE delays'[n] = backoff(policy, n)
    <3>1. CASE n = attempts + 1
      BY <1>0, <2>1, <2>2, <2>3, <2>4, <3>1
    <3>2. CASE n # attempts + 1
      <4>1. n \in 1..Len(delays) /\ delays'[n] = delays[n]
        BY <1>0, <2>2, <2>3, <2>4, <2>5, <3>2
      <4> QED BY <4>1 DEF ScheduleInv
    <3> QED BY <3>1, <3>2
  <2> QED BY <1>0, <2>3, <2>5, <2>6 DEF ScheduleInv
<1>2. CASE FailLast
  BY <1>0, <1>2 DEF FailLast, ScheduleInv, is_exhausted
<1>3. CASE FailPanics \/ UNCHANGED vars
  BY <1>3 DEF FailPanics, vars, ScheduleInv
<1> QED BY <1>1, <1>2, <1>3

(* The schedule of a mail is the one of its policy, to its last retry. *)
LEMMA AlwaysScheduled == Spec => []ScheduleInv
BY ScheduleInit, ScheduleNext, PTL DEF Spec

(* The delays of a schedule, spelled out. *)
LEMMA Scheduled ==
  ASSUME ScheduleInv, NEW n \in 1..Len(delays)
  PROVE  /\ Product(policy, n) \in Nat
         /\ delays[n] = IF Product(policy, n) <= policy.max_delay
                        THEN Product(policy, n) ELSE policy.max_delay
<1>1. policy \in Policies /\ n \in Nat \ {0} /\ delays[n] = backoff(policy, n)
  BY DEF ScheduleInv
<1> QED BY <1>1, BackoffIsLeast

(* For every width, policy and number of failures: no delay is shorter than *)
(* the one before it, and none exceeds max_delay.                           *)
THEOREM DelaysDoNotShrink == Spec => []DelaysNeverShrink
<1>1. ASSUME ScheduleInv PROVE DelaysNeverShrink
  <2> SUFFICES ASSUME NEW n \in DOMAIN delays
               PROVE  /\ delays[n] <= policy.max_delay
                      /\ n > 1 => delays[n - 1] <= delays[n]
    BY DEF DelaysNeverShrink
  <2>1. /\ policy \in Policies /\ n \in 1..Len(delays) /\ n \in Nat \ {0}
        /\ policy.max_delay \in Nat /\ policy.base_delay \in Nat /\ MaxShift \in Nat
    BY <1>1, WidthAssumption DEF ScheduleInv, Policies
  <2>2. delays[n] <= policy.max_delay
    BY <1>1, <2>1, Scheduled
  <2>3. ASSUME n > 1 PROVE delays[n - 1] <= delays[n]
    <3>1. n - 1 \in 1..Len(delays) /\ n - 1 \in Nat \ {0}
      BY <1>1, <2>1, <2>3 DEF ScheduleInv
    <3>2. Shift(n - 1) \in 0..Shift(n) /\ Shift(n) \in Nat
      BY <2>1, <3>1, BackoffIsLeast DEF Shift
    <3>3. power2(Shift(n - 1)) <= power2(Shift(n))
      BY <3>2, PowerGrows
    <3>4. Product(policy, n - 1) <= Product(policy, n)
      <4>1. power2(Shift(n - 1)) \in Nat /\ power2(Shift(n)) \in Nat
        BY <3>2, PowerPositive
      <4> QED BY <2>1, <3>3, <4>1, ProductGrows DEF Product
    <3>5. Product(policy, n) \in Nat /\ Product(policy, n - 1) \in Nat
      BY <2>1, <3>1, BackoffIsLeast
    <3>6. /\ delays[n] = IF Product(policy, n) <= policy.max_delay
                         THEN Product(policy, n) ELSE policy.max_delay
          /\ delays[n - 1] = IF Product(policy, n - 1) <= policy.max_delay
                             THEN Product(policy, n - 1) ELSE policy.max_delay
      BY <1>1, <2>1, <3>1, Scheduled
    <3> QED BY <2>1, <3>4, <3>5, <3>6
  <2> QED BY <2>2, <2>3
<1> QED BY <1>1, AlwaysScheduled, PTL

(* For every width, policy and number of failures: as long as the shift is  *)
(* not cut off below the cap, the n-th delay is base * 2^(n - 1), at most   *)
(* max_delay, as if numbers had no limit.                                   *)
THEOREM BackoffIsDocumented == Spec => []BackoffIsReference
<1>1. ASSUME ScheduleInv PROVE BackoffIsReference
  <2> SUFFICES ASSUME NEW n \in DOMAIN delays,
                      \/ n <= MaxShift + 1
                      \/ policy.base_delay * power2(MaxShift) >= policy.max_delay
               PROVE  delays[n] = Min({policy.base_delay * power2(n - 1), policy.max_delay})
    BY DEF BackoffIsReference
  <2>1. /\ policy \in Policies /\ n \in 1..Len(delays) /\ n \in Nat \ {0}
        /\ policy.max_delay \in Nat /\ policy.base_delay \in Nat /\ MaxShift \in Nat
        /\ n - 1 \in Nat
    BY <1>1, WidthAssumption DEF ScheduleInv, Policies
  <2>2. PICK exact \in Nat : exact = policy.base_delay * power2(n - 1)
    <3>1. power2(n - 1) \in Nat
      BY <2>1, PowerPositive
    <3> QED BY <2>1, <3>1
  <2>3. Min({exact, policy.max_delay}) =
          IF exact <= policy.max_delay THEN exact ELSE policy.max_delay
    BY <2>1, <2>2, OfTwo
  <2>4. /\ Product(policy, n) \in Nat
        /\ delays[n] = IF Product(policy, n) <= policy.max_delay
                       THEN Product(policy, n) ELSE policy.max_delay
    BY <1>1, <2>1, Scheduled
  <2>5. CASE n <= MaxShift + 1
    <3>1. Product(policy, n) = exact
      BY <2>1, <2>2, <2>5 DEF Product, Shift
    <3> QED BY <2>2, <2>3, <2>4, <3>1
  <2>6. CASE n > MaxShift + 1
    <3>1. Shift(n) = MaxShift /\ MaxShift \in 0..(n - 1)
      BY <2>1, <2>6 DEF Shift
    <3>2. power2(MaxShift) <= power2(n - 1)
      BY <2>1, <3>1, PowerGrows
    <3>3. Product(policy, n) <= exact
      <4>1. power2(MaxShift) \in Nat /\ power2(n - 1) \in Nat
        BY <2>1, PowerPositive
      <4> QED BY <2>1, <2>2, <3>1, <3>2, <4>1, ProductGrows DEF Product
    <3>4. Product(policy, n) >= policy.max_delay
      BY <2>1, <2>6, <3>1 DEF Product
    <3> QED BY <2>1, <2>2, <2>3, <2>4, <3>3, <3>4
  <2> QED BY <2>1, <2>5, <2>6
<1> QED BY <1>1, AlwaysScheduled, PTL
-----------------------------------------------------------------------------
(* A multiple of d is at least d away from the next. *)
LEMMA Multiples ==
  ASSUME NEW d \in Nat \ {0}, NEW p \in Int, NEW q \in Int, p < q
  PROVE  d * p + d <= d * q
<1>1. PICK e \in Nat : q = p + 1 + e
  <2>1. q - p - 1 \in Nat /\ q = p + 1 + (q - p - 1)
    OBVIOUS
  <2> QED BY <2>1
<1>2. d * q = d * p + d + d * e /\ d * e \in Nat /\ d * p \in Int
  BY <1>1
<1> QED BY <1>2

(* Quotient and remainder, as the product they stand for. *)
LEMMA Division ==
  ASSUME NEW t \in Int, NEW d \in Nat \ {0}
  PROVE  /\ t \div d \in Int /\ t % d \in 0..(d - 1)
         /\ t = d * (t \div d) + (t % d)
OBVIOUS

(* The number with quotient q and remainder r. *)
Number(d, q, r) == d * q + r

(* Two numbers compare as their quotients, then as their remainders. *)
LEMMA ByQuotient ==
  ASSUME NEW d \in Nat \ {0}, NEW p \in Int, NEW q \in Int,
         NEW r \in 0..(d - 1), NEW s \in 0..(d - 1)
  PROVE  Number(d, p, r) < Number(d, q, s) <=> p < q \/ (p = q /\ r < s)
<1> USE DEF Number
<1>1. d * p \in Int /\ d * q \in Int
  OBVIOUS
<1>2. CASE p < q
  <2>1. d * p + d <= d * q
    BY <1>2, Multiples
  <2> QED BY <1>1, <1>2, <2>1
<1>3. CASE q < p
  <2>1. d * q + d <= d * p
    BY <1>3, Multiples
  <2> QED BY <1>1, <1>3, <2>1
<1>4. CASE p = q
  BY <1>1, <1>4
<1> QED BY <1>2, <1>3, <1>4

(* There is only one quotient and one remainder. *)
LEMMA DivisionIsUnique ==
  ASSUME NEW d \in Nat \ {0}, NEW q \in Int, NEW r \in 0..(d - 1),
         NEW t \in Int, t = d * q + r
  PROVE  t \div d = q /\ t % d = r
<1>1. PICK p \in Int, s \in 0..(d - 1) : p = t \div d /\ s = t % d /\ t = d * p + s
  BY Division
<1>2. Number(d, p, s) = Number(d, q, r)
  BY <1>1 DEF Number
<1>3. ~ (Number(d, p, s) < Number(d, q, r)) /\ ~ (Number(d, q, r) < Number(d, p, s))
  BY <1>2 DEF Number
<1>4. ~ (p < q \/ (p = q /\ s < r)) /\ ~ (q < p \/ (q = p /\ r < s))
  BY <1>3, ByQuotient
<1> QED BY <1>1, <1>4

(* Dividing by a, then by b, is dividing by a * b. *)
LEMMA DivideTwice ==
  ASSUME NEW a \in Nat \ {0}, NEW b \in Nat \ {0},
         NEW p \in Int, NEW s \in 0..(b - 1), NEW r \in 0..(a - 1)
  PROVE  /\ a * b \in Nat \ {0}
         /\ a * s + r \in 0..(a * b - 1)
         /\ a * (b * p + s) + r = (a * b) * p + (a * s + r)
<1>1. PICK c \in Nat : b = s + 1 + c
  <2>1. b - s - 1 \in Nat /\ b = s + 1 + (b - s - 1)
    OBVIOUS
  <2> QED BY <2>1
<1>2. a * b = a * s + a + a * c /\ a * c \in Nat /\ a * s \in Nat
  BY <1>1
<1>3. a * (b * p + s) + r = (a * b) * p + (a * s + r)
  <2>1. a * (b * p + s) = a * (b * p) + a * s
    OBVIOUS
  <2>2. a * (b * p) = (a * b) * p
    OBVIOUS
  <2>3. a * (b * p) \in Int /\ a * s \in Int
    OBVIOUS
  <2> QED BY <2>1, <2>2, <2>3
<1> QED BY <1>2, <1>3
-----------------------------------------------------------------------------
(* The numbers that are printed. *)
YearOf(t)  == t \div Year
RestOf(t)  == (t % Year) \div Second
MilliOf(t) == (t \div (SubSec * SubSec)) % SubSec
MicroOf(t) == (t \div SubSec) % SubSec
NanoOf(t)  == t % SubSec

(* The part of a second. *)
PartOf(t) == (MilliOf(t) * SubSec + MicroOf(t)) * SubSec + NanoOf(t)

(* Units are positive. *)
LEMMA Units ==
  /\ SubSec \in Nat \ {0} /\ SubSec * SubSec \in Nat \ {0}
  /\ Second \in Nat \ {0} /\ SecsPerYear \in Nat \ {0} /\ Year \in Nat \ {0}
  /\ Second = (SubSec * SubSec) * SubSec /\ Year = Second * SecsPerYear
<1>1. SubSec \in Nat \ {0} /\ SecsPerYear \in Nat \ {0}
  BY StoredTimeAssumption
<1>2. \A a, b \in Nat \ {0} : a * b \in Nat \ {0}
  OBVIOUS
<1>3. SubSec * SubSec \in Nat \ {0}
  BY <1>1, <1>2
<1>4. Second = (SubSec * SubSec) * SubSec /\ Second \in Nat \ {0}
  BY <1>1, <1>2, <1>3 DEF Second
<1>5. Year = Second * SecsPerYear
  BY <1>1, <1>4 DEF Year
<1>6. Year \in Nat \ {0}
  <2> HIDE DEF Second
  <2> QED BY <1>1, <1>2, <1>4, <1>5
<1> QED BY <1>1, <1>3, <1>4, <1>5, <1>6

(* What is printed is the time in mixed radix. *)
LEMMA Printed ==
  ASSUME NEW t \in Int
  PROVE  /\ YearOf(t) \in Int /\ RestOf(t) \in 0..(SecsPerYear - 1)
         /\ MilliOf(t) \in 0..(SubSec - 1) /\ MicroOf(t) \in 0..(SubSec - 1)
         /\ NanoOf(t) \in 0..(SubSec - 1)
         /\ PartOf(t) \in 0..(Second - 1)
         /\ Second * RestOf(t) + PartOf(t) \in 0..(Year - 1)
         /\ t = Year * YearOf(t) + (Second * RestOf(t) + PartOf(t))
<1> DEFINE S == SubSec
           n == t % S       q1 == t \div S
           u == q1 % S      q2 == q1 \div S
           m == q2 % S      q3 == q2 \div S
           r == q3 % SecsPerYear   y == q3 \div SecsPerYear
           f == (S * S) * m + (S * u + n)
<1>1. q1 \in Int /\ n \in 0..(S - 1) /\ t = S * q1 + n
  BY Units, Division
<1>2. q2 \in Int /\ u \in 0..(S - 1) /\ q1 = S * q2 + u
  <2> HIDE DEF q1
  <2> QED BY <1>1, Units, Division
<1>3. q3 \in Int /\ m \in 0..(S - 1) /\ q2 = S * q3 + m
  <2> HIDE DEF q2
  <2> QED BY <1>2, Units, Division
<1>4. y \in Int /\ r \in 0..(SecsPerYear - 1) /\ q3 = SecsPerYear * y + r
  <2> HIDE DEF q3
  <2> QED BY <1>3, Units, Division
<1> HIDE DEF n, q1, u, q2, m, q3, r, y
<1>5. /\ t = (S * S) * q2 + (S * u + n)
      /\ S * u + n \in 0..(S * S - 1)
  BY <1>1, <1>2, Units, DivideTwice
<1>6. /\ t = Second * q3 + f
      /\ f \in 0..(Second - 1)
  BY <1>5, <1>3, Units, DivideTwice
<1> HIDE DEF f
<1>7. /\ t = Year * y + (Second * r + f)
      /\ Second * r + f \in 0..(Year - 1)
  BY <1>6, <1>4, Units, DivideTwice
<1>8. NanoOf(t) = n /\ MicroOf(t) = u
  BY DEF NanoOf, MicroOf, n, u, q1
<1>9. MilliOf(t) = m
  <2>1. t \div (S * S) = q2
    BY <1>5, <1>2, Units, DivisionIsUnique
  <2> QED BY <2>1 DEF MilliOf, m
<1>10. YearOf(t) = y /\ t % Year = Second * r + f
  BY <1>7, <1>4, Units, DivisionIsUnique DEF YearOf
<1>11. RestOf(t) = r
  <2>1. (Second * r + f) \div Second = r
    <3>1. Second * r + f \in Int
      BY <1>7
    <3> QED BY <1>4, <1>6, <3>1, Units, DivisionIsUnique
  <2> QED BY <1>10, <2>1 DEF RestOf
<1>12. PartOf(t) = f
  <2>1. (m * S + u) * S + n = (S * S) * m + (S * u + n)
    BY <1>1, <1>2, <1>3, Units
  <2> QED BY <1>8, <1>9, <2>1 DEF PartOf, f
<1> QED BY <1>1, <1>2, <1>3, <1>4, <1>6, <1>7, <1>8, <1>9, <1>10, <1>11, <1>12

(* The types of what is printed, alone. *)
LEMMA PrintedTypes ==
  ASSUME NEW t \in Int
  PROVE  /\ YearOf(t) \in Int /\ RestOf(t) \in Nat
         /\ MilliOf(t) \in Nat /\ MicroOf(t) \in Nat /\ NanoOf(t) \in Nat
<1>1. SubSec \in Nat /\ SecsPerYear \in Nat
  BY Units
<1>2. /\ YearOf(t) \in Int /\ RestOf(t) \in 0..(SecsPerYear - 1)
      /\ MilliOf(t) \in 0..(SubSec - 1) /\ MicroOf(t) \in 0..(SubSec - 1)
      /\ NanoOf(t) \in 0..(SubSec - 1)
  BY Printed
<1> QED BY <1>1, <1>2

(* The parts of a second compare digit by digit. *)
LEMMA ByPart ==
  ASSUME NEW a \in Int, NEW b \in Int
  PROVE  PartOf(a) < PartOf(b) <=>
           \/ MilliOf(a) < MilliOf(b)
           \/ /\ MilliOf(a) = MilliOf(b)
              /\ \/ MicroOf(a) < MicroOf(b)
                 \/ MicroOf(a) = MicroOf(b) /\ NanoOf(a) < NanoOf(b)
<1>0. SubSec \in Nat \ {0}
  BY Units
<1>1. /\ MilliOf(a) \in 0..(SubSec - 1) /\ MilliOf(b) \in 0..(SubSec - 1)
      /\ MicroOf(a) \in 0..(SubSec - 1) /\ MicroOf(b) \in 0..(SubSec - 1)
      /\ NanoOf(a) \in 0..(SubSec - 1) /\ NanoOf(b) \in 0..(SubSec - 1)
  BY Printed
<1> DEFINE upper(t) == Number(SubSec, MilliOf(t), MicroOf(t))
<1>2. upper(a) \in Int /\ upper(b) \in Int
  BY <1>0, <1>1 DEF Number
<1>3. /\ PartOf(a) = Number(SubSec, upper(a), NanoOf(a))
      /\ PartOf(b) = Number(SubSec, upper(b), NanoOf(b))
  BY <1>0, <1>1 DEF PartOf, Number
<1>4. upper(a) < upper(b) <=>
        MilliOf(a) < MilliOf(b) \/ (MilliOf(a) = MilliOf(b) /\ MicroOf(a) < MicroOf(b))
  BY <1>0, <1>1, ByQuotient
<1>5. upper(a) = upper(b) <=> MilliOf(a) = MilliOf(b) /\ MicroOf(a) = MicroOf(b)
  <2>1. upper(b) < upper(a) <=>
          MilliOf(b) < MilliOf(a) \/ (MilliOf(b) = MilliOf(a) /\ MicroOf(b) < MicroOf(a))
    BY <1>0, <1>1, ByQuotient
  <2> HIDE DEF upper
  <2>2. upper(a) = upper(b) => MilliOf(a) = MilliOf(b) /\ MicroOf(a) = MicroOf(b)
    BY <1>1, <1>2, <1>4, <2>1
  <2>3. MilliOf(a) = MilliOf(b) /\ MicroOf(a) = MicroOf(b) => upper(a) = upper(b)
    BY DEF upper
  <2> QED BY <2>2, <2>3
<1>6. PartOf(a) < PartOf(b) <=>
        upper(a) < upper(b) \/ (upper(a) = upper(b) /\ NanoOf(a) < NanoOf(b))
  <2> HIDE DEF upper
  <2> QED BY <1>0, <1>1, <1>2, <1>3, ByQuotient
<1> HIDE DEF upper
<1> QED BY <1>4, <1>5, <1>6

(* Times compare as the numbers that are printed, from left to right. *)
LEMMA ByPrinted ==
  ASSUME NEW a \in Int, NEW b \in Int
  PROVE  a < b <=>
           \/ YearOf(a) < YearOf(b)
           \/ /\ YearOf(a) = YearOf(b)
              /\ RestOf(a) < RestOf(b) \/ (RestOf(a) = RestOf(b) /\ PartOf(a) < PartOf(b))
<1>0. Second \in Nat \ {0} /\ Year \in Nat \ {0}
  BY Units
<1> DEFINE rest(t) == Number(Second, RestOf(t), PartOf(t))
<1>1. /\ YearOf(a) \in Int /\ YearOf(b) \in Int
      /\ RestOf(a) \in Int /\ RestOf(b) \in Int
      /\ PartOf(a) \in 0..(Second - 1) /\ PartOf(b) \in 0..(Second - 1)
      /\ rest(a) \in 0..(Year - 1) /\ rest(b) \in 0..(Year - 1)
      /\ a = Number(Year, YearOf(a), rest(a)) /\ b = Number(Year, YearOf(b), rest(b))
  BY Printed DEF Number
<1>2. rest(a) < rest(b) <=>
        RestOf(a) < RestOf(b) \/ (RestOf(a) = RestOf(b) /\ PartOf(a) < PartOf(b))
  BY <1>0, <1>1, ByQuotient
<1>3. a < b <=> YearOf(a) < YearOf(b) \/ (YearOf(a) = YearOf(b) /\ rest(a) < rest(b))
  <2> HIDE DEF rest
  <2> QED BY <1>0, <1>1, ByQuotient
<1> HIDE DEF rest
<1> QED BY <1>2, <1>3

(* Years of four digits, and the years before them. *)
LEMMA YearIsPrintable ==
  ASSUME NEW t \in Int
  PROVE  /\ FourDigits(t) => YearOf(t) \in 0..LastYear
         /\ t < 0 => YearOf(t) < 0
<1>1. PICK y \in Int, r \in 0..(Year - 1) : y = YearOf(t) /\ t = Year * y + r
  BY Printed
<1>2. Year \in Nat \ {0} /\ LastYear + 1 \in Int /\ Year * y \in Int
  BY <1>1, Units, StoredTimeAssumption
<1>3. y < 0 => t < 0
  <2>1. y < 0 => Year * y + Year <= Year * 0
    BY <1>2, Multiples
  <2> QED BY <1>1, <1>2, <2>1
<1>4. y >= 0 => t >= 0
  BY <1>1, <1>2
<1>5. y > LastYear => t >= (LastYear + 1) * Year
  <2>1. CASE y = LastYear + 1
    BY <1>1, <1>2, <2>1
  <2>2. CASE y > LastYear + 1
    <3>1. Year * (LastYear + 1) + Year <= Year * y
      BY <1>2, <2>2, Multiples
    <3> QED BY <1>1, <1>2, <3>1
  <2>3. LastYear \in Int
    BY StoredTimeAssumption
  <2> QED BY <1>1, <2>1, <2>2, <2>3
<1>6. (LastYear + 1) * Year \in Int
  BY <1>2
<1> QED BY <1>1, <1>2, <1>3, <1>4, <1>5, <1>6, StoredTimeAssumption DEF FourDigits
-----------------------------------------------------------------------------
(* How many groups of the fraction are printed. *)
GroupsOf(t) ==
  CASE MilliOf(t) = 0 /\ MicroOf(t) = 0 /\ NanoOf(t) = 0 -> 0
    [] MilliOf(t) # 0 /\ MicroOf(t) = 0 /\ NanoOf(t) = 0 -> 1
    [] MicroOf(t) # 0 /\ NanoOf(t) = 0 -> 2
    [] OTHER -> 3

(* A text with n groups after the year and the rest of date and time. *)
Shaped(text, t, n) ==
  /\ text \in Seq(Int) /\ Len(text) >= 3
  /\ text[1] = Digit + YearOf(t) /\ text[2] = Digit + RestOf(t)
  /\ n = 0 => Len(text) = 3 /\ text[3] = Plus
  /\ n # 0 => Len(text) >= 5 /\ text[3] = Dot /\ text[4] = Digit + MilliOf(t)
  /\ n = 1 => Len(text) = 5 /\ text[5] = Plus
  /\ n \in {2, 3} => Len(text) >= 6 /\ text[5] = Digit + MicroOf(t)
  /\ n = 2 => Len(text) = 6 /\ text[6] = Plus
  /\ n = 3 => Len(text) = 7 /\ text[6] = Digit + NanoOf(t) /\ text[7] = Plus

(* What stands where in a text. *)
JoinedOf(text, y, r, f, p) ==
  /\ text \in Seq(Int) /\ Len(text) = Len(f) + 3
  /\ text[1] = y /\ text[2] = r /\ text[Len(f) + 3] = p
  /\ \A i \in 1..Len(f) : text[i + 2] = f[i]

(* It stands there. *)
LEMMA Joined ==
  ASSUME NEW y \in Int, NEW r \in Int, NEW f \in Seq(Int), NEW p \in Int
  PROVE  JoinedOf((<<y>> \o <<r>>) \o f \o <<p>>, y, r, f, p)
<1> DEFINE text == (<<y>> \o <<r>>) \o f \o <<p>>
<1>1. PICK a : a = <<y>> \o <<r>>
  OBVIOUS
<1>2. a \in Seq(Int) /\ Len(a) = 2 /\ a[1] = y /\ a[2] = r
  BY <1>1
<1>3. PICK b : b = a \o f
  OBVIOUS
<1>4. /\ b \in Seq(Int) /\ Len(b) = 2 + Len(f) /\ b[1] = y /\ b[2] = r
      /\ \A i \in 1..Len(f) : b[i + 2] = f[i]
  <2>1. /\ b \in Seq(Int) /\ Len(b) = 2 + Len(f) /\ Len(f) \in Nat
        /\ \A i \in 1..(2 + Len(f)) : b[i] = IF i <= 2 THEN a[i] ELSE f[i - 2]
    <3>1. /\ a \o f \in Seq(Int) /\ Len(a \o f) = Len(a) + Len(f)
          /\ \A i \in 1..(Len(a) + Len(f)) :
               (a \o f)[i] = IF i <= Len(a) THEN a[i] ELSE f[i - Len(a)]
      BY <1>2, ConcatProperties
    <3> QED BY <1>2, <1>3, <3>1
  <2>2. ASSUME NEW i \in 1..Len(f) PROVE b[i + 2] = f[i]
    <3>1. i + 2 \in 1..(2 + Len(f)) /\ ~ (i + 2 <= 2) /\ (i + 2) - 2 = i
      BY <2>1
    <3> QED BY <2>1, <3>1
  <2> QED BY <1>2, <2>1, <2>2
<1>5. text = b \o <<p>>
  BY <1>1, <1>3
<1> HIDE DEF text
<1>6. JoinedOf(text, y, r, f, p)
  BY <1>4, <1>5 DEF JoinedOf
<1> QED BY <1>6 DEF text

(* A group that is not printed is zero. *)
LEMMA Groups ==
  ASSUME NEW t \in Int
  PROVE  /\ GroupsOf(t) \in 0..3
         /\ GroupsOf(t) < 1 => MilliOf(t) = 0
         /\ GroupsOf(t) < 2 => MicroOf(t) = 0
         /\ GroupsOf(t) < 3 => NanoOf(t) = 0
BY Printed DEF GroupsOf

(* The text of a time whose year has four digits. *)
LEMMA TextIsShaped ==
  ASSUME NEW t \in Int, FourDigits(t)
  PROVE  Shaped(to_rfc3339(t), t, GroupsOf(t))
<1> DEFINE y == Digit + YearOf(t)   r == Digit + RestOf(t)
           m == Digit + MilliOf(t)  u == Digit + MicroOf(t)  n == Digit + NanoOf(t)
<1>1. date_text(t) = <<y>> \o <<r>>
  <2>1. YearOf(t) \in 0..LastYear /\ LastYear \in Nat
    BY YearIsPrintable, StoredTimeAssumption
  <2>2. ~ (YearOf(t) < 0) /\ ~ (YearOf(t) > LastYear)
    BY <2>1
  <2> QED BY <2>2 DEF date_text, YearOf, RestOf
<1>2. fraction_text(t) = CASE GroupsOf(t) = 0 -> <<>>
                           [] GroupsOf(t) = 1 -> <<Dot, m>>
                           [] GroupsOf(t) = 2 -> <<Dot, m, u>>
                           [] GroupsOf(t) = 3 -> <<Dot, m, u, n>>
  BY Printed DEF fraction_text, GroupsOf, MilliOf, MicroOf, NanoOf
<1>3. /\ y \in Int /\ r \in Int /\ m \in Int /\ u \in Int /\ n \in Int
      /\ Dot \in Int /\ Plus \in Int /\ Dot = 46 /\ Plus = 43
  BY PrintedTypes DEF Digit, Dot, Plus
<1> HIDE DEF y, r, m, u, n
<1>4. GroupsOf(t) \in 0..3
  BY Groups
<1>5. PICK f : f = fraction_text(t)
  OBVIOUS
<1> DEFINE FractionIs(k) ==
             /\ f \in Seq(Int) /\ Len(f) = IF k = 0 THEN 0 ELSE k + 1
             /\ k >= 1 => f[1] = Dot /\ f[2] = m
             /\ k >= 2 => f[3] = u
             /\ k >= 3 => f[4] = n
<1>6. FractionIs(GroupsOf(t))
  <2>1. CASE GroupsOf(t) = 0
    <3>1. f = <<>>
      BY <1>2, <1>5, <2>1
    <3> QED BY <2>1, <3>1
  <2>2. CASE GroupsOf(t) = 1
    <3>1. f = <<Dot, m>>
      BY <1>2, <1>5, <2>2
    <3> QED BY <1>3, <2>2, <3>1
  <2>3. CASE GroupsOf(t) = 2
    <3>1. f = <<Dot, m, u>>
      BY <1>2, <1>5, <2>3
    <3> QED BY <1>3, <2>3, <3>1
  <2>4. CASE GroupsOf(t) = 3
    <3>1. f = <<Dot, m, u, n>>
      BY <1>2, <1>5, <2>4
    <3> QED BY <1>3, <2>4, <3>1
  <2> QED BY <1>4, <2>1, <2>2, <2>3, <2>4
<1>7. PICK text : text = to_rfc3339(t) /\ text = (<<y>> \o <<r>>) \o f \o <<Plus>>
  BY <1>1, <1>5 DEF to_rfc3339
<1>8. /\ text \in Seq(Int) /\ Len(text) = Len(f) + 3
      /\ text[1] = y /\ text[2] = r /\ text[Len(f) + 3] = Plus
      /\ \A i \in 1..Len(f) : text[i + 2] = f[i]
  <2>1. f \in Seq(Int)
    BY <1>6
  <2>2. JoinedOf(text, y, r, f, Plus)
    <3> HIDE DEF FractionIs
    <3> QED BY <1>3, <1>7, <2>1, Joined
  <2> QED BY <2>2 DEF JoinedOf
<1>9. /\ 1 \in 1..Len(f) => text[3] = f[1]
      /\ 2 \in 1..Len(f) => text[4] = f[2]
      /\ 3 \in 1..Len(f) => text[5] = f[3]
      /\ 4 \in 1..Len(f) => text[6] = f[4]
  <2>1. /\ 1 \in 1..Len(f) => text[1 + 2] = f[1]
        /\ 2 \in 1..Len(f) => text[2 + 2] = f[2]
        /\ 3 \in 1..Len(f) => text[3 + 2] = f[3]
        /\ 4 \in 1..Len(f) => text[4 + 2] = f[4]
    BY <1>8
  <2> QED BY <2>1
<1> USE <1>6, <1>7, <1>8, <1>9 DEF Shaped
<1>10. CASE GroupsOf(t) = 0
  BY <1>10 DEF y, r
<1>11. CASE GroupsOf(t) = 1
  BY <1>11 DEF y, r, m
<1>12. CASE GroupsOf(t) = 2
  BY <1>12 DEF y, r, m, u
<1>13. CASE GroupsOf(t) = 3
  BY <1>13 DEF y, r, m, u, n
<1> QED BY <1>4, <1>10, <1>11, <1>12, <1>13

(* The earlier of two times has the smaller text, whatever number of groups *)
(* each of them has: '+' sorts before '.' and '.' before the digits.        *)
LEMMA EarlierIsSmaller ==
  ASSUME NEW a \in Int, NEW b \in Int, FourDigits(a), FourDigits(b), a < b
  PROVE  text_lt(to_rfc3339(a), to_rfc3339(b))
<1> DEFINE n == GroupsOf(a)
           k == GroupsOf(b)
<1>1. SUFFICES ASSUME NEW s, Shaped(s, a, n), NEW t, Shaped(t, b, k)
               PROVE  text_lt(s, t)
  BY TextIsShaped
<1>2. n \in {0, 1, 2, 3} /\ k \in {0, 1, 2, 3}
  BY Groups
<1>3. /\ YearOf(a) \in Int /\ YearOf(b) \in Int /\ RestOf(a) \in Nat /\ RestOf(b) \in Nat
      /\ MilliOf(a) \in Nat /\ MilliOf(b) \in Nat /\ MicroOf(a) \in Nat /\ MicroOf(b) \in Nat
      /\ NanoOf(a) \in Nat /\ NanoOf(b) \in Nat
  BY PrintedTypes
<1>4. /\ k = 0 => MilliOf(b) = 0
      /\ k \in {0, 1} => MicroOf(b) = 0
      /\ k \in {0, 1, 2} => NanoOf(b) = 0
  BY Groups
<1> HIDE DEF n, k
<1>5. /\ DOMAIN s = 1..Len(s) /\ DOMAIN t = 1..Len(t)
      /\ Plus = 43 /\ Dot = 46 /\ Digit = 48
      /\ Len(s) \in Nat /\ Len(t) \in Nat
  <2>1. s \in Seq(Int) /\ t \in Seq(Int)
    BY <1>1 DEF Shaped
  <2>2. /\ DOMAIN s = 1..Len(s) /\ DOMAIN t = 1..Len(t)
        /\ Len(s) \in Nat /\ Len(t) \in Nat
    BY ONLY <2>1
  <2> QED BY ONLY <2>2 DEF Plus, Dot, Digit
<1> DEFINE At(i) == /\ i \in 1..Len(t) /\ \A j \in 1..(i - 1) : j \in 1..Len(s) /\ s[j] = t[j]
                    /\ i \in 1..Len(s) => s[i] < t[i]
<1>6. SUFFICES \E i \in 1..6 : At(i)
  BY <1>5 DEF text_lt
<1>7. CASE YearOf(a) < YearOf(b)
  <2>1. At(1)
    BY <1>1, <1>3, <1>5, <1>7 DEF Shaped
  <2> QED BY <2>1
<1>8. CASE YearOf(a) = YearOf(b) /\ RestOf(a) < RestOf(b)
  <2>1. At(2)
    BY <1>1, <1>3, <1>5, <1>8 DEF Shaped
  <2> QED BY <2>1
<1>9. CASE YearOf(a) = YearOf(b) /\ RestOf(a) = RestOf(b) /\ PartOf(a) < PartOf(b)
  <2>1. s[1] = t[1] /\ s[2] = t[2]
    BY <1>1, <1>9 DEF Shaped
  <2>2. /\ Len(s) >= 3 /\ Len(t) >= 3
        /\ n = 0 => s[3] = Plus
        /\ n # 0 => Len(s) >= 5 /\ s[3] = Dot /\ s[4] = Digit + MilliOf(a)
        /\ k # 0 => Len(t) >= 5 /\ t[3] = Dot /\ t[4] = Digit + MilliOf(b)
    BY <1>1 DEF Shaped
  <2>3. /\ n = 1 => s[5] = Plus
        /\ n \in {2, 3} => Len(s) >= 6 /\ s[5] = Digit + MicroOf(a)
        /\ k \in {2, 3} => Len(t) >= 6 /\ t[5] = Digit + MicroOf(b)
    BY <1>1 DEF Shaped
  <2>4. /\ n = 2 => s[6] = Plus
        /\ n = 3 => s[6] = Digit + NanoOf(a)
        /\ k = 3 => t[6] = Digit + NanoOf(b)
    BY <1>1 DEF Shaped
  <2>5. \/ MilliOf(a) < MilliOf(b)
        \/ MilliOf(a) = MilliOf(b) /\ MicroOf(a) < MicroOf(b)
        \/ MilliOf(a) = MilliOf(b) /\ MicroOf(a) = MicroOf(b) /\ NanoOf(a) < NanoOf(b)
    BY <1>9, ByPart
  <2>6. k # 0
    BY <1>2, <1>3, <1>4, <2>5
  <2>7. CASE n = 0
    <3>1. At(3)
      BY <1>5, <2>1, <2>2, <2>6, <2>7
    <3> QED BY <3>1
  <2>8. CASE n # 0 /\ MilliOf(a) < MilliOf(b)
    <3>1. s[3] = t[3] /\ s[4] < t[4]
      <4>1. s[3] = t[3] /\ s[4] = Digit + MilliOf(a) /\ t[4] = Digit + MilliOf(b)
        BY ONLY <2>2, <2>6, <2>8
      <4>2. MilliOf(a) \in Nat /\ MilliOf(b) \in Nat /\ Digit = 48
        BY ONLY <1>3, <1>5
      <4>3. Digit + MilliOf(a) < Digit + MilliOf(b)
        BY ONLY <2>8, <4>2
      <4> QED BY ONLY <4>1, <4>3
    <3>2. Len(s) \in Nat /\ Len(s) >= 5 /\ Len(t) \in Nat /\ Len(t) >= 5
      BY ONLY <1>5, <2>2, <2>6, <2>8
    <3>3. At(4)
      BY ONLY <2>1, <3>1, <3>2
    <3> QED BY <3>3
  <2>9. CASE n # 0 /\ MilliOf(a) = MilliOf(b) /\ MicroOf(a) < MicroOf(b)
    <3>1. k \in {2, 3}
      BY <1>2, <1>3, <1>4, <2>9
    <3>2. s[3] = t[3] /\ s[4] = t[4]
      BY <2>2, <2>6, <2>9
    <3>3. s[5] < t[5]
      <4>1. /\ t[5] = Digit + MicroOf(b)
            /\ s[5] = Plus \/ s[5] = Digit + MicroOf(a)
        BY ONLY <1>2, <2>3, <2>9, <3>1
      <4>2. MicroOf(a) \in Nat /\ MicroOf(b) \in Nat /\ Plus = 43 /\ Digit = 48
        BY ONLY <1>3, <1>5
      <4>3. /\ Plus < Digit + MicroOf(b)
            /\ Digit + MicroOf(a) < Digit + MicroOf(b)
        BY ONLY <2>9, <4>2
      <4> QED BY ONLY <4>1, <4>3
    <3>4. Len(s) \in Nat /\ Len(s) >= 5 /\ Len(t) \in Nat /\ Len(t) >= 5
      BY ONLY <1>5, <2>2, <2>6, <2>9
    <3>5. At(5)
      BY ONLY <2>1, <3>2, <3>3, <3>4
    <3> QED BY <3>5
  <2>10. CASE n # 0 /\ MilliOf(a) = MilliOf(b) /\ MicroOf(a) = MicroOf(b) /\ NanoOf(a) < NanoOf(b)
    <3>1. k = 3
      BY <1>2, <1>3, <1>4, <2>10
    <3>2. s[3] = t[3] /\ s[4] = t[4]
      BY <2>2, <2>6, <2>10
    <3>3. CASE n = 1
      <4>1. s[5] < t[5]
        <5>1. s[5] = Plus /\ t[5] = Digit + MicroOf(b)
          BY ONLY <2>3, <3>1, <3>3
        <5>2. MicroOf(b) \in Nat /\ Plus = 43 /\ Digit = 48
          BY ONLY <1>3, <1>5
        <5>3. Plus < Digit + MicroOf(b)
          BY ONLY <5>2
        <5> QED BY ONLY <5>1, <5>3
      <4>2. Len(s) \in Nat /\ Len(s) >= 5 /\ Len(t) \in Nat /\ Len(t) >= 5
        BY ONLY <1>5, <2>2, <2>6, <2>10
      <4>3. At(5)
        BY ONLY <2>1, <3>2, <4>1, <4>2
      <4> QED BY <4>3
    <3>4. CASE n \in {2, 3}
      <4>1. s[5] = t[5] /\ Len(s) >= 6 /\ Len(t) >= 6
        BY <2>3, <2>10, <3>1, <3>4
      <4>2. s[6] < t[6]
        BY <1>3, <1>5, <2>4, <2>10, <3>1, <3>4
      <4>3. At(6)
        BY ONLY <1>5, <2>1, <3>2, <4>1, <4>2
      <4> QED BY <4>3
    <3> QED BY <1>2, <2>10, <3>3, <3>4
  <2> QED BY <2>5, <2>7, <2>8, <2>9, <2>10
<1>10. \/ YearOf(a) < YearOf(b)
       \/ YearOf(a) = YearOf(b) /\ RestOf(a) < RestOf(b)
       \/ YearOf(a) = YearOf(b) /\ RestOf(a) = RestOf(b) /\ PartOf(a) < PartOf(b)
  BY ByPrinted
<1> QED BY <1>7, <1>8, <1>9, <1>10

(* memcmp is a strict order. *)
LEMMA TextOrderIsStrict ==
  ASSUME NEW s \in Seq(Int), NEW t \in Seq(Int), text_lt(s, t)
  PROVE  s # t /\ ~ text_lt(t, s)
<1>1. DOMAIN s = 1..Len(s) /\ DOMAIN t = 1..Len(t) /\ Len(s) \in Nat /\ Len(t) \in Nat
  OBVIOUS
<1>2. PICK k \in 1..Len(t) : /\ \A j \in 1..(k - 1) : j \in 1..Len(s) /\ s[j] = t[j]
                             /\ k \in 1..Len(s) => s[k] < t[k]
  BY <1>1 DEF text_lt
<1>3. s # t
  BY <1>1, <1>2
<1>4. ASSUME NEW i \in 1..Len(s),
             \A j \in 1..(i - 1) : j \in 1..Len(t) /\ t[j] = s[j],
             i \in 1..Len(t) => t[i] < s[i]
      PROVE  FALSE
  <2>1. CASE i < k
    <3>1. i \in 1..(k - 1)
      BY <1>1, <2>1
    <3> QED BY <1>1, <1>2, <1>4, <3>1
  <2>2. CASE k < i
    <3>1. k \in 1..(i - 1) /\ k \in 1..Len(s)
      BY <1>1, <2>2
    <3> QED BY <1>1, <1>2, <1>4, <3>1
  <2>3. CASE i = k
    BY <1>1, <1>2, <1>4, <2>3
  <2> QED BY <1>1, <2>1, <2>2, <2>3
<1> QED BY <1>1, <1>3, <1>4 DEF text_lt

(* For any number of digits and any calendar of equal years: as long as     *)
(* years have four digits, the texts in the queue compare as the times they *)
(* stand for.                                                               *)
THEOREM TextOrderIsTimeOrder ==
  ASSUME NEW a \in Int, NEW b \in Int, FourDigits(a), FourDigits(b)
  PROVE  /\ text_lt(to_rfc3339(a), to_rfc3339(b)) <=> a < b
         /\ text_le(to_rfc3339(a), to_rfc3339(b)) <=> a <= b
<1>1. to_rfc3339(a) \in Seq(Int) /\ to_rfc3339(b) \in Seq(Int)
  BY TextIsShaped DEF Shaped
<1>2. CASE a < b
  <2>1. text_lt(to_rfc3339(a), to_rfc3339(b))
    BY <1>2, EarlierIsSmaller
  <2> QED BY <1>2, <2>1 DEF text_le
<1>3. CASE b < a
  <2>1. text_lt(to_rfc3339(b), to_rfc3339(a))
    BY <1>3, EarlierIsSmaller
  <2>2. to_rfc3339(b) # to_rfc3339(a) /\ ~ text_lt(to_rfc3339(a), to_rfc3339(b))
    BY <1>1, <2>1, TextOrderIsStrict
  <2> QED BY <1>3, <2>2 DEF text_le
<1>4. CASE a = b
  <2>1. ~ text_lt(to_rfc3339(a), to_rfc3339(a))
    BY <1>1, TextOrderIsStrict
  <2> QED BY <1>4, <2>1 DEF text_le
<1> QED BY <1>2, <1>3, <1>4

(* A text with a year of four digits decodes to the time it was made of. *)
LEMMA TextDecodes ==
  ASSUME NEW t \in Int, FourDigits(t)
  PROVE  decodes(to_rfc3339(t)) /\ parse_time(to_rfc3339(t)) = t
<1> DEFINE n == GroupsOf(t)
<1>1. n \in {0, 1, 2, 3}
  BY Groups
<1>2. /\ n = 0 => MilliOf(t) = 0
      /\ n \in {0, 1} => MicroOf(t) = 0
      /\ n \in {0, 1, 2} => NanoOf(t) = 0
  BY Groups
<1> HIDE DEF n
<1>3. PICK text : text = to_rfc3339(t) /\ Shaped(text, t, n)
  BY TextIsShaped DEF n
<1>4. YearOf(t) \in Nat
  BY YearIsPrintable, StoredTimeAssumption
<1>5. /\ RestOf(t) \in Nat
      /\ MilliOf(t) \in Nat /\ MicroOf(t) \in Nat /\ NanoOf(t) \in Nat
  BY PrintedTypes
<1>6. Plus = 43 /\ Minus = 45 /\ Digit = 48
  BY DEF Plus, Minus, Digit
<1>7. text[1] = Digit + YearOf(t) /\ text[2] = Digit + RestOf(t) /\ text \in Seq(Int)
  BY <1>3 DEF Shaped
<1>8. decodes(text)
  BY <1>4, <1>6, <1>7 DEF decodes
<1> DEFINE fraction == SubSeq(text, 4, Len(text) - 1)
           group(k) == IF k \in DOMAIN fraction THEN fraction[k] - Digit ELSE 0
<1>9. PICK len \in Nat :
        /\ len = Len(text)
        /\ n = 0 => len = 3
        /\ n = 1 => len = 5
        /\ n = 2 => len = 6
        /\ n = 3 => len = 7
  <2>1. Len(text) \in Nat
    BY <1>7
  <2> QED BY <1>3, <2>1 DEF Shaped
<1>10. /\ DOMAIN fraction = 1..n
       /\ \A k \in 1..n : fraction[k] = text[k + 3]
  <2>1. \A i \in 4..(len - 1) : text[i] \in Int
    BY <1>1, <1>7, <1>9, ElementOfSeq
  <2>2. /\ fraction \in Seq(Int)
        /\ Len(fraction) = IF 4 <= len - 1 THEN (len - 1) - 4 + 1 ELSE 0
        /\ \A k \in 1..((len - 1) - 4 + 1) : fraction[k] = text[4 + k - 1]
    BY <1>9, <2>1, SubSeqProperties
  <2>3. DOMAIN fraction = 1..n
    <3> HIDE DEF fraction
    <3>1. DOMAIN fraction = 1..Len(fraction)
      BY <2>2
    <3>2. PICK l \in Nat : l = Len(fraction)
      BY <2>2
    <3>3. len >= 5 => l = len - 4
      BY <2>2, <3>2
    <3>4. len = 3 => l = 0
      BY <2>2, <3>2
    <3>5. /\ n = 0 => len = 3
          /\ n = 1 => len = 5
          /\ n = 2 => len = 6
          /\ n = 3 => len = 7
      BY <1>9
    <3>6. l = n
      BY <1>1, <3>3, <3>4, <3>5
    <3> QED BY <3>1, <3>2, <3>6
  <2>4. ASSUME NEW k \in 1..n PROVE fraction[k] = text[k + 3]
    <3>1. k \in 1..((len - 1) - 4 + 1) /\ 4 + k - 1 = k + 3
      BY <1>1, <1>9
    <3> QED BY <2>2, <3>1
  <2> QED BY <2>3, <2>4
<1> HIDE DEF fraction
<1>11. group(1) = MilliOf(t) /\ group(2) = MicroOf(t) /\ group(3) = NanoOf(t)
  <2>1. /\ 1 \in 1..n => fraction[1] = text[4]
        /\ 2 \in 1..n => fraction[2] = text[5]
        /\ 3 \in 1..n => fraction[3] = text[6]
    <3>1. /\ 1 \in 1..n => fraction[1] = text[1 + 3]
          /\ 2 \in 1..n => fraction[2] = text[2 + 3]
          /\ 3 \in 1..n => fraction[3] = text[3 + 3]
      BY <1>10
    <3> QED BY <3>1
  <2>2. /\ n # 0 => text[4] = Digit + MilliOf(t)
        /\ n \in {2, 3} => text[5] = Digit + MicroOf(t)
        /\ n = 3 => text[6] = Digit + NanoOf(t)
    BY <1>3 DEF Shaped
  <2>3. CASE n = 0
    BY <1>2, <1>10, <2>3
  <2>4. CASE n = 1
    BY <1>2, <1>5, <1>10, <2>1, <2>2, <2>4 DEF Digit
  <2>5. CASE n = 2
    BY <1>2, <1>5, <1>10, <2>1, <2>2, <2>5 DEF Digit
  <2>6. CASE n = 3
    BY <1>2, <1>5, <1>10, <2>1, <2>2, <2>6 DEF Digit
  <2> QED BY <1>1, <2>3, <2>4, <2>5, <2>6
<1>12. parse_time(text) = (text[1] - Digit) * Year + (text[2] - Digit) * Second
                            + (group(1) * SubSec + group(2)) * SubSec + group(3)
  BY DEF parse_time, fraction
<1> HIDE DEF group
<1>13. text[1] - Digit = YearOf(t) /\ text[2] - Digit = RestOf(t)
  <2>1. PICK y \in Nat, r \in Nat : y = YearOf(t) /\ r = RestOf(t)
    BY <1>4, <1>5
  <2>2. text[1] = 48 + y /\ text[2] = 48 + r
    BY <1>7, <2>1 DEF Digit
  <2>3. text[1] - 48 = y /\ text[2] - 48 = r
    BY <2>2
  <2> QED BY <2>1, <2>3 DEF Digit
<1>14. parse_time(text) = YearOf(t) * Year + RestOf(t) * Second
                            + (MilliOf(t) * SubSec + MicroOf(t)) * SubSec + NanoOf(t)
  BY <1>11, <1>12, <1>13
<1>15. t = Year * YearOf(t) + (Second * RestOf(t) + PartOf(t))
  BY Printed
<1>16. parse_time(text) = t
  <2>1. Year \in Nat /\ Second \in Nat /\ SubSec \in Nat
    BY Units
  <2>2. YearOf(t) * Year = Year * YearOf(t) /\ Year * YearOf(t) \in Int
    BY <1>4, <2>1
  <2>3. RestOf(t) * Second = Second * RestOf(t) /\ Second * RestOf(t) \in Int
    BY <1>5, <2>1
  <2>4. PICK upper \in Int : upper = (MilliOf(t) * SubSec + MicroOf(t)) * SubSec
    BY <1>5, <2>1
  <2> QED BY <1>5, <1>14, <1>15, <2>2, <2>3, <2>4 DEF PartOf
<1> QED BY <1>3, <1>8, <1>16

(* A time before the year 0 sorts before all years of four digits: '-' is   *)
(* smaller than any digit.                                                  *)
LEMMA NegativeYearIsFirst ==
  ASSUME NEW a \in Int, NEW b \in Int, FourDigits(a), b < 0
  PROVE  ~ text_lt(to_rfc3339(a), to_rfc3339(b))
<1>1. PICK s \in Seq(Int) : s = to_rfc3339(a) /\ s[1] = Digit + YearOf(a) /\ Len(s) >= 3
  BY TextIsShaped DEF Shaped
<1>2. PICK t \in Seq(Int) : t = to_rfc3339(b) /\ t[1] = Minus
  <2>1. YearOf(b) < 0 /\ YearOf(b) \in Int /\ RestOf(b) \in Int
    <3>1. YearOf(b) < 0
      BY YearIsPrintable
    <3>2. YearOf(b) \in Int /\ RestOf(b) \in Nat
      BY PrintedTypes
    <3> QED BY <3>1, <3>2
  <2> DEFINE y == Digit - YearOf(b)   r == Digit + RestOf(b)
             m == Digit + MilliOf(b)  u == Digit + MicroOf(b)  n == Digit + NanoOf(b)
  <2>2. date_text(b) = <<Minus, y>> \o <<r>>
    <3>1. YearOf(b) < 0 /\ ~ (YearOf(b) > LastYear)
      BY <2>1, StoredTimeAssumption
    <3> QED BY <3>1 DEF date_text, YearOf, RestOf
  <2>3. fraction_text(b) = CASE GroupsOf(b) = 0 -> <<>>
                             [] GroupsOf(b) = 1 -> <<Dot, m>>
                             [] GroupsOf(b) = 2 -> <<Dot, m, u>>
                             [] GroupsOf(b) = 3 -> <<Dot, m, u, n>>
    BY Printed DEF fraction_text, GroupsOf, MilliOf, MicroOf, NanoOf
  <2>4. /\ y \in Int /\ r \in Int /\ m \in Int /\ u \in Int /\ n \in Int
        /\ Dot \in Int /\ Minus \in Int /\ Plus \in Int
    <3>1. y \in Int
      BY <2>1 DEF Digit
    <3>2. /\ RestOf(b) \in Nat
          /\ MilliOf(b) \in Nat /\ MicroOf(b) \in Nat /\ NanoOf(b) \in Nat
      BY PrintedTypes
    <3>3. r \in Int /\ m \in Int /\ u \in Int /\ n \in Int
      BY <3>2 DEF Digit
    <3> QED BY <3>1, <3>3 DEF Dot, Minus, Plus
  <2> HIDE DEF y, r, m, u, n
  <2>5. fraction_text(b) \in Seq(Int)
    <3>1. GroupsOf(b) \in {0, 1, 2, 3}
      BY Groups
    <3> QED BY <2>3, <2>4, <3>1
  <2>6. PICK d : d = <<Minus, y>> \o <<r>>
    OBVIOUS
  <2>7. d \in Seq(Int) /\ Len(d) = 3 /\ d[1] = Minus
    BY <2>4, <2>6
  <2>8. PICK e : e = d \o fraction_text(b)
    OBVIOUS
  <2>9. e \in Seq(Int) /\ Len(e) >= 3 /\ e[1] = Minus
    <3>1. PICK f \in Seq(Int) : f = fraction_text(b)
      BY <2>5
    <3>2. /\ d \o f \in Seq(Int) /\ Len(d \o f) = Len(d) + Len(f)
          /\ \A i \in 1..(Len(d) + Len(f)) :
               (d \o f)[i] = IF i <= Len(d) THEN d[i] ELSE f[i - Len(d)]
      BY <2>7, <3>1, ConcatProperties
    <3>3. 1 \in 1..(Len(d) + Len(f)) /\ 1 <= Len(d) /\ Len(f) \in Nat
      BY <2>7, <3>1
    <3> QED BY <2>7, <2>8, <3>1, <3>2, <3>3
  <2>10. PICK t : t = e \o <<Plus>>
    OBVIOUS
  <2>11. t \in Seq(Int) /\ t[1] = Minus
    BY <2>4, <2>9, <2>10
  <2> QED BY <2>2, <2>6, <2>8, <2>10, <2>11 DEF to_rfc3339
<1>3. s[1] > t[1]
  BY <1>1, <1>2, YearIsPrintable, StoredTimeAssumption DEF Digit, Minus
<1>4. ASSUME NEW k \in DOMAIN t,
             \A j \in 1..(k - 1) : j \in DOMAIN s /\ s[j] = t[j],
             k \in DOMAIN s => s[k] < t[k]
      PROVE  FALSE
  <2>1. 1 \in DOMAIN s /\ s[1] \in Int /\ t[1] \in Int
    BY <1>1, <1>2 DEF Minus
  <2>2. CASE k = 1
    BY <1>3, <1>4, <2>1, <2>2
  <2>3. CASE k # 1
    <3>1. 1 \in 1..(k - 1)
      BY <1>2, <1>4, <2>3
    <3> QED BY <1>3, <1>4, <2>1, <3>1
  <2> QED BY <2>2, <2>3
<1> QED BY <1>1, <1>2, <1>4 DEF text_lt
-----------------------------------------------------------------------------
(* The column holds the text of the promised time. *)
PromiseInv ==
  /\ clock \in Int /\ promised \in Int
  /\ next_attempt_at = to_rfc3339(promised)

(* A retry is promised for a time, and written as its text. *)
LEMMA PromiseNext ==
  ASSUME ScheduleInv, PromiseInv, [FailOnce \/ FailPanics \/ FailLast]_vars
  PROVE  PromiseInv'
<1>1. CASE FailOnce
  <2>1. PICK delay, at : /\ delay = backoff(policy, attempts + 1)
                         /\ at = retry_at(clock, delay)
    OBVIOUS
  <2>2. delay \in Nat
    <3>1. policy \in Policies /\ attempts + 1 \in Nat \ {0}
      BY DEF ScheduleInv
    <3>2. policy.max_delay \in Nat
      BY <3>1, WidthAssumption DEF Policies
    <3> QED BY <2>1, <3>1, <3>2, BackoffIsLeast
  <2>3. at \in Int
    <3>1. fallback(delay, FallbackDelay) \in Nat
      BY <2>2, StoredTimeAssumption DEF fallback
    <3>2. fallback(delay, FallbackDelay) * Second \in Int
      BY <3>1, Units
    <3> QED BY <2>1, <3>2 DEF retry_at, PromiseInv
  <2>4. /\ next_attempt_at' = to_rfc3339(at) /\ promised' = at
        /\ \E late \in Lateness : clock' = at + late
    BY <1>1, <2>1 DEF FailOnce
  <2> QED BY <2>3, <2>4, BoundsAssumption DEF PromiseInv
<1>2. CASE FailPanics \/ FailLast \/ UNCHANGED vars
  BY <1>2 DEF PromiseInv, FailPanics, FailLast, vars
<1> QED BY <1>1, <1>2

(* At all times. *)
LEMMA AlwaysPromised == Spec => []PromiseInv
<1>1. Init => PromiseInv
  BY BoundsAssumption DEF Init, PromiseInv
<1> QED BY <1>1, PromiseNext, AlwaysScheduled, PTL DEF Spec

(* For every policy, start, delay and number of failures, and fractions of  *)
(* any number of digits: a row is due from the time its retry was promised  *)
(* for, to the nanosecond, and decodes to that time, while years have four  *)
(* digits.                                                                  *)
THEOREM RetriesAreDueWhenPromised == Spec => []DueWhenPromised
<1>1. ASSUME PromiseInv PROVE DueWhenPromised
  <2> SUFFICES ASSUME FourDigits(promised)
               PROVE  /\ decodes(next_attempt_at) /\ parse_time(next_attempt_at) = promised
                      /\ \A now \in Nearby(promised) : FourDigits(now) =>
                           (text_le(next_attempt_at, to_rfc3339(now)) <=> promised <= now)
    BY DEF DueWhenPromised
  <2>1. promised \in Int /\ next_attempt_at = to_rfc3339(promised)
    BY <1>1 DEF PromiseInv
  <2>2. ASSUME NEW now \in Nearby(promised), FourDigits(now)
        PROVE  text_le(next_attempt_at, to_rfc3339(now)) <=> promised <= now
    <3>1. now \in Int
      BY DEF Nearby
    <3> QED BY <2>1, <2>2, <3>1, TextOrderIsTimeOrder
  <2> QED BY <2>1, <2>2, TextDecodes
<1> QED BY <1>1, AlwaysPromised, PTL

(* For every lease that a Duration holds: what tick reclaims are exactly    *)
(* the claims older than the lease, to the nanosecond, also when the lease  *)
(* reaches back beyond the year 0.                                          *)
THEOREM ClaimsDoExpireOnTime == Spec => []ClaimsExpireOnTime
<1>1. ASSUME PromiseInv PROVE ClaimsExpireOnTime
  <2> SUFFICES ASSUME FourDigits(promised), NEW lease \in 0..MaxDelta,
                      NEW claimed \in Nearby(older_than(promised, lease)) \cup {0},
                      FourDigits(claimed)
               PROVE  text_lt(to_rfc3339(claimed), to_rfc3339(older_than(promised, lease)))
                        <=> claimed + lease * Second < promised
    BY DEF ClaimsExpireOnTime
  <2>1. promised \in Int /\ claimed \in Int /\ lease \in Nat
    BY <1>1, StoredTimeAssumption DEF PromiseInv, Nearby
  <2>2. PICK back \in Nat : back = lease * Second
    BY <2>1, Units
  <2>3. PICK bound \in Int : bound = older_than(promised, lease) /\ bound = promised - back
    BY <2>1, <2>2, StoredTimeAssumption DEF older_than, fallback
  <2>4. CASE bound >= 0
    <3>1. FourDigits(bound)
      <4>1. (LastYear + 1) * Year \in Int
        BY Units, StoredTimeAssumption
      <4> QED BY <2>1, <2>3, <2>4, <4>1 DEF FourDigits
    <3>2. text_lt(to_rfc3339(claimed), to_rfc3339(bound)) <=> claimed < bound
      BY <2>1, <3>1, TextOrderIsTimeOrder
    <3> QED BY <2>1, <2>2, <2>3, <3>2
  <2>5. CASE bound < 0
    <3>1. ~ text_lt(to_rfc3339(claimed), to_rfc3339(bound))
      BY <2>1, <2>5, NegativeYearIsFirst
    <3>2. claimed >= 0
      BY DEF FourDigits
    <3> QED BY <2>1, <2>2, <2>3, <2>5, <3>1, <3>2
  <2> QED BY <2>4, <2>5
<1> QED BY <1>1, AlwaysPromised, PTL
=============================================================================
