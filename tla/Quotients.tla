------------------------------- MODULE Quotients -------------------------------
(***************************************************************************)
(* Quotients and remainders by a divisor that is a parameter, as the       *)
(* proofs about counters and about bytes of any width need them.           *)
(***************************************************************************)
EXTENDS Integers, TLAPS

\* Quotient and remainder, and what they are.
LEMMA Division ==
  ASSUME NEW n \in Nat, NEW d \in Nat \ {0}
  PROVE  /\ n \div d \in Nat /\ n % d \in 0..(d - 1)
         /\ n = d * (n \div d) + (n % d)
  BY SMTT(30)

\* The same for an integer, which the quotient is rounded down for.
LEMMA IntDivision ==
  ASSUME NEW n \in Int, NEW d \in Nat \ {0}
  PROVE  /\ n \div d \in Int /\ n % d \in 0..(d - 1)
         /\ n = d * (n \div d) + (n % d)
  BY SMTT(30)

\* A number has one quotient and one remainder.
LEMMA DivisionUnique ==
  ASSUME NEW d \in Nat \ {0}, NEW q \in Int, NEW r \in 0..(d - 1),
         NEW p \in Int, NEW s \in 0..(d - 1), d * q + r = d * p + s
  PROVE  q = p /\ r = s
<1>1. d * (q - p) = s - r
  OBVIOUS
<1>2. CASE q > p
  <2>1. d * (q - p) >= d
    BY <1>2
  <2> QED
    BY <2>1, <1>1
<1>3. CASE q < p
  <2>1. d * (p - q) >= d
    BY <1>3
  <2>2. d * (p - q) = r - s
    BY <1>1
  <2> QED
    BY <2>1, <2>2
<1> QED
  BY <1>1, <1>2, <1>3

\* Quotient and remainder are recognised by the equation they satisfy.
LEMMA DivisionIs ==
  ASSUME NEW n \in Nat, NEW d \in Nat \ {0}, NEW q \in Int, NEW r \in 0..(d - 1),
         n = d * q + r
  PROVE  n \div d = q /\ n % d = r
<1> DEFINE p == n \div d
           s == n % d
<1>1. p \in Int /\ s \in 0..(d - 1) /\ d * q + r = d * p + s
  <2>1. p \in Nat /\ s \in 0..(d - 1) /\ n = d * p + s
    BY Division
  <2> HIDE DEF p, s
  <2>2. d * q + r = d * p + s
    BY <2>1
  <2> QED
    BY <2>1, <2>2
<1> HIDE DEF p, s
<1>2. q = p /\ r = s
  BY <1>1, DivisionUnique
<1> QED
  BY <1>2 DEF p, s

\* The same for an integer.
LEMMA IntDivisionIs ==
  ASSUME NEW n \in Int, NEW d \in Nat \ {0}, NEW q \in Int, NEW r \in 0..(d - 1),
         n = d * q + r
  PROVE  n \div d = q /\ n % d = r
<1> DEFINE p == n \div d
           s == n % d
<1>1. p \in Int /\ s \in 0..(d - 1) /\ d * q + r = d * p + s
  <2>1. p \in Int /\ s \in 0..(d - 1) /\ n = d * p + s
    BY IntDivision
  <2> HIDE DEF p, s
  <2>2. d * q + r = d * p + s
    BY <2>1
  <2> QED
    BY <2>1, <2>2
<1> HIDE DEF p, s
<1>2. q = p /\ r = s
  BY <1>1, DivisionUnique
<1> QED
  BY <1>2 DEF p, s

\* A prescaler: one more count either stays in the period or completes it.
LEMMA DivisionStep ==
  ASSUME NEW n \in Nat, NEW d \in Nat \ {0}
  PROVE  IF (n % d) + 1 = d
         THEN (n + 1) % d = 0 /\ (n + 1) \div d = (n \div d) + 1
         ELSE (n + 1) % d = (n % d) + 1 /\ (n + 1) \div d = n \div d
<1> DEFINE q == n \div d
           r == n % d
<1>1. q \in Nat /\ r \in 0..(d - 1) /\ n = d * q + r
  BY Division
<1> HIDE DEF q, r
<1>2. CASE r + 1 = d
  <2>1. n + 1 = d * (q + 1) + 0
    BY <1>1, <1>2
  <2>2. (n + 1) \div d = q + 1 /\ (n + 1) % d = 0
    BY <2>1, <1>1, DivisionIs
  <2> QED
    BY <2>2, <1>2 DEF q, r
<1>3. CASE r + 1 # d
  <2>1. n + 1 = d * q + (r + 1) /\ r + 1 \in 0..(d - 1)
    BY <1>1, <1>3
  <2>2. (n + 1) \div d = q /\ (n + 1) % d = r + 1
    BY <2>1, <1>1, DivisionIs
  <2> QED
    BY <2>2, <1>3 DEF q, r
<1> QED
  BY <1>2, <1>3

\* A count below the period.
LEMMA DivisionSmall ==
  ASSUME NEW d \in Nat \ {0}, NEW n \in 0..(d - 1)
  PROVE  n \div d = 0 /\ n % d = n
<1>1. n \in Nat /\ n = d * 0 + n
  OBVIOUS
<1> QED
  BY <1>1, DivisionIs

\* A counter of width b after one more count.
LEMMA WrapStep ==
  ASSUME NEW n \in Nat, NEW b \in Nat \ {0}
  PROVE  ((n % b) + 1) % b = (n + 1) % b
<1>1. n % b \in 0..(b - 1)
  BY Division
<1>2. CASE (n % b) + 1 = b
  <2>1. (n + 1) % b = 0
    BY <1>2, DivisionStep
  <2>2. b = b * 1 + 0 /\ b \in Nat
    OBVIOUS
  <2>3. b % b = 0
    BY <2>2, DivisionIs
  <2> QED
    BY <1>2, <2>1, <2>3
<1>3. CASE (n % b) + 1 # b
  <2>1. (n + 1) % b = (n % b) + 1
    BY <1>3, DivisionStep
  <2>2. (n % b) + 1 \in 0..(b - 1)
    BY <1>1, <1>3
  <2> QED
    BY <2>1, <2>2, DivisionSmall
<1> QED
  BY <1>2, <1>3

\* A number less than a period off the range.
LEMMA DivisionNear ==
  ASSUME NEW d \in Nat \ {0}, NEW n \in Int
  PROVE  /\ n \in d..(2 * d - 1) => n \div d = 1 /\ n % d = n - d
         /\ n \in (-d)..(-1) => n \div d = -1 /\ n % d = n + d
<1>1. CASE n \in d..(2 * d - 1)
  <2>1. n = d * 1 + (n - d) /\ n - d \in 0..(d - 1)
    BY <1>1
  <2> QED
    BY <2>1, IntDivisionIs
<1>2. CASE n \in (-d)..(-1)
  <2>1. n = d * (-1) + (n + d) /\ n + d \in 0..(d - 1)
    BY <1>2
  <2> QED
    BY <2>1, IntDivisionIs
<1> QED
  BY <1>1, <1>2

\* The quotient of a number between two multiples.
LEMMA DivisionBetween ==
  ASSUME NEW n \in Int, NEW d \in Nat \ {0}, NEW q \in Int,
         d * q <= n, n < d * (q + 1)
  PROVE  n \div d = q /\ n % d = n - d * q
<1>1. n = d * q + (n - d * q) /\ n - d * q \in 0..(d - 1)
  OBVIOUS
<1> QED
  BY <1>1, IntDivisionIs

================================================================================
