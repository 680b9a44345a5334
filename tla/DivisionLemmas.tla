----------------------------- MODULE DivisionLemmas -----------------------------
(***************************************************************************)
(* Division with remainder, for the modules whose counters are stored byte *)
(* by byte (n % b is the low byte of n, and n - n % b the rest) or wrap.   *)
(***************************************************************************)
EXTENDS Integers, TLAPS

(* A number is its quotient and its remainder ...                          *)
LEMMA QuotientRemainder ==
  ASSUME NEW b \in Nat, b > 0, NEW n \in Nat
  PROVE  n % b = n - b * (n \div b)
OBVIOUS

LEMMA Division ==
  ASSUME NEW b \in Nat \ {0}, NEW n \in Nat
  PROVE  /\ n \div b \in Nat /\ n % b \in 0 .. b - 1
         /\ b * (n \div b) \in Nat
         /\ n = b * (n \div b) + (n % b)
<1>1. n \div b \in Nat /\ n % b \in 0 .. b - 1
  OBVIOUS
<1>2. n % b = n - b * (n \div b)
  BY QuotientRemainder
<1>3. b * (n \div b) \in Nat
  BY <1>1
<1> QED
  BY <1>1, <1>2, <1>3

LEMMA Monotone ==
  ASSUME NEW b \in Nat \ {0}, NEW m \in Nat, NEW n \in Nat, m < n
  PROVE  /\ b * m \in Nat /\ b * n \in Nat
         /\ b * m + b <= b * n
<1>1. n >= m + 1
  OBVIOUS
<1>2. b * n >= b * (m + 1)
  BY <1>1
<1> QED
  BY <1>1, <1>2

(* ... and no other quotient and remainder.                                *)
LEMMA Remainder ==
  ASSUME NEW b \in Nat \ {0}, NEW q \in Nat, NEW r \in 0 .. b - 1
  PROVE  /\ (b * q + r) % b = r
         /\ b * q \in Nat
<1> DEFINE n == b * q + r
           p == n \div b
           x == b * q
           y == b * p
<1>1. n \in Nat /\ x \in Nat
  OBVIOUS
<1>2. p \in Nat /\ y \in Nat /\ n % b \in 0 .. b - 1 /\ n = y + (n % b)
  BY <1>1, Division
<1>3. ~(q < p)
  BY <1>1, <1>2, Monotone
<1>4. ~(p < q)
  BY <1>1, <1>2, Monotone
<1> QED
  BY <1>1, <1>2, <1>3, <1>4

(* The low byte of small numbers, and of the rest.                         *)
LEMMA Small ==
  ASSUME NEW b \in Nat \ {0}, NEW n \in Nat
  PROVE  /\ n < b => n % b = n
         /\ n < b \/ n - (n % b) >= b
         /\ n - (n % b) \in Nat
<1>1. n \div b = 0 \/ b * (n \div b) >= b
  BY Division, Monotone
<1> QED
  BY <1>1, Division

(* A tick that does not borrow takes one from the low byte.                *)
LEMMA NoBorrow ==
  ASSUME NEW b \in Nat \ {0}, NEW n \in Nat, n % b > 0
  PROVE  (n - 1) % b = (n % b) - 1
<1> DEFINE q == n \div b
           r == (n % b) - 1
<1>1. q \in Nat /\ r \in 0 .. b - 1 /\ n - 1 = b * q + r
  <2>1. q \in Nat /\ n % b \in 0 .. b - 1 /\ b * q \in Nat /\ n = b * q + (n % b)
    BY Division
  <2> QED
    BY <2>1
<1> HIDE DEF q, r
<1>2. (b * q + r) % b = r
  BY <1>1, Remainder
<1> QED
  BY <1>1, <1>2 DEF r

(* The two parts of a store do not disturb each other.                     *)
LEMMA Join ==
  ASSUME NEW b \in Nat \ {0}, NEW m \in Nat, NEW n \in Nat
  PROVE  (m - (m % b) + (n % b)) % b = n % b
<1> DEFINE q == m \div b
           r == n % b
<1>1. q \in Nat /\ r \in 0 .. b - 1 /\ m - (m % b) + (n % b) = b * q + r
  BY Division
<1> HIDE DEF q, r
<1>2. (b * q + r) % b = r
  BY <1>1, Remainder
<1> QED
  BY <1>1, <1>2 DEF r

(* The upper bytes never grow by a decrease.                               *)
LEMMA UpperMonotone ==
  ASSUME NEW b \in Nat \ {0}, NEW m \in Nat, NEW n \in Nat, m <= n
  PROVE  m - (m % b) <= n - (n % b)
<1> DEFINE p == m \div b
           q == n \div b
           x == b * p
           y == b * q
<1>1. /\ p \in Nat /\ x \in Nat /\ (m % b) \in 0 .. b - 1 /\ m = x + (m % b)
      /\ q \in Nat /\ y \in Nat /\ n % b \in 0 .. b - 1 /\ n = y + (n % b)
  BY Division
<1>2. ~(q < p)
  <2>1. q < p => y + b <= x
    BY <1>1, Monotone
  <2> QED
    BY <1>1, <2>1
<1>3. p < q => x + b <= y
  BY <1>1, Monotone
<1> HIDE DEF x, y, p, q
<1>4. p = q => x = y
  BY DEF x, y
<1> QED
  BY <1>1, <1>2, <1>3, <1>4

(* The difference of two readings of a counter that wraps ...              *)
LEMMA Difference ==
  ASSUME NEW b \in Nat \ {0}, NEW m \in 0 .. b - 1, NEW n \in 0 .. b - 1
  PROVE  /\ m <= n => (n - m) % b = n - m
         /\ n < m  => (n - m) % b = n - m + b
         /\ (n - m) % b \in 0 .. b - 1
<1>1. b \in Nat /\ b > 0 /\ n - m \in Int
  OBVIOUS
<1>2. \A d \in Int : 0 <= d /\ d < b => d % b = d
  BY <1>1
<1>3. \A d \in Int : d < 0 /\ 0 <= d + b => d % b = d + b
  BY <1>1
<1> QED
  BY <1>1, <1>2, <1>3

(* ... its next reading, and the difference then.                          *)
LEMMA Successor ==
  ASSUME NEW b \in Nat \ {0}, NEW n \in 0 .. b - 1
  PROVE  (n + 1) % b = IF n + 1 = b THEN 0 ELSE n + 1
<1>1. b \in Nat /\ b > 0
  OBVIOUS
<1>2. \A d \in Int : 0 <= d /\ d < b => d % b = d
  BY <1>1
<1>3. b % b = 0
  BY <1>1
<1> QED
  BY <1>1, <1>2, <1>3

LEMMA Elapse ==
  ASSUME NEW b \in Nat \ {0}, NEW m \in 0 .. b - 1, NEW n \in 0 .. b - 1,
         (n - m) % b < b - 1
  PROVE  (((n + 1) % b) - m) % b = ((n - m) % b) + 1
<1> DEFINE k == (n + 1) % b
           d == (n - m) % b
<1>1. k = (IF n + 1 = b THEN 0 ELSE n + 1) /\ k \in 0 .. b - 1
  <2>1. k = IF n + 1 = b THEN 0 ELSE n + 1
    BY Successor
  <2> HIDE DEF k
  <2> QED
    BY <2>1
<1>2. (m <= n => d = n - m) /\ (n < m => d = n - m + b) /\ d < b - 1
  BY Difference
<1> HIDE DEF k
<1>3. (m <= k => (k - m) % b = k - m) /\ (k < m => (k - m) % b = k - m + b)
  BY <1>1, Difference
<1> HIDE DEF d
<1>4. (k - m) % b = d + 1
  BY <1>1, <1>2, <1>3
<1> QED
  BY <1>4 DEF k, d

(* Numbers that go round: below zero as well, a turn back, and one on.     *)
LEMMA RemainderInt ==
  ASSUME NEW b \in Nat \ {0}, NEW k \in Int, NEW r \in 0 .. b - 1
  PROVE  (b * k + r) % b = r
OBVIOUS

LEMMA TurnBack ==
  ASSUME NEW b \in Nat \ {0}, NEW q \in Int
  PROVE  (q - b) % b = q % b
<1> DEFINE k == q \div b
           r == q % b
<1>1. k \in Int /\ k - 1 \in Int /\ r \in 0 .. b - 1 /\ q = b * k + r
  OBVIOUS
<1>2. b * (k - 1) = b * k - b
  OBVIOUS
<1>3. q - b = b * (k - 1) + r
  BY <1>1, <1>2
<1> HIDE DEF k, r
<1> QED
  BY <1>1, <1>3, RemainderInt DEF r

LEMMA OneOn ==
  ASSUME NEW b \in Nat \ {0}, NEW q \in Int
  PROVE  (q + 1) % b = ((q % b) + 1) % b
<1> DEFINE k == q \div b
           r == q % b
<1>1. k \in Int /\ r \in 0 .. b - 1 /\ q = b * k + r
  OBVIOUS
<1> HIDE DEF k, r
<1>2. b * (k + 1) = b * k + b /\ k + 1 \in Int /\ 0 \in 0 .. b - 1
  BY <1>1
<1>3. CASE r + 1 = b
  <2>1. q + 1 = b * (k + 1) + 0
    BY <1>1, <1>2, <1>3
  <2>2. (b * (k + 1) + 0) % b = 0
    BY <1>2, RemainderInt
  <2> QED
    BY <1>1, <1>3, <2>1, <2>2, Successor DEF r
<1>4. CASE r + 1 # b
  <2>1. q + 1 = b * k + (r + 1) /\ r + 1 \in 0 .. b - 1
    BY <1>1, <1>4
  <2>2. (b * k + (r + 1)) % b = r + 1
    BY <1>1, <2>1, RemainderInt
  <2> QED
    BY <1>1, <1>4, <2>1, <2>2, Successor DEF r
<1> QED
  BY <1>3, <1>4

(* Quotients: which one it is, and those of numbers that are close.        *)
LEMMA QuotientIs ==
  ASSUME NEW b \in Nat \ {0}, NEW n \in Nat, NEW q \in Nat, b * q <= n, n < b * q + b
  PROVE  n \div b = q
<1> DEFINE p == n \div b
<1>1. p \in Nat /\ b * p \in Nat /\ b * p <= n /\ n < b * p + b
  BY Division
<1> HIDE DEF p
<1>2. p < q => b * p + b <= b * q
  BY <1>1, Monotone
<1>3. q < p => b * q + b <= b * p
  BY <1>1, Monotone
<1>4. b * q \in Nat
  OBVIOUS
<1>5. ~(p < q)
  BY <1>1, <1>2, <1>4
<1>6. ~(q < p)
  BY <1>1, <1>3, <1>4
<1> QED
  BY <1>1, <1>5, <1>6 DEF p

LEMMA QuotientsClose ==
  ASSUME NEW b \in Nat \ {0}, NEW m \in Nat, NEW n \in Nat, m <= n, n < m + 2 * b
  PROVE  m \div b <= n \div b /\ n \div b <= (m \div b) + 2
<1> DEFINE p == m \div b
           q == n \div b
           x == b * p
           y == b * q
           z == b * (p + 2)
<1>1. /\ p \in Nat /\ x \in Nat /\ x <= m /\ m < x + b
      /\ q \in Nat /\ y \in Nat /\ y <= n /\ n < y + b
  BY Division
<1> HIDE DEF p, q
<1>2. z = x + 2 * b
  BY <1>1
<1>3. q < p => y + b <= x
  BY <1>1, Monotone
<1>4. p + 2 < q => z + b <= y
  BY <1>1, Monotone
<1> HIDE DEF x, y, z
<1>5. ~(q < p)
  BY <1>1, <1>3
<1>6. ~(p + 2 < q)
  BY <1>1, <1>2, <1>4
<1> QED
  BY <1>1, <1>5, <1>6 DEF p, q
=============================================================================
