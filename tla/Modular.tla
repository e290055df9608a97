------------------------------- MODULE Modular -------------------------------
(* Division with remainder: places in a ring, multiples of a stride.        *)
EXTENDS Integers, TLAPS

LEMMA Division ==
  ASSUME NEW n \in Nat \ {0}, NEW a \in Nat
  PROVE  /\ a \div n \in Nat /\ a % n \in 0..n - 1
         /\ a = n * (a \div n) + (a % n)
  OBVIOUS

LEMMA SameQuotient ==
  ASSUME NEW n \in Nat \ {0}, NEW x \in Nat, NEW y \in Nat,
         NEW r \in 0..n - 1, NEW s \in 0..n - 1, n * x + r = n * y + s
  PROVE  x = y /\ r = s
<1>1. CASE x >= y + 1
  <2>1. n * x >= n * y + n
    BY <1>1
  <2> QED
    BY <2>1
<1>2. CASE y >= x + 1
  <2>1. n * y >= n * x + n
    BY <1>2
  <2> QED
    BY <2>1
<1> QED
  BY <1>1, <1>2

\* A remainder is what is left below n of any multiple.
LEMMA Remainder ==
  ASSUME NEW n \in Nat \ {0}, NEW a \in Nat, NEW x \in Nat,
         NEW r \in 0..n - 1, a = n * x + r
  PROVE  a % n = r
<1> DEFINE y == a \div n
           s == a % n
<1>1. y \in Nat /\ s \in 0..n - 1 /\ a = n * y + s
  BY Division
<1> HIDE DEF y, s
<1>2. n * x + r = n * y + s
  BY <1>1
<1>3. r = s
  BY <1>1, <1>2, SameQuotient
<1> QED
  BY <1>3 DEF s

LEMMA SmallRemainder ==
  ASSUME NEW n \in Nat \ {0}, NEW r \in 0..n - 1
  PROVE  r % n = r
<1>1. r \in Nat /\ 0 \in Nat /\ r = n * 0 + r
  OBVIOUS
<1> QED
  BY <1>1, Remainder

LEMMA PastMultiple ==
  ASSUME NEW n \in Nat \ {0}, NEW a \in Nat, NEW k \in 0..n - 1, a % n = 0
  PROVE  (a + k) % n = k
<1> DEFINE x == a \div n
<1>1. x \in Nat /\ a = n * x
  BY Division
<1> HIDE DEF x
<1>2. a + k \in Nat /\ a + k = n * x + k
  BY <1>1
<1> QED
  BY <1>1, <1>2, Remainder

\* Once around the ring.
LEMMA OnceAround ==
  ASSUME NEW n \in Nat \ {0}, NEW a \in Nat
  PROVE  (a + n) % n = a % n
<1> DEFINE x == a \div n
           r == a % n
<1>1. x \in Nat /\ r \in 0..n - 1 /\ a = n * x + r
  BY Division
<1> HIDE DEF x, r
<1>2. n * (x + 1) = n * x + n
  BY <1>1
<1>3. a + n \in Nat /\ x + 1 \in Nat /\ a + n = n * (x + 1) + r
  BY <1>1, <1>2
<1>4. (a + n) % n = r
  BY <1>1, <1>3, Remainder
<1> QED
  BY <1>4 DEF r

LEMMA NextMultiple ==
  ASSUME NEW n \in Nat \ {0}, NEW a \in Nat, a % n = 0
  PROVE  (a + n) % n = 0
BY OnceAround

\* To step on from a place is to step on from any number it stands for.
LEMMA StepFromPlace ==
  ASSUME NEW n \in Nat \ {0}, NEW a \in Nat, NEW b \in Nat
  PROVE  ((a % n) + b) % n = (a + b) % n
<1> DEFINE x == a \div n
           r == a % n
           y == (r + b) \div n
           s == (r + b) % n
<1>1. x \in Nat /\ r \in 0..n - 1 /\ a = n * x + r
  BY Division
<1> HIDE DEF x, r
<1>2. r + b \in Nat
  BY <1>1
<1>3. y \in Nat /\ s \in 0..n - 1 /\ r + b = n * y + s
  BY <1>2, Division
<1> HIDE DEF y, s
<1>4. n * (x + y) = n * x + n * y
  BY <1>1, <1>3
<1>5. x + y \in Nat /\ a + b \in Nat /\ a + b = n * (x + y) + s
  BY <1>1, <1>3, <1>4
<1>6. (a + b) % n = s
  BY <1>3, <1>5, Remainder
<1> QED
  BY <1>6 DEF s, r

\* Places less than one round apart are different.
LEMMA DifferentPlaces ==
  ASSUME NEW n \in Nat \ {0}, NEW a \in Nat, NEW b \in Nat, a < b, b < a + n
  PROVE  a % n # b % n
<1> DEFINE x == a \div n
           y == b \div n
           r == a % n
           s == b % n
<1>1. /\ x \in Nat /\ r \in 0..n - 1 /\ a = n * x + r
      /\ y \in Nat /\ s \in 0..n - 1 /\ b = n * y + s
  BY Division
<1> HIDE DEF x, y, r, s
<1> SUFFICES ASSUME r = s PROVE FALSE
  BY DEF r, s
<1>2. CASE y <= x
  <2>1. n * y <= n * x
    BY <1>1, <1>2
  <2> QED
    BY <1>1, <2>1
<1>3. CASE y >= x + 1
  <2>1. n * y >= n * x + n
    BY <1>1, <1>3
  <2> QED
    BY <1>1, <2>1
<1> QED
  BY <1>1, <1>2, <1>3

\* A multiple of n below another one is at least n below it.
LEMMA MultiplesApart ==
  ASSUME NEW n \in Nat \ {0}, NEW a \in Nat, NEW b \in Nat, a < b,
         a % n = 0, b % n = 0
  PROVE  a + n <= b
<1> DEFINE x == a \div n
           y == b \div n
<1>1. x \in Nat /\ a = n * x /\ y \in Nat /\ b = n * y
  BY Division
<1> HIDE DEF x, y
<1>2. x < y
  <2>1. CASE y <= x
    <3>1. n * y <= n * x
      BY <1>1, <2>1
    <3> QED
      BY <1>1, <3>1
  <2> QED
    BY <1>1, <2>1
<1>3. n * (x + 1) <= n * y
  BY <1>1, <1>2
<1> QED
  BY <1>1, <1>3
=============================================================================
