--------------------------- MODULE ModArithmetic ---------------------------
(***************************************************************************)
(* Division and remainder by a divisor that is not a known number, which   *)
(* the provers know little of: bytes of a word, slots of a ring and        *)
(* sequence numbers that wrap.                                             *)
(***************************************************************************)
EXTENDS Integers, TLAPS

(* Multiplication by a natural number is monotonic. *)
LEMMA MulMono == ASSUME NEW a \in Int, NEW b \in Int, NEW w \in Nat, a <= b
                 PROVE  a * w <= b * w
<1>1. PICK d \in Nat : b = a + d
  BY b - a \in Nat
<1>2. d * w >= 0
  OBVIOUS
<1>3. b * w = a * w + d * w
  BY <1>1
<1> QED BY <1>2, <1>3

(* Quotient and remainder are determined by what they have to satisfy. *)
LEMMA DivMod == ASSUME NEW w \in Nat \ {0}, NEW q \in Int, NEW r \in 0 .. w - 1
                PROVE  (q * w + r) \div w = q /\ (q * w + r) % w = r
<1> DEFINE x == q * w + r
           y == x \div w
           m == x % w
<1>1. x \in Int /\ y \in Int /\ m \in 0 .. w - 1 /\ x = y * w + m
  OBVIOUS
<1> HIDE DEF y, m
<1>2. ~(y > q)
  <2> SUFFICES ASSUME y > q PROVE FALSE OBVIOUS
  <2>1. (q + 1) * w <= y * w
    BY <1>1, MulMono
  <2>2. (q + 1) * w = q * w + w
    OBVIOUS
  <2> QED BY <1>1, <2>1, <2>2
<1>3. ~(y < q)
  <2> SUFFICES ASSUME y < q PROVE FALSE OBVIOUS
  <2>1. (y + 1) * w <= q * w
    BY <1>1, MulMono
  <2>2. (y + 1) * w = y * w + w
    BY <1>1
  <2> QED BY <1>1, <2>1, <2>2
<1>4. y = q
  BY <1>1, <1>2, <1>3
<1>5. m = r
  BY <1>1, <1>4
<1> QED BY <1>4, <1>5 DEF y, m

(* What division by w leaves. *)
LEMMA Euclid == ASSUME NEW n \in Nat, NEW w \in Nat \ {0}
                PROVE  n \div w \in Nat /\ n % w \in 0 .. w - 1 /\ n = (n \div w) * w + (n % w)
  OBVIOUS

(* The remainder of the next number: the step of a ring's index.           *)
LEMMA NextMod ==
  ASSUME NEW n \in Nat \ {0}, NEW a \in Nat
  PROVE  /\ (a + 1) % n = IF (a % n) + 1 = n THEN 0 ELSE (a % n) + 1
         /\ ((a % n) + 1) % n = (a + 1) % n
  <1> DEFINE q == a \div n
             d == a % n
  <1>1. q \in Nat /\ d \in 0..(n - 1) /\ a = q * n + d
    BY Euclid
  <1> HIDE DEF q, d
  <1>2. CASE d + 1 = n
    <2>1. a + 1 = (q + 1) * n + 0 /\ d + 1 = 1 * n + 0 /\ q + 1 \in Int /\ 0 \in 0..(n - 1)
      BY <1>1, <1>2
    <2>2. (a + 1) % n = 0
      BY <2>1, DivMod
    <2>3. (d + 1) % n = 0
      BY <2>1, DivMod, 1 \in Int
    <2> QED BY <1>2, <2>2, <2>3 DEF d
  <1>3. CASE d + 1 # n
    <2>1. a + 1 = q * n + (d + 1) /\ d + 1 = 0 * n + (d + 1) /\ d + 1 \in 0..(n - 1)
      BY <1>1, <1>3
    <2>2. (a + 1) % n = d + 1 /\ (d + 1) % n = d + 1
      BY <1>1, <2>1, DivMod
    <2> QED BY <1>3, <2>2 DEF d
  <1> QED BY <1>2, <1>3

(* The distance of two remainders is that of the numbers, if it is less    *)
(* than the divisor; such numbers do not share a remainder.                *)
LEMMA ModDistance ==
  ASSUME NEW n \in Nat \ {0}, NEW a \in Nat, NEW b \in Nat, b <= a, a < b + n
  PROVE  /\ ((a % n) - (b % n)) % n = a - b
         /\ a % n = b % n => a = b
  <1> DEFINE q == a \div n
             d == a % n
             p == b \div n
             e == b % n
  <1>1. q \in Nat /\ d \in 0..(n - 1) /\ a = q * n + d
    BY Euclid
  <1>2. p \in Nat /\ e \in 0..(n - 1) /\ b = p * n + e
    BY Euclid
  <1> HIDE DEF q, d, p, e
  <1>3. d - e = (p - q) * n + (a - b) /\ p - q \in Int /\ a - b \in 0..(n - 1)
    BY <1>1, <1>2
  <1>4. (d - e) % n = a - b
    BY <1>3, DivMod
  <1>5. d = e => a = b
    <2> SUFFICES ASSUME d = e PROVE a = b
      OBVIOUS
    <2>1. d - e = 0 * n + 0 /\ 0 \in 0..(n - 1)
      BY <1>1, <1>2
    <2>2. (d - e) % n = 0
      BY <2>1, DivMod
    <2> QED BY <1>4, <2>2
  <1> QED BY <1>4, <1>5 DEF d, e

(* The remainder of a sum or a difference, from the remainder of one term. *)
LEMMA ModShift ==
  ASSUME NEW n \in Nat \ {0}, NEW a \in Nat, NEW i \in Int
  PROVE  ((a % n) + i) % n = (a + i) % n
  <1> DEFINE q == a \div n
             d == a % n
             p == (d + i) \div n
             e == (d + i) % n
  <1>1. q \in Nat /\ d \in 0..(n - 1) /\ a = q * n + d
    BY Euclid
  <1> HIDE DEF q, d
  <1>2. d + i \in Int
    BY <1>1
  <1>3. p \in Int /\ e \in 0..(n - 1) /\ d + i = p * n + e
    BY <1>2
  <1>4. e = (d + i) % n
    OBVIOUS
  <1> HIDE DEF p, e
  <1>5. a + i = (q + p) * n + e
    <2>1. q * n \in Int /\ p * n \in Int /\ (q + p) * n = q * n + p * n
      BY <1>1, <1>3
    <2> QED BY <1>1, <1>2, <1>3, <2>1
  <1>6. (a + i) % n = e
    <2>1. q + p \in Int
      BY <1>1, <1>3
    <2> QED BY <1>3, <1>5, <2>1, DivMod
  <1> QED BY <1>4, <1>6 DEF d

(* The remainder of a sum, from the remainder of one term.                 *)
LEMMA ModAdd ==
  ASSUME NEW n \in Nat \ {0}, NEW a \in Nat, NEW i \in Nat
  PROVE  ((a % n) + i) % n = (a + i) % n
BY ModShift, i \in Int

(* Numbers below the divisor are their own remainders, and a period more   *)
(* changes nothing.                                                        *)
LEMMA ModSmall ==
  ASSUME NEW n \in Nat \ {0}, NEW a \in 0..(n - 1) PROVE a % n = a
  <1>1. a = 0 * n + a
    OBVIOUS
  <1> QED BY <1>1, DivMod

(* Remainders have the period of the divisor.                              *)
LEMMA ModPeriod ==
  ASSUME NEW n \in Nat \ {0}, NEW a \in Nat PROVE (a + n) % n = a % n
  <1> DEFINE q == a \div n
             d == a % n
  <1>1. q \in Nat /\ d \in 0..(n - 1) /\ a = q * n + d
    BY Euclid
  <1> HIDE DEF q, d
  <1>2. a + n = (q + 1) * n + d /\ q + 1 \in Int
    BY <1>1
  <1>3. (a + n) % n = d
    BY <1>1, <1>2, DivMod
  <1> QED BY <1>3 DEF d

=============================================================================
