------------------------- MODULE ModularArithmetic --------------------------
(***************************************************************************)
(* Facts about the remainder that the proofs share: the ring's counters    *)
(* are positions of the stream modulo the word size, and its slots are     *)
(* positions modulo the capacity.                                          *)
(***************************************************************************)
EXTENDS Integers, TLAPS

\* Division with remainder.
LEMMA DivMod ==
    ASSUME NEW a \in Int, NEW m \in Nat \ {0}
    PROVE  \E q \in Int, r \in 0 .. m - 1 : a = m * q + r /\ a % m = r
<1>1. a = m * (a \div m) + (a % m) /\ a \div m \in Int /\ a % m \in 0 .. m - 1
  BY Z3
<1> QED
  BY <1>1

\* The remainder is determined by its range.
LEMMA ModUnique ==
    ASSUME NEW m \in Nat \ {0}, NEW q \in Int, NEW r \in 0 .. m - 1
    PROVE  (m * q + r) % m = r
  BY Z3

\* A multiple of m does not change the remainder.
LEMMA ModShift ==
    ASSUME NEW a \in Int, NEW m \in Nat \ {0}, NEW q \in Int
    PROVE  (a + m * q) % m = a % m
<1>1. PICK p \in Int, r \in 0 .. m - 1 : a = m * p + r /\ a % m = r
  BY DivMod
<1>2. a + m * q = m * (p + q) + r
  <2>1. m * (p + q) = m * p + m * q /\ m * p \in Int /\ m * q \in Int
    BY Z3
  <2> QED
    BY <2>1, <1>1
<1>3. p + q \in Int
  OBVIOUS
<1>4. (m * (p + q) + r) % m = r
  BY ModUnique, <1>3
<1> QED
  BY <1>1, <1>2, <1>4

\* Adding before or after taking the remainder is the same.
LEMMA ModAdd ==
    ASSUME NEW a \in Int, NEW n \in Int, NEW m \in Nat \ {0}
    PROVE  ((a % m) + n) % m = (a + n) % m
<1>1. PICK p \in Int, r \in 0 .. m - 1 : a = m * p + r /\ a % m = r
  BY DivMod
<1>2. r + n \in Int /\ m * p \in Int
  OBVIOUS
<1>3. a + n = (r + n) + m * p
  BY <1>1, <1>2
<1>4. ((r + n) + m * p) % m = (r + n) % m
  BY <1>2, ModShift
<1> QED
  BY <1>1, <1>3, <1>4

\* A distance smaller than m is not changed by wrapping both ends.
LEMMA ModSub ==
    ASSUME NEW a \in Int, NEW b \in Int, NEW m \in Nat \ {0},
           0 <= a - b, a - b < m
    PROVE  ((a % m) - (b % m)) % m = a - b
<1>1. PICK p \in Int, r \in 0 .. m - 1 : a = m * p + r /\ a % m = r
  BY DivMod
<1>2. PICK q \in Int, s \in 0 .. m - 1 : b = m * q + s /\ b % m = s
  BY DivMod
<1>3. r - s = (a - b) + m * (q - p)
  <2>1. m * (q - p) = m * q - m * p /\ m * p \in Int /\ m * q \in Int
    BY Z3
  <2> QED
    BY <2>1, <1>1, <1>2
<1>4. ((a - b) + m * (q - p)) % m = (a - b) % m
  <2>1. a - b \in Int /\ q - p \in Int
    OBVIOUS
  <2> QED
    BY <2>1, ModShift
<1>5. (a - b) % m = a - b
  <2>1. a - b \in 0 .. m - 1 /\ a - b = m * 0 + (a - b)
    OBVIOUS
  <2> QED
    BY <2>1, ModUnique
<1> QED
  BY <1>1, <1>2, <1>3, <1>4, <1>5

\* Wrapping at a multiple of c keeps the remainder modulo c.
LEMMA ModMod ==
    ASSUME NEW a \in Int, NEW c \in Nat \ {0}, NEW k \in Nat \ {0}
    PROVE  (a % (k * c)) % c = a % c
<1> DEFINE m == k * c
<1>1. m \in Nat \ {0}
  BY Z3
<1> HIDE DEF m
<1>2. PICK p \in Int, r \in 0 .. m - 1 : a = m * p + r /\ a % m = r
  BY DivMod, <1>1
<1>3. m * p = c * (k * p) /\ k * p \in Int
  BY Z3 DEF m
<1>4. a = r + c * (k * p) /\ r \in Int
  BY <1>1, <1>2, <1>3
<1>5. (r + c * (k * p)) % c = r % c
  BY <1>3, <1>4, ModShift
<1>6. a % c = (a % m) % c
  BY <1>2, <1>4, <1>5
<1> QED
  BY <1>6 DEF m

\* Two positions less than c apart have different remainders.
LEMMA ModDistinct ==
    ASSUME NEW c \in Nat \ {0}, NEW a \in Int, NEW b \in Int, a < b, b - a < c
    PROVE  a % c # b % c
<1> SUFFICES ASSUME a % c = b % c PROVE FALSE
  OBVIOUS
<1>1. PICK p \in Int, r \in 0 .. c - 1 : a = c * p + r /\ a % c = r
  BY DivMod
<1>2. PICK q \in Int, s \in 0 .. c - 1 : b = c * q + s /\ b % c = s
  BY DivMod
<1>3. b - a = c * (q - p)
  <2>1. c * (q - p) = c * q - c * p /\ c * p \in Int /\ c * q \in Int
    BY Z3
  <2> QED
    BY <2>1, <1>1, <1>2
<1>4. q - p \in Int /\ c * (q - p) > 0 /\ c * (q - p) < c
  BY <1>3
<1>5. q - p > 0
  BY <1>4, Z3
<1>6. q - p < 1
  BY <1>4, Z3
<1> QED
  BY <1>5, <1>6
=============================================================================
