------------------------- MODULE ModularArithmetic --------------------------
(***************************************************************************)
(* Facts about remainders that the circular buffers and the 16-bit         *)
(* pointers of the socket layer rest on: masking with SMASK is % SSIZE,    *)
(* arithmetic on a uint16_t is % 65536.                                    *)
(***************************************************************************)
EXTENDS Integers, TLAPS

(* Quotient and remainder by a positive number.                            *)
LEMMA DivMod ==
  ASSUME NEW a \in Nat, NEW S \in Nat, 0 < S
  PROVE  /\ a % S \in Nat /\ a % S < S
         /\ a \div S \in Nat
         /\ a = S * (a \div S) + (a % S)
  OBVIOUS

(* Multiples of S are at least S apart.                                    *)
LEMMA MultiplesApart ==
  ASSUME NEW S \in Nat, 0 < S, NEW p \in Int, NEW q \in Int, p < q
  PROVE  S * p + S <= S * q
<1>1. q - p - 1 \in Nat
  OBVIOUS
<1>2. S * (q - p - 1) >= 0
  BY <1>1
<1>3. S * (q - p - 1) = S * q - S * p - S
  OBVIOUS
<1> QED BY <1>2, <1>3

(* A number has only one remainder.                                        *)
LEMMA RemainderUnique ==
  ASSUME NEW S \in Nat, 0 < S, NEW a \in Nat, NEW q \in Int, NEW r \in Nat,
         r < S, a = S * q + r
  PROVE  a % S = r
<1> DEFINE p == a \div S
           t == a % S
<1>1. p \in Int /\ t \in Nat /\ t < S /\ a = S * p + t
  BY DivMod
<1> HIDE DEF p, t
<1>2. CASE p < q
  BY <1>1, <1>2, MultiplesApart
<1>3. CASE q < p
  BY <1>1, <1>3, MultiplesApart
<1>4. ASSUME p = q PROVE t = r
  <2>1. S * p = S * q
    BY <1>4
  <2>2. S * p \in Int
    BY <1>1
  <2> QED BY <1>1, <2>1, <2>2
<1>5. t = r
  BY <1>1, <1>2, <1>3, <1>4
<1> QED BY <1>5 DEF t

(* A number below S is its own remainder.                                  *)
LEMMA RemainderOfSmall ==
  ASSUME NEW S \in Nat, NEW a \in Nat, a < S
  PROVE  a % S = a
<1>1. a = S * 0 + a
  OBVIOUS
<1> QED BY <1>1, RemainderUnique

(* Adding a multiple of S leaves the remainder alone.                      *)
LEMMA RemainderShift ==
  ASSUME NEW S \in Nat, 0 < S, NEW a \in Nat, NEW k \in Int, a + S * k \in Nat
  PROVE  (a + S * k) % S = a % S
<1> DEFINE q == a \div S
           r == a % S
<1>1. q \in Int /\ r \in Nat /\ r < S /\ a = S * q + r
  BY DivMod
<1> HIDE DEF q, r
<1>2. a + S * k = S * (q + k) + r
  BY <1>1
<1>3. q + k \in Int
  BY <1>1
<1>4. (a + S * k) % S = r
  BY <1>1, <1>2, <1>3, RemainderUnique
<1> QED BY <1>4 DEF r

(* A remainder may be taken before adding.                                 *)
LEMMA RemainderOfSum ==
  ASSUME NEW S \in Nat, 0 < S, NEW a \in Nat, NEW n \in Nat
  PROVE  ((a % S) + n) % S = (a + n) % S
<1> DEFINE q == a \div S
           r == a % S
<1>1. q \in Int /\ r \in Nat /\ a = S * q + r
  BY DivMod
<1> HIDE DEF q, r
<1>2. a + n = (r + n) + S * q
  BY <1>1
<1>3. r + n \in Nat /\ a + n \in Nat
  BY <1>1
<1>4. (a + n) % S = (r + n) % S
  BY <1>1, <1>2, <1>3, RemainderShift
<1> QED BY <1>4 DEF r

(* When S divides P, reducing by P first does not change the remainder     *)
(* by S: a 16-bit pointer masks to the slot of the unbounded position.     *)
LEMMA RemainderOfRemainder ==
  ASSUME NEW P \in Nat, NEW S \in Nat, 0 < S, 0 < P, P % S = 0, NEW a \in Nat
  PROVE  (a % P) % S = a % S
<1> DEFINE m == P \div S
           q == a \div P
           r == a % P
<1>1. m \in Int /\ P = S * m
  BY DivMod
<1>2. q \in Int /\ r \in Nat /\ a = P * q + r
  BY DivMod
<1> HIDE DEF m, q, r
<1>3. P * q = S * (m * q)
  BY <1>1, <1>2
<1>4. m * q \in Int
  BY <1>1, <1>2
<1>5. a = r + S * (m * q)
  BY <1>2, <1>3, <1>4
<1>6. a % S = r % S
  BY <1>2, <1>4, <1>5, RemainderShift
<1> QED BY <1>6 DEF r

(* Positions less than S apart have different remainders: they lie in      *)
(* different slots of a buffer of S bytes.                                 *)
LEMMA SlotsDiffer ==
  ASSUME NEW S \in Nat, 0 < S, NEW a \in Nat, NEW b \in Nat, a < b, b < a + S
  PROVE  a % S # b % S
<1> DEFINE q == a \div S
           r == a % S
<1>1. q \in Int /\ r \in Nat /\ r < S /\ a = S * q + r
  BY DivMod
<1> HIDE DEF q, r
<1>2. CASE r + (b - a) < S
  <2>1. b = S * q + (r + (b - a)) /\ r + (b - a) \in Nat
    BY <1>1
  <2>2. b % S = r + (b - a)
    BY <1>1, <1>2, <2>1, RemainderUnique
  <2>3. b % S # r
    BY <1>1, <2>2
  <2> QED BY <2>3 DEF r
<1>3. CASE r + (b - a) >= S
  <2> DEFINE t == r + (b - a) - S
  <2>1. t \in Nat /\ t < S
    BY <1>1, <1>3
  <2>2. b = S * (q + 1) + t /\ q + 1 \in Int
    BY <1>1
  <2>3. b % S = t
    BY <2>1, <2>2, RemainderUnique
  <2>4. t # r
    BY <1>1
  <2> QED BY <2>3, <2>4 DEF r
<1> QED BY <1>1, <1>2, <1>3

(* The remainder of any integer, negative ones included.                   *)
LEMMA IntRemainder ==
  ASSUME NEW P \in Nat, 0 < P, NEW x \in Int, NEW k \in Int, NEW r \in Nat,
         r < P, x = P * k + r
  PROVE  x % P = r
<1> DEFINE p == x \div P
           t == x % P
<1>1. p \in Int /\ t \in Nat /\ t < P /\ x = P * p + t
  OBVIOUS
<1> HIDE DEF p, t
<1>2. CASE p < k
  BY <1>1, <1>2, MultiplesApart
<1>3. CASE k < p
  BY <1>1, <1>3, MultiplesApart
<1>4. ASSUME p = k PROVE t = r
  <2>1. P * p = P * k /\ P * p \in Int
    BY <1>1, <1>4
  <2> QED BY <1>1, <2>1
<1>5. t = r
  BY <1>1, <1>2, <1>3, <1>4
<1> QED BY <1>5 DEF t

(* The distance between two pointers that are reduced by P is the distance *)
(* between the positions, as long as it is less than P.                    *)
LEMMA DistanceIsExact ==
  ASSUME NEW P \in Nat, 0 < P, NEW a \in Nat, NEW b \in Nat, a <= b, b < a + P
  PROVE  ((b % P) - a) % P = b - a
<1> DEFINE q == b \div P
           r == b % P
<1>1. q \in Int /\ r \in Nat /\ b = P * q + r
  BY DivMod
<1> HIDE DEF q, r
<1>2. (r - a) = P * (0 - q) + (b - a)
  BY <1>1
<1>3. r - a \in Int /\ 0 - q \in Int /\ b - a \in Nat /\ b - a < P
  BY <1>1
<1>4. (r - a) % P = b - a
  BY <1>2, <1>3, IntRemainder
<1> QED BY <1>4 DEF r

(* So is the distance between two remainders.                              *)
LEMMA DifferenceOfRemainders ==
  ASSUME NEW P \in Nat, 0 < P, NEW a \in Nat, NEW b \in Nat, a <= b, b < a + P
  PROVE  ((b % P) - (a % P)) % P = b - a
<1> DEFINE q == b \div P
           r == b % P
           k == a \div P
           s == a % P
<1>1. q \in Int /\ r \in Nat /\ b = P * q + r
  BY DivMod
<1>2. k \in Int /\ s \in Nat /\ a = P * k + s
  BY DivMod
<1> HIDE DEF q, r, k, s
<1>3. (r - s) = P * (k - q) + (b - a)
  BY <1>1, <1>2
<1>4. r - s \in Int /\ k - q \in Int /\ b - a \in Nat /\ b - a < P
  BY <1>1, <1>2
<1>5. (r - s) % P = b - a
  BY <1>3, <1>4, IntRemainder
<1> QED BY <1>5 DEF r, s

(* Taking away from a remainder, or before it is taken.                    *)
LEMMA RemainderOfDifference ==
  ASSUME NEW P \in Nat, 0 < P, NEW a \in Nat, NEW b \in Nat, a <= b
  PROVE  ((b % P) - a) % P = (b - a) % P
<1> DEFINE q == b \div P
           r == b % P
           k == (b - a) \div P
           s == (b - a) % P
<1>1. q \in Int /\ r \in Nat /\ b = P * q + r
  BY DivMod
<1>2. b - a \in Nat
  OBVIOUS
<1>3. k \in Int /\ s \in Nat /\ s < P /\ b - a = P * k + s
  BY <1>2, DivMod
<1> HIDE DEF q, r, k, s
<1>4. (r - a) = P * (k - q) + s
  BY <1>1, <1>3
<1>5. r - a \in Int /\ k - q \in Int
  BY <1>1, <1>3
<1>6. (r - a) % P = s
  BY <1>3, <1>4, <1>5, IntRemainder
<1> QED BY <1>6 DEF r, s
=============================================================================
