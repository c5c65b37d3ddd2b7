----------------------------- MODULE Arithmetic -----------------------------
(***************************************************************************)
(* Facts about numbers that the provers do not have: products, quotients   *)
(* and remainders of variables, the least member of a set, induction over  *)
(* a set, and functions defined by recursion on a number.                  *)
(***************************************************************************)
EXTENDS Integers, TLAPS, WellFoundedInduction

-----------------------------------------------------------------------------
(* Products, quotients and remainders. *)

LEMMA TimesMonotone ==
  ASSUME NEW a \in Int, NEW b \in Int, NEW n \in Nat, a <= b PROVE a * n <= b * n
OBVIOUS

LEMMA ProductNat ==
  ASSUME NEW a \in Nat \ {0}, NEW b \in Nat \ {0} PROVE a * b \in Nat \ {0} /\ a <= a * b
<1>1. 1 * a <= b * a
  BY TimesMonotone
<1>2. 1 * a = a /\ b * a = a * b /\ a * b \in Int
  OBVIOUS
<1>. QED BY <1>1, <1>2

(* Quotient and remainder are the only numbers of their kind.              *)
LEMMA DivisionUnique ==
  ASSUME NEW q \in Int, NEW n \in Nat \ {0}, NEW r \in 0 .. n - 1
  PROVE  (q * n + r) \div n = q /\ (q * n + r) % n = r
<1>. DEFINE a == q * n + r
            p == a \div n
<1>0. q * n \in Int /\ a \in Int
  OBVIOUS
<1>1. p \in Int /\ p * n <= a /\ a < p * n + n /\ a % n = a - p * n
  BY <1>0
<1>2. a = q * n + r
  OBVIOUS
<1>. HIDE DEF p, a
<1>3. p = q
  <2>1. CASE p < q
    <3>1. (p + 1) * n <= q * n
      BY <1>1, <2>1, TimesMonotone
    <3>2. (p + 1) * n = p * n + n
      BY <1>1
    <3>. QED BY <1>0, <1>1, <1>2, <3>1, <3>2
  <2>2. CASE p > q
    <3>1. (q + 1) * n <= p * n
      BY <1>1, <2>2, TimesMonotone
    <3>2. (q + 1) * n = q * n + n
      OBVIOUS
    <3>. QED BY <1>0, <1>1, <1>2, <3>1, <3>2
  <2>. QED BY <1>1, <2>1, <2>2
<1>. QED BY <1>0, <1>1, <1>2, <1>3 DEF p, a

LEMMA DivisionExact ==
  ASSUME NEW q \in Int, NEW n \in Nat \ {0}
  PROVE  (q * n) \div n = q /\ (q * n) % n = 0
<1>1. 0 \in 0 .. n - 1
  OBVIOUS
<1>2. (q * n + 0) \div n = q /\ (q * n + 0) % n = 0
  BY <1>1, DivisionUnique
<1>3. q * n + 0 = q * n
  <2>1. q * n \in Int
    OBVIOUS
  <2>. QED BY <2>1
<1>. QED BY <1>2, <1>3

LEMMA DivisionParts ==
  ASSUME NEW a \in Nat, NEW n \in Nat \ {0}
  PROVE  /\ a \div n \in Nat /\ a % n \in 0 .. n - 1
         /\ a = (a \div n) * n + (a % n) /\ (a \div n) * n = a - (a % n)
OBVIOUS

LEMMA QuotientSmaller ==
  ASSUME NEW a \in Nat, NEW n \in Nat \ {0} PROVE a \div n \in 0 .. a
<1>. DEFINE q == a \div n
            r == a % n
<1>1. q \in Nat /\ r \in 0 .. n - 1 /\ q * n = a - r
  BY DivisionParts
<1>. HIDE DEF q, r
<1>2. 1 * q <= n * q /\ 1 * q = q /\ n * q = q * n
  BY <1>1, TimesMonotone
<1>3. q \in 0 .. a
  BY <1>1, <1>2
<1>. QED BY <1>3 DEF q

(* Dividing twice is dividing by the square.                               *)
LEMMA DivideTwice ==
  ASSUME NEW a \in Nat, NEW n \in Nat \ {0}
  PROVE  (a \div n) \div n = a \div (n * n)
<1>. DEFINE q == a \div n
            r == a % n
            p == q \div n
            s == q % n
<1>1. q \in Nat /\ r \in 0 .. n - 1 /\ a = q * n + r
  BY DivisionParts
<1>. HIDE DEF q, r
<1>2. p \in Nat /\ s \in 0 .. n - 1 /\ q = p * n + s
  BY <1>1, DivisionParts
<1>. HIDE DEF p, s
<1>3. n * n \in Nat \ {0}
  <2>1. 1 * n <= n * n
    BY TimesMonotone
  <2>. QED BY <2>1
<1>. DEFINE t == s * n + r
<1>4. s * n \in Nat /\ (s + 1) * n <= n * n /\ (s + 1) * n = s * n + n
  <2>1. 0 * n <= s * n /\ s * n \in Int
    BY <1>2, TimesMonotone
  <2>2. (s + 1) * n <= n * n
    BY <1>2, TimesMonotone
  <2>3. (s + 1) * n = s * n + n
    BY <1>2
  <2>. QED BY <2>1, <2>2, <2>3
<1>5. t \in 0 .. n * n - 1
  BY <1>1, <1>3, <1>4
<1>6. a = p * (n * n) + t
  <2>1. q * n = (p * n) * n + s * n
    BY <1>2
  <2>2. (p * n) * n = p * (n * n)
    BY <1>2
  <2>3. p * (n * n) \in Int
    BY <1>2, <1>3
  <2>. QED BY <1>1, <1>4, <2>1, <2>2, <2>3
<1>. HIDE DEF t
<1>7. a \div (n * n) = p
  BY <1>2, <1>3, <1>5, <1>6, DivisionUnique
<1>. QED BY <1>7 DEF p, q

(* A remainder modulo a multiple has the same remainder.                   *)
LEMMA RemainderTwice ==
  ASSUME NEW a \in Int, NEW n \in Nat \ {0}, NEW m \in Nat \ {0}
  PROVE  (a % (m * n)) % n = a % n
<1>. DEFINE N == m * n
            q == a \div N
            r == a % N
            p == r \div n
            s == r % n
<1>1. N \in Nat \ {0}
  BY ProductNat
<1>. HIDE DEF N
<1>2. q \in Int /\ r \in Nat /\ a = q * N + r
  BY <1>1
<1>. HIDE DEF q, r
<1>3. p \in Nat /\ s \in 0 .. n - 1 /\ r = p * n + s
  BY <1>2, DivisionParts
<1>. HIDE DEF p, s
<1>4. q * N = (q * m) * n /\ q * m \in Int
  BY <1>2 DEF N
<1>5. (q * m + p) * n = (q * m) * n + p * n
  BY <1>3, <1>4
<1>6. a = (q * m + p) * n + s
  <2>1. (q * m) * n \in Int /\ p * n \in Int
    BY <1>3, <1>4
  <2>. QED BY <1>2, <1>3, <1>4, <1>5, <2>1
<1>7. q * m + p \in Int
  BY <1>3, <1>4
<1>. DEFINE t == q * m + p
<1>. HIDE DEF t
<1>8. a = t * n + s /\ t \in Int
  BY <1>6, <1>7 DEF t
<1>9. a % n = s
  BY <1>3, <1>8, DivisionUnique
<1>. QED BY <1>9 DEF r, s, N

(* A remainder may be taken of an addend first.                            *)
LEMMA RemainderOfSum ==
  ASSUME NEW a \in Int, NEW b \in Int, NEW n \in Nat \ {0}
  PROVE  (a + b) % n = ((a % n) + b) % n
<1>. DEFINE q == a \div n
            r == a % n
            p == (r + b) \div n
            s == (r + b) % n
<1>1. q \in Int /\ r \in Nat /\ a = q * n + r
  OBVIOUS
<1>. HIDE DEF q, r
<1>2. p \in Int /\ s \in 0 .. n - 1 /\ r + b = p * n + s
  BY <1>1
<1>. HIDE DEF p, s
<1>3. (q + p) * n = q * n + p * n /\ q * n \in Int /\ p * n \in Int
  BY <1>1, <1>2
<1>4. a + b = (q + p) * n + s /\ q + p \in Int
  BY <1>1, <1>2, <1>3
<1>5. (a + b) % n = s
  <2>. DEFINE t == q + p
              c == a + b
  <2>. HIDE DEF t, c
  <2>1. c = t * n + s /\ t \in Int
    BY <1>4 DEF t, c
  <2>2. (t * n + s) % n = s
    BY <1>2, <2>1, DivisionUnique
  <2>. QED BY <2>1, <2>2 DEF c
<1>. QED BY <1>5 DEF r, s

LEMMA RemainderSmall ==
  ASSUME NEW n \in Nat \ {0}, NEW a \in 0 .. n - 1 PROVE a % n = a /\ a \div n = 0
<1>1. 0 * n + a = a
  OBVIOUS
<1>. QED BY <1>1, DivisionUnique

LEMMA RemainderNegative ==
  ASSUME NEW n \in Nat \ {0}, NEW a \in Int, -n <= a, a < 0 PROVE a % n = a + n
<1>1. (-1) * n + (a + n) = a /\ a + n \in 0 .. n - 1
  OBVIOUS
<1>. QED BY <1>1, DivisionUnique

(* Numbers of one remainder.                                               *)
Congruent(a, b, n) == a % n = b % n

LEMMA RemainderShift ==
  ASSUME NEW a \in Int, NEW k \in Int, NEW n \in Nat \ {0} PROVE (a + k * n) % n = a % n
<1>. DEFINE m == k * n
<1>1. m \in Int /\ m % n = 0
  BY DivisionExact
<1>. HIDE DEF m
<1>2. (m + a) % n = ((m % n) + a) % n
  BY <1>1, RemainderOfSum, Zenon
<1>3. m + a = a + m /\ 0 + a = a
  BY <1>1
<1>. QED BY <1>1, <1>2, <1>3 DEF m

(* They differ by a multiple.                                              *)
LEMMA CongruentDiffer ==
  ASSUME NEW a \in Int, NEW b \in Int, NEW n \in Nat \ {0}, Congruent(a, b, n)
  PROVE  \E k \in Int : b = a + k * n
<1>. DEFINE q == a \div n
            p == b \div n
            r == a % n
<1>1. q \in Int /\ p \in Int /\ r \in Int /\ a = q * n + r
  OBVIOUS
<1>2. b = p * n + r
  BY DEF Congruent
<1>. HIDE DEF q, p, r
<1>3. (p - q) * n = p * n - q * n
  BY <1>1
<1>4. p * n \in Int /\ q * n \in Int
  BY <1>1
<1>5. b = a + (p - q) * n
  BY <1>1, <1>2, <1>3, <1>4
<1>6. p - q \in Int
  BY <1>1
<1>. QED BY <1>5, <1>6

LEMMA CongruentPlus ==
  ASSUME NEW a \in Int, NEW b \in Int, NEW c \in Int, NEW d \in Int, NEW n \in Nat \ {0},
         Congruent(a, b, n), Congruent(c, d, n)
  PROVE  Congruent(a + c, b + d, n) /\ Congruent(a - c, b - d, n)
<1>1. PICK k \in Int : b = a + k * n
  BY CongruentDiffer, Zenon
<1>2. PICK l \in Int : d = c + l * n
  BY CongruentDiffer, Zenon
<1>3. /\ (k + l) * n = k * n + l * n /\ (k - l) * n = k * n - l * n
      /\ k * n \in Int /\ l * n \in Int
  OBVIOUS
<1>4. b + d = (a + c) + (k + l) * n /\ b - d = (a - c) + (k - l) * n
  BY <1>1, <1>2, <1>3
<1>5. a + c \in Int /\ a - c \in Int /\ k + l \in Int /\ k - l \in Int
  OBVIOUS
<1>6. ((a + c) + (k + l) * n) % n = (a + c) % n /\ ((a - c) + (k - l) * n) % n = (a - c) % n
  BY <1>5, RemainderShift, Zenon
<1>. QED BY <1>4, <1>6 DEF Congruent

LEMMA CongruentTimes ==
  ASSUME NEW a \in Int, NEW b \in Int, NEW c \in Int, NEW d \in Int, NEW n \in Nat \ {0},
         Congruent(a, b, n), Congruent(c, d, n)
  PROVE  Congruent(a * c, b * d, n)
<1>1. PICK k \in Int : b = a + k * n
  BY CongruentDiffer, Zenon
<1>2. PICK l \in Int : d = c + l * n
  BY CongruentDiffer, Zenon
<1>. DEFINE m == a * l + k * c + k * (n * l)
<1>3. m \in Int /\ a * c \in Int
  OBVIOUS
<1>4. b * d = a * c + m * n
  <2>1. (a + k * n) * (c + l * n) = a * c + (a * l + k * c + k * (n * l)) * n
    OBVIOUS
  <2>. QED BY <1>1, <1>2, <2>1
<1>. HIDE DEF m
<1>5. (a * c + m * n) % n = (a * c) % n
  BY <1>3, RemainderShift, Zenon
<1>. QED BY <1>4, <1>5 DEF Congruent

LEMMA CongruentRemainder ==
  ASSUME NEW a \in Int, NEW n \in Nat \ {0} PROVE Congruent(a % n, a, n)
BY RemainderSmall DEF Congruent

(* What is congruent modulo a multiple is congruent.                       *)
LEMMA CongruentFactor ==
  ASSUME NEW a \in Int, NEW b \in Int, NEW m \in Nat \ {0}, NEW n \in Nat \ {0},
         Congruent(a, b, m * n)
  PROVE  Congruent(a, b, n)
<1>1. (a % (m * n)) % n = a % n /\ (b % (m * n)) % n = b % n
  BY RemainderTwice, Zenon
<1>. QED BY <1>1 DEF Congruent

(* The upper part of a remainder.                                          *)
LEMMA RemainderUpper ==
  ASSUME NEW a \in Int, NEW m \in Nat \ {0}, NEW n \in Nat \ {0}
  PROVE  (a % (m * n)) \div n = (a \div n) % m
<1>. DEFINE N == m * n
            q == a \div N
            r == a % N
            p == r \div n
            s == r % n
<1>1. N \in Nat \ {0}
  BY ProductNat
<1>. HIDE DEF N
<1>2. q \in Int /\ r \in Nat /\ r < N /\ a = q * N + r
  BY <1>1
<1>. HIDE DEF q, r
<1>3. p \in Nat /\ s \in 0 .. n - 1 /\ r = p * n + s
  BY <1>2, DivisionParts
<1>. HIDE DEF p, s
<1>4. p < m
  <2>1. p >= m => m * n <= p * n
    BY <1>3, TimesMonotone
  <2>2. p * n \in Int
    BY <1>3
  <2>. QED BY <1>1, <1>2, <1>3, <2>1, <2>2 DEF N
<1>. DEFINE t == q * m + p
<1>5. t \in Int /\ t * n = q * N + p * n /\ q * N \in Int /\ p * n \in Int
  BY <1>2, <1>3 DEF N
<1>6. t % m = p
  <2>1. p \in 0 .. m - 1
    BY <1>3, <1>4
  <2>. QED BY <1>2, <2>1, DivisionUnique, Zenon
<1>. HIDE DEF t
<1>7. a = t * n + s
  BY <1>2, <1>3, <1>5
<1>8. a \div n = t
  BY <1>3, <1>5, <1>7, DivisionUnique
<1>. QED BY <1>6, <1>8 DEF p, r, N

-----------------------------------------------------------------------------
(* Sets of numbers. *)

LEMMA NatMinimum ==
  ASSUME NEW S \in SUBSET Nat, S # {} PROVE \E x \in S : \A y \in S : x <= y
<1>1. PICK x \in S : \A y \in S : ~(<<y, x>> \in OpToRel(<, Nat))
  BY NatLessThanWellFounded, WFMin, Zenon
<1>2. \A y \in S : ~(y < x)
  BY <1>1 DEF OpToRel
<1>. QED BY <1>2

LEMMA NatMaximum ==
  ASSUME NEW n \in Nat, NEW S \in SUBSET (0..n), S # {} PROVE \E x \in S : \A y \in S : y <= x
<1>. DEFINE T == {n - y : y \in S}
<1>1. T \in SUBSET Nat /\ T # {}
  <2>1. PICK y \in S : TRUE
    OBVIOUS
  <2>2. n - y \in T
    BY <2>1
  <2>. QED BY <2>2
<1>2. PICK z \in T : \A y \in T : z <= y
  <2>. HIDE DEF T
  <2>. QED BY <1>1, NatMinimum
<1>3. PICK x \in S : z = n - x
  BY <1>2
<1>4. \A y \in S : y <= x
  BY <1>2, <1>3
<1>. QED BY <1>4

(* Induction, as a fact about a set of numbers.                            *)
LEMMA Induction ==
  ASSUME NEW S, 0 \in S, \A k \in Nat : k \in S => k + 1 \in S
  PROVE  Nat \subseteq S
<1>. SUFFICES ASSUME Nat \ S # {} PROVE FALSE
  OBVIOUS
<1>1. PICK x \in Nat \ S : \A y \in Nat \ S : x <= y
  BY NatMinimum
<1>2. x # 0
  OBVIOUS
<1>3. x - 1 \in Nat /\ x - 1 \in S
  BY <1>1, <1>2
<1>4. (x - 1) + 1 = x
  OBVIOUS
<1>. QED BY <1>3, <1>4

-----------------------------------------------------------------------------
(* A function defined by its value at zero and a step exists. *)

Iterations(S, c, step) ==
  {f \in [Nat -> S] : f[0] = c /\ \A k \in Nat : f[k + 1] = step[k][f[k]]}

LEMMA Recursion ==
  ASSUME NEW S, NEW c \in S, NEW step \in [Nat -> [S -> S]]
  PROVE  Iterations(S, c, step) # {}
<1>. DEFINE Upto(n) == {f \in [0..n -> S] : f[0] = c /\ \A k \in 0 .. n - 1 : f[k + 1] = step[k][f[k]]}
<1>1. \A n \in Nat : Upto(n) # {}
  <2>. DEFINE T == {n \in Nat : Upto(n) # {}}
  <2>1. 0 \in T
    <3>1. [k \in 0..0 |-> c] \in Upto(0)
      OBVIOUS
    <3>. QED BY <3>1
  <2>2. ASSUME NEW n \in Nat, n \in T PROVE n + 1 \in T
    <3>1. PICK f \in Upto(n) : TRUE
      BY <2>2
    <3>. DEFINE g == [k \in 0 .. n + 1 |-> IF k <= n THEN f[k] ELSE step[n][f[n]]]
    <3>2. g \in [0 .. n + 1 -> S]
      BY <3>1
    <3>3. g[0] = c
      BY <3>1
    <3>4. \A k \in 0 .. (n + 1) - 1 : g[k + 1] = step[k][g[k]]
      <4>. TAKE k \in 0 .. (n + 1) - 1
      <4>1. CASE k = n
        BY <4>1
      <4>2. CASE k # n
        BY <3>1, <4>2
      <4>. QED BY <4>1, <4>2
    <3>. HIDE DEF g
    <3>5. g \in Upto(n + 1)
      BY <3>2, <3>3, <3>4
    <3>. QED BY <3>5
  <2>. HIDE DEF T
  <2>3. Nat \subseteq T
    BY <2>1, <2>2, Induction
  <2>. QED BY <2>3 DEF T
<1>2. \A n \in Nat : \A f \in Upto(n), g \in Upto(n + 1) : \A k \in 0..n : f[k] = g[k]
  <2>. SUFFICES ASSUME NEW n \in Nat, NEW f \in Upto(n), NEW g \in Upto(n + 1)
                PROVE  \A k \in 0..n : f[k] = g[k]
    OBVIOUS
  <2>. DEFINE T == {k \in Nat : k <= n => f[k] = g[k]}
  <2>1. 0 \in T
    OBVIOUS
  <2>2. ASSUME NEW k \in Nat, k \in T PROVE k + 1 \in T
    <3>. SUFFICES ASSUME k + 1 <= n PROVE f[k + 1] = g[k + 1]
      OBVIOUS
    <3>1. f[k] = g[k]
      BY <2>2
    <3>2. f[k + 1] = step[k][f[k]]
      OBVIOUS
    <3>3. g[k + 1] = step[k][g[k]]
      OBVIOUS
    <3>. QED BY <3>1, <3>2, <3>3
  <2>. HIDE DEF T
  <2>3. Nat \subseteq T
    BY <2>1, <2>2, Induction
  <2>. QED BY <2>3 DEF T
<1>. DEFINE part == [n \in Nat |-> CHOOSE f : f \in Upto(n)]
            F == [n \in Nat |-> part[n][n]]
<1>3. \A n \in Nat : part[n] \in Upto(n)
  <2>. HIDE DEF Upto
  <2>. QED BY <1>1
<1>. HIDE DEF part
<1>4. F \in [Nat -> S] /\ F[0] = c
  BY <1>3
<1>5. ASSUME NEW k \in Nat PROVE F[k + 1] = step[k][F[k]]
  <2>1. part[k][k] = part[k + 1][k]
    <3>. HIDE DEF Upto
    <3>. QED BY <1>2, <1>3
  <2>2. part[k + 1][k + 1] = step[k][part[k + 1][k]]
    BY <1>3
  <2>. QED BY <2>1, <2>2
<1>. HIDE DEF F
<1>6. F \in Iterations(S, c, step)
  BY <1>4, <1>5 DEF Iterations
<1>. QED BY <1>6

-----------------------------------------------------------------------------
(* Powers. *)

IsPowers(p, radix) == p = [k \in Nat |-> IF k = 0 THEN 1 ELSE radix * p[k - 1]]

(* The recursive definition of powers defines them.                        *)
LEMMA PowersExist ==
  ASSUME NEW radix \in Nat \ {0}
  PROVE  IsPowers(CHOOSE p : p = [k \in Nat |-> IF k = 0 THEN 1 ELSE radix * p[k - 1]], radix)
<1>. DEFINE F(p) == [k \in Nat |-> IF k = 0 THEN 1 ELSE radix * p[k - 1]]
            step == [k \in Nat |-> [x \in Nat \ {0} |-> radix * x]]
<1>1. step \in [Nat -> [Nat \ {0} -> Nat \ {0}]]
  <2>1. \A x \in Nat \ {0} : radix * x \in Nat \ {0}
    BY ProductNat
  <2>. QED BY <2>1
<1>2. PICK f \in [Nat -> Nat \ {0}] : f[0] = 1 /\ \A k \in Nat : f[k + 1] = step[k][f[k]]
  <2>. HIDE DEF step
  <2>1. 1 \in Nat \ {0}
    OBVIOUS
  <2>2. Iterations(Nat \ {0}, 1, step) # {}
    BY <1>1, <2>1, Recursion, Zenon
  <2>. QED BY <2>2 DEF Iterations
<1>3. f = F(f)
  <2>1. \A k \in Nat : f[k] = IF k = 0 THEN 1 ELSE radix * f[k - 1]
    <3>. TAKE k \in Nat
    <3>1. CASE k = 0
      BY <1>2, <3>1
    <3>2. CASE k # 0
      <4>1. k - 1 \in Nat /\ (k - 1) + 1 = k
        BY <3>2
      <4>. QED BY <1>2, <3>2, <4>1
    <3>. QED BY <3>1, <3>2
  <2>. QED BY <1>2, <2>1
<1>. DEFINE q == CHOOSE p : p = F(p)
<1>4. q = F(q)
  <2>. HIDE DEF F
  <2>. QED BY <1>3
<1>. QED BY <1>4, Zenon DEF IsPowers

LEMMA PowersFacts ==
  ASSUME NEW radix \in Nat \ {0}, NEW p, IsPowers(p, radix)
  PROVE  /\ \A k \in Nat : p[k] \in Nat \ {0}
         /\ p[0] = 1
         /\ \A k \in Nat : p[k + 1] = radix * p[k]
<1>1. \A k \in Nat : p[k] = IF k = 0 THEN 1 ELSE radix * p[k - 1]
  <2>. DEFINE F == [k \in Nat |-> IF k = 0 THEN 1 ELSE radix * p[k - 1]]
  <2>1. p = F
    BY DEF IsPowers
  <2>2. \A k \in Nat : F[k] = IF k = 0 THEN 1 ELSE radix * p[k - 1]
    OBVIOUS
  <2>. HIDE DEF F
  <2>. QED BY <2>1, <2>2, Zenon
<1>2. \A k \in Nat : p[k + 1] = radix * p[k]
  BY <1>1
<1>3. p[0] = 1
  BY <1>1
<1>4. \A k \in Nat : p[k] \in Nat \ {0}
  <2>. DEFINE T == {k \in Nat : p[k] \in Nat \ {0}}
  <2>1. 0 \in T
    BY <1>3
  <2>2. \A k \in Nat : k \in T => k + 1 \in T
    BY <1>2, ProductNat
  <2>. HIDE DEF T
  <2>3. Nat \subseteq T
    BY <2>1, <2>2, Induction
  <2>. QED BY <2>3 DEF T
<1>. QED BY <1>2, <1>3, <1>4

LEMMA PowersOfSum ==
  ASSUME NEW radix \in Nat \ {0}, NEW p, IsPowers(p, radix), NEW a \in Nat, NEW b \in Nat
  PROVE  p[a + b] = p[b] * p[a]
<1>0. /\ \A k \in Nat : p[k] \in Nat \ {0} /\ p[k + 1] = radix * p[k]
      /\ p[0] = 1
  BY PowersFacts, Zenon
<1>. DEFINE T == {k \in Nat : p[a + k] = p[k] * p[a]}
<1>1. 0 \in T
  BY <1>0
<1>2. ASSUME NEW k \in Nat, k \in T PROVE k + 1 \in T
  <2>1. p[a + (k + 1)] = radix * p[a + k]
    <3>1. a + (k + 1) = (a + k) + 1 /\ a + k \in Nat
      OBVIOUS
    <3>. QED BY <1>0, <3>1
  <2>2. p[k + 1] = radix * p[k]
    BY <1>0
  <2>3. \A x, y, z \in Nat : x * (y * z) = (x * y) * z
    OBVIOUS
  <2>4. radix \in Nat /\ p[k] \in Nat /\ p[a] \in Nat
    BY <1>0
  <2>. QED BY <1>2, <2>1, <2>2, <2>3, <2>4
<1>. HIDE DEF T
<1>3. Nat \subseteq T
  BY <1>1, <1>2, Induction
<1>. QED BY <1>3 DEF T
=============================================================================
