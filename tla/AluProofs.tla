------------------------------ MODULE AluProofs ------------------------------
(***************************************************************************)
(* Theorems about the arithmetic units of both sides, for every width that *)
(* is a power of two and every pair of operands.                           *)
(***************************************************************************)
EXTENDS Alu, Arithmetic

-----------------------------------------------------------------------------
(* Words. *)

LEMMA WidthFacts ==
  /\ XLEN \in Nat \ {0, 1} /\ HLEN \in Nat \ {0} /\ HLEN < XLEN
  /\ XLEN \in 1 .. 2 * XLEN - 1 /\ HLEN \in 1 .. 2 * XLEN - 1
BY WidthAssumption

LEMMA PowerFacts ==
  /\ Power[0] = 1
  /\ \A n \in 0 .. 2 * XLEN : Power[n] \in Nat \ {0}
  /\ \A n \in 1 .. 2 * XLEN : Power[n] = 2 * Power[n - 1] /\ Power[n - 1] \in Nat \ {0}
  /\ \A m, n \in 0 .. 2 * XLEN : m <= n => Power[n] = Power[n - m] * Power[m]
<1>1. 2 \in Nat \ {0} /\ IsPowers(PowerOfTwo, 2)
  <2>1. 2 \in Nat \ {0}
    OBVIOUS
  <2>2. IsPowers(PowerOfTwo, 2)
    BY <2>1, PowersExist, Zenon DEF PowerOfTwo
  <2>. QED BY <2>1, <2>2
<1>2. /\ PowerOfTwo[0] = 1
      /\ \A n \in Nat : PowerOfTwo[n] \in Nat \ {0}
      /\ \A n \in Nat : PowerOfTwo[n + 1] = 2 * PowerOfTwo[n]
  BY <1>1, PowersFacts, Zenon
<1>3. \A a, b \in Nat : PowerOfTwo[a + b] = PowerOfTwo[b] * PowerOfTwo[a]
  BY <1>1, PowersOfSum, Zenon
<1>4. \A n \in 0 .. 2 * XLEN : Power[n] = PowerOfTwo[n] /\ n \in Nat
  BY DEF Power
<1>5. ASSUME NEW n \in 1 .. 2 * XLEN
      PROVE  Power[n] = 2 * Power[n - 1] /\ Power[n - 1] \in Nat \ {0}
  <2>1. n \in 0 .. 2 * XLEN /\ n - 1 \in 0 .. 2 * XLEN /\ n - 1 \in Nat /\ (n - 1) + 1 = n
    BY WidthFacts
  <2>2. PowerOfTwo[(n - 1) + 1] = 2 * PowerOfTwo[n - 1]
    BY <1>2, <2>1
  <2>. QED BY <1>2, <1>4, <2>1, <2>2
<1>6. ASSUME NEW m \in 0 .. 2 * XLEN, NEW n \in 0 .. 2 * XLEN, m <= n
      PROVE  Power[n] = Power[n - m] * Power[m]
  <2>1. n - m \in 0 .. 2 * XLEN /\ n - m \in Nat /\ m \in Nat /\ m + (n - m) = n
    BY <1>6, WidthFacts
  <2>2. PowerOfTwo[m + (n - m)] = PowerOfTwo[n - m] * PowerOfTwo[m]
    BY <1>3, <2>1
  <2>. QED BY <1>4, <2>1, <2>2
<1>7. 0 \in 0 .. 2 * XLEN
  BY WidthFacts
<1>. QED BY <1>2, <1>4, <1>5, <1>6, <1>7

(* The signed numbers of n bits. *)
SignedRange(n) == -Power[n - 1] .. Power[n - 1] - 1

LEMMA BitsFacts ==
  ASSUME NEW a \in Int, NEW n \in 0 .. 2 * XLEN
  PROVE  /\ Bits(a, n) \in 0 .. Power[n] - 1 /\ Bits(a, n) \in Int
         /\ Congruent(Bits(a, n), a, Power[n])
<1>1. Power[n] \in Nat \ {0}
  BY PowerFacts
<1>2. Congruent(a % Power[n], a, Power[n])
  BY <1>1, CongruentRemainder
<1>. QED BY <1>1, <1>2 DEF Bits

LEMMA BitsSame ==
  ASSUME NEW a, NEW b, NEW n, Congruent(a, b, Power[n])
  PROVE  Bits(a, n) = Bits(b, n) /\ SInt(a, n) = SInt(b, n)
BY DEF Congruent, Bits, SInt

LEMMA BitsSmall ==
  ASSUME NEW n \in 0 .. 2 * XLEN, NEW a \in 0 .. Power[n] - 1 PROVE Bits(a, n) = a
BY PowerFacts, RemainderSmall DEF Bits

LEMMA SIntFacts ==
  ASSUME NEW a \in Int, NEW n \in 1 .. 2 * XLEN
  PROVE  SInt(a, n) \in SignedRange(n) /\ SInt(a, n) \in Int /\ Congruent(SInt(a, n), a, Power[n])
<1>. DEFINE N == Power[n]
            h == Power[n - 1]
            u == Bits(a, n)
<1>1. N = 2 * h /\ h \in Nat \ {0} /\ N \in Nat \ {0}
  BY PowerFacts
<1>2. u \in 0 .. N - 1 /\ Congruent(u, a, N)
  BY BitsFacts
<1>3. SInt(a, n) = IF u >= h THEN u - N ELSE u
  BY DEF SInt
<1>4. Congruent(u - N, u, N)
  <2>. HIDE DEF N, u
  <2>1. (u + (-1) * N) % N = u % N
    <3>1. u \in Int /\ -1 \in Int
      BY <1>1, <1>2
    <3>. QED BY <1>1, <3>1, RemainderShift, Zenon
  <2>2. u + (-1) * N = u - N
    BY <1>1, <1>2
  <2>. QED BY <2>1, <2>2 DEF Congruent
<1>. HIDE DEF N, h, u
<1>5. Congruent(u - N, a, N)
  BY <1>2, <1>4 DEF Congruent
<1>6. SInt(a, n) \in -h .. h - 1
  BY <1>1, <1>2, <1>3
<1>7. Congruent(SInt(a, n), a, N)
  BY <1>2, <1>3, <1>5
<1>. QED BY <1>1, <1>6, <1>7 DEF N, h, SignedRange

LEMMA SIntSmall ==
  ASSUME NEW n \in 1 .. 2 * XLEN, NEW a \in SignedRange(n) PROVE SInt(a, n) = a /\ a \in Int
<1>. DEFINE N == Power[n]
            h == Power[n - 1]
            u == Bits(a, n)
<1>1. N = 2 * h /\ h \in Nat \ {0} /\ N \in Nat \ {0}
  BY PowerFacts
<1>2. a \in -h .. h - 1 /\ a \in Int
  BY <1>1 DEF SignedRange
<1>3. u = a % N
  BY DEF Bits
<1>4. SInt(a, n) = IF u >= h THEN u - N ELSE u
  BY DEF SInt
<1>. HIDE DEF N, h, u
<1>5. CASE a < 0
  <2>1. a % N = a + N
    <3>1. -N <= a
      BY <1>1, <1>2
    <3>. QED BY <1>1, <1>2, <1>5, <3>1, RemainderNegative, Zenon
  <2>. QED BY <1>1, <1>2, <1>3, <1>4, <2>1
<1>6. CASE a >= 0
  <2>1. a \in 0 .. N - 1
    BY <1>1, <1>2, <1>6
  <2>2. a % N = a
    BY <1>1, <2>1, RemainderSmall
  <2>. QED BY <1>1, <1>2, <1>3, <1>4, <2>2
<1>. QED BY <1>2, <1>5, <1>6

(* What agrees in more bits agrees in fewer.                               *)
LEMMA CongruentFewer ==
  ASSUME NEW a \in Int, NEW b \in Int, NEW m \in 0 .. 2 * XLEN, NEW n \in 0 .. 2 * XLEN, m <= n,
         Congruent(a, b, Power[n])
  PROVE  Congruent(a, b, Power[m])
<1>1. n - m \in 0 .. 2 * XLEN
  BY WidthFacts
<1>2. Power[n] = Power[n - m] * Power[m] /\ Power[n - m] \in Nat \ {0} /\ Power[m] \in Nat \ {0}
  BY <1>1, PowerFacts
<1>3. Congruent(a, b, Power[n - m] * Power[m])
  BY <1>2
<1>. QED BY <1>2, <1>3, CongruentFactor, Zenon

(* The low bits of a word, signed or not.                                  *)
LEMMA LowBits ==
  ASSUME NEW a \in Int, NEW b \in Int, Congruent(a, b, Power[XLEN])
  PROVE  Bits(a, HLEN) = Bits(b, HLEN) /\ SInt(a, HLEN) = SInt(b, HLEN)
<1>1. HLEN \in 0 .. 2 * XLEN /\ XLEN \in 0 .. 2 * XLEN /\ HLEN <= XLEN
  BY WidthFacts
<1>2. Congruent(a, b, Power[HLEN])
  BY <1>1, CongruentFewer, Zenon
<1>. QED BY <1>2, BitsSame

(* A shift amount may be taken from the cut operand.                       *)
LEMMA ShiftFacts ==
  ASSUME NEW width \in {XLEN, HLEN}, NEW a \in Int
  PROVE  /\ Bits(a, width) % width = a % width
         /\ a % width \in 0 .. 2 * XLEN /\ Power[a % width] \in Nat \ {0}
<1>1. PICK n \in 0 .. width - 1 : width = Power[n]
  BY WidthAssumption
<1>2. width \in 1 .. 2 * XLEN - 1 /\ width \in Nat \ {0} /\ n \in 0 .. 2 * XLEN /\ width - n \in 0 .. 2 * XLEN
      /\ width \in 0 .. 2 * XLEN /\ n <= width
  BY <1>1, WidthFacts
<1>3. Power[width] = Power[width - n] * width /\ Power[width - n] \in Nat \ {0}
  BY <1>1, <1>2, PowerFacts
<1>4. (a % (Power[width - n] * width)) % width = a % width
  BY <1>2, <1>3, RemainderTwice, Zenon
<1>5. a % width \in 0 .. 2 * XLEN
  BY <1>2, WidthFacts
<1>. QED BY <1>3, <1>4, <1>5, PowerFacts DEF Bits

-----------------------------------------------------------------------------
(* Results. *)

(* Where a plain result of the RTL agrees with the reference's.            *)
LEMMA PlainResult ==
  ASSUME NEW z \in Int, NEW r \in Int, Congruent(z, r, Power[XLEN])
  PROVE  Bits(z, XLEN) = Bits(SInt(r, XLEN), XLEN) /\ SInt(r, XLEN) \in SignedRange(XLEN)
<1>1. XLEN \in 1 .. 2 * XLEN
  BY WidthFacts
<1>2. Congruent(SInt(r, XLEN), r, Power[XLEN]) /\ SInt(r, XLEN) \in SignedRange(XLEN)
  BY <1>1, SIntFacts
<1>3. Congruent(z, SInt(r, XLEN), Power[XLEN])
  BY <1>2 DEF Congruent
<1>. QED BY <1>2, <1>3, BitsSame

(* Where it needs no cutting.                                              *)
LEMMA WholeResult ==
  ASSUME NEW z \in Word PROVE z = Bits(SInt(z, XLEN), XLEN) /\ SInt(z, XLEN) \in SignedRange(XLEN)
<1>1. XLEN \in 0 .. 2 * XLEN
  BY WidthFacts
<1>2. z \in 0 .. Power[XLEN] - 1 /\ z \in Int
  BY <1>1, PowerFacts DEF Word
<1>3. Bits(z, XLEN) = z
  BY <1>1, <1>2, BitsSmall
<1>. QED BY <1>2, <1>3, PlainResult DEF Congruent

(* Where a result of a word form does.                                     *)
LEMMA HalfResult ==
  ASSUME NEW z \in Int, NEW r \in Int, Congruent(z, r, Power[HLEN])
  PROVE  SignedExtend(z, HLEN) = Bits(SInt(r, HLEN), XLEN) /\ SInt(r, HLEN) \in SignedRange(XLEN)
<1>1. HLEN \in 1 .. 2 * XLEN /\ XLEN \in 1 .. 2 * XLEN /\ HLEN - 1 \in 0 .. 2 * XLEN /\ XLEN - 1 \in 0 .. 2 * XLEN
      /\ HLEN - 1 <= XLEN - 1 /\ (XLEN - 1) - (HLEN - 1) \in 0 .. 2 * XLEN
  BY WidthFacts
<1>2. SInt(z, HLEN) = SInt(r, HLEN)
  BY BitsSame
<1>3. SInt(r, HLEN) \in SignedRange(HLEN)
  BY <1>1, SIntFacts
<1>4. Power[HLEN - 1] <= Power[XLEN - 1] /\ Power[HLEN - 1] \in Nat /\ Power[XLEN - 1] \in Nat
  <2>. DEFINE p == Power[HLEN - 1]
              q == Power[(XLEN - 1) - (HLEN - 1)]
              s == Power[XLEN - 1]
  <2>1. p \in Nat \ {0} /\ q \in Nat \ {0} /\ s = q * p
    BY <1>1, PowerFacts
  <2>. HIDE DEF p, q, s
  <2>2. p <= p * q /\ p * q \in Nat
    BY <2>1, ProductNat
  <2>3. p * q = q * p
    BY <2>1
  <2>. QED BY <2>1, <2>2, <2>3 DEF p, s
<1>5. SInt(r, HLEN) \in SignedRange(XLEN)
  BY <1>3, <1>4 DEF SignedRange
<1>. QED BY <1>2, <1>5 DEF SignedExtend

-----------------------------------------------------------------------------
(* Operands. *)

(* A register of both sides.                                               *)
LEMMA Operand ==
  ASSUME NEW x \in SignedRange(XLEN)
  PROVE  /\ x \in Int /\ Bits(x, XLEN) \in Word /\ Bits(x, XLEN) \in Nat
         /\ Congruent(Bits(x, XLEN), x, Power[XLEN])
         /\ SInt(Bits(x, XLEN), XLEN) = x /\ (Bits(x, XLEN) = 0 <=> x = 0)
<1>. DEFINE u == Bits(x, XLEN)
<1>1. XLEN \in 1 .. 2 * XLEN /\ XLEN \in 0 .. 2 * XLEN /\ Power[XLEN] \in Nat \ {0}
  BY WidthFacts, PowerFacts
<1>2. x \in Int /\ SInt(x, XLEN) = x
  BY <1>1, SIntSmall
<1>3. u \in 0 .. Power[XLEN] - 1 /\ u \in Int /\ Congruent(u, x, Power[XLEN])
  BY <1>1, <1>2, BitsFacts
<1>4. SInt(u, XLEN) = x
  BY <1>2, <1>3, BitsSame
<1>5. Bits(0, XLEN) = 0 /\ SInt(0, XLEN) = 0
  <2>1. 0 \in 0 .. Power[XLEN] - 1 /\ 0 \in SignedRange(XLEN)
    BY <1>1, PowerFacts DEF SignedRange
  <2>. QED BY <1>1, <2>1, BitsSmall, SIntSmall
<1>6. u = 0 <=> x = 0
  BY <1>4, <1>5
<1>. QED BY <1>1, <1>2, <1>3, <1>4, <1>6 DEF Word

(* Its lower half.                                                         *)
LEMMA HalfOperand ==
  ASSUME NEW x \in SignedRange(XLEN)
  PROVE  /\ Bits(Bits(x, XLEN), HLEN) = Bits(x, HLEN) /\ SInt(Bits(x, XLEN), HLEN) = SInt(x, HLEN)
         /\ Bits(x, HLEN) \in 0 .. Power[HLEN] - 1 /\ Bits(x, HLEN) \in Nat
         /\ SInt(x, HLEN) \in Int /\ SInt(x, HLEN) \in SignedRange(HLEN)
         /\ Congruent(Bits(x, HLEN), SInt(x, HLEN), Power[HLEN])
         /\ Congruent(x, SInt(x, HLEN), Power[HLEN])
         /\ Bits(SInt(x, HLEN), HLEN) = Bits(x, HLEN)
         /\ SInt(Bits(x, HLEN), HLEN) = SInt(x, HLEN)
         /\ (Bits(x, HLEN) = 0 <=> SInt(x, HLEN) = 0)
<1>. DEFINE w == Bits(x, HLEN)
            a == SInt(x, HLEN)
<1>1. HLEN \in 1 .. 2 * XLEN /\ HLEN \in 0 .. 2 * XLEN /\ Power[HLEN] \in Nat \ {0}
  BY WidthFacts, PowerFacts
<1>2. x \in Int /\ Bits(x, XLEN) \in Int /\ Congruent(Bits(x, XLEN), x, Power[XLEN])
  BY Operand
<1>3. Bits(Bits(x, XLEN), HLEN) = w /\ SInt(Bits(x, XLEN), HLEN) = a
  BY <1>2, LowBits
<1>4. w \in 0 .. Power[HLEN] - 1 /\ w \in Int /\ Congruent(w, x, Power[HLEN])
  BY <1>1, <1>2, BitsFacts
<1>5. a \in Int /\ a \in SignedRange(HLEN) /\ Congruent(a, x, Power[HLEN])
  BY <1>1, <1>2, SIntFacts
<1>6. Congruent(w, a, Power[HLEN]) /\ Congruent(x, a, Power[HLEN])
  BY <1>4, <1>5 DEF Congruent
<1>7. Bits(a, HLEN) = w /\ SInt(w, HLEN) = a
  BY <1>4, <1>5, BitsSame
<1>8. Bits(0, HLEN) = 0 /\ SInt(0, HLEN) = 0
  <2>1. 0 \in 0 .. Power[HLEN] - 1 /\ 0 \in SignedRange(HLEN)
    BY <1>1, PowerFacts DEF SignedRange
  <2>. QED BY <1>1, <2>1, BitsSmall, SIntSmall
<1>9. w = 0 <=> a = 0
  BY <1>7, <1>8
<1>. HIDE DEF w, a
<1>10. w \in Nat
  BY <1>1, <1>4
<1>. QED BY <1>3, <1>4, <1>5, <1>6, <1>7, <1>9, <1>10 DEF w, a

-----------------------------------------------------------------------------
(* The operations of the ALU. *)

(* What the reference computes from the signed operands x and y.           *)
Reference(op, x, y) ==
  LET half == op \in DOMAIN WordForm IN AluExec(x, y, IF half THEN WordForm[op] ELSE op, half)

AluAgrees(op, x, y) ==
  /\ Reference(op, x, y) \in SignedRange(XLEN)
  /\ AluResult(op, Bits(x, XLEN), Bits(y, XLEN)) = Bits(Reference(op, x, y), XLEN)

LEMMA AddSubAgree ==
  ASSUME NEW x \in SignedRange(XLEN), NEW y \in SignedRange(XLEN)
  PROVE  AluAgrees("add", x, y) /\ AluAgrees("sub", x, y)
<1>. DEFINE u == Bits(x, XLEN)
            v == Bits(y, XLEN)
<1>1. /\ x \in Int /\ y \in Int /\ u \in Int /\ v \in Int /\ Power[XLEN] \in Nat \ {0}
      /\ Congruent(u, x, Power[XLEN]) /\ Congruent(v, y, Power[XLEN])
  BY Operand, WidthFacts, PowerFacts
<1>2. Reference("add", x, y) = SInt(x + y, XLEN) /\ Reference("sub", x, y) = SInt(x - y, XLEN)
  BY DEF Reference, AluExec, WordForm
<1>3. AluResult("add", u, v) = Bits(u + v, XLEN) /\ AluResult("sub", u, v) = Bits(u - v, XLEN)
  BY DEF AluResult
<1>. HIDE DEF u, v
<1>4. Congruent(u + v, x + y, Power[XLEN]) /\ Congruent(u - v, x - y, Power[XLEN])
  BY <1>1, CongruentPlus, Zenon
<1>5. u + v \in Int /\ u - v \in Int /\ x + y \in Int /\ x - y \in Int
  BY <1>1
<1>. QED BY <1>2, <1>3, <1>4, <1>5, PlainResult DEF AluAgrees, u, v

LEMMA ShiftsAgree ==
  ASSUME NEW x \in SignedRange(XLEN), NEW y \in SignedRange(XLEN)
  PROVE  AluAgrees("sll", x, y) /\ AluAgrees("srl", x, y) /\ AluAgrees("sra", x, y)
<1>. DEFINE u == Bits(x, XLEN)
            v == Bits(y, XLEN)
            p == Power[y % XLEN]
            N == Power[XLEN]
<1>1. /\ x \in Int /\ y \in Int /\ u \in Nat /\ u \in Word /\ N \in Nat \ {0}
      /\ Congruent(u, x, N) /\ SInt(u, XLEN) = x
  BY Operand, WidthFacts, PowerFacts
<1>2. v % XLEN = y % XLEN /\ p \in Nat \ {0}
  BY <1>1, ShiftFacts
<1>3. /\ Reference("sll", x, y) = SInt(x * p, XLEN)
      /\ Reference("srl", x, y) = SInt(u \div p, XLEN)
      /\ Reference("sra", x, y) = SInt(x \div p, XLEN)
  BY DEF Reference, AluExec, WordForm
<1>4. /\ AluResult("sll", u, v) = Bits(u * p, XLEN)
      /\ AluResult("srl", u, v) = u \div p
      /\ AluResult("sra", u, v) = Bits(x \div p, XLEN)
  BY <1>1, <1>2 DEF AluResult
<1>5. Word = 0 .. N - 1
  BY DEF Word
<1>. HIDE DEF u, v, p, N
<1>6. Congruent(u * p, x * p, N) /\ u * p \in Int /\ x * p \in Int
  <2>1. Congruent(p, p, N) /\ u \in Int /\ p \in Int
    BY <1>1, <1>2 DEF Congruent
  <2>2. Congruent(u * p, x * p, N)
    BY <1>1, <2>1, CongruentTimes, Zenon
  <2>. QED BY <1>1, <2>1, <2>2
<1>7. u \div p \in Word
  <2>1. u \div p \in 0 .. u
    BY <1>1, <1>2, QuotientSmaller, Zenon
  <2>. HIDE DEF p
  <2>. QED BY <1>1, <1>5, <2>1
<1>8. x \div p \in Int /\ Congruent(x \div p, x \div p, N)
  BY <1>1, <1>2 DEF Congruent
<1>9. AluAgrees("sll", x, y)
  BY <1>3, <1>4, <1>6, PlainResult DEF AluAgrees, u, v, N
<1>10. AluAgrees("srl", x, y)
  BY <1>3, <1>4, <1>7, WholeResult DEF AluAgrees, u, v
<1>11. AluAgrees("sra", x, y)
  BY <1>3, <1>4, <1>8, PlainResult DEF AluAgrees, u, v, N
<1>. QED BY <1>9, <1>10, <1>11

LEMMA BitwiseAgree ==
  ASSUME NEW x \in SignedRange(XLEN), NEW y \in SignedRange(XLEN)
  PROVE  \A op \in {"slt", "sltu", "xor", "or", "and"} : AluAgrees(op, x, y)
<1>. DEFINE u == Bits(x, XLEN)
            v == Bits(y, XLEN)
<1>1. /\ u \in Word /\ v \in Word /\ SInt(u, XLEN) = x /\ SInt(v, XLEN) = y
  BY Operand
<1>2. /\ Reference("slt", x, y) = SInt(IF x < y THEN 1 ELSE 0, XLEN)
      /\ Reference("sltu", x, y) = SInt(IF u < v THEN 1 ELSE 0, XLEN)
      /\ Reference("xor", x, y) = SInt(BitXor(u, v), XLEN)
      /\ Reference("or", x, y) = SInt(BitOr(u, v), XLEN)
      /\ Reference("and", x, y) = SInt(BitAnd(u, v), XLEN)
  BY DEF Reference, AluExec, WordForm
<1>3. /\ AluResult("slt", u, v) = IF x < y THEN 1 ELSE 0
      /\ AluResult("sltu", u, v) = IF u < v THEN 1 ELSE 0
      /\ AluResult("xor", u, v) = BitXor(u, v)
      /\ AluResult("or", u, v) = BitOr(u, v)
      /\ AluResult("and", u, v) = BitAnd(u, v)
  BY <1>1 DEF AluResult
<1>4. /\ (IF x < y THEN 1 ELSE 0) \in Word /\ (IF u < v THEN 1 ELSE 0) \in Word
      /\ BitXor(u, v) \in Word /\ BitOr(u, v) \in Word /\ BitAnd(u, v) \in Word
  <2>1. Power[XLEN] = 2 * Power[XLEN - 1] /\ Power[XLEN - 1] \in Nat \ {0}
    BY WidthFacts, PowerFacts
  <2>2. 0 \in Word /\ 1 \in Word
    BY <2>1 DEF Word
  <2>. QED BY <1>1, <2>2, BitwiseAssumption
<1>. HIDE DEF u, v
<1>5. AluAgrees("slt", x, y) /\ AluAgrees("sltu", x, y)
  BY <1>2, <1>3, <1>4, WholeResult DEF AluAgrees, u, v
<1>6. AluAgrees("xor", x, y) /\ AluAgrees("or", x, y) /\ AluAgrees("and", x, y)
  BY <1>2, <1>3, <1>4, WholeResult DEF AluAgrees, u, v
<1>. QED BY <1>5, <1>6

LEMMA WordFormsAgree ==
  ASSUME NEW x \in SignedRange(XLEN), NEW y \in SignedRange(XLEN)
  PROVE  \A op \in {"addw", "subw", "sllw", "srlw", "sraw"} : AluAgrees(op, x, y)
<1>. DEFINE u == Bits(x, XLEN)
            v == Bits(y, XLEN)
            w1 == Bits(x, HLEN)
            w2 == Bits(y, HLEN)
            a == SInt(x, HLEN)
            b == SInt(y, HLEN)
            N == Power[HLEN]
            p == Power[b % HLEN]
<1>1. /\ Bits(u, HLEN) = w1 /\ Bits(v, HLEN) = w2
      /\ w1 \in Nat /\ w2 \in Nat /\ a \in Int /\ b \in Int /\ N \in Nat \ {0}
      /\ Congruent(w1, a, N) /\ Congruent(w2, b, N) /\ SInt(w1, HLEN) = a /\ Bits(a, HLEN) = w1
      /\ Bits(b, HLEN) = w2
  BY HalfOperand, WidthFacts, PowerFacts
<1>2. w2 % HLEN = b % HLEN /\ p \in Nat \ {0}
  BY <1>1, ShiftFacts
<1>3. /\ Reference("addw", x, y) = SInt(a + b, HLEN)
      /\ Reference("subw", x, y) = SInt(a - b, HLEN)
      /\ Reference("sllw", x, y) = SInt(a * p, HLEN)
      /\ Reference("srlw", x, y) = SInt(w1 \div p, HLEN)
      /\ Reference("sraw", x, y) = SInt(a \div p, HLEN)
  BY <1>1 DEF Reference, AluExec, WordForm
<1>4. /\ AluResult("addw", u, v) = SignedExtend(w1 + w2, HLEN)
      /\ AluResult("subw", u, v) = SignedExtend(w1 - w2, HLEN)
      /\ AluResult("sllw", u, v) = SignedExtend(w1 * p, HLEN)
      /\ AluResult("srlw", u, v) = SignedExtend(w1 \div p, HLEN)
      /\ AluResult("sraw", u, v) = SignedExtend(a \div p, HLEN)
  BY <1>1, <1>2 DEF AluResult
<1>. HIDE DEF u, v, w1, w2, a, b, N, p
<1>5. w1 \in Int /\ w2 \in Int /\ p \in Int /\ Congruent(p, p, N)
  BY <1>1, <1>2 DEF Congruent
<1>6. /\ Congruent(w1 + w2, a + b, N) /\ Congruent(w1 - w2, a - b, N)
      /\ Congruent(w1 * p, a * p, N)
  BY <1>1, <1>5, CongruentPlus, CongruentTimes, Zenon
<1>7. /\ w1 + w2 \in Int /\ w1 - w2 \in Int /\ w1 * p \in Int
      /\ a + b \in Int /\ a - b \in Int /\ a * p \in Int
      /\ w1 \div p \in Int /\ a \div p \in Int
  BY <1>1, <1>2, <1>5
<1>8. Congruent(w1 \div p, w1 \div p, N) /\ Congruent(a \div p, a \div p, N)
  BY DEF Congruent
<1>9. AluAgrees("addw", x, y) /\ AluAgrees("subw", x, y)
  BY <1>3, <1>4, <1>6, <1>7, HalfResult DEF AluAgrees, u, v, N
<1>10. AluAgrees("sllw", x, y)
  BY <1>3, <1>4, <1>6, <1>7, HalfResult DEF AluAgrees, u, v, N
<1>11. AluAgrees("srlw", x, y) /\ AluAgrees("sraw", x, y)
  BY <1>3, <1>4, <1>7, <1>8, HalfResult DEF AluAgrees, u, v, N
<1>. QED BY <1>9, <1>10, <1>11

-----------------------------------------------------------------------------
(* The operations of the MDU. *)

MduAgrees(op, x, y) ==
  /\ Reference(op, x, y) \in SignedRange(XLEN)
  /\ MduResult(op, Bits(x, XLEN), Bits(y, XLEN)) = Bits(Reference(op, x, y), XLEN)

(* The upper word of a double one.                                         *)
LEMMA UpperWord ==
  ASSUME NEW z \in Int
  PROVE  /\ Bits(z, 2 * XLEN) \div Power[XLEN] = Bits(z \div Power[XLEN], XLEN)
         /\ Bits(z, 2 * XLEN) \div Power[XLEN] \in Word /\ z \div Power[XLEN] \in Int
<1>. DEFINE N == Power[XLEN]
<1>1. /\ XLEN \in 0 .. 2 * XLEN /\ 2 * XLEN \in 0 .. 2 * XLEN /\ XLEN <= 2 * XLEN
      /\ 2 * XLEN - XLEN = XLEN
  BY WidthFacts
<1>2. N \in Nat \ {0} /\ Power[2 * XLEN] = N * N
  BY <1>1, PowerFacts
<1>. HIDE DEF N
<1>3. (z % (N * N)) \div N = (z \div N) % N
  BY <1>2, RemainderUpper, Zenon
<1>4. z \div N \in Int /\ (z \div N) % N \in 0 .. N - 1
  <2>1. z \div N \in Int
    BY <1>2
  <2>. QED BY <1>2, <2>1
<1>. QED BY <1>2, <1>3, <1>4 DEF N, Bits, Word

LEMMA ProductsAgree ==
  ASSUME NEW x \in SignedRange(XLEN), NEW y \in SignedRange(XLEN)
  PROVE  \A op \in {"mul", "mulh", "mulhu", "mulhsu"} : MduAgrees(op, x, y)
<1>. DEFINE u == Bits(x, XLEN)
            v == Bits(y, XLEN)
            N == Power[XLEN]
<1>1. /\ x \in Int /\ y \in Int /\ u \in Nat /\ v \in Nat /\ u \in Word /\ v \in Word
      /\ SInt(u, XLEN) = x /\ SInt(v, XLEN) = y /\ N \in Nat \ {0}
  BY Operand, WidthFacts, PowerFacts
<1>2. /\ Reference("mul", x, y) = SInt(x * y, XLEN)
      /\ Reference("mulh", x, y) = SInt((x * y) \div N, XLEN)
      /\ Reference("mulhu", x, y) = SInt((u * v) \div N, XLEN)
      /\ Reference("mulhsu", x, y) = SInt(Bits(Bits(x, 2 * XLEN) * v, 2 * XLEN) \div N, XLEN)
  BY DEF Reference, AluExec, WordForm
<1>3. /\ MduResult("mul", u, v) = Bits(x * y, XLEN)
      /\ MduResult("mulh", u, v) = Bits(x * y, 2 * XLEN) \div N
      /\ MduResult("mulhu", u, v) = (u * v) \div N
      /\ MduResult("mulhsu", u, v) = Bits(x * v, 2 * XLEN) \div N
  BY <1>1 DEF MduResult
<1>4. Word = 0 .. N - 1
  BY DEF Word
<1>5. 2 * XLEN \in 0 .. 2 * XLEN /\ Power[2 * XLEN] \in Nat \ {0} /\ Power[2 * XLEN] = N * N
  <2>1. XLEN \in 0 .. 2 * XLEN /\ 2 * XLEN \in 0 .. 2 * XLEN /\ 2 * XLEN - XLEN = XLEN /\ XLEN <= 2 * XLEN
    BY WidthFacts
  <2>. QED BY <2>1, PowerFacts
<1>. HIDE DEF u, v, N
<1>6. x * y \in Int /\ x * v \in Int /\ u * v \in Nat
  <2>1. \A i, j \in Nat : i * j \in Nat
    OBVIOUS
  <2>2. \A i, j \in Int : i * j \in Int
    OBVIOUS
  <2>. QED BY <1>1, <2>1, <2>2
<1>7. MduAgrees("mul", x, y)
  <2>1. Congruent(x * y, x * y, N)
    BY DEF Congruent
  <2>. QED BY <1>2, <1>3, <1>6, <2>1, PlainResult DEF MduAgrees, u, v, N
<1>8. MduAgrees("mulh", x, y)
  <2>. DEFINE q == (x * y) \div N
  <2>1. MduResult("mulh", u, v) = Bits(q, XLEN) /\ q \in Int
    BY <1>3, <1>6, UpperWord DEF N
  <2>2. Reference("mulh", x, y) = SInt(q, XLEN)
    BY <1>2
  <2>. HIDE DEF q
  <2>3. Congruent(q, q, N)
    BY DEF Congruent
  <2>. QED BY <2>1, <2>2, <2>3, PlainResult DEF MduAgrees, u, v, N
<1>9. MduAgrees("mulhu", x, y)
  <2>. DEFINE z == u * v
  <2>1. z < N * N
    <3>1. u <= N - 1 /\ v <= N
      BY <1>1, <1>4
    <3>2. v * u <= N * u /\ u * N <= (N - 1) * N
      BY <1>1, <3>1, TimesMonotone
    <3>3. v * u = z /\ N * u = u * N /\ (N - 1) * N = N * N - N
      BY <1>1
    <3>4. u * N \in Int /\ N * N \in Int
      BY <1>1
    <3>. HIDE DEF z
    <3>. QED BY <1>1, <1>6, <3>2, <3>3, <3>4 DEF z
  <2>2. z \in 0 .. Power[2 * XLEN] - 1
    <3>. HIDE DEF z
    <3>. QED BY <1>5, <1>6, <2>1 DEF z
  <2>3. Bits(z, 2 * XLEN) = z
    <3>. HIDE DEF z
    <3>. QED BY <1>5, <2>2, BitsSmall
  <2>4. z \div N \in Word
    <3>. HIDE DEF z
    <3>1. z \in Int
      BY <2>2
    <3>2. Bits(z, 2 * XLEN) \div N \in Word
      BY <3>1, UpperWord DEF N
    <3>. QED BY <2>3, <3>2
  <2>. HIDE DEF z
  <2>. QED BY <1>2, <1>3, <2>4, WholeResult DEF MduAgrees, u, v, z
<1>10. MduAgrees("mulhsu", x, y)
  <2>. DEFINE t == Bits(x, 2 * XLEN)
  <2>1. t \in Int /\ Congruent(t, x, Power[2 * XLEN])
    BY <1>1, <1>5, BitsFacts
  <2>. HIDE DEF t
  <2>2. v \in Int /\ Congruent(v, v, Power[2 * XLEN])
    BY <1>1 DEF Congruent
  <2>3. Congruent(t * v, x * v, Power[2 * XLEN])
    BY <1>1, <1>5, <2>1, <2>2, CongruentTimes, Zenon
  <2>4. Bits(t * v, 2 * XLEN) = Bits(x * v, 2 * XLEN)
    BY <2>3, BitsSame
  <2>5. Bits(x * v, 2 * XLEN) \div N \in Word
    BY <1>6, UpperWord DEF N
  <2>6. Reference("mulhsu", x, y) = SInt(Bits(x * v, 2 * XLEN) \div N, XLEN)
    BY <1>2, <2>4 DEF t
  <2>. QED BY <1>3, <2>5, <2>6, WholeResult DEF MduAgrees, u, v
<1>. QED BY <1>7, <1>8, <1>9, <1>10

LEMMA ProductWordAgrees ==
  ASSUME NEW x \in SignedRange(XLEN), NEW y \in SignedRange(XLEN)
  PROVE  MduAgrees("mulw", x, y)
<1>. DEFINE u == Bits(x, XLEN)
            v == Bits(y, XLEN)
            a == SInt(x, HLEN)
            b == SInt(y, HLEN)
            N == Power[HLEN]
<1>1. /\ x \in Int /\ y \in Int /\ SInt(u, XLEN) = x /\ SInt(v, XLEN) = y /\ N \in Nat \ {0}
      /\ a \in Int /\ b \in Int /\ Congruent(x, a, N) /\ Congruent(y, b, N)
  BY Operand, HalfOperand, WidthFacts, PowerFacts
<1>2. Reference("mulw", x, y) = SInt(a * b, HLEN)
  BY DEF Reference, AluExec, WordForm
<1>3. MduResult("mulw", u, v) = SignedExtend(x * y, HLEN)
  BY <1>1 DEF MduResult
<1>. HIDE DEF u, v, a, b, N
<1>4. Congruent(x * y, a * b, N)
  BY <1>1, CongruentTimes, Zenon
<1>5. x * y \in Int /\ a * b \in Int
  BY <1>1
<1>. QED BY <1>2, <1>3, <1>4, <1>5, HalfResult DEF MduAgrees, u, v, N

LEMMA QuotientInt ==
  ASSUME NEW a \in Int, NEW b \in Int \ {0} PROVE Quotient(a, b) \in Int
<1>1. Magnitude(a) \in Nat /\ Magnitude(b) \in Nat \ {0}
  BY DEF Magnitude
<1>2. Magnitude(a) \div Magnitude(b) \in Int
  BY <1>1
<1>. QED BY <1>2 DEF Quotient

(* The one quotient that is no word.                                       *)
LEMMA QuotientOfSmallest ==
  ASSUME NEW h \in Nat \ {0} PROVE Quotient(-h, -1) = h
<1>1. Magnitude(-h) = h /\ -h < 0 /\ -1 < 0
  BY DEF Magnitude
<1>0. Magnitude(-1) = 1
  <2>1. \A k \in Int : k + 1 = 0 => Magnitude(k) = 1
    BY DEF Magnitude
  <2>2. -1 \in Int /\ -1 + 1 = 0
    OBVIOUS
  <2>. QED BY <2>1, <2>2, Zenon
<1>2. h \div 1 = h
  OBVIOUS
<1>. QED BY <1>0, <1>1, <1>2 DEF Quotient

(* One bit more holds every quotient.                                      *)
LEMMA DivSignedFacts ==
  ASSUME NEW n \in {XLEN, HLEN}, NEW u, NEW v, NEW a \in Int, NEW b \in Int,
         SInt(u, n) = a, SInt(v, n) = b, v = 0 <=> b = 0
  PROVE  /\ (IF b = 0 THEN -1 ELSE Quotient(a, b)) \in Int
         /\ DivSigned(u, v, n) \in Int
         /\ Congruent(DivSigned(u, v, n), IF b = 0 THEN -1 ELSE Quotient(a, b), Power[n])
<1>. DEFINE q == IF b = 0 THEN -1 ELSE Quotient(a, b)
<1>1. q \in Int
  BY QuotientInt
<1>2. DivSigned(u, v, n) = SInt(q, n + 1)
  BY DEF DivSigned
<1>. HIDE DEF q
<1>3. n + 1 \in 1 .. 2 * XLEN /\ n + 1 \in 0 .. 2 * XLEN /\ n \in 0 .. 2 * XLEN /\ n <= n + 1
  BY WidthFacts
<1>4. SInt(q, n + 1) \in Int /\ Congruent(SInt(q, n + 1), q, Power[n + 1])
  BY <1>1, <1>3, SIntFacts
<1>5. Congruent(SInt(q, n + 1), q, Power[n])
  BY <1>1, <1>3, <1>4, CongruentFewer, Zenon
<1>. QED BY <1>1, <1>2, <1>4, <1>5 DEF q

LEMMA SmallestFacts ==
  /\ Power[XLEN - 1] \in Nat \ {0} /\ Power[XLEN] = 2 * Power[XLEN - 1]
  /\ \A x \in SignedRange(HLEN) : x # -(Power[XLEN - 1])
<1>. DEFINE p == Power[HLEN - 1]
            q == Power[XLEN - HLEN - 1]
            h == Power[XLEN - 1]
<1>1. /\ HLEN - 1 \in 0 .. 2 * XLEN /\ XLEN - 1 \in 0 .. 2 * XLEN /\ HLEN - 1 <= XLEN - 1
      /\ (XLEN - 1) - (HLEN - 1) = XLEN - HLEN /\ XLEN - HLEN \in 1 .. 2 * XLEN /\ XLEN \in 1 .. 2 * XLEN
  BY WidthFacts
<1>2. h \in Nat \ {0} /\ Power[XLEN] = 2 * h
  BY <1>1, PowerFacts
<1>3. h = Power[XLEN - HLEN] * p /\ Power[XLEN - HLEN] = 2 * q /\ q \in Nat \ {0} /\ p \in Nat \ {0}
  BY <1>1, PowerFacts
<1>4. SignedRange(HLEN) = -p .. p - 1
  BY DEF SignedRange
<1>. HIDE DEF p, q, h
<1>5. p < h
  <2>1. p <= p * q /\ p * q \in Nat
    BY <1>3, ProductNat
  <2>2. (2 * q) * p = 2 * (p * q)
    BY <1>3
  <2>. QED BY <1>2, <1>3, <2>1, <2>2
<1>6. \A x \in -p .. p - 1 : x # -h
  BY <1>2, <1>3, <1>5
<1>. QED BY <1>2, <1>4, <1>6 DEF h

LEMMA SignedDivisionAgrees ==
  ASSUME NEW x \in SignedRange(XLEN), NEW y \in SignedRange(XLEN)
  PROVE  MduAgrees("div", x, y) /\ MduAgrees("rem", x, y)
<1>. DEFINE u == Bits(x, XLEN)
            v == Bits(y, XLEN)
            N == Power[XLEN]
            h == Power[XLEN - 1]
            q == IF y = 0 THEN -1 ELSE Quotient(x, y)
            d == DivSigned(u, v, XLEN)
            smallest == x = -h /\ y = -1
            quotient == IF y = 0 THEN -1 ELSE IF smallest THEN x ELSE Quotient(x, y)
            remainder == IF y = 0 THEN x ELSE IF smallest THEN 0 ELSE Remainder(x, y)
<1>1. /\ x \in Int /\ y \in Int /\ SInt(u, XLEN) = x /\ SInt(v, XLEN) = y
      /\ (v = 0 <=> y = 0) /\ N \in Nat \ {0}
  BY Operand, WidthFacts, PowerFacts
<1>2. N = 2 * h /\ h \in Nat \ {0}
  BY SmallestFacts
<1>3. Reference("div", x, y) = SInt(quotient, XLEN) /\ Reference("rem", x, y) = SInt(remainder, XLEN)
  BY DEF Reference, AluExec, WordForm
<1>4. MduResult("div", u, v) = Bits(d, XLEN) /\ MduResult("rem", u, v) = Bits(x - d * y, XLEN)
  BY <1>1 DEF MduResult
<1>5. q \in Int /\ d \in Int /\ Congruent(d, q, N)
  BY <1>1, DivSignedFacts
<1>. HIDE DEF u, v, N, h, d
<1>6. quotient \in Int /\ Congruent(q, quotient, N)
  <2>1. CASE smallest
    <3>1. x = -h /\ y = -1 /\ y # 0
      BY <2>1
    <3>2. q = h /\ quotient = -h
      BY <1>2, <3>1, QuotientOfSmallest
    <3>3. -h \in Int /\ 1 \in Int /\ -h + 1 * N = h
      BY <1>2
    <3>4. (-h + 1 * N) % N = (-h) % N
      BY <1>1, <3>3, RemainderShift, Zenon
    <3>. QED BY <3>2, <3>3, <3>4 DEF Congruent
  <2>2. CASE ~smallest
    BY <1>5, <2>2 DEF Congruent
  <2>. QED BY <2>1, <2>2
<1>7. x - q * y = remainder
  <2>1. CASE smallest
    <3>1. x = -h /\ y = -1 /\ y # 0
      BY <2>1
    <3>2. q = h
      BY <1>2, <3>1, QuotientOfSmallest
    <3>3. -h - h * (-1) = 0
      BY <1>2
    <3>. QED BY <2>1, <3>1, <3>2, <3>3
  <2>2. CASE ~smallest /\ y # 0
    <3>1. remainder = x - y * q
      BY <2>2 DEF Remainder
    <3>. HIDE DEF q, remainder, smallest
    <3>. QED BY <1>1, <1>5, <3>1
  <2>3. CASE ~smallest /\ y = 0
    BY <1>1, <2>3
  <2>. QED BY <2>1, <2>2, <2>3
<1>. HIDE DEF q, quotient, remainder, smallest
<1>8. Congruent(d, quotient, N)
  BY <1>5, <1>6 DEF Congruent
<1>9. Congruent(x - d * y, x - q * y, N)
  <2>1. Congruent(x, x, N) /\ Congruent(y, y, N)
    BY DEF Congruent
  <2>2. Congruent(d * y, q * y, N)
    BY <1>1, <1>5, <2>1, CongruentTimes, Zenon
  <2>3. d * y \in Int /\ q * y \in Int
    BY <1>1, <1>5
  <2>. QED BY <1>1, <2>1, <2>2, <2>3, CongruentPlus, Zenon
<1>10. x - d * y \in Int /\ remainder \in Int
  <2>1. x - d * y \in Int /\ x - q * y \in Int
    BY <1>1, <1>5
  <2>. QED BY <1>7, <2>1
<1>11. MduAgrees("div", x, y)
  BY <1>3, <1>4, <1>5, <1>6, <1>8, PlainResult DEF MduAgrees, u, v, N
<1>12. MduAgrees("rem", x, y)
  BY <1>3, <1>4, <1>7, <1>9, <1>10, PlainResult DEF MduAgrees, u, v, N
<1>. QED BY <1>11, <1>12

LEMMA UnsignedDivisionAgrees ==
  ASSUME NEW x \in SignedRange(XLEN), NEW y \in SignedRange(XLEN)
  PROVE  MduAgrees("divu", x, y) /\ MduAgrees("remu", x, y)
<1>. DEFINE u == Bits(x, XLEN)
            v == Bits(y, XLEN)
            N == Power[XLEN]
            q == IF v = 0 THEN N - 1 ELSE u \div v
            remainder == IF y = 0 THEN x ELSE u % v
<1>1. /\ x \in Int /\ y \in Int /\ u \in Nat /\ u \in Word /\ v \in Nat
      /\ (v = 0 <=> y = 0) /\ N \in Nat \ {0} /\ Congruent(u, x, N)
  BY Operand, WidthFacts, PowerFacts
<1>2. Reference("divu", x, y) = SInt(q, XLEN) /\ Reference("remu", x, y) = SInt(remainder, XLEN)
  <2>1. Reference("divu", x, y) = SInt(IF y = 0 THEN N - 1 ELSE u \div v, XLEN)
    BY DEF Reference, AluExec, WordForm
  <2>2. Reference("remu", x, y) = SInt(remainder, XLEN)
    BY DEF Reference, AluExec, WordForm
  <2>. QED BY <1>1, <2>1, <2>2
<1>3. MduResult("divu", u, v) = q /\ MduResult("remu", u, v) = Bits(u - q * v, XLEN)
  BY DEF MduResult, DivUnsigned
<1>4. Word = 0 .. N - 1
  BY DEF Word
<1>. HIDE DEF u, v, N
<1>5. q \in Word /\ q \in Int
  <2>1. CASE v = 0
    BY <1>1, <1>4, <2>1
  <2>2. CASE v # 0
    <3>1. u \div v \in 0 .. u
      BY <1>1, <2>2, QuotientSmaller
    <3>. QED BY <1>1, <1>4, <2>2, <3>1
  <2>. QED BY <2>1, <2>2
<1>6. remainder \in Int /\ u - q * v \in Int /\ Congruent(u - q * v, remainder, N)
  <2>1. CASE v = 0
    <3>1. u - q * v = u /\ remainder = x
      BY <1>1, <1>5, <2>1
    <3>. QED BY <1>1, <3>1
  <2>2. CASE v # 0
    <3>1. u % v \in Int /\ (u \div v) * v = u - (u % v)
      <4>1. u \in Nat /\ v \in Nat \ {0}
        BY <1>1, <2>2
      <4>2. u % v \in 0 .. v - 1 /\ (u \div v) * v = u - (u % v)
        BY <4>1, DivisionParts, Zenon
      <4>. QED BY <4>1, <4>2
    <3>2. q = u \div v /\ remainder = u % v
      BY <1>1, <2>2
    <3>. HIDE DEF q, remainder
    <3>3. u - q * v = remainder
      BY <1>1, <3>1, <3>2
    <3>. QED BY <3>1, <3>2, <3>3 DEF Congruent
  <2>. QED BY <2>1, <2>2
<1>. HIDE DEF q, remainder
<1>7. MduAgrees("divu", x, y)
  BY <1>2, <1>3, <1>5, WholeResult DEF MduAgrees, u, v
<1>8. MduAgrees("remu", x, y)
  BY <1>2, <1>3, <1>6, PlainResult DEF MduAgrees, u, v, N
<1>. QED BY <1>7, <1>8

LEMMA SignedWordDivisionAgrees ==
  ASSUME NEW x \in SignedRange(XLEN), NEW y \in SignedRange(XLEN)
  PROVE  MduAgrees("divw", x, y) /\ MduAgrees("remw", x, y)
<1>. DEFINE u == Bits(x, XLEN)
            v == Bits(y, XLEN)
            w1 == Bits(x, HLEN)
            w2 == Bits(y, HLEN)
            a == SInt(x, HLEN)
            b == SInt(y, HLEN)
            N == Power[HLEN]
            h == Power[XLEN - 1]
            q == IF b = 0 THEN -1 ELSE Quotient(a, b)
            d == DivSigned(w1, w2, HLEN)
            cut == SInt(d * b, HLEN)
            remainder == IF b = 0 THEN a ELSE Remainder(a, b)
<1>1. /\ Bits(u, HLEN) = w1 /\ Bits(v, HLEN) = w2 /\ SInt(u, HLEN) = a /\ SInt(v, HLEN) = b
      /\ SInt(w1, HLEN) = a /\ SInt(w2, HLEN) = b /\ a \in Int /\ b \in Int
      /\ (w2 = 0 <=> b = 0) /\ N \in Nat \ {0} /\ a \in SignedRange(HLEN)
  BY HalfOperand, WidthFacts, PowerFacts
<1>2. a # -h
  BY <1>1, SmallestFacts
<1>3. Reference("divw", x, y) = SInt(q, HLEN) /\ Reference("remw", x, y) = SInt(remainder, HLEN)
  <2>1. Reference("divw", x, y) =
          SInt(IF b = 0 THEN -1 ELSE IF a = -h /\ b = -1 THEN a ELSE Quotient(a, b), HLEN)
    BY DEF Reference, AluExec, WordForm
  <2>2. Reference("remw", x, y) =
          SInt(IF b = 0 THEN a ELSE IF a = -h /\ b = -1 THEN 0 ELSE Remainder(a, b), HLEN)
    BY DEF Reference, AluExec, WordForm
  <2>. HIDE DEF a, b, h
  <2>. QED BY <1>2, <2>1, <2>2
<1>4. /\ MduResult("divw", u, v) = SignedExtend(d, HLEN)
      /\ MduResult("remw", u, v) = SignedExtend(IF w2 = 0 THEN a ELSE a - cut, HLEN)
  BY <1>1 DEF MduResult
<1>5. q \in Int /\ d \in Int /\ Congruent(d, q, N)
  BY <1>1, DivSignedFacts
<1>6. cut \in Int /\ Congruent(cut, d * b, N) /\ d * b \in Int
  <2>1. d * b \in Int /\ HLEN \in 1 .. 2 * XLEN
    BY <1>1, <1>5, WidthFacts
  <2>. QED BY <2>1, SIntFacts
<1>. HIDE DEF u, v, w1, w2, a, b, N, h, d, cut
<1>7. Congruent(a - cut, a - q * b, N) /\ q * b \in Int
  <2>1. Congruent(a, a, N) /\ Congruent(b, b, N)
    BY DEF Congruent
  <2>2. Congruent(d * b, q * b, N)
    BY <1>1, <1>5, <2>1, CongruentTimes, Zenon
  <2>3. q * b \in Int
    BY <1>1, <1>5
  <2>4. Congruent(cut, q * b, N)
    BY <1>6, <2>2 DEF Congruent
  <2>. QED BY <1>1, <1>6, <2>1, <2>3, <2>4, CongruentPlus, Zenon
<1>. DEFINE z == IF w2 = 0 THEN a ELSE a - cut
<1>8. z \in Int /\ remainder \in Int /\ Congruent(z, remainder, N)
  <2>1. CASE b = 0
    <3>1. z = a /\ remainder = a
      BY <1>1, <2>1
    <3>. QED BY <1>1, <3>1 DEF Congruent
  <2>2. CASE b # 0
    <3>1. z = a - cut /\ remainder = a - b * q
      BY <1>1, <2>2 DEF Remainder
    <3>. HIDE DEF z, remainder, q
    <3>2. b * q = q * b /\ a - cut \in Int /\ a - q * b \in Int
      BY <1>1, <1>5, <1>6, <1>7
    <3>. QED BY <1>7, <3>1, <3>2
  <2>. QED BY <2>1, <2>2
<1>. HIDE DEF z, remainder, q
<1>9. MduAgrees("divw", x, y)
  BY <1>3, <1>4, <1>5, HalfResult DEF MduAgrees, u, v, N
<1>10. MduAgrees("remw", x, y)
  BY <1>3, <1>4, <1>8, HalfResult DEF MduAgrees, u, v, N, z
<1>. QED BY <1>9, <1>10

LEMMA UnsignedWordDivisionAgrees ==
  ASSUME NEW x \in SignedRange(XLEN), NEW y \in SignedRange(XLEN)
  PROVE  MduAgrees("divuw", x, y) /\ MduAgrees("remuw", x, y)
<1>. DEFINE u == Bits(x, XLEN)
            v == Bits(y, XLEN)
            w1 == Bits(x, HLEN)
            w2 == Bits(y, HLEN)
            a == SInt(x, HLEN)
            b == SInt(y, HLEN)
            N == Power[HLEN]
            full == Power[XLEN]
            q == IF w2 = 0 THEN N - 1 ELSE w1 \div w2
            quotient == IF b = 0 THEN full - 1 ELSE w1 \div w2
            remainder == IF b = 0 THEN a ELSE w1 % w2
            cut == Bits(q * w2, HLEN)
            z == IF w2 = 0 THEN w1 ELSE w1 - cut
<1>1. /\ Bits(u, HLEN) = w1 /\ Bits(v, HLEN) = w2 /\ Bits(a, HLEN) = w1 /\ Bits(b, HLEN) = w2
      /\ w1 \in 0 .. N - 1 /\ w1 \in Nat /\ w2 \in Nat /\ a \in Int
      /\ (w2 = 0 <=> b = 0) /\ N \in Nat \ {0} /\ Congruent(w1, a, N)
  <2>1. N \in Nat \ {0}
    BY WidthFacts, PowerFacts
  <2>2. /\ Bits(u, HLEN) = w1 /\ Bits(a, HLEN) = w1 /\ w1 \in 0 .. N - 1 /\ w1 \in Nat
        /\ a \in Int /\ Congruent(w1, a, N)
    BY HalfOperand
  <2>3. Bits(v, HLEN) = w2 /\ Bits(b, HLEN) = w2 /\ w2 \in Nat /\ (w2 = 0 <=> b = 0)
    BY HalfOperand
  <2>. QED BY <2>1, <2>2, <2>3
<1>2. Reference("divuw", x, y) = SInt(quotient, HLEN) /\ Reference("remuw", x, y) = SInt(remainder, HLEN)
  BY <1>1 DEF Reference, AluExec, WordForm
<1>3. MduResult("divuw", u, v) = SignedExtend(q, HLEN) /\ MduResult("remuw", u, v) = SignedExtend(z, HLEN)
  BY <1>1 DEF MduResult, DivUnsigned
<1>4. full \in Int /\ Congruent(N - 1, full - 1, N)
  <2>. DEFINE m == Power[XLEN - HLEN]
  <2>1. full = m * N /\ m \in Nat \ {0}
    <3>1. /\ XLEN - HLEN \in 0 .. 2 * XLEN /\ XLEN \in 0 .. 2 * XLEN /\ HLEN \in 0 .. 2 * XLEN
          /\ HLEN <= XLEN
      BY WidthFacts
    <3>. QED BY <3>1, PowerFacts
  <2>. HIDE DEF m, full, N
  <2>2. (N - 1) + (m - 1) * N = full - 1 /\ full \in Int
    BY <1>1, <2>1
  <2>3. ((N - 1) + (m - 1) * N) % N = (N - 1) % N
    <3>1. N - 1 \in Int /\ m - 1 \in Int
      BY <1>1, <2>1
    <3>. QED BY <1>1, <3>1, RemainderShift, Zenon
  <2>. QED BY <2>2, <2>3 DEF Congruent
<1>. HIDE DEF u, v, w1, w2, a, b, N, full
<1>5. q \in Int /\ quotient \in Int /\ Congruent(q, quotient, N)
  <2>1. CASE w2 = 0
    BY <1>1, <1>4, <2>1
  <2>2. CASE w2 # 0
    <3>1. q = w1 \div w2 /\ quotient = w1 \div w2
      BY <1>1, <2>2
    <3>2. w1 \div w2 \in Int
      BY <1>1, <2>2
    <3>. QED BY <3>1, <3>2 DEF Congruent
  <2>. QED BY <2>1, <2>2
<1>6. z \in Int /\ remainder \in Int /\ Congruent(z, remainder, N)
  <2>1. CASE w2 = 0
    <3>1. z = w1 /\ remainder = a
      BY <1>1, <2>1
    <3>. QED BY <1>1, <3>1
  <2>2. CASE w2 # 0
    <3>1. w2 \in Nat \ {0}
      BY <1>1, <2>2
    <3>2. w1 % w2 \in 0 .. w2 - 1 /\ (w1 \div w2) * w2 = w1 - (w1 % w2) /\ w1 \div w2 \in Nat
      BY <1>1, <3>1, DivisionParts, Zenon
    <3>3. q = w1 \div w2 /\ remainder = w1 % w2 /\ z = w1 - cut
      BY <1>1, <2>2
    <3>4. q * w2 = w1 - remainder /\ remainder \in 0 .. w2 - 1
      BY <3>2, <3>3
    <3>. DEFINE t == q * w2
    <3>5. cut = Bits(t, HLEN)
      OBVIOUS
    <3>. HIDE DEF q, remainder, z, cut, t
    <3>6. remainder \in Int /\ t \in Int /\ t <= w1
      BY <1>1, <3>1, <3>4 DEF t
    <3>7. 0 <= t
      <4>1. 0 * w2 <= q * w2 /\ 0 * w2 = 0
        BY <1>1, <3>1, <3>2, <3>3, TimesMonotone
      <4>. QED BY <4>1 DEF t
    <3>8. cut = t
      <4>1. t \in 0 .. Power[HLEN] - 1
        BY <1>1, <3>6, <3>7 DEF N
      <4>2. HLEN \in 0 .. 2 * XLEN
        BY WidthFacts
      <4>. QED BY <3>5, <4>1, <4>2, BitsSmall
    <3>9. z = remainder
      BY <1>1, <3>3, <3>4, <3>6, <3>8 DEF t
    <3>. QED BY <3>6, <3>9 DEF Congruent
  <2>. QED BY <2>1, <2>2
<1>. HIDE DEF q, quotient, remainder, cut, z
<1>7. MduAgrees("divuw", x, y)
  BY <1>2, <1>3, <1>5, HalfResult DEF MduAgrees, u, v, N
<1>8. MduAgrees("remuw", x, y)
  BY <1>2, <1>3, <1>6, HalfResult DEF MduAgrees, u, v, N
<1>. QED BY <1>7, <1>8

-----------------------------------------------------------------------------
(* The two registers. *)

LEMMA EveryAluOp ==
  ASSUME NEW x \in SignedRange(XLEN), NEW y \in SignedRange(XLEN), NEW op \in AluOp
  PROVE  AluAgrees(op, x, y)
<1>1. op \in {"add", "sub", "sll", "srl", "sra"} => AluAgrees(op, x, y)
  BY AddSubAgree, ShiftsAgree
<1>2. op \in {"slt", "sltu", "xor", "or", "and"} => AluAgrees(op, x, y)
  BY BitwiseAgree
<1>3. op \in {"addw", "subw", "sllw", "srlw", "sraw"} => AluAgrees(op, x, y)
  BY WordFormsAgree
<1>. QED BY <1>1, <1>2, <1>3 DEF AluOp

LEMMA EveryMduOp ==
  ASSUME NEW x \in SignedRange(XLEN), NEW y \in SignedRange(XLEN), NEW op \in MduOp
  PROVE  MduAgrees(op, x, y)
<1>1. op \in {"mul", "mulh", "mulhu", "mulhsu"} => MduAgrees(op, x, y)
  BY ProductsAgree
<1>2. op \in {"mulw", "div", "rem", "divu", "remu"} => MduAgrees(op, x, y)
  BY ProductWordAgrees, SignedDivisionAgrees, UnsignedDivisionAgrees
<1>3. op \in {"divw", "remw", "divuw", "remuw"} => MduAgrees(op, x, y)
  BY SignedWordDivisionAgrees, UnsignedWordDivisionAgrees
<1>. QED BY <1>1, <1>2, <1>3 DEF MduOp

(* The reference's register is a signed word.                              *)
SameSigned == ref \in SignedRange(XLEN) /\ SameRegister

LEMMA SameSignedStep == SameSigned /\ [Next]_vars => SameSigned'
<1>. SUFFICES ASSUME SameSigned, [Next]_vars PROVE SameSigned'
  OBVIOUS
<1>1. ref \in SignedRange(XLEN) /\ rtl = Bits(ref, XLEN)
  BY DEF SameSigned, SameRegister
<1>2. ASSUME NEW src2 \in Word
      PROVE  SInt(src2, XLEN) \in SignedRange(XLEN) /\ src2 = Bits(SInt(src2, XLEN), XLEN)
  BY WholeResult
<1>3. ASSUME NEW src2 \in Word, NEW op PROVE ReferenceResult(op, src2) = Reference(op, ref, SInt(src2, XLEN))
  BY DEF ReferenceResult, Reference
<1>4. ASSUME NEW src2 \in Word, NEW op \in AluOp, ExecuteAlu(op, src2) PROVE SameSigned'
  <2>1. AluAgrees(op, ref, SInt(src2, XLEN))
    BY <1>1, <1>2, EveryAluOp
  <2>2. rtl' = AluResult(op, rtl, src2) /\ ref' = ReferenceResult(op, src2)
    BY <1>4 DEF ExecuteAlu
  <2>. QED BY <1>1, <1>2, <1>3, <2>1, <2>2 DEF AluAgrees, SameSigned, SameRegister
<1>5. ASSUME NEW src2 \in Word, NEW op \in MduOp, ExecuteMdu(op, src2) PROVE SameSigned'
  <2>1. MduAgrees(op, ref, SInt(src2, XLEN))
    BY <1>1, <1>2, EveryMduOp
  <2>2. rtl' = MduResult(op, rtl, src2) /\ ref' = ReferenceResult(op, src2)
    BY <1>5 DEF ExecuteMdu
  <2>. QED BY <1>1, <1>2, <1>3, <2>1, <2>2 DEF MduAgrees, SameSigned, SameRegister
<1>6. CASE UNCHANGED vars
  BY <1>1, <1>6 DEF vars, SameSigned, SameRegister
<1>. QED BY <1>4, <1>5, <1>6 DEF Next

(* Whatever operations follow each other on whatever operands, the RTL's   *)
(* register holds the bits of the reference's: the commits that the        *)
(* simulator compares agree for every instruction of the ALU and the MDU,  *)
(* at 64 and 32 bits as at any other widths that are powers of two.        *)
THEOREM RegistersAgree == Spec => []SameRegister
<1>1. Init => SameSigned
  <2>1. XLEN \in 1 .. 2 * XLEN /\ XLEN \in 0 .. 2 * XLEN
    BY WidthFacts
  <2>2. 0 \in SignedRange(XLEN) /\ 0 \in 0 .. Power[XLEN] - 1
    BY <2>1, PowerFacts DEF SignedRange
  <2>3. Bits(0, XLEN) = 0
    BY <2>1, <2>2, BitsSmall
  <2>. QED BY <2>2, <2>3 DEF Init, SameSigned, SameRegister
<1>2. SameSigned => SameRegister
  BY DEF SameSigned
<1>. QED BY <1>1, <1>2, SameSignedStep, PTL DEF Spec
=============================================================================
