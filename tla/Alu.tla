-------------------------------- MODULE Alu --------------------------------
(***************************************************************************)
(* The arithmetic units of both sides.  RTL: fu/Alu.scala and fu/Mdu.scala,*)
(* on unsigned words and with the widths Chisel gives intermediate results;*)
(* reference: alu_exec of rv_core.hpp, on signed integers.  One register   *)
(* is kept on each side and put through the same operations, with any      *)
(* second operand.                                                         *)
(*                                                                         *)
(* XLEN and HLEN, 64 and 32 in the code, are powers of two here.  Signed   *)
(* overflow and the shift of a negative number wrap in the reference, as   *)
(* its compiler has it.                                                    *)
(***************************************************************************)
EXTENDS Integers

CONSTANTS
  XLEN,   \* width of a word
  HLEN,   \* width of the operands of the word forms (addw, divw, ...)
  BitAnd(_, _), BitOr(_, _), BitXor(_, _)

VARIABLES
  rtl,    \* a register of the RTL, unsigned
  ref     \* the same register of the reference, signed

vars == <<rtl, ref>>

(* Powers of two, as far as shifts, divisions and products need them.      *)
PowerOfTwo[n \in Nat] == IF n = 0 THEN 1 ELSE 2 * PowerOfTwo[n - 1]
Power == [n \in 0 .. 2 * XLEN |-> PowerOfTwo[n]]

Bits(x, n) == x % Power[n]
SInt(x, n) == LET u == Bits(x, n) IN IF u >= Power[n - 1] THEN u - Power[n] ELSE u
(* The low n bits of x, extended to a word by one of the two. *)
ZeroExtend(x, n)   == Bits(x, n)
SignedExtend(x, n) == Bits(SInt(x, n), XLEN)

(* Division rounds towards zero, in Chisel as in C++. *)
Magnitude(a) == IF a < 0 THEN -a ELSE a
Quotient(a, b) ==
  LET q == Magnitude(a) \div Magnitude(b) IN IF (a < 0) <=> (b < 0) THEN q ELSE -q
Remainder(a, b) == a - b * Quotient(a, b)

Word == 0 .. Power[XLEN] - 1

-----------------------------------------------------------------------------
(* The RTL. *)

WordForm == [addw |-> "add", subw |-> "sub", sllw |-> "sll", srlw |-> "srl",
             sraw |-> "sra", mulw |-> "mul", divw |-> "div", divuw |-> "divu",
             remw |-> "rem", remuw |-> "remu"]
AluOp == {"add", "sub", "sll", "slt", "sltu", "xor", "srl", "sra", "or", "and",
          "addw", "subw", "sllw", "srlw", "sraw"}
MduOp == {"mul", "mulh", "mulhsu", "mulhu", "div", "divu", "rem", "remu",
          "mulw", "divw", "divuw", "remw", "remuw"}

AluResult(op, src1, src2) ==
  LET w1 == Bits(src1, HLEN)
      w2 == Bits(src2, HLEN)
      shift  == src2 % XLEN
      wshift == w2 % HLEN
  IN  CASE op = "add"  -> Bits(src1 + src2, XLEN)
        [] op = "sub"  -> Bits(src1 - src2, XLEN)
        [] op = "sll"  -> Bits(src1 * Power[shift], XLEN)
        [] op = "slt"  -> IF SInt(src1, XLEN) < SInt(src2, XLEN) THEN 1 ELSE 0
        [] op = "sltu" -> IF src1 < src2 THEN 1 ELSE 0
        [] op = "xor"  -> BitXor(src1, src2)
        [] op = "srl"  -> src1 \div Power[shift]
        [] op = "sra"  -> Bits(SInt(src1, XLEN) \div Power[shift], XLEN)
        [] op = "or"   -> BitOr(src1, src2)
        [] op = "and"  -> BitAnd(src1, src2)
        [] op = "addw" -> SignedExtend(w1 + w2, HLEN)
        [] op = "subw" -> SignedExtend(w1 - w2, HLEN)
        [] op = "sllw" -> SignedExtend(w1 * Power[wshift], HLEN)
        [] op = "srlw" -> SignedExtend(w1 \div Power[wshift], HLEN)
        [] op = "sraw" -> SignedExtend(SInt(w1, HLEN) \div Power[wshift], HLEN)

(* A quotient is one bit wider than its dividend, so that the smallest     *)
(* number divided by -1 does not overflow before it is cut.                *)
DivSigned(a, b, n) ==
  SInt(IF b = 0 THEN -1 ELSE Quotient(SInt(a, n), SInt(b, n)), n + 1)
DivUnsigned(a, b, n) == IF b = 0 THEN Power[n] - 1 ELSE a \div b

MduResult(op, rs1, rs2) ==
  LET w1  == Bits(rs1, HLEN)
      w2  == Bits(rs2, HLEN)
      s1  == SInt(rs1, XLEN)
      s2  == SInt(rs2, XLEN)
      sw1 == SInt(rs1, HLEN)
      sw2 == SInt(rs2, HLEN)
  IN  CASE op = "mul"    -> Bits(s1 * s2, XLEN)
        [] op = "mulh"   -> Bits(s1 * s2, 2 * XLEN) \div Power[XLEN]
        [] op = "mulhsu" -> Bits(s1 * rs2, 2 * XLEN) \div Power[XLEN]
        [] op = "mulhu"  -> (rs1 * rs2) \div Power[XLEN]
        [] op = "div"    -> Bits(DivSigned(rs1, rs2, XLEN), XLEN)
        [] op = "divu"   -> DivUnsigned(rs1, rs2, XLEN)
        [] op = "rem"    -> Bits(s1 - DivSigned(rs1, rs2, XLEN) * s2, XLEN)
        [] op = "remu"   -> Bits(rs1 - DivUnsigned(rs1, rs2, XLEN) * rs2, XLEN)
        [] op = "mulw"   -> SignedExtend(s1 * s2, HLEN)
        [] op = "divw"   -> SignedExtend(DivSigned(w1, w2, HLEN), HLEN)
        [] op = "divuw"  -> SignedExtend(DivUnsigned(w1, w2, HLEN), HLEN)
        [] op = "remw"   -> SignedExtend(
                              IF w2 = 0 THEN sw1
                              ELSE sw1 - SInt(DivSigned(w1, w2, HLEN) * sw2, HLEN), HLEN)
        [] op = "remuw"  -> SignedExtend(
                              IF w2 = 0 THEN w1
                              ELSE w1 - Bits(DivUnsigned(w1, w2, HLEN) * w2, HLEN), HLEN)

-----------------------------------------------------------------------------
(* The reference.  half is alu_exec's op_32. *)

AluExec(x, y, op, half) ==
  LET a == IF half THEN SInt(x, HLEN) ELSE x
      b == IF half THEN SInt(y, HLEN) ELSE y
      width == IF half THEN HLEN ELSE XLEN
      shift == b % width
      smallest == a = -(Power[XLEN - 1]) /\ b = -1
      result ==
        CASE op = "add"    -> a + b
          [] op = "sub"    -> a - b
          [] op = "sll"    -> a * Power[shift]
          [] op = "slt"    -> IF a < b THEN 1 ELSE 0
          [] op = "sltu"   -> IF Bits(a, XLEN) < Bits(b, XLEN) THEN 1 ELSE 0
          [] op = "xor"    -> BitXor(Bits(a, XLEN), Bits(b, XLEN))
          [] op = "srl"    -> Bits(a, width) \div Power[shift]
          [] op = "sra"    -> a \div Power[shift]
          [] op = "or"     -> BitOr(Bits(a, XLEN), Bits(b, XLEN))
          [] op = "and"    -> BitAnd(Bits(a, XLEN), Bits(b, XLEN))
          [] op = "mul"    -> a * b
          [] op = "mulh"   -> (a * b) \div Power[XLEN]
          [] op = "mulhu"  -> (Bits(a, XLEN) * Bits(b, XLEN)) \div Power[XLEN]
          [] op = "mulhsu" ->
               Bits(Bits(a, 2 * XLEN) * Bits(b, XLEN), 2 * XLEN) \div Power[XLEN]
          [] op = "div"    -> IF b = 0 THEN -1 ELSE IF smallest THEN a ELSE Quotient(a, b)
          [] op = "divu"   -> IF b = 0 THEN Power[XLEN] - 1
                              ELSE Bits(a, width) \div Bits(b, width)
          [] op = "rem"    -> IF b = 0 THEN a ELSE IF smallest THEN 0 ELSE Remainder(a, b)
          [] op = "remu"   -> IF b = 0 THEN a ELSE Bits(a, width) % Bits(b, width)
  IN  IF half THEN SInt(result, HLEN) ELSE SInt(result, XLEN)

-----------------------------------------------------------------------------

Init == rtl = 0 /\ ref = 0

(* What the reference computes for the instruction the RTL calls op. *)
ReferenceResult(op, src2) ==
  LET half == op \in DOMAIN WordForm
  IN  AluExec(ref, SInt(src2, XLEN), IF half THEN WordForm[op] ELSE op, half)

(* One instruction with the same second operand on both sides. *)
ExecuteAlu(op, src2) ==
  /\ rtl' = AluResult(op, rtl, src2)
  /\ ref' = ReferenceResult(op, src2)
ExecuteMdu(op, src2) ==
  /\ rtl' = MduResult(op, rtl, src2)
  /\ ref' = ReferenceResult(op, src2)

Next == \E src2 \in Word :
          \/ \E op \in AluOp : ExecuteAlu(op, src2)
          \/ \E op \in MduOp : ExecuteMdu(op, src2)

Spec == Init /\ [][Next]_vars

-----------------------------------------------------------------------------
(* The two registers hold the same bits after any sequence of operations:  *)
(* division by zero, the overflowing division, shift amounts and the sign  *)
(* extension of word results included (sim_mycpu.cpp compares them at each *)
(* commit).                                                                *)
SameRegister == rtl = Bits(ref, XLEN)

ASSUME WidthAssumption ==
  /\ XLEN \in Nat /\ HLEN \in Nat /\ 0 < HLEN /\ HLEN < XLEN
  /\ \A width \in {XLEN, HLEN} : \E n \in 0 .. width - 1 : width = Power[n]
ASSUME BitwiseAssumption ==
  \A a, b \in Word : BitAnd(a, b) \in Word /\ BitOr(a, b) \in Word /\ BitXor(a, b) \in Word
=============================================================================
