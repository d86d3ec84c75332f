------------------------------ MODULE MipsAlu -------------------------------
(***************************************************************************)
(* What the arithmetic instructions of the simulated MIPS compute: the     *)
(* cases of Machine::OneInstruction (machine/mipssim.cc), and those of the *)
(* stand-alone interpreter bin/execute.c, written from the C operators on  *)
(* words of W bits.  Words are the numbers 0 .. 2^W - 1; the code has      *)
(* W = 32.  Immediate operands have W/2 bits, bytes W/4.                   *)
(*                                                                         *)
(* An execution takes one instruction with its two operands.               *)
(***************************************************************************)
EXTENDS Integers, Bitwise

CONSTANTS
  W,
  Operands   \* the second operands tried with every first one


VARIABLES
  op, a, b,  \* the instruction; rs and rt, or rs and the immediate
  out        \* what it leaves in rd or rt, in Hi and in Lo

vars == <<op, a, b, out>>

Word == 0 .. 2 ^ W - 1
Half == 0 .. 2 ^ (W \div 2) - 1
Byte == 0 .. 2 ^ (W \div 4) - 1

AluAssumption == W \in {4, 8} /\ Operands \subseteq Word

-----------------------------------------------------------------------------
(* The operators of C on int and unsigned.                                 *)
Signed(x) == IF x >= 2 ^ (W - 1) THEN x - 2 ^ W ELSE x
Wrap(n) == n % 2 ^ W
SIGN_BIT(x) == x >= 2 ^ (W - 1)
BitNot(x) == 2 ^ W - 1 - x

(* << and the >> of int, which copies the sign bit.                        *)
ShiftLeft(x, n) == Wrap(x * 2 ^ n)
ShiftRight(x, n) ==
  (x \div 2 ^ n) | (IF SIGN_BIT(x) THEN BitNot(2 ^ (IF n < W THEN W - n ELSE 0) - 1) ELSE 0)

(* / and % of int, which round towards zero.                               *)
Abs(n) == IF n < 0 THEN - n ELSE n
Quotient(m, n) == IF (m < 0) = (n < 0) THEN Abs(m) \div Abs(n) ELSE - (Abs(m) \div Abs(n))
Remainder(m, n) == m - Quotient(m, n) * n

Result(reg) == [reg |-> reg, hi |-> 0, lo |-> 0, overflow |-> FALSE]
HiLo(hi, lo) == [reg |-> 0, hi |-> hi, lo |-> lo, overflow |-> FALSE]
Overflow == [reg |-> 0, hi |-> 0, lo |-> 0, overflow |-> TRUE]

-----------------------------------------------------------------------------
(* Instruction::Decode: the immediate of the I format.                     *)
SignExtend(imm) ==
  IF imm >= 2 ^ (W \div 2 - 1) THEN imm | BitNot(2 ^ (W \div 2) - 1) ELSE imm

Immediates == {SignExtend(imm) : imm \in Half}

Low(extra) == extra & (2 ^ (W \div 2) - 1)

(* OP_ADD .. OP_ANDI                                                       *)
AddCases(o, x, y) ==
  LET sum == Wrap(x + y)
  IN  CASE o = "ADD" -> IF ~ SIGN_BIT(x ^^ y) /\ SIGN_BIT(x ^^ sum)
                        THEN Overflow ELSE Result(sum)
        [] o = "ADDI" -> IF ~ SIGN_BIT(x ^^ y) /\ SIGN_BIT(y ^^ sum)
                         THEN Overflow ELSE Result(sum)
        [] o \in {"ADDIU", "ADDU"} -> Result(sum)
        [] o = "AND" -> Result(x & y)
        [] o = "ANDI" -> Result(x & Low(y))

(* OP_DIV, OP_DIVU.  The quotient of the least int by -1, which traps on   *)
(* the host, is left out below.                                            *)
DivCases(o, x, y) ==
  CASE y = 0 -> HiLo(0, 0)
    [] y # 0 /\ o = "DIV" ->
         HiLo(Wrap(Remainder(Signed(x), Signed(y))), Wrap(Quotient(Signed(x), Signed(y))))
    [] y # 0 /\ o = "DIVU" -> HiLo(x % y, x \div y)

(* The byte and half-word loads: what is read becomes a word.              *)
LoadCases(o, value) ==
  CASE o = "LB" -> Result(IF value >= 2 ^ (W \div 4 - 1)
                          THEN value | BitNot(2 ^ (W \div 4) - 1) ELSE value)
    [] o = "LH" -> Result(SignExtend(value))
    [] o \in {"LBU", "LHU"} -> Result(value)

(* OP_LUI                                                                  *)
LuiCase(extra) == Result(ShiftLeft(extra, W \div 2))

(* OP_NOR, OP_OR, OP_ORI.  OP_OR names rs twice.                           *)
OrCases(o, x, y) ==
  CASE o = "NOR" -> Result(BitNot(x | y))
    [] o = "OR" -> Result(x | x)
    [] o = "ORI" -> Result(x | Low(y))

(* OP_SLL, OP_SLLV; a shift is by the low bits of the amount.              *)
LeftCases(o, x, y) == Result(ShiftLeft(y, x % W))

(* OP_SLT .. OP_SLTU                                                       *)
LessCases(o, x, y) ==
  Result(IF (IF o \in {"SLT", "SLTI"} THEN Signed(x) < Signed(y) ELSE x < y)
         THEN 1 ELSE 0)

(* OP_SRA .. OP_SRLV: tmp is an int in all four.                           *)
RightCases(o, x, y) == Result(ShiftRight(y, x % W))


(* OP_SUB, OP_SUBU                                                         *)
SubCases(o, x, y) ==
  LET diff == Wrap(x - y)
  IN  IF o = "SUB" /\ SIGN_BIT(x ^^ y) /\ SIGN_BIT(x ^^ diff)
      THEN Overflow ELSE Result(diff)

(* OP_XOR, OP_XORI                                                         *)
XorCases(o, x, y) == Result(IF o = "XOR" THEN x ^^ y ELSE x ^^ Low(y))

Execute(o, x, y) ==
  CASE o \in {"ADD", "ADDI", "ADDIU", "ADDU", "AND", "ANDI"} -> AddCases(o, x, y)
    [] o \in {"DIV", "DIVU"} -> DivCases(o, x, y)
    [] o \in {"LB", "LBU", "LH", "LHU"} -> LoadCases(o, y)
    [] o = "LUI" -> LuiCase(y)
    [] o \in {"NOR", "OR", "ORI"} -> OrCases(o, x, y)
    [] o \in {"SLL", "SLLV"} -> LeftCases(o, x, y)
    [] o \in {"SLT", "SLTI", "SLTIU", "SLTU"} -> LessCases(o, x, y)
    [] o \in {"SRA", "SRAV", "SRL", "SRLV"} -> RightCases(o, x, y)
    [] o \in {"SUB", "SUBU"} -> SubCases(o, x, y)
    [] o \in {"XOR", "XORI"} -> XorCases(o, x, y)

-----------------------------------------------------------------------------
(* The same instructions in bin/execute.c, which raises no overflow.  It   *)
(* shifts by a whole register, of which the host takes the low bits.       *)
HostShift(o, x, y) ==
  CASE o \in {"SLL", "SLLV"} -> ShiftLeft(y, x % W)
    [] o \in {"SRL", "SRLV"} -> y \div 2 ^ (x % W)
    [] o \in {"SRA", "SRAV"} -> ShiftRight(y, x % W)

HostDiv(o, x, y) ==
  IF o = "DIV"
  THEN <<Wrap(Remainder(Signed(x), Signed(y))), Wrap(Quotient(Signed(x), Signed(y)))>>
  ELSE <<x % y, x \div y>>

HostArith(o, x, y) ==
  CASE o \in {"ADD", "ADDU"} -> Wrap(x + y)
    [] o \in {"SUB", "SUBU"} -> Wrap(x - y)
    [] o = "AND" -> x & y
    [] o = "OR" -> x | y
    [] o = "XOR" -> x ^^ y
    [] o = "NOR" -> BitNot(x | y)
    [] o = "SLT" -> IF Signed(x) < Signed(y) THEN 1 ELSE 0
    [] o = "SLTU" -> IF x < y THEN 1 ELSE 0

(* The immediate is sign-extended here for ANDI, ORI and XORI too.         *)
HostImmediate(o, x, y) ==
  CASE o \in {"ADDI", "ADDIU"} -> Wrap(x + y)
    [] o = "SLTI" -> IF Signed(x) < Signed(y) THEN 1 ELSE 0
    [] o = "SLTIU" -> IF x < y THEN 1 ELSE 0
    [] o = "ANDI" -> x & y
    [] o = "ORI" -> x | y
    [] o = "XORI" -> x ^^ y
    [] o = "LUI" -> ShiftLeft(y, W \div 2)

-----------------------------------------------------------------------------
RegisterOps ==
  {"ADD", "ADDU", "AND", "DIV", "DIVU", "NOR", "OR", "SLL", "SLLV", "SLT", "SLTU",
   "SRA", "SRAV", "SRL", "SRLV", "SUB", "SUBU", "XOR"}

ImmediateOps == {"ADDI", "ADDIU", "ANDI", "LUI", "ORI", "SLTI", "SLTIU", "XORI"}

NotRun == [reg |-> 0, hi |-> 0, lo |-> 0, overflow |-> FALSE, ran |-> FALSE]

Init ==
  /\ a \in Word
  /\ \/ op \in RegisterOps /\ b \in Operands
     \/ op \in ImmediateOps /\ b \in Immediates
     \/ op \in {"LB", "LBU"} /\ b \in Byte
     \/ op \in {"LH", "LHU"} /\ b \in Half
  /\ ~ (op = "DIV" /\ a = 2 ^ (W - 1) /\ b = 2 ^ W - 1)
  /\ out = NotRun

Run ==
  /\ ~ out.ran
  /\ LET r == Execute(op, a, b)
     IN  out' = [reg |-> r.reg, hi |-> r.hi, lo |-> r.lo, overflow |-> r.overflow,
                 ran |-> TRUE]
  /\ UNCHANGED <<op, a, b>>

Spec == Init /\ [][Run]_vars

-----------------------------------------------------------------------------
(* ADD, ADDI and SUB raise OverflowException exactly when the sum or       *)
(* difference of the signed operands does not fit in a word, and give it   *)
(* otherwise (mipssim.cc:125-143, 457-465).                                *)
OverflowExact ==
  out.ran /\ op \in {"ADD", "ADDI", "SUB"} =>
    LET true == IF op = "SUB" THEN Signed(a) - Signed(b) ELSE Signed(a) + Signed(b)
    IN  IF true \in - (2 ^ (W - 1)) .. 2 ^ (W - 1) - 1
        THEN ~ out.overflow /\ Signed(out.reg) = true
        ELSE out.overflow

(* DIV and DIVU: quotient and remainder make up the dividend, the          *)
(* remainder is smaller than the divisor and has the dividend's sign.      *)
DivisionExact ==
  out.ran /\ op \in {"DIV", "DIVU"} /\ b # 0 =>
    LET V(x) == IF op = "DIV" THEN Signed(x) ELSE x
    IN  /\ V(out.lo) * V(b) + V(out.hi) = V(a)
        /\ Abs(V(out.hi)) < Abs(V(b))
        /\ V(out.hi) # 0 => (V(out.hi) < 0 <=> V(a) < 0)

(* Instructions the two interpreters of the repository agree on: all but   *)
(* OR and the logical right shifts, immediates of the logical operations   *)
(* that are negative, and what execute.c does not guard against.           *)
Comparable ==
  /\ op \notin {"OR", "SRL", "SRLV"}
  /\ ~ (op \in {"ANDI", "ORI", "XORI"} /\ SIGN_BIT(b))
  /\ ~ (op \in {"DIV", "DIVU"} /\ b = 0)
  /\ ~ out.overflow

InterpretersAgree ==
  out.ran /\ Comparable =>
    /\ op \in {"SLL", "SLLV", "SRA", "SRAV"} => out.reg = HostShift(op, a, b)
    /\ op \in {"DIV", "DIVU"} => <<out.hi, out.lo>> = HostDiv(op, a, b)
    /\ op \in {"ADD", "ADDU", "SUB", "SUBU", "AND", "XOR", "NOR", "SLT", "SLTU"} =>
         out.reg = HostArith(op, a, b)
    /\ op \in ImmediateOps => out.reg = HostImmediate(op, a, b)

(* The bytes and half-words of LB, LBU, LH and LHU keep their value as     *)
(* signed or unsigned numbers (mipssim.cc:231-261).                        *)
LoadsKeepValue ==
  out.ran =>
    /\ op \in {"LBU", "LHU"} => out.reg = b
    /\ op = "LB" => Signed(out.reg) = IF 2 * b >= 2 ^ (W \div 4) THEN b - 2 ^ (W \div 4) ELSE b
    /\ op = "LH" => Signed(out.reg) = IF 2 * b >= 2 ^ (W \div 2) THEN b - 2 ^ (W \div 2) ELSE b
=============================================================================
