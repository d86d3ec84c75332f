----------------------------- MODULE MCProcessor ----------------------------
(***************************************************************************)
(* The simulated processor: what its instructions compute, how they        *)
(* multiply, and how they are sequenced.  The components are explored side *)
(* by side in one run; the variable part says which of them, in which      *)
(* instance, a behaviour is about.                                         *)
(***************************************************************************)
EXTENDS Integers

VARIABLES
  part,   \* the component a behaviour is about
  op, a, b, out, x, y, signedArith, bLo, bHi, lo, hi, negative, i, pc,
  registers, saved, current, memory

vars == <<part,
          op, a, b, out, x, y, signedArith, bLo, bHi, lo, hi, negative, i,
          pc, registers, saved, current, memory>>

\* Words of eight bits; every first operand with those around the limits.
Alu == INSTANCE MipsAlu WITH
  W <- 8, Operands <- {0, 1, 3, 7, 127, 128, 129, 255}

\* All operands of five bits.
Product == INSTANCE MipsMult WITH
  W <- 5

\* Words of two bits: branches, jumps and system calls.
Control == INSTANCE Mips WITH
  Threads <- {1}, Regs <- 0..2, Link <- 2, WordSize <- 4, Offsets <- {3},
  Ops <- {"BEQ", "LW", "BGEZAL", "JAL", "JALR", "SYSCALL"}

\* Loads and stores of words and of parts of them.
Access == INSTANCE Mips WITH
  Threads <- {1}, Regs <- 0..2, Link <- 2, WordSize <- 4, Offsets <- {1},
  Ops <- {"ADDU", "LW", "LWR", "SW", "SWR"}

\* Two threads that share memory, words of one bit, a few instructions.
Switching == INSTANCE Mips WITH
  Threads <- {1, 2}, Regs <- {0, 1}, Link <- 1, WordSize <- 2,
  Offsets <- {0, 1}, Ops <- {"ADDU", "LW", "SW", "JAL"}

ASSUME
  /\ Alu!AluAssumption /\ Product!MultWidth
  /\ Control!MipsAssumption /\ Access!MipsAssumption /\ Switching!MipsAssumption

-----------------------------------------------------------------------------
(* A component that is not the one of the behaviour has no state.          *)
Init ==
  \/ /\ part = "alu" /\ Alu!Init
     /\ x = 0 /\ y = 0 /\ signedArith = 0 /\ bLo = 0 /\ bHi = 0 /\ lo = 0
     /\ hi = 0 /\ negative = 0 /\ i = 0 /\ pc = 0 /\ registers = 0
     /\ saved = 0 /\ current = 0 /\ memory = 0
  \/ /\ part = "mult" /\ Product!Init
     /\ op = 0 /\ b = 0 /\ out = 0 /\ registers = 0 /\ saved = 0
     /\ current = 0 /\ memory = 0
  \/ /\ \/ part = "control" /\ Control!Init
        \/ part = "access" /\ Access!Init
        \/ part = "switch" /\ Switching!Init
     /\ op = 0 /\ a = 0 /\ b = 0 /\ out = 0 /\ x = 0 /\ y = 0
     /\ signedArith = 0 /\ bLo = 0 /\ bHi = 0 /\ lo = 0 /\ hi = 0
     /\ negative = 0 /\ i = 0 /\ pc = 0

(* An execution of the arithmetic is one instruction or multiplication.    *)
Stopped == part \in {"alu", "mult"} /\ UNCHANGED vars

Next ==
  \/ /\ part = "alu" /\ Alu!Run
     /\ UNCHANGED <<part,
                    x, y, signedArith, bLo, bHi, lo, hi, negative, i, pc,
                    registers, saved, current, memory>>
  \/ /\ part = "mult" /\ Product!Next
     /\ UNCHANGED <<part,
                    op, b, out, registers, saved, current, memory>>
  \/ /\ \/ part = "control" /\ Control!Next
        \/ part = "access" /\ Access!Next
        \/ part = "switch" /\ Switching!Next
     /\ UNCHANGED <<part,
                    op, a, b, out, x, y, signedArith, bLo, bHi, lo, hi,
                    negative, i, pc>>
  \/ Stopped

Spec == Init /\ [][Next]_vars

-----------------------------------------------------------------------------

(* Mult gives the double-word product, for signed and unsigned operands,   *)
(* the least int included (mipssim.cc:636-692).                            *)
ProductExact == part = "mult" => Product!ProductExact

(* A program cannot tell that loads are delayed, that an instruction was   *)
(* interrupted by a page fault and started again, in a delay slot too, or  *)
(* that other threads used the registers in between; and register 0 stays  *)
(* zero (mipssim.cc:93-123, 555-582, machine.cc:103-114, thread.cc:        *)
(* 296-317).                                                               *)
ImplementsIsa ==
  /\ part = "control" => Control!Isa!Init
  /\ part = "access" => Access!Isa!Init
  /\ part = "switch" => Switching!Isa!Init
  /\ [][/\ part = "control" =>
             [Control!Isa!Next]_(Control!Isa!vars) /\ Control!ZeroStaysZero'
        /\ part = "access" => [Access!Isa!Next]_(Access!Isa!vars)
        /\ part = "switch" => [Switching!Isa!Next]_(Switching!Isa!vars)]_vars
=============================================================================
