-------------------------------- MODULE Mips --------------------------------
(***************************************************************************)
(* The control of the simulated processor (machine/mipssim.cc): program    *)
(* counters, delayed loads, exceptions in the middle of an instruction and *)
(* its restart, and the switch of the registers between threads.  What the *)
(* arithmetic instructions compute is in MipsAlu; ADDU stands for them.    *)
(*                                                                         *)
(* The next instruction is any instruction of Instrs, which covers every   *)
(* program.  Programs leave alone, in the instruction after a load, the    *)
(* register being loaded, as compilers for this processor do.  An address  *)
(* counts words, so that 4 in the code is 1 here, and half of a word       *)
(* stands for its bytes in LWR and SWR.                                    *)
(***************************************************************************)
EXTENDS Integers

CONSTANTS
  Threads,
  Regs,      \* general registers, 0 among them
  Link,      \* R31, here also the register of a system call's result
  WordSize,  \* 2^w
  Offsets,   \* values of extra
  Ops        \* instructions that programs use

MipsAssumption ==
  /\ 0 \in Regs
  /\ Link \in Regs \ {0}
  /\ WordSize \in Nat \ {0, 1}
  /\ Offsets \subseteq 0 .. WordSize - 1

VARIABLES
  registers,  \* the machine's: general registers, PC, NextPC, LoadReg, LoadValue
  saved,      \* userRegisters of each thread
  current,    \* currentThread
  memory

vars == <<registers, saved, current, memory>>

Word == 0 .. WordSize - 1

Instrs ==
  [op : Ops \cap {"ADDU"}, rs : Regs, rt : Regs, rd : Regs, extra : {0}]
    \cup [op : Ops \cap {"BEQ", "LW", "LWR", "SW", "SWR"}, rs : Regs, rt : Regs,
          rd : {0}, extra : Offsets]
    \cup [op : Ops \cap {"BGEZAL"}, rs : Regs \ {Link}, rt : {0}, rd : {0}, extra : Offsets]
    \cup [op : Ops \cap {"JAL"}, rs : {0}, rt : {0}, rd : {0}, extra : Offsets]
    \cup [op : Ops \cap {"SYSCALL"}, rs : {0}, rt : {0}, rd : {0}, extra : {0}]
    \cup {i \in [op : Ops \cap {"JALR"}, rs : Regs, rt : {0}, rd : Regs, extra : {0}] :
            i.rs # i.rd}

Wrap(n) == n % WordSize

(* Machine::Machine and AddrSpace::InitRegisters                           *)
Start == [gpr |-> [r \in Regs |-> 0], PC |-> 0, NextPC |-> 1, LoadReg |-> 0, LoadValue |-> 0]

Init ==
  /\ registers = Start
  /\ saved = [t \in Threads |-> Start]
  /\ current \in Threads
  /\ memory \in [{0, 1} -> Word]

-----------------------------------------------------------------------------
(* Machine::DelayedLoad                                                    *)
DelayedLoad(regs, nextReg, nextValue) ==
  [regs EXCEPT !.gpr = [[@ EXCEPT ![regs.LoadReg] = regs.LoadValue] EXCEPT ![0] = 0],
               !.LoadReg = nextReg, !.LoadValue = nextValue]

(* The end of OneInstruction: the delayed load, and the program counters.  *)
Finish(regs, nextReg, nextValue, pcAfter) ==
  [DelayedLoad(regs, nextReg, nextValue) EXCEPT !.PC = regs.NextPC, !.NextPC = pcAfter]

PcAfter == Wrap(registers.NextPC + 1)

Gpr(r) == registers.gpr[r]

Write(r, v) == [registers EXCEPT !.gpr[r] = v]

Address(i) == Wrap(Gpr(i.rs) + i.extra) % 2

(* What the instruction after a load may not do: read the register, or     *)
(* write it at once.                                                       *)
Touches(i, r) ==
  \/ i.rs = r
  \/ i.rt = r /\ i.op \in {"ADDU", "BEQ", "SW", "SWR"}
  \/ i.rd = r /\ i.op \in {"ADDU", "JALR"}
  \/ r = Link /\ i.op \in {"BGEZAL", "JAL"}

Fits(i) == registers.LoadReg # 0 => ~ Touches(i, registers.LoadReg)

-----------------------------------------------------------------------------
Alu(i) ==
  /\ i.op = "ADDU"
  /\ registers' = Finish(Write(i.rd, Wrap(Gpr(i.rs) + Gpr(i.rt))), 0, 0, PcAfter)
  /\ UNCHANGED memory

(* LWL and LWR take the value that is still on its way to the register.    *)
OldValue(r) == IF registers.LoadReg = r THEN registers.LoadValue ELSE Gpr(r)

(* OP_LW, and OP_LWR at an aligned address, the only one it allows.        *)
Load(i) ==
  /\ i.op \in {"LW", "LWR"}
  /\ LET value == memory[Address(i)]
         next == IF i.op = "LW" THEN value ELSE 2 * (OldValue(i.rt) \div 2) + value \div 2
     IN  registers' = Finish(registers, i.rt, next, PcAfter)
  /\ UNCHANGED memory

(* OP_SW, and OP_SWR at an aligned address.                                *)
Store(i) ==
  /\ i.op \in {"SW", "SWR"}
  /\ memory' = [memory EXCEPT ![Address(i)] =
                  IF i.op = "SW" THEN Gpr(i.rt) ELSE (@ % 2) + 2 * (Gpr(i.rt) % 2)]
  /\ registers' = Finish(registers, 0, 0, PcAfter)

(* OP_BEQ, OP_BGEZAL: the link register is written before the test.        *)
Branch(i) ==
  /\ i.op \in {"BEQ", "BGEZAL"}
  /\ LET linked == IF i.op = "BEQ" THEN registers ELSE Write(Link, PcAfter)
         taken == IF i.op = "BEQ" THEN Gpr(i.rs) = Gpr(i.rt)
                  ELSE linked.gpr[i.rs] < WordSize \div 2
     IN  registers' = Finish(linked, 0, 0,
                             IF taken THEN Wrap(registers.NextPC + i.extra) ELSE PcAfter)
  /\ UNCHANGED memory

(* OP_JAL, OP_JALR                                                         *)
Jump(i) ==
  /\ i.op \in {"JAL", "JALR"}
  /\ registers' = IF i.op = "JAL"
                  THEN Finish(Write(Link, PcAfter), 0, 0, i.extra)
                  ELSE Finish(Write(i.rd, PcAfter), 0, 0, Write(i.rd, PcAfter).gpr[i.rs])
  /\ UNCHANGED memory

(* Machine::RaiseException: the load in progress is finished, then the     *)
(* handler runs.                                                           *)
RaiseException == DelayedLoad(registers, 0, 0)

(* returnFromSystemCall (exception.cc)                                     *)
ReturnFromSystemCall(regs) ==
  [regs EXCEPT !.PC = regs.NextPC, !.NextPC = Wrap(regs.NextPC + 1)]

(* OP_SYSCALL: the handler may leave a result.                             *)
Syscall(i) ==
  /\ i.op = "SYSCALL"
  /\ \E regs \in {RaiseException}
                   \cup {[RaiseException EXCEPT !.gpr[Link] = v] : v \in Word} :
       registers' = ReturnFromSystemCall(regs)
  /\ UNCHANGED memory

(* ReadMem or WriteMem fails, in the fetch or in a load or store: the      *)
(* handler makes the page present and the instruction starts again.        *)
Fault ==
  /\ registers' = RaiseException
  /\ UNCHANGED <<saved, current, memory>>

(* Mutant: the load in progress is not saved.                              *)
SwitchWithoutLoad ==
  \E t \in Threads \ {current} :
    /\ saved' = [saved EXCEPT ![current] = [registers EXCEPT !.LoadReg = 0, !.LoadValue = 0]]
    /\ registers' = saved[t]
    /\ current' = t
    /\ UNCHANGED memory

(* Thread::SaveUserState of the thread that loses the CPU, and             *)
(* RestoreUserState of the one that gets it.                               *)
Switch ==
  \E t \in Threads \ {current} :
    /\ saved' = [saved EXCEPT ![current] = registers]
    /\ registers' = saved[t]
    /\ current' = t
    /\ UNCHANGED memory

OneInstruction(i) ==
  /\ Fits(i)
  /\ Alu(i) \/ Load(i) \/ Store(i) \/ Branch(i) \/ Jump(i) \/ Syscall(i)
  /\ UNCHANGED <<saved, current>>

(* Machine::Run                                                            *)
Next ==
  \/ \E i \in Instrs : OneInstruction(i)
  \/ Fault
  \/ Switch

Spec == Init /\ [][Next]_vars

-----------------------------------------------------------------------------
RegistersOf(t) == IF t = current THEN registers ELSE saved[t]

(* The registers of a thread once its load has arrived.                    *)
Settled(t) == DelayedLoad(RegistersOf(t), 0, 0).gpr

Isa == INSTANCE MipsIsa WITH
         regs <- [t \in Threads |-> Settled(t)],
         pc <- [t \in Threads |-> RegistersOf(t).PC],
         npc <- [t \in Threads |-> RegistersOf(t).NextPC]

(* A program cannot tell that loads are delayed, that an instruction was   *)
(* interrupted by a page fault and started again, in a branch's or a       *)
(* load's delay slot too, or that other threads used the registers in      *)
(* between (mipssim.cc:72-90, machine.cc:103-114, thread.cc).              *)
ImplementsIsa == Isa!Spec

(* "always make sure R0 stays zero" (mipssim.cc:581).                      *)
ZeroStaysZero == \A t \in Threads : RegistersOf(t).gpr[0] = 0
=============================================================================
