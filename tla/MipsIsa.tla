------------------------------ MODULE MipsIsa -------------------------------
(***************************************************************************)
(* The processor as a program sees it: each thread has registers of its    *)
(* own, a load changes its register at once, a branch takes effect after   *)
(* the instruction that follows it, and page faults and context switches   *)
(* do not exist.  Addresses count words.                                   *)
(***************************************************************************)
EXTENDS Integers

CONSTANTS Threads, Regs, Link, WordSize, Instrs

VARIABLES regs, pc, npc, memory

vars == <<regs, pc, npc, memory>>

Wrap(n) == n % WordSize

Set(t, r, v) == regs' = IF r = 0 THEN regs ELSE [regs EXCEPT ![t][r] = v]

Advance(t, after) ==
  /\ pc' = [pc EXCEPT ![t] = npc[t]]
  /\ npc' = [npc EXCEPT ![t] = after]

Step(t) == Advance(t, Wrap(npc[t] + 1))

Address(t, i) == Wrap(regs[t][i.rs] + i.extra) % 2

(* Loads and stores of part of a word.                                     *)
LowFromHigh(old, value) == 2 * (old \div 2) + value \div 2
HighFromLow(old, value) == (old % 2) + 2 * (value % 2)

Computes(t, i) ==
  i.op = "ADDU" /\ Set(t, i.rd, Wrap(regs[t][i.rs] + regs[t][i.rt]))
    /\ Step(t) /\ UNCHANGED memory

Loads(t, i) ==
  /\ i.op \in {"LW", "LWR"}
  /\ LET value == memory[Address(t, i)]
     IN  Set(t, i.rt, IF i.op = "LW" THEN value ELSE LowFromHigh(regs[t][i.rt], value))
  /\ Step(t) /\ UNCHANGED memory

Stores(t, i) ==
  /\ i.op \in {"SW", "SWR"}
  /\ memory' = [memory EXCEPT ![Address(t, i)] =
                  IF i.op = "SW" THEN regs[t][i.rt] ELSE HighFromLow(@, regs[t][i.rt])]
  /\ Step(t) /\ UNCHANGED regs

Branches(t, i) ==
  /\ i.op \in {"BEQ", "BGEZAL"}
  /\ LET taken == IF i.op = "BEQ" THEN regs[t][i.rs] = regs[t][i.rt]
                  ELSE regs[t][i.rs] < WordSize \div 2
     IN  Advance(t, Wrap(npc[t] + IF taken THEN i.extra ELSE 1))
  /\ IF i.op = "BEQ" THEN UNCHANGED regs ELSE Set(t, Link, Wrap(npc[t] + 1))
  /\ UNCHANGED memory

Jumps(t, i) ==
  /\ i.op \in {"JAL", "JALR"}
  /\ Advance(t, IF i.op = "JAL" THEN i.extra ELSE regs[t][i.rs])
  /\ Set(t, IF i.op = "JAL" THEN Link ELSE i.rd, Wrap(npc[t] + 1))
  /\ UNCHANGED memory

(* The result of a system call is in a register.                           *)
Syscall(t, i) ==
  /\ i.op = "SYSCALL"
  /\ regs' = regs \/ \E v \in 0 .. WordSize - 1 : Set(t, Link, v)
  /\ Step(t) /\ UNCHANGED memory

Init ==
  /\ regs = [t \in Threads |-> [r \in Regs |-> 0]]
  /\ pc = [t \in Threads |-> 0]
  /\ npc = [t \in Threads |-> 1]
  /\ memory \in [{0, 1} -> 0 .. WordSize - 1]

Next ==
  \E t \in Threads, i \in Instrs :
    \/ Computes(t, i) \/ Loads(t, i) \/ Stores(t, i)
    \/ Branches(t, i) \/ Jumps(t, i) \/ Syscall(t, i)

Spec == Init /\ [][Next]_vars
=============================================================================
