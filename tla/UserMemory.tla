----------------------------- MODULE UserMemory -----------------------------
(***************************************************************************)
(* What virtual memory promises to user programs: each has pages of its    *)
(* own, a load returns what the program's last store to that page put      *)
(* there, and a page backed by the executable starts with its contents.    *)
(* A page of the uninitialised data or stack segment that was never        *)
(* written is Unknown: a load of it may return anything.                   *)
(***************************************************************************)
CONSTANTS Spaces, Pages, Data, Image, Unknown

VARIABLES
  memory,    \* contents of each page of each address space
  running,   \* the address space on the CPU
  reg        \* the register the last load wrote

memVars == <<memory, running, reg>>

MemInit ==
  /\ memory = [p \in Spaces |-> [v \in Pages |->
                 IF v \in DOMAIN Image[p] THEN Image[p][v] ELSE Unknown]]
  /\ running \in Spaces
  /\ reg \in Data

LoadWord(v) ==
  /\ \/ memory[running][v] = reg'
     \/ memory[running][v] = Unknown /\ reg' \in Data
  /\ UNCHANGED <<memory, running>>

StoreWord(v, d) ==
  /\ memory' = [memory EXCEPT ![running][v] = d]
  /\ UNCHANGED <<running, reg>>

SwitchTo(p) ==
  /\ running' = p
  /\ UNCHANGED <<memory, reg>>

MemNext ==
  \/ \E v \in Pages : LoadWord(v) \/ \E d \in Data : StoreWord(v, d)
  \/ \E p \in Spaces : SwitchTo(p)

MemSpec == MemInit /\ [][MemNext]_memVars
=============================================================================
