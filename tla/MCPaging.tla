------------------------------ MODULE MCPaging ------------------------------
(***************************************************************************)
(* Demand paging in instances that differ in which resource is short, and  *)
(* the clock walk it is built on.  They are explored side by side in one   *)
(* run; the variable part says which of them a behaviour is about.         *)
(***************************************************************************)
EXTENDS MCVirtualMemory

VARIABLES
  part,
  n, use, hand, freeSpace, use0, hand0   \* the variables of ClockWalk

walkVars == <<n, use, hand, freeSpace, use0, hand0>>
allVars == <<part, vars, walkVars>>

OnePage(last) == [p \in {1} |-> [v \in 0..last |-> 1]]
Heap(stale) == [virtualPage : stale, use : {FALSE}, dirty : BOOLEAN]

\* Written data and stack pages, and a single swap slot.
Swap == INSTANCE VirtualMemory WITH
  Spaces <- {1}, NumPages <- 3, noInitData <- 2, Writable <- {1, 2},
  NumPhysPages <- 2, TLBSize <- 2, SWAPSize <- 1, Image <- OnePage(1)

\* More frames than TLB slots: the clock of the TLB runs.
SmallTLB == INSTANCE VirtualMemory WITH
  Spaces <- {1}, NumPages <- 3, noInitData <- 2, Writable <- {2},
  NumPhysPages <- 3, TLBSize <- 2, SWAPSize <- 1, Image <- OnePage(1)

\* One TLB slot: its clock runs beside that of memory.
OneSlot == INSTANCE VirtualMemory WITH
  Spaces <- {1}, NumPages <- 3, noInitData <- 2, Writable <- {1, 2},
  NumPhysPages <- 2, TLBSize <- 1, SWAPSize <- 2, Image <- OnePage(1)

\* New TLB arrays from used heap memory, which can hold anything.
UsedHeap == INSTANCE VirtualMemory WITH
  Spaces <- {1}, NumPages <- 3, noInitData <- 3, Writable <- {1},
  NumPhysPages <- 2, TLBSize <- 1, SWAPSize <- 1, Image <- OnePage(2),
  Stale <- Heap(0..2)

\* Every walk over up to five places.
Walk == INSTANCE ClockWalk WITH MaxPlaces <- 5

ASSUME
  /\ Swap!VMAssumption /\ SmallTLB!VMAssumption /\ OneSlot!VMAssumption
  /\ UsedHeap!VMAssumption /\ Walk!WalkAssumption

-----------------------------------------------------------------------------
(* What is not part of the behaviour has no state.                         *)
PagingInit ==
  \/ /\ \/ part = "programs" /\ Init
        \/ part = "swap" /\ Swap!Init
        \/ part = "small tlb" /\ SmallTLB!Init
        \/ part = "one slot" /\ OneSlot!Init
        \/ part = "used heap" /\ UsedHeap!Init
     /\ n = 0 /\ use = 0 /\ hand = 0 /\ freeSpace = 0 /\ use0 = 0 /\ hand0 = 0
  \/ /\ part = "walk" /\ Walk!Init
     /\ running = 0 /\ pageTable = 0 /\ tlb = 0 /\ IPT = 0 /\ MemBitMap = 0
     /\ SWAPBitMap = 0 /\ mainMemory = 0 /\ swapFile = 0 /\ indexTLBSndChc = 0
     /\ indexSWAPSndChc = 0 /\ reg = 0 /\ failed = 0

PagingNext ==
  \/ /\ \/ part = "programs" /\ Next
        \/ part = "swap" /\ Swap!Next
        \/ part = "small tlb" /\ SmallTLB!Next
        \/ part = "one slot" /\ OneSlot!Next
        \/ part = "used heap" /\ UsedHeap!Next
     /\ UNCHANGED <<part, walkVars>>
  \/ /\ part = "walk" /\ Walk!Next
     /\ UNCHANGED <<part, vars>>

(* The loops of the clocks keep iterating.                                 *)
PagingSpec ==
  /\ PagingInit /\ [][PagingNext]_allVars
  /\ WF_walkVars(part = "walk" /\ Walk!Iteration)

-----------------------------------------------------------------------------
(* Frames, frame bit map, inverted table and page tables agree, whatever   *)
(* the new TLB arrays of SaveState and RestoreState hold.                  *)
AllFramesExact ==
  /\ part = "programs" => TypeOK /\ FramesExact
  /\ part = "swap" => Swap!FramesExact
  /\ part = "small tlb" => SmallTLB!FramesExact
  /\ part = "one slot" => OneSlot!FramesExact
  /\ part = "used heap" => UsedHeap!FramesExact

(* Swap slots are neither shared nor leaked by load, and writeIntoSwap     *)
(* gives up (addrspace.cc:343-347) only when there are more modified pages *)
(* than swap slots.                                                        *)
AllSwapExact ==
  /\ part = "programs" => SwapExact /\ SwapFailureJustified
  /\ part = "swap" => Swap!SwapExact /\ Swap!SwapFailureJustified
  /\ part = "one slot" => OneSlot!SwapExact /\ OneSlot!SwapFailureJustified

(* The TLB holds current translations of the running space, each page      *)
(* once, and never forgets a dirty bit; and its clock is idle when it is   *)
(* as large as memory (EnterTLB, SwitchSpace, updateSwapVictimInfo).       *)
AllTLBCoherent ==
  /\ part = "programs" => TLBCoherent /\ TLBClockIdle
  /\ part = "swap" => Swap!TLBCoherent /\ Swap!TLBClockIdle
  /\ part = "small tlb" => SmallTLB!TLBCoherent
  /\ part = "one slot" => OneSlot!TLBCoherent
  /\ part = "used heap" => UsedHeap!TLBCoherent

(* No path from the TLB to the page table (useThisTLBIndex, SaveState,     *)
(* saveVictimTLBInfo, updateSwapVictimInfo) loses a dirty bit.             *)
AllCleanRecoverable ==
  /\ part = "swap" => Swap!CleanPagesRecoverable
  /\ part = "small tlb" => SmallTLB!CleanPagesRecoverable
  /\ part = "one slot" => OneSlot!CleanPagesRecoverable

(* Paging is invisible: loading, evicting, swapping and switching leave    *)
(* what every program sees of its memory as it is (AddrSpace::load).       *)
AllImplementMemory ==
  /\ part = "programs" => Memory!MemInit
  /\ part = "swap" => Swap!Memory!MemInit
  /\ part = "small tlb" => SmallTLB!Memory!MemInit
  /\ part = "one slot" => OneSlot!Memory!MemInit
  /\ [][/\ part = "programs" => [Memory!MemNext]_(Memory!memVars)
        /\ part = "swap" => [Swap!Memory!MemNext]_(Swap!Memory!memVars)
        /\ part = "small tlb" => [SmallTLB!Memory!MemNext]_(SmallTLB!Memory!memVars)
        /\ part = "one slot" => [OneSlot!Memory!MemNext]_(OneSlot!Memory!memVars)]_allVars

(* The closed form of SecondChance is what the loops of getNextSCSWAP and  *)
(* getNextSCTLB (addrspace.cc:402-416, 466-494) compute, and they end,     *)
(* also when every use bit is set.                                         *)
ClosedFormRight ==
  /\ [](part = "walk" => Walk!ClosedFormRight)
  /\ (part = "walk") ~> (part = "walk" /\ Walk!Found)
=============================================================================
