--------------------------- MODULE VirtualMemory ---------------------------
(***************************************************************************)
(* Demand paging (userprog/addrspace.cc, built with VM and USE_TLB): page  *)
(* tables, the software-managed TLB (machine/translate.cc), the inverted   *)
(* page table IPT, the frame and swap bit maps and the swap file.  A fault *)
(* is served by AddrSpace::load without losing the CPU, since the file     *)
(* system stub never blocks; between two user instructions the CPU may     *)
(* change hands, with SaveState and RestoreState.                          *)
(*                                                                         *)
(* A page holds one word.  Address spaces are those of programs started by *)
(* Exec; a program that exited is one that is not switched to any more     *)
(* (its frames and swap slots stay taken).                                 *)
(***************************************************************************)
EXTENDS SecondChance, FiniteSets

CONSTANTS
  Spaces,         \* the address spaces
  NumPages,       \* pages of an address space
  noInitData,     \* first page that is not read from the executable
  Writable,       \* pages the programs store to
  NumPhysPages, TLBSize, SWAPSize,
  Data, Zero,     \* contents of a page; what the machine starts with
  Image,          \* contents of the pages in the executables
  Stale,          \* what the memory of a new TLB array can hold
  NULL

Pages  == 0..NumPages-1
Frames == 0..NumPhysPages-1
Slots  == 0..TLBSize-1
SwapSlots == 0..SWAPSize-1

ASSUME VMAssumption ==
  /\ NumPages \in Nat \ {0} /\ noInitData \in 0..NumPages
  /\ Writable \subseteq Pages
  /\ NumPhysPages \in Nat \ {0} /\ TLBSize \in Nat \ {0} /\ SWAPSize \in Nat
  /\ Zero \in Data
  /\ Image \in [Spaces -> [0..noInitData-1 -> Data]]
  /\ Stale # {}
  /\ Stale \subseteq [virtualPage : Pages, use : BOOLEAN, dirty : BOOLEAN]
  /\ NULL \notin Spaces \X Pages
  /\ NULL \notin Data

VARIABLES
  running,            \* address space of currentThread
  pageTable,
  tlb,
  IPT,                \* the page in each frame, as a pointer to its entry
  MemBitMap,          \* frames marked
  SWAPBitMap,         \* swap slots marked
  mainMemory,
  swapFile,
  indexTLBSndChc,     \* hand of the TLB's clock
  indexSWAPSndChc,    \* hand of the memory's clock
  reg,                \* register written by the last load
  failed              \* an ASSERT(false) ended the machine

vars == <<running, pageTable, tlb, IPT, MemBitMap, SWAPBitMap, mainMemory, swapFile,
          indexTLBSndChc, indexSWAPSndChc, reg, failed>>

Entry == [physicalPage : {-1} \cup Frames \cup SwapSlots,
          valid : BOOLEAN, use : BOOLEAN, dirty : BOOLEAN]

TLBEntry == [virtualPage : Pages, physicalPage : {-1} \cup Frames \cup SwapSlots,
             valid : BOOLEAN, use : BOOLEAN, dirty : BOOLEAN]

TypeOK ==
  /\ running \in Spaces
  /\ pageTable \in [Spaces -> [Pages -> Entry]]
  /\ tlb \in [Slots -> TLBEntry]
  /\ IPT \in [Frames -> (Spaces \X Pages) \cup {NULL}]
  /\ MemBitMap \subseteq Frames
  /\ SWAPBitMap \subseteq SwapSlots
  /\ mainMemory \in [Frames -> Data]
  /\ swapFile \in [SwapSlots -> Data]
  /\ indexTLBSndChc \in Slots
  /\ indexSWAPSndChc \in Frames
  /\ reg \in Data
  /\ failed \in BOOLEAN

-----------------------------------------------------------------------------
Lowest(S) == CHOOSE i \in S : \A j \in S : i <= j
Highest(S) == CHOOSE i \in S : \A j \in S : i >= j

(* Only "valid" is assigned in the array that SaveState and RestoreState   *)
(* allocate; the rest is what the memory held.                             *)
NewTLB(t) ==
  \E junk \in [Slots -> Stale] :
    t = [i \in Slots |-> [virtualPage |-> junk[i].virtualPage, physicalPage |-> -1,
                          valid |-> FALSE, use |-> junk[i].use, dirty |-> junk[i].dirty]]

Init ==
  /\ running \in Spaces
  /\ pageTable = [p \in Spaces |-> [v \in Pages |->
                    [physicalPage |-> -1, valid |-> FALSE, use |-> FALSE, dirty |-> FALSE]]]
  /\ NewTLB(tlb)
  /\ IPT = [f \in Frames |-> NULL]
  /\ MemBitMap = {}
  /\ SWAPBitMap = {}
  /\ mainMemory = [f \in Frames |-> Zero]
  /\ swapFile = [k \in SwapSlots |-> Zero]
  /\ indexTLBSndChc = 0
  /\ indexSWAPSndChc = 0
  /\ reg = Zero
  /\ failed = FALSE

-----------------------------------------------------------------------------
(* The definitions marked "Mutant" are faulty variants of the definition   *)
(* that follows them; no specification uses them.  PROJECT.json names the  *)
(* property each of them breaks.                                           *)

(* Machine::Translate with a TLB: the slots that map page v.               *)
Hit(v) == {i \in Slots : tlb[i].valid /\ tlb[i].virtualPage = v}

ReadMem(v) ==
  /\ ~failed
  /\ Hit(v) # {}
  /\ LET i == Lowest(Hit(v))
     IN  /\ reg' = mainMemory[tlb[i].physicalPage]
         /\ tlb' = [tlb EXCEPT ![i].use = TRUE]
  /\ UNCHANGED <<running, pageTable, IPT, MemBitMap, SWAPBitMap, mainMemory, swapFile,
                 indexTLBSndChc, indexSWAPSndChc, failed>>

WriteMem(v, d) ==
  /\ ~failed
  /\ v \in Writable
  /\ Hit(v) # {}
  /\ LET i == Lowest(Hit(v))
     IN  /\ mainMemory' = [mainMemory EXCEPT ![tlb[i].physicalPage] = d]
         /\ tlb' = [tlb EXCEPT ![i].use = TRUE, ![i].dirty = TRUE]
  /\ UNCHANGED <<running, pageTable, IPT, MemBitMap, SWAPBitMap, swapFile,
                 indexTLBSndChc, indexSWAPSndChc, reg, failed>>

(* Mutant: the clock passes and replaces slots without saving their bits.  *)
EnterTLBUnsaved(v, pt, tb) ==
  LET free == {i \in Slots : ~tb[i].valid}
      used == [i \in Slots |-> tb[i].use]
      index == IF free # {} THEN Lowest(free) ELSE Victim(used, indexTLBSndChc, TLBSize)
      passed == IF free # {} THEN {} ELSE Passed(used, indexTLBSndChc, TLBSize)
      entry == pt[running][v]
  IN  /\ tlb' = [i \in Slots |->
                   IF i = index
                   THEN [virtualPage |-> v, physicalPage |-> entry.physicalPage,
                         valid |-> entry.valid, use |-> entry.use, dirty |-> entry.dirty]
                   ELSE [tb[i] EXCEPT !.use = @ /\ i \notin passed]]
      /\ pageTable' = pt
      /\ indexTLBSndChc' = IF free # {} THEN indexTLBSndChc
                           ELSE NewHand(used, indexTLBSndChc, TLBSize)

(* getNextSCTLB, saveVictimTLBInfo and useThisTLBIndex: page v of the      *)
(* running space enters the TLB tb; pt are the page tables so far.         *)
EnterTLB(v, pt, tb) ==
  LET free == {i \in Slots : ~tb[i].valid}
      used == [i \in Slots |-> tb[i].use]
      index == IF free # {} THEN Lowest(free) ELSE Victim(used, indexTLBSndChc, TLBSize)
      saved == IF free # {} THEN {}
               ELSE Passed(used, indexTLBSndChc, TLBSize) \cup {index}
      entry == pt[running][v]
  IN  /\ tlb' = [i \in Slots |->
                   IF i = index
                   THEN [virtualPage |-> v, physicalPage |-> entry.physicalPage,
                         valid |-> entry.valid, use |-> entry.use, dirty |-> entry.dirty]
                   ELSE [tb[i] EXCEPT !.use = @ /\ i \notin saved]]
      /\ pageTable' = [pt EXCEPT ![running] = [u \in Pages |->
                         LET mine == {i \in saved : tb[i].virtualPage = u}
                         IN  IF mine = {} THEN @[u]
                             ELSE [@[u] EXCEPT !.use = Lowest(mine) # index,
                                               !.dirty = tb[Lowest(mine)].dirty]]]
      /\ indexTLBSndChc' = IF free # {} THEN indexTLBSndChc
                           ELSE NewHand(used, indexTLBSndChc, TLBSize)

(* The contents load gives page v in frame f, and the swap slot it frees:  *)
(* a dirty page comes from swap, a clean one of the code or initialised    *)
(* data segment from the executable; otherwise the frame is left as it is. *)
InSwap(v) == pageTable[running][v].dirty

Contents(v, leftover) ==
  IF InSwap(v) THEN swapFile[pageTable[running][v].physicalPage]
  ELSE IF v < noInitData THEN Image[running][v]
  ELSE leftover

(* Mutant: the swap slot of a page that is read back stays marked.         *)
SlotsKept(v) == {}

SlotsFreed(v) == IF InSwap(v) THEN {pageTable[running][v].physicalPage} ELSE {}

(* The part of load common to all its cases for a page not in memory.      *)
Install(v, f, pt, tb) ==
  /\ IPT' = [IPT EXCEPT ![f] = <<running, v>>]
  /\ EnterTLB(v, [pt EXCEPT ![running][v].physicalPage = f,
                            ![running][v].valid = TRUE], tb)

Fault(v) == ~failed /\ Hit(v) = {}

BadSlot(v) == InSwap(v) /\ pageTable[running][v].physicalPage \notin SwapSlots

(* load, cases 3 and 4: the page is in memory, only the TLB misses it.     *)
LoadResident(v) ==
  /\ Fault(v)
  /\ pageTable[running][v].valid
  /\ EnterTLB(v, pageTable, tlb)
  /\ UNCHANGED <<running, IPT, MemBitMap, SWAPBitMap, mainMemory, swapFile,
                 indexSWAPSndChc, reg, failed>>

(* load with a free frame.                                                 *)
LoadFree(v) ==
  /\ Fault(v)
  /\ ~pageTable[running][v].valid /\ ~BadSlot(v)
  /\ MemBitMap # Frames
  /\ LET f == Lowest(Frames \ MemBitMap)
     IN  /\ MemBitMap' = MemBitMap \cup {f}
         /\ mainMemory' = [mainMemory EXCEPT ![f] = Contents(v, @)]
         /\ Install(v, f, pageTable, tlb)
  /\ SWAPBitMap' = SWAPBitMap \ SlotsFreed(v)
  /\ UNCHANGED <<running, swapFile, indexSWAPSndChc, reg, failed>>

-----------------------------------------------------------------------------
(* getNextSCSWAP: the victim's frame, and the tables after the walk.       *)
UseBits == [f \in Frames |-> pageTable[IPT[f][1]][IPT[f][2]].use]

VictimFrame == Victim(UseBits, indexSWAPSndChc, NumPhysPages)

TablesAfterWalk ==
  [p \in Spaces |-> [u \in Pages |->
     [pageTable[p][u] EXCEPT !.use =
        @ /\ ~\E f \in Passed(UseBits, indexSWAPSndChc, NumPhysPages) : IPT[f] = <<p, u>>]]]

(* updateSwapVictimInfo: the TLB slot of the victim, if it has one, is     *)
(* invalidated after its bits are copied to the victim's entry.            *)
VictimPage == IPT[VictimFrame]

VictimEntry ==
  LET e == TablesAfterWalk[VictimPage[1]][VictimPage[2]]
      mine == {i \in Slots : tlb[i].valid /\ tlb[i].physicalPage = e.physicalPage}
  IN  IF mine = {} THEN e
      ELSE [e EXCEPT !.use = tlb[Lowest(mine)].use, !.dirty = tlb[Lowest(mine)].dirty]

(* Mutant: the victim's translation stays in the TLB.                      *)
TLBWithVictim == tlb

TLBWithoutVictim ==
  LET mine == {i \in Slots : tlb[i].valid /\ tlb[i].physicalPage = VictimEntry.physicalPage}
  IN  [i \in Slots |-> [tlb[i] EXCEPT !.valid = @ /\ (mine = {} \/ i # Lowest(mine))]]

(* Mutant: the victim's entry stays valid.                                 *)
TablesWithVictim(k) ==
  [TablesAfterWalk EXCEPT ![VictimPage[1]][VictimPage[2]] =
     [VictimEntry EXCEPT !.physicalPage = k]]

(* The page tables once the victim is out of memory, at swap slot k or,    *)
(* when k is -1, nowhere.                                                  *)
TablesWithoutVictim(k) ==
  [TablesAfterWalk EXCEPT ![VictimPage[1]][VictimPage[2]] =
     [VictimEntry EXCEPT !.valid = FALSE, !.physicalPage = k]]

MustEvict(v) ==
  /\ Fault(v)
  /\ ~pageTable[running][v].valid /\ ~BadSlot(v)
  /\ MemBitMap = Frames

(* load over a victim that was not modified: it is just dropped.  Here a   *)
(* page without contents of its own does get a cleared frame.              *)
LoadOverClean(v) ==
  /\ MustEvict(v)
  /\ ~VictimEntry.dirty
  /\ LET f == VictimEntry.physicalPage
     IN  /\ mainMemory' = [mainMemory EXCEPT ![f] = Contents(v, Zero)]
         /\ Install(v, f, TablesWithoutVictim(-1), TLBWithoutVictim)
  /\ SWAPBitMap' = SWAPBitMap \ SlotsFreed(v)
  /\ indexSWAPSndChc' = NewHand(UseBits, indexSWAPSndChc, NumPhysPages)
  /\ UNCHANGED <<running, MemBitMap, swapFile, reg, failed>>

(* load over a modified victim: writeIntoSwap takes a slot for it before   *)
(* readFromSwap frees the slot of the page that comes in.                  *)
LoadOverDirty(v) ==
  /\ MustEvict(v)
  /\ VictimEntry.dirty
  /\ SWAPBitMap # SwapSlots
  /\ LET f == VictimFrame
         k == Lowest(SwapSlots \ SWAPBitMap)
     IN  /\ swapFile' = [swapFile EXCEPT ![k] = mainMemory[VictimEntry.physicalPage]]
         /\ SWAPBitMap' = (SWAPBitMap \cup {k}) \ SlotsFreed(v)
         /\ mainMemory' = [mainMemory EXCEPT ![f] = Contents(v, @)]
         /\ Install(v, f, TablesWithoutVictim(k), TLBWithoutVictim)
  /\ indexSWAPSndChc' = NewHand(UseBits, indexSWAPSndChc, NumPhysPages)
  /\ UNCHANGED <<running, MemBitMap, reg, failed>>

(* writeIntoSwap finds no slot: ASSERT(false).                             *)
SwapExhausted(v) ==
  /\ MustEvict(v)
  /\ VictimEntry.dirty
  /\ SWAPBitMap = SwapSlots
  /\ failed' = TRUE
  /\ UNCHANGED <<running, pageTable, tlb, IPT, MemBitMap, SWAPBitMap, mainMemory, swapFile,
                 indexTLBSndChc, indexSWAPSndChc, reg>>

(* readFromSwap is asked for a slot that does not exist: ASSERT(false).    *)
LoadBadSlot(v) ==
  /\ Fault(v)
  /\ ~pageTable[running][v].valid /\ BadSlot(v)
  /\ failed' = TRUE
  /\ UNCHANGED <<running, pageTable, tlb, IPT, MemBitMap, SWAPBitMap, mainMemory, swapFile,
                 indexTLBSndChc, indexSWAPSndChc, reg>>

(* Mutant: the bits of the TLB are not saved.                              *)
SwitchUnsaved(p) ==
  /\ ~failed
  /\ UNCHANGED pageTable
  /\ NewTLB(tlb')
  /\ indexTLBSndChc' = 0
  /\ running' = p
  /\ UNCHANGED <<IPT, MemBitMap, SWAPBitMap, mainMemory, swapFile, indexSWAPSndChc,
                 reg, failed>>

(* Scheduler::Run between two user programs: SaveState copies the use and  *)
(* dirty bits of every slot, valid or not, in the order of the slots.      *)
SwitchSpace(p) ==
  /\ ~failed
  /\ pageTable' = [pageTable EXCEPT ![running] = [u \in Pages |->
                     LET mine == {i \in Slots : tlb[i].virtualPage = u}
                     IN  IF mine = {} THEN @[u]
                         ELSE [@[u] EXCEPT !.use = tlb[Highest(mine)].use,
                                           !.dirty = tlb[Highest(mine)].dirty]]]
  /\ NewTLB(tlb')
  /\ indexTLBSndChc' = 0
  /\ running' = p
  /\ UNCHANGED <<IPT, MemBitMap, SWAPBitMap, mainMemory, swapFile, indexSWAPSndChc,
                 reg, failed>>

Failed == failed /\ UNCHANGED vars

Next ==
  \/ \E v \in Pages :
       \/ ReadMem(v)
       \/ \E d \in Data : WriteMem(v, d)
       \/ LoadResident(v) \/ LoadFree(v)
       \/ LoadOverClean(v) \/ LoadOverDirty(v)
       \/ SwapExhausted(v) \/ LoadBadSlot(v)
  \/ \E p \in Spaces : SwitchSpace(p)
  \/ Failed

Spec == Init /\ [][Next]_vars

-----------------------------------------------------------------------------
(* Properties                                                              *)

(* Frames, bit map, inverted table and page tables agree: a frame is       *)
(* marked exactly when it holds a page, and the page it holds is the one   *)
(* whose entry is valid and points to it.  The assertions of getNextSCSWAP *)
(* (addrspace.cc:471-483), of writeIntoSwap (337) and after every second   *)
(* MemBitMap->Find of load rest on it.                                     *)
FramesExact ==
  /\ \A f \in Frames : f \in MemBitMap <=> IPT[f] # NULL
  /\ \A f \in Frames : \A p \in Spaces : \A v \in Pages :
       IPT[f] = <<p, v>> <=> /\ pageTable[p][v].valid
                             /\ pageTable[p][v].physicalPage = f
  /\ \A p \in Spaces : \A v \in Pages :
       pageTable[p][v].valid => pageTable[p][v].physicalPage \in Frames

(* Swap slots are neither shared nor leaked by load: a slot is marked      *)
(* exactly when one page, invalid and dirty, lives in it.                  *)
Swapped(p, v) == ~pageTable[p][v].valid /\ pageTable[p][v].dirty

SwapExact ==
  /\ \A p \in Spaces : \A v \in Pages :
       Swapped(p, v) => pageTable[p][v].physicalPage \in SWAPBitMap
  /\ \A k \in SWAPBitMap : \E p \in Spaces : \E v \in Pages :
       Swapped(p, v) /\ pageTable[p][v].physicalPage = k
  /\ \A p, q \in Spaces : \A u, v \in Pages :
       /\ Swapped(p, u) /\ Swapped(q, v)
       /\ pageTable[p][u].physicalPage = pageTable[q][v].physicalPage
       => p = q /\ u = v

(* The TLB holds current translations of the running space only, each page *)
(* once, and never forgets that a page is dirty (EnterTLB, SwitchSpace and *)
(* the invalidation in updateSwapVictimInfo).                              *)
TLBCoherent ==
  /\ \A i \in Slots : tlb[i].valid =>
       LET e == pageTable[running][tlb[i].virtualPage]
       IN  /\ e.valid
           /\ e.physicalPage = tlb[i].physicalPage
           /\ e.dirty => tlb[i].dirty
  /\ \A i, j \in Slots :
       tlb[i].valid /\ tlb[j].valid /\ tlb[i].virtualPage = tlb[j].virtualPage => i = j

(* With at least as many TLB slots as frames, as machine.h:35-37 has it,   *)
(* eviction always leaves a slot free: the clock of getNextSCTLB never     *)
(* runs.                                                                   *)
TLBClockIdle == TLBSize >= NumPhysPages => indexTLBSndChc = 0

(* A page is dirty when its entry says so or its TLB slot does.            *)
Modified(p, v) ==
  \/ pageTable[p][v].dirty
  \/ /\ p = running
     /\ \E i \in Hit(v) : tlb[i].dirty

(* A page whose dirty bits are all clear is still as the executable has    *)
(* it, so load may drop it and read it again: no path from the TLB to the  *)
(* page table (useThisTLBIndex, saveVictimTLBInfo, updateSwapVictimInfo,   *)
(* SaveState) loses a dirty bit.  SaveState's task according to            *)
(* addrspace.cc:229-231.                                                   *)
CleanPagesRecoverable ==
  \A p \in Spaces : \A v \in 0..noInitData-1 :
    pageTable[p][v].valid /\ ~Modified(p, v) =>
      mainMemory[pageTable[p][v].physicalPage] = Image[p][v]

(* writeIntoSwap gives up (addrspace.cc:343-347) only when there are more  *)
(* modified pages than swap slots.                                         *)
SwapFailureJustified ==
  failed => Cardinality({x \in Spaces \X Pages : Modified(x[1], x[2])}) > SWAPSize

(* Where the contents of a page are.                                       *)
Stored(p, v) ==
  LET e == pageTable[p][v]
  IN  IF ~e.valid /\ e.dirty THEN swapFile[e.physicalPage]
      ELSE IF v >= noInitData /\ ~Modified(p, v) THEN NULL
      ELSE IF e.valid THEN mainMemory[e.physicalPage]
      ELSE Image[p][v]

(* Paging is invisible: loading, evicting, swapping and switching leave    *)
(* what every program sees of its memory as it is.                         *)
Memory == INSTANCE UserMemory
            WITH memory <- [p \in Spaces |-> [v \in Pages |-> Stored(p, v)]],
                 Unknown <- NULL

ImplementsMemory == Memory!MemSpec

(* The uninitialised data and stack segments start as zero (comment at     *)
(* addrspace.cc:150-151): a page of them in memory and never written holds *)
(* zero.                                                                   *)
FreshPagesAreZero ==
  \A p \in Spaces : \A v \in Pages :
    /\ v >= noInitData
    /\ pageTable[p][v].valid
    /\ ~Modified(p, v)
    => mainMemory[pageTable[p][v].physicalPage] = Zero
=============================================================================
