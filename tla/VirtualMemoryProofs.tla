------------------------ MODULE VirtualMemoryProofs ------------------------
(***************************************************************************)
(* Proofs about demand paging, for any number of address spaces, pages,    *)
(* frames, TLB slots and swap slots, and whatever new TLB arrays hold.     *)
(***************************************************************************)
EXTENDS VirtualMemory, WellFoundedInduction, TLAPS

-----------------------------------------------------------------------------
(* The searches: BitMap::Find, the loops over the TLB and the clocks find  *)
(* what they look for.                                                     *)

(* A set of natural numbers has a least one.                               *)
LEMMA LeastExists ==
  ASSUME NEW S, S \subseteq Nat, S # {}
  PROVE  \E i \in S : \A j \in S : i <= j
  <1>1. PICK i \in S : \A j \in S : <<j, i>> \notin OpToRel(<, Nat)
    BY NatLessThanWellFounded, WFMin
  <1>2. \A j \in S : ~(j < i)
    BY <1>1 DEF OpToRel
  <1> QED
    BY <1>2

(* The first free frame, swap slot or TLB slot is one of them.             *)
LEMMA LowestIn ==
  ASSUME NEW S, S \subseteq Nat, S # {}
  PROVE  Lowest(S) \in S
  BY LeastExists DEF Lowest

(* The last of a set of slots is one of them.                              *)
LEMMA HighestIn ==
  ASSUME NEW n \in Nat, NEW S, S \subseteq 0..n-1, S # {}
  PROVE  Highest(S) \in S
  <1> DEFINE T == { n - i : i \in S }
  <1>1. T \subseteq Nat /\ T # {}
    OBVIOUS
  <1>2. PICK t \in T : \A j \in T : t <= j
    BY <1>1, LeastExists
  <1>3. PICK i \in S : t = n - i
    OBVIOUS
  <1>4. \A j \in S : i >= j
    <2> SUFFICES ASSUME NEW j \in S PROVE i >= j
      OBVIOUS
    <2>1. n - j \in T
      OBVIOUS
    <2>2. n - i <= n - j
      BY <1>2, <1>3, <2>1
    <2> QED
      BY <2>2
  <1> QED
    BY <1>4 DEF Highest

(* The hands of the clocks stay on the dial.                               *)
LEMMA PlaceIn ==
  ASSUME NEW hand \in Int, NEW k \in Int, NEW n \in Nat \ {0}
  PROVE  Place(hand, k, n) \in 0..n-1
  BY DEF Place

(* The hand comes round once (the % of getNextSCTLB and getNextSCSWAP).    *)
LEMMA ModOnce ==
  ASSUME NEW n \in Nat \ {0}, NEW i \in 0..n-1
  PROVE  i % n = i /\ (i + n) % n = i
  OBVIOUS

(* Starting anywhere, a clock meets a place with a clear bit, if any.      *)
LEMMA PassesIn ==
  ASSUME NEW use, NEW n \in Nat \ {0}, NEW hand \in 0..n-1
  PROVE  Passes(use, hand, n) \in 0..n
  <1>1. CASE \A i \in 0..n-1 : use[i]
    BY <1>1 DEF Passes
  <1>2. CASE ~\A i \in 0..n-1 : use[i]
    <2> DEFINE clear == { k \in 0..n-1 : ~use[Place(hand, k, n)] }
    <2>1. PICK i \in 0..n-1 : ~use[i]
      BY <1>2
    <2>2. \E k \in 0..n-1 : Place(hand, k, n) = i
      <3>1. CASE i >= hand
        <4>1. i - hand \in 0..n-1 /\ hand + (i - hand) = i
          BY <3>1
        <4> QED
          BY <4>1, ModOnce DEF Place
      <3>2. CASE i < hand
        <4>1. i - hand + n \in 0..n-1 /\ hand + (i - hand + n) = i + n
          BY <3>2
        <4> QED
          BY <4>1, ModOnce DEF Place
      <3> QED
        BY <3>1, <3>2
    <2>3. clear # {} /\ clear \subseteq Nat
      BY <2>1, <2>2
    <2>4. PICK k \in clear : \A j \in clear : k <= j
      BY <2>3, LeastExists
    <2>5. \A j \in 0..k-1 : use[Place(hand, j, n)]
      <3> SUFFICES ASSUME NEW j \in 0..k-1, ~use[Place(hand, j, n)] PROVE FALSE
        OBVIOUS
      <3>1. j \in clear
        OBVIOUS
      <3> QED
        BY <2>4, <3>1
    <2>6. \E l \in 0..n-1 : /\ ~use[Place(hand, l, n)]
                            /\ \A j \in 0..l-1 : use[Place(hand, j, n)]
      BY <2>5
    <2>7. Passes(use, hand, n) \in 0..n-1
      BY <1>2, <2>6 DEF Passes
    <2> QED
      BY <2>7
  <1> QED
    BY <1>1, <1>2

(* The victim, the places passed over and the new hand are on the dial.    *)
LEMMA ClockOnDial ==
  ASSUME NEW use, NEW n \in Nat \ {0}, NEW hand \in 0..n-1
  PROVE  /\ Victim(use, hand, n) \in 0..n-1
         /\ Passed(use, hand, n) \subseteq 0..n-1
         /\ NewHand(use, hand, n) \in 0..n-1
  <1>1. Passes(use, hand, n) \in Int /\ Passes(use, hand, n) + 1 \in Int /\ hand \in Int
    BY PassesIn
  <1>2. Victim(use, hand, n) \in 0..n-1
    BY <1>1, PlaceIn DEF Victim
  <1>3. NewHand(use, hand, n) \in 0..n-1
    BY <1>1, PlaceIn DEF NewHand
  <1>4. Passed(use, hand, n) \subseteq 0..n-1
    <2> SUFFICES ASSUME NEW j \in 0 .. Passes(use, hand, n) - 1
                 PROVE  Place(hand, j, n) \in 0..n-1
      BY DEF Passed
    <2> QED
      BY <1>1, PlaceIn
  <1> QED
    BY <1>2, <1>3, <1>4

-----------------------------------------------------------------------------
(* The invariant, and TLBCoherent for tables in the middle of a load.      *)

PagingInv == TypeOK /\ FramesExact /\ TLBCoherent

Tables == [Spaces -> [Pages -> Entry]]

TLBs == [Slots -> TLBEntry]

Coherent(pt, tb) ==
  /\ \A i \in Slots : tb[i].valid =>
       /\ pt[running][tb[i].virtualPage].valid
       /\ pt[running][tb[i].virtualPage].physicalPage = tb[i].physicalPage
       /\ pt[running][tb[i].virtualPage].dirty => tb[i].dirty
  /\ \A i, j \in Slots :
       tb[i].valid /\ tb[j].valid /\ tb[i].virtualPage = tb[j].virtualPage => i = j

(* Two page tables put every page in the same place.                       *)
SamePlaces(pt, qt) ==
  \A p \in Spaces : \A u \in Pages :
    /\ qt[p][u].valid = pt[p][u].valid
    /\ qt[p][u].physicalPage = pt[p][u].physicalPage

(* Frame f holds no page of the tables pt, and the other frames agree.     *)
FreeIn(f, pt) ==
  /\ \A p \in Spaces : \A u \in Pages :
       pt[p][u].valid => pt[p][u].physicalPage \in Frames \ {f}
  /\ \A g \in Frames \ {f} :
       /\ g \in MemBitMap <=> IPT[g] # NULL
       /\ \A p \in Spaces : \A u \in Pages :
            IPT[g] = <<p, u>> <=> pt[p][u].valid /\ pt[p][u].physicalPage = g

(* A TLB does not map page v.                                              *)
Misses(v, tb) == \A i \in Slots : tb[i].valid => tb[i].virtualPage # v

(* Page, frame and slot numbers (machine.h) start at 0; none of the tables *)
(* is empty.                                                               *)
LEMMA SizesAreNatural ==
  /\ NumPages \in Nat \ {0} /\ NumPhysPages \in Nat \ {0} /\ TLBSize \in Nat \ {0}
  /\ Pages \subseteq Nat /\ Frames \subseteq Nat /\ Slots \subseteq Nat
  /\ SwapSlots \subseteq Nat
  /\ 0 \in Slots /\ 0 \in Frames
  BY VMAssumption DEF Pages, Frames, Slots, SwapSlots

(* getNextSCTLB and useThisTLBIndex (addrspace.cc:402-459): a page that is *)
(* in memory and not in the TLB enters it.  No page moves, and the bits of *)
(* the slots passed over go to the entries of their own pages.             *)
LEMMA EnterTLBKeeps ==
  ASSUME NEW v \in Pages, NEW pt \in Tables, NEW tb \in TLBs,
         running \in Spaces, running' = running, indexTLBSndChc \in Slots,
         pt[running][v].valid, Coherent(pt, tb),
         Misses(v, tb), EnterTLB(v, pt, tb)
  PROVE  /\ pageTable' \in Tables /\ tlb' \in TLBs /\ indexTLBSndChc' \in Slots
         /\ SamePlaces(pt, pageTable')
         /\ TLBCoherent'
  <1> DEFINE free == {i \in Slots : ~tb[i].valid}
             used == [i \in Slots |-> tb[i].use]
             index == IF free # {} THEN Lowest(free) ELSE Victim(used, indexTLBSndChc, TLBSize)
             saved == IF free # {} THEN {}
                      ELSE Passed(used, indexTLBSndChc, TLBSize) \cup {index}
             entry == pt[running][v]
             mine(u) == {i \in saved : tb[i].virtualPage = u}
  <1>1. /\ index \in Slots /\ saved \subseteq Slots /\ indexTLBSndChc' \in Slots
        /\ saved # {} => free = {}
    <2>1. free # {} => Lowest(free) \in free
      BY LowestIn, SizesAreNatural
    <2>2. /\ Victim(used, indexTLBSndChc, TLBSize) \in Slots
          /\ Passed(used, indexTLBSndChc, TLBSize) \subseteq Slots
          /\ NewHand(used, indexTLBSndChc, TLBSize) \in Slots
      BY ClockOnDial, SizesAreNatural DEF Slots
    <2>3. indexTLBSndChc' = IF free # {} THEN indexTLBSndChc
                            ELSE NewHand(used, indexTLBSndChc, TLBSize)
      BY DEF EnterTLB
    <2> QED
      BY <2>1, <2>2, <2>3
  <1>2. /\ tlb' = [i \in Slots |->
                     IF i = index
                     THEN [virtualPage |-> v, physicalPage |-> entry.physicalPage,
                           valid |-> entry.valid, use |-> entry.use, dirty |-> entry.dirty]
                     ELSE [tb[i] EXCEPT !.use = @ /\ i \notin saved]]
        /\ pageTable' = [pt EXCEPT ![running] = [u \in Pages |->
                           IF mine(u) = {} THEN pt[running][u]
                           ELSE [pt[running][u] EXCEPT !.use = Lowest(mine(u)) # index,
                                                       !.dirty = tb[Lowest(mine(u))].dirty]]]
    BY DEF EnterTLB
  <1>3. \A u \in Pages : mine(u) # {} => Lowest(mine(u)) \in mine(u)
    BY <1>1, LowestIn, SizesAreNatural
  <1>4. \A i \in saved : tb[i].valid
    BY <1>1
  <1>5. \A u \in Pages : \A i \in Slots :
          tb[i].valid /\ tb[i].virtualPage = u /\ mine(u) # {} => Lowest(mine(u)) = i
    <2> SUFFICES ASSUME NEW u \in Pages, NEW i \in Slots, tb[i].valid,
                        tb[i].virtualPage = u, mine(u) # {}
                 PROVE  Lowest(mine(u)) = i
      OBVIOUS
    <2>1. Lowest(mine(u)) \in saved /\ tb[Lowest(mine(u))].virtualPage = u
      BY <1>3
    <2> HIDE DEF mine, saved, free, index
    <2>2. Lowest(mine(u)) \in Slots /\ tb[Lowest(mine(u))].valid
      BY <1>1, <1>4, <2>1
    <2> QED
      BY <2>1, <2>2 DEF Coherent
  <1>6. mine(v) = {}
    <2>1. ASSUME NEW i \in saved PROVE tb[i].virtualPage # v
      <3>1. i \in Slots /\ tb[i].valid
        BY <1>1, <1>4
      <3> QED
        BY <3>1 DEF Misses
    <2> QED
      BY <2>1
  <1> HIDE DEF free, used, index, saved, mine
  <1>7. tlb' \in TLBs
    <2>1. ASSUME NEW i \in Slots
          PROVE  [virtualPage |-> v, physicalPage |-> entry.physicalPage,
                  valid |-> entry.valid, use |-> entry.use, dirty |-> entry.dirty] \in TLBEntry
      <3>1. entry \in Entry
        BY DEF Tables
      <3> QED
        BY <3>1 DEF Entry, TLBEntry
    <2>2. ASSUME NEW i \in Slots
          PROVE  [tb[i] EXCEPT !.use = @ /\ i \notin saved] \in TLBEntry
      <3>1. tb[i] \in TLBEntry
        BY DEF TLBs
      <3> QED
        BY <3>1 DEF TLBEntry
    <2> HIDE DEF entry
    <2> QED
      BY <1>2, <2>1, <2>2 DEF TLBs
  <1>8. \A u \in Pages : mine(u) # {} => tb[Lowest(mine(u))].dirty \in BOOLEAN
    BY <1>1, <1>3 DEF TLBs, TLBEntry, mine
  <1>9. pageTable' \in Tables
    <2>1. ASSUME NEW u \in Pages, mine(u) # {}
          PROVE  [pt[running][u] EXCEPT !.use = Lowest(mine(u)) # index,
                                        !.dirty = tb[Lowest(mine(u))].dirty] \in Entry
      <3>1. pt[running][u] \in Entry
        BY DEF Tables
      <3> QED
        BY <3>1, <2>1, <1>8 DEF Entry
    <2>2. \A u \in Pages : pt[running][u] \in Entry
      BY DEF Tables
    <2> QED
      BY <1>2, <2>1, <2>2 DEF Tables
  <1>10. /\ \A p \in Spaces : p # running => pageTable'[p] = pt[p]
         /\ \A u \in Pages :
              pageTable'[running][u] =
                IF mine(u) = {} THEN pt[running][u]
                ELSE [pt[running][u] EXCEPT !.use = Lowest(mine(u)) # index,
                                            !.dirty = tb[Lowest(mine(u))].dirty]
    BY <1>2 DEF Tables
  <1>11. SamePlaces(pt, pageTable')
    <2> SUFFICES ASSUME NEW p \in Spaces, NEW u \in Pages
                 PROVE  /\ pageTable'[p][u].valid = pt[p][u].valid
                        /\ pageTable'[p][u].physicalPage = pt[p][u].physicalPage
      BY DEF SamePlaces
    <2>1. CASE p # running \/ mine(u) = {}
      BY <2>1, <1>10
    <2>2. CASE p = running /\ mine(u) # {}
      <3>1. pt[running][u] \in Entry
        BY DEF Tables
      <3>2. pageTable'[running][u] =
              [pt[running][u] EXCEPT !.use = Lowest(mine(u)) # index,
                                     !.dirty = tb[Lowest(mine(u))].dirty]
        BY <2>2, <1>10
      <3>3. /\ pageTable'[running][u].valid = pt[running][u].valid
            /\ pageTable'[running][u].physicalPage = pt[running][u].physicalPage
        BY <3>1, <3>2 DEF Entry
      <3> QED
        BY <2>2, <3>3
    <2> QED
      BY <2>1, <2>2
  <1>12. \A i \in Slots :
           /\ i = index => /\ tlb'[i].virtualPage = v
                           /\ tlb'[i].physicalPage = entry.physicalPage
                           /\ tlb'[i].dirty = entry.dirty
           /\ i # index => /\ tlb'[i].virtualPage = tb[i].virtualPage
                           /\ tlb'[i].physicalPage = tb[i].physicalPage
                           /\ tlb'[i].valid = tb[i].valid
                           /\ tlb'[i].dirty = tb[i].dirty
    BY <1>2 DEF TLBs, TLBEntry
  <1>13. /\ pageTable'[running][v] = entry
         /\ \A i \in Slots : tb[i].valid =>
              LET u == tb[i].virtualPage
              IN  /\ u \in Pages
                  /\ pageTable'[running][u].valid
                  /\ pageTable'[running][u].physicalPage = tb[i].physicalPage
                  /\ pageTable'[running][u].dirty => tb[i].dirty
    <2>1. pageTable'[running][v] = entry
      BY <1>6, <1>10
    <2>2. ASSUME NEW i \in Slots, tb[i].valid
          PROVE  LET u == tb[i].virtualPage
                 IN  /\ u \in Pages
                     /\ pageTable'[running][u].valid
                     /\ pageTable'[running][u].physicalPage = tb[i].physicalPage
                     /\ pageTable'[running][u].dirty => tb[i].dirty
      <3> DEFINE u == tb[i].virtualPage
      <3>1. u \in Pages
        BY DEF TLBs, TLBEntry
      <3>2. /\ pageTable'[running][u].valid
            /\ pageTable'[running][u].physicalPage = tb[i].physicalPage
        BY <2>2, <3>1, <1>11 DEF SamePlaces, Coherent
      <3>3. pageTable'[running][u].dirty => tb[i].dirty
        <4>1. CASE mine(u) = {}
          BY <4>1, <2>2, <3>1, <1>10 DEF Coherent
        <4>2. CASE mine(u) # {}
          <5>1. Lowest(mine(u)) = i
            BY <4>2, <2>2, <3>1, <1>5
          <5>2. pt[running][u] \in Entry
            BY <3>1 DEF Tables
          <5> QED
            BY <4>2, <5>1, <5>2, <3>1, <1>10 DEF Entry
        <4> QED
          BY <4>1, <4>2
      <3> QED
        BY <3>1, <3>2, <3>3
    <2> QED
      BY <2>1, <2>2
  <1>14. \A i \in Slots : tlb'[i].valid =>
           /\ pageTable'[running][tlb'[i].virtualPage].valid
           /\ pageTable'[running][tlb'[i].virtualPage].physicalPage = tlb'[i].physicalPage
           /\ pageTable'[running][tlb'[i].virtualPage].dirty => tlb'[i].dirty
    BY <1>12, <1>13
  <1>15. \A i, j \in Slots :
           tlb'[i].valid /\ tlb'[j].valid /\ tlb'[i].virtualPage = tlb'[j].virtualPage => i = j
    BY <1>12 DEF Coherent, Misses
  <1>16. TLBCoherent'
    BY <1>14, <1>15 DEF TLBCoherent
  <1> QED
    BY <1>1, <1>7, <1>9, <1>11, <1>16

(* The end of load for a page that was not in memory (Install): once frame *)
(* f is free in page tables, inverted table and TLB, giving it to page v   *)
(* makes them agree again.                                                 *)
LEMMA InstallKeeps ==
  ASSUME NEW v \in Pages, NEW f \in Frames, NEW pt \in Tables, NEW tb \in TLBs,
         TypeOK, running' = running,
         ~pt[running][v].valid, Coherent(pt, tb),
         Misses(v, tb), FreeIn(f, pt),
         MemBitMap' = MemBitMap \cup {f},
         Install(v, f, pt, tb)
  PROVE  /\ pageTable' \in Tables /\ tlb' \in TLBs /\ indexTLBSndChc' \in Slots
         /\ IPT' \in [Frames -> (Spaces \X Pages) \cup {NULL}]
         /\ FramesExact' /\ TLBCoherent'
  <1> DEFINE new == [pt EXCEPT ![running][v].physicalPage = f, ![running][v].valid = TRUE]
  <1>1. running \in Spaces /\ indexTLBSndChc \in Slots
        /\ IPT \in [Frames -> (Spaces \X Pages) \cup {NULL}]
    BY DEF TypeOK
  <1>2. pt[running][v] \in Entry /\ pt[running] \in [Pages -> Entry]
    BY <1>1 DEF Tables
  <1>3. /\ new \in Tables
        /\ \A p \in Spaces : p # running => new[p] = pt[p]
        /\ \A u \in Pages : u # v => new[running][u] = pt[running][u]
        /\ new[running][v] \in Entry
        /\ new[running][v].valid /\ new[running][v].physicalPage = f
    <2> DEFINE placed == [pt[running][v] EXCEPT !.physicalPage = f]
               mid == [pt EXCEPT ![running] = [pt[running] EXCEPT ![v] = placed]]
               final == [placed EXCEPT !.valid = TRUE]
    <2>1. placed \in Entry /\ placed.physicalPage = f
      BY <1>2 DEF Entry
    <2>2. final \in Entry /\ final.valid /\ final.physicalPage = f
      BY <2>1 DEF Entry
    <2> HIDE DEF placed
    <2>3. /\ mid \in Tables /\ mid[running] \in [Pages -> Entry]
          /\ mid[running] = [pt[running] EXCEPT ![v] = placed]
          /\ mid[running][v] = placed
          /\ \A p \in Spaces : p # running => mid[p] = pt[p]
          /\ \A u \in Pages : u # v => mid[running][u] = pt[running][u]
      BY <1>1, <1>2, <2>1 DEF Tables
    <2>4. new = [mid EXCEPT ![running] =
                   [mid[running] EXCEPT ![v] = [mid[running][v] EXCEPT !.valid = TRUE]]]
      BY DEF placed
    <2> HIDE DEF mid, final, new
    <2>5. new = [mid EXCEPT ![running] = [mid[running] EXCEPT ![v] = final]]
      BY <2>3, <2>4 DEF final
    <2>6. /\ new \in Tables /\ new[running] = [mid[running] EXCEPT ![v] = final]
          /\ \A p \in Spaces : p # running => new[p] = mid[p]
      BY <1>1, <2>2, <2>3, <2>5 DEF Tables
    <2>7. /\ new[running][v] = final
          /\ \A u \in Pages : u # v => new[running][u] = mid[running][u]
      BY <2>3, <2>6
    <2> QED
      BY <2>2, <2>3, <2>6, <2>7
  <1>6. EnterTLB(v, new, tb) /\ IPT' = [IPT EXCEPT ![f] = <<running, v>>]
    BY DEF Install
  <1> HIDE DEF new
  <1>7. Coherent(new, tb)
    <2>1. \A i \in Slots : tb[i].valid =>
            new[running][tb[i].virtualPage] = pt[running][tb[i].virtualPage]
      BY <1>3 DEF TLBs, TLBEntry, Misses
    <2> QED
      BY <2>1 DEF Coherent
  <1>8. /\ pageTable' \in Tables /\ tlb' \in TLBs /\ indexTLBSndChc' \in Slots
        /\ SamePlaces(new, pageTable') /\ TLBCoherent'
    BY <1>1, <1>3, <1>6, <1>7, EnterTLBKeeps
  <1>9. /\ IPT' \in [Frames -> (Spaces \X Pages) \cup {NULL}]
        /\ IPT'[f] = <<running, v>> /\ <<running, v>> # NULL
        /\ \A g \in Frames : g # f => IPT'[g] = IPT[g]
    BY <1>1, <1>6, VMAssumption
  <1>10. \A p \in Spaces : \A u \in Pages :
           IF p = running /\ u = v
           THEN pageTable'[p][u].valid /\ pageTable'[p][u].physicalPage = f
           ELSE /\ pageTable'[p][u].valid = pt[p][u].valid
                /\ pageTable'[p][u].physicalPage = pt[p][u].physicalPage
    <2>1. \A p \in Spaces : \A u \in Pages :
            ~(p = running /\ u = v) => new[p][u] = pt[p][u]
      BY <1>1, <1>3
    <2> QED
      BY <1>1, <1>3, <1>8, <2>1 DEF SamePlaces
  <1>11. FramesExact'
    <2>1. \A g \in Frames : g \in MemBitMap' <=> IPT'[g] # NULL
      BY <1>9 DEF FreeIn
    <2>2. ASSUME NEW g \in Frames, NEW p \in Spaces, NEW u \in Pages
          PROVE  IPT'[g] = <<p, u>> <=> /\ pageTable'[p][u].valid
                                        /\ pageTable'[p][u].physicalPage = g
      <3>1. CASE p = running /\ u = v
        <4>1. pageTable'[p][u].valid /\ pageTable'[p][u].physicalPage = f
          BY <3>1, <1>10
        <4>2. g # f => IPT'[g] # <<p, u>>
          BY <3>1, <1>9 DEF FreeIn
        <4> QED
          BY <3>1, <4>1, <4>2, <1>9
      <3>2. CASE ~(p = running /\ u = v)
        <4>1. /\ pageTable'[p][u].valid = pt[p][u].valid
              /\ pageTable'[p][u].physicalPage = pt[p][u].physicalPage
          BY <3>2, <1>10
        <4>2. CASE g = f
          BY <3>2, <4>1, <4>2, <1>9 DEF FreeIn
        <4>3. CASE g # f
          BY <4>1, <4>3, <1>9 DEF FreeIn
        <4> QED
          BY <4>2, <4>3
      <3> QED
        BY <3>1, <3>2
    <2>3. \A p \in Spaces : \A u \in Pages :
            pageTable'[p][u].valid => pageTable'[p][u].physicalPage \in Frames
      BY <1>10 DEF FreeIn
    <2> QED
      BY <2>1, <2>2, <2>3 DEF FramesExact
  <1> QED
    BY <1>8, <1>9, <1>11

(* load chooses a victim (getNextSCSWAP, updateSwapVictimInfo): with all   *)
(* frames taken the clock stops at a frame whose page is in memory, and    *)
(* once that page is out, its frame is free everywhere.                    *)
LEMMA EvictFrees ==
  ASSUME PagingInv, NEW v \in Pages, MustEvict(v), NEW k \in {-1} \cup SwapSlots
  PROVE  /\ VictimFrame \in Frames /\ VictimEntry.physicalPage = VictimFrame
         /\ NewHand(UseBits, indexSWAPSndChc, NumPhysPages) \in Frames
         /\ TablesWithoutVictim(k) \in Tables /\ TLBWithoutVictim \in TLBs
         /\ ~TablesWithoutVictim(k)[running][v].valid
         /\ Coherent(TablesWithoutVictim(k), TLBWithoutVictim)
         /\ Misses(v, TLBWithoutVictim)
         /\ FreeIn(VictimFrame, TablesWithoutVictim(k))
  <1> DEFINE f == VictimFrame
             walked == TablesAfterWalk
             out == TablesWithoutVictim(k)
             tb == TLBWithoutVictim
             mine == {i \in Slots : tlb[i].valid /\ tlb[i].physicalPage = f}
  <1>1. /\ pageTable \in Tables /\ tlb \in TLBs /\ running \in Spaces
        /\ IPT \in [Frames -> (Spaces \X Pages) \cup {NULL}]
        /\ indexSWAPSndChc \in Frames
    BY DEF PagingInv, TypeOK, Tables, TLBs
  <1>2. f \in Frames /\ NewHand(UseBits, indexSWAPSndChc, NumPhysPages) \in Frames
    BY <1>1, ClockOnDial, SizesAreNatural DEF VictimFrame, Frames
  <1>3. VictimPage \in Spaces \X Pages
    BY <1>1, <1>2 DEF PagingInv, FramesExact, MustEvict, VictimPage
  <1>4. PICK q \in Spaces, w \in Pages : VictimPage = <<q, w>>
    BY <1>3
  <1>5. pageTable[q][w].valid /\ pageTable[q][w].physicalPage = f
    BY <1>2, <1>4 DEF PagingInv, FramesExact, VictimPage
  <1>6. \A p \in Spaces : \A u \in Pages :
          /\ walked[p][u] \in Entry
          /\ walked[p][u].valid = pageTable[p][u].valid
          /\ walked[p][u].physicalPage = pageTable[p][u].physicalPage
          /\ walked[p][u].dirty = pageTable[p][u].dirty
    <2> SUFFICES ASSUME NEW p \in Spaces, NEW u \in Pages
                 PROVE  /\ walked[p][u] \in Entry
                        /\ walked[p][u].valid = pageTable[p][u].valid
                        /\ walked[p][u].physicalPage = pageTable[p][u].physicalPage
                        /\ walked[p][u].dirty = pageTable[p][u].dirty
      OBVIOUS
    <2>1. pageTable[p][u] \in Entry
      BY <1>1 DEF Tables
    <2>2. PICK b \in BOOLEAN : walked[p][u] = [pageTable[p][u] EXCEPT !.use = b]
      BY <2>1 DEF TablesAfterWalk, Entry
    <2> QED
      BY <2>1, <2>2 DEF Entry
  <1>7. walked \in Tables
    BY <1>6 DEF Tables, TablesAfterWalk
  <1>8. VictimEntry \in Entry /\ VictimEntry.physicalPage = f
    <2> DEFINE e == walked[q][w]
    <2>1. e = TablesAfterWalk[VictimPage[1]][VictimPage[2]]
      BY <1>4
    <2>2. e \in Entry /\ e.physicalPage = f
      BY <1>5, <1>6
    <2>3. VictimEntry = IF mine = {} THEN e
                        ELSE [e EXCEPT !.use = tlb[Lowest(mine)].use,
                                       !.dirty = tlb[Lowest(mine)].dirty]
      BY <2>1, <2>2 DEF VictimEntry
    <2>4. CASE mine = {}
      BY <2>2, <2>3, <2>4
    <2>5. CASE mine # {}
      <3>1. Lowest(mine) \in Slots
        BY <2>5, LowestIn, SizesAreNatural
      <3>2. tlb[Lowest(mine)] \in TLBEntry
        BY <1>1, <3>1 DEF TLBs
      <3>3. tlb[Lowest(mine)].use \in BOOLEAN /\ tlb[Lowest(mine)].dirty \in BOOLEAN
        BY <3>2 DEF TLBEntry
      <3> HIDE DEF mine, e
      <3> QED
        BY <2>2, <2>3, <2>5, <3>3 DEF Entry
    <2> QED
      BY <2>4, <2>5
  <1>9. /\ out \in Tables
        /\ ~out[q][w].valid
        /\ \A p \in Spaces : \A u \in Pages : p # q \/ u # w => out[p][u] = walked[p][u]
    <2> DEFINE gone == [VictimEntry EXCEPT !.valid = FALSE, !.physicalPage = k]
    <2>1. gone \in Entry /\ gone.valid = FALSE
      BY <1>8 DEF Entry
    <2>2. out = [walked EXCEPT ![q][w] = gone]
      BY <1>4 DEF TablesWithoutVictim
    <2> HIDE DEF gone, walked, out
    <2> QED
      BY <1>7, <2>1, <2>2 DEF Tables
  <1>10. \A i \in mine : <<running, tlb[i].virtualPage>> = <<q, w>> /\ i = Lowest(mine)
    <2>1. ASSUME NEW i \in mine
          PROVE  running = q /\ tlb[i].virtualPage = w
      <3>1. tlb[i].virtualPage \in Pages
        BY <1>1 DEF TLBs, TLBEntry
      <3>2. /\ pageTable[running][tlb[i].virtualPage].valid
            /\ pageTable[running][tlb[i].virtualPage].physicalPage = f
        BY DEF PagingInv, TLBCoherent
      <3>3. IPT[f] = <<running, tlb[i].virtualPage>>
        BY <1>1, <1>2, <3>1, <3>2 DEF PagingInv, FramesExact
      <3> QED
        BY <1>4, <3>3 DEF VictimPage
    <2>2. mine # {} => Lowest(mine) \in mine
      BY LowestIn, SizesAreNatural
    <2>3. \A i, j \in mine : i = j
      BY <2>1 DEF PagingInv, TLBCoherent
    <2> QED
      BY <2>1, <2>2, <2>3
  <1>11. /\ tb \in TLBs
         /\ \A i \in Slots : /\ tb[i].virtualPage = tlb[i].virtualPage
                             /\ tb[i].physicalPage = tlb[i].physicalPage
                             /\ tb[i].dirty = tlb[i].dirty
                             /\ tb[i].valid => tlb[i].valid /\ i \notin mine
    <2>1. tb = [i \in Slots |-> [tlb[i] EXCEPT !.valid = @ /\ (mine = {} \/ i # Lowest(mine))]]
      BY <1>8 DEF TLBWithoutVictim
    <2>2. \A i \in Slots : tlb[i] \in TLBEntry
      BY <1>1 DEF TLBs
    <2>3. \A i \in mine : ~(mine = {} \/ i # Lowest(mine))
      BY <1>10
    <2> HIDE DEF mine, tb
    <2>4. ASSUME NEW i \in Slots
          PROVE  /\ tb[i] \in TLBEntry
                 /\ tb[i].virtualPage = tlb[i].virtualPage
                 /\ tb[i].physicalPage = tlb[i].physicalPage
                 /\ tb[i].dirty = tlb[i].dirty
                 /\ tb[i].valid = (tlb[i].valid /\ (mine = {} \/ i # Lowest(mine)))
      <3>1. tb[i] = [tlb[i] EXCEPT !.valid = tlb[i].valid /\ (mine = {} \/ i # Lowest(mine))]
        BY <2>1
      <3> QED
        BY <2>2, <3>1 DEF TLBEntry
    <2>5. tb \in TLBs
      BY <2>1, <2>4 DEF TLBs
    <2> QED
      BY <2>3, <2>4, <2>5
  <1>12. ASSUME NEW i \in Slots, tb[i].valid
         PROVE  /\ tb[i].virtualPage \in Pages /\ tb[i].virtualPage # v
                /\ out[running][tb[i].virtualPage].valid
                /\ out[running][tb[i].virtualPage].physicalPage = tb[i].physicalPage
                /\ out[running][tb[i].virtualPage].dirty => tb[i].dirty
    <2> DEFINE u == tlb[i].virtualPage
    <2>1. tlb[i].valid /\ tlb[i].physicalPage # f /\ u \in Pages
      <3>1. tlb[i].valid /\ i \notin mine
        BY <1>11, <1>12
      <3>2. u \in Pages
        BY <1>1 DEF TLBs, TLBEntry
      <3> QED
        BY <3>1, <3>2
    <2>2. /\ pageTable[running][u].valid
          /\ pageTable[running][u].physicalPage = tlb[i].physicalPage
          /\ pageTable[running][u].dirty => tlb[i].dirty
      BY <2>1 DEF PagingInv, TLBCoherent
    <2>3. running # q \/ u # w
      BY <1>5, <2>1, <2>2
    <2>4. out[running][u] = walked[running][u]
      BY <1>1, <1>9, <2>1, <2>3
    <2>5. u # v
      BY <2>1 DEF MustEvict, Fault, Hit
    <2>6. /\ tb[i].virtualPage = u /\ tb[i].physicalPage = tlb[i].physicalPage
          /\ tb[i].dirty = tlb[i].dirty
      BY <1>11
    <2>7. /\ walked[running][u].valid = pageTable[running][u].valid
          /\ walked[running][u].physicalPage = pageTable[running][u].physicalPage
          /\ walked[running][u].dirty = pageTable[running][u].dirty
      BY <1>1, <1>6, <2>1
    <2> HIDE DEF walked, out, tb
    <2> QED
      BY <2>1, <2>2, <2>4, <2>5, <2>6, <2>7
  <1>13. \A i, j \in Slots :
           tb[i].valid /\ tb[j].valid /\ tb[i].virtualPage = tb[j].virtualPage => i = j
    <2>1. \A i, j \in Slots :
            tlb[i].valid /\ tlb[j].valid /\ tlb[i].virtualPage = tlb[j].virtualPage => i = j
      BY DEF PagingInv, TLBCoherent
    <2>2. \A i \in Slots : /\ tb[i].virtualPage = tlb[i].virtualPage
                           /\ tb[i].valid => tlb[i].valid
      BY <1>11
    <2> HIDE DEF tb
    <2> QED
      BY <2>1, <2>2
  <1>14. Coherent(out, tb)
    BY <1>12, <1>13 DEF Coherent
  <1>15. ~out[running][v].valid
    <2>1. ~pageTable[running][v].valid
      BY DEF MustEvict
    <2>2. running # q \/ v # w
      BY <1>5, <2>1
    <2> QED
      BY <1>1, <1>6, <1>9, <2>1, <2>2
  <1>16. ASSUME NEW p \in Spaces, NEW u \in Pages
         PROVE  /\ out[p][u].valid => out[p][u].physicalPage \in Frames \ {f}
                /\ \A g \in Frames \ {f} :
                     IPT[g] = <<p, u>> <=> out[p][u].valid /\ out[p][u].physicalPage = g
    <2>1. CASE p = q /\ u = w
      <3>1. IPT[f] = <<p, u>>
        BY <2>1, <1>4 DEF VictimPage
      <3>2. \A g \in Frames \ {f} : IPT[g] # <<p, u>>
        BY <2>1, <1>5 DEF PagingInv, FramesExact
      <3> QED
        BY <2>1, <3>2, <1>9
    <2>2. CASE p # q \/ u # w
      <3>1. /\ out[p][u].valid = pageTable[p][u].valid
            /\ out[p][u].physicalPage = pageTable[p][u].physicalPage
        BY <2>2, <1>6, <1>9
      <3>2. IPT[f] # <<p, u>>
        BY <2>2, <1>4 DEF VictimPage
      <3>3. /\ pageTable[p][u].valid => pageTable[p][u].physicalPage \in Frames
            /\ \A g \in Frames :
                 IPT[g] = <<p, u>> <=> pageTable[p][u].valid /\ pageTable[p][u].physicalPage = g
        BY DEF PagingInv, FramesExact
      <3> HIDE DEF out, f
      <3> QED
        BY <3>1, <3>2, <3>3, <1>2
    <2> QED
      BY <2>1, <2>2
  <1>17. \A g \in Frames : g \in MemBitMap <=> IPT[g] # NULL
    BY DEF PagingInv, FramesExact
  <1> HIDE DEF out, tb, f, walked, mine
  <1>18. Misses(v, tb)
    BY <1>12 DEF Misses
  <1>19. FreeIn(f, out)
    BY <1>16, <1>17 DEF FreeIn
  <1> QED
    BY <1>2, <1>8, <1>9, <1>11, <1>14, <1>15, <1>18, <1>19 DEF out, tb, f

-----------------------------------------------------------------------------
(* What load puts into a frame is data: readFromSwap is called with slots  *)
(* of the swap file only.                                                  *)
LEMMA ContentsAreData ==
  ASSUME TypeOK, NEW v \in Pages, ~BadSlot(v), NEW d \in Data
  PROVE  Contents(v, d) \in Data
  <1>1. CASE InSwap(v)
    BY <1>1 DEF Contents, BadSlot, TypeOK
  <1>2. CASE ~InSwap(v) /\ v < noInitData
    <2>1. v \in 0..noInitData-1
      BY <1>2, SizesAreNatural, VMAssumption DEF Pages
    <2>2. Image[running][v] \in Data
      BY <2>1, VMAssumption DEF TypeOK
    <2> QED
      BY <1>2, <2>2 DEF Contents
  <1>3. CASE ~InSwap(v) /\ ~(v < noInitData)
    BY <1>3 DEF Contents
  <1> QED
    BY <1>1, <1>2, <1>3

(* A new array of SaveState or RestoreState maps nothing.                  *)
LEMMA NewTLBIsEmpty ==
  ASSUME NEW t, NewTLB(t)
  PROVE  t \in TLBs /\ \A i \in Slots : ~t[i].valid
  <1>1. PICK junk \in [Slots -> Stale] :
          t = [i \in Slots |-> [virtualPage |-> junk[i].virtualPage, physicalPage |-> -1,
                                valid |-> FALSE, use |-> junk[i].use, dirty |-> junk[i].dirty]]
    BY DEF NewTLB
  <1>2. \A i \in Slots : junk[i] \in [virtualPage : Pages, use : BOOLEAN, dirty : BOOLEAN]
    BY VMAssumption
  <1> QED
    BY <1>1, <1>2 DEF TLBs, TLBEntry

(* A step that moves no page keeps frames and tables in agreement.         *)
LEMMA SamePlacesKeepFrames ==
  ASSUME FramesExact, SamePlaces(pageTable, pageTable'), IPT' = IPT, MemBitMap' = MemBitMap
  PROVE  FramesExact'
  <1>1. \A f \in Frames : f \in MemBitMap' <=> IPT'[f] # NULL
    BY DEF FramesExact
  <1>2. ASSUME NEW p \in Spaces, NEW v \in Pages
        PROVE  /\ \A f \in Frames : IPT'[f] = <<p, v>> <=>
                    pageTable'[p][v].valid /\ pageTable'[p][v].physicalPage = f
               /\ pageTable'[p][v].valid => pageTable'[p][v].physicalPage \in Frames
    <2>1. /\ \A f \in Frames : IPT[f] = <<p, v>> <=>
               pageTable[p][v].valid /\ pageTable[p][v].physicalPage = f
          /\ pageTable[p][v].valid => pageTable[p][v].physicalPage \in Frames
      BY DEF FramesExact
    <2>2. /\ pageTable'[p][v].valid = pageTable[p][v].valid
          /\ pageTable'[p][v].physicalPage = pageTable[p][v].physicalPage
      BY DEF SamePlaces
    <2> QED
      BY <2>1, <2>2
  <1> QED
    BY <1>1, <1>2 DEF FramesExact

(* So does, for the TLB, a step that changes none of the state it is about.*)
LEMMA UnchangedKeeps ==
  ASSUME FramesExact, TLBCoherent, UNCHANGED <<running, pageTable, tlb, IPT, MemBitMap>>
  PROVE  FramesExact' /\ TLBCoherent'
  <1>1. FramesExact'
    BY SamePlacesKeepFrames DEF SamePlaces
  <1>2. TLBCoherent'
    BY DEF TLBCoherent
  <1> QED
    BY <1>1, <1>2

(* Init: nothing is in memory.                                             *)
LEMMA InitPaging ==
  ASSUME Init PROVE PagingInv
  <1>1. tlb \in TLBs /\ \A i \in Slots : ~tlb[i].valid
    BY NewTLBIsEmpty DEF Init
  <1>2. \A p \in Spaces : \A v \in Pages : ~pageTable[p][v].valid
    BY DEF Init
  <1>3. TypeOK
    <2>1. pageTable \in [Spaces -> [Pages -> Entry]]
      BY DEF Init, Entry
    <2> QED
      BY <1>1, <2>1, SizesAreNatural, VMAssumption DEF Init, TypeOK, TLBs
  <1>4. FramesExact
    <2>1. \A f \in Frames : f \notin MemBitMap /\ IPT[f] = NULL
      BY DEF Init
    <2>2. \A p \in Spaces : \A v \in Pages : <<p, v>> # NULL
      BY VMAssumption
    <2> QED
      BY <1>2, <2>1, <2>2 DEF FramesExact
  <1>5. TLBCoherent
    BY <1>1 DEF TLBCoherent
  <1> QED
    BY <1>3, <1>4, <1>5 DEF PagingInv

(* ReadMem and WriteMem (translate.cc): a hit leads to a frame, and only   *)
(* the bits of the slot change, dirty from clear to set.                   *)
LEMMA AccessKeeps ==
  ASSUME PagingInv, NEW v \in Pages, Hit(v) # {}, NEW b \in BOOLEAN,
         tlb' = [tlb EXCEPT ![Lowest(Hit(v))] =
                   [tlb[Lowest(Hit(v))] EXCEPT !.use = TRUE,
                      !.dirty = tlb[Lowest(Hit(v))].dirty \/ b]],
         UNCHANGED <<running, pageTable, IPT, MemBitMap>>
  PROVE  /\ tlb[Lowest(Hit(v))].physicalPage \in Frames
         /\ tlb' \in TLBs /\ FramesExact' /\ TLBCoherent'
  <1> DEFINE n == Lowest(Hit(v))
  <1>1. n \in Slots /\ tlb[n].valid
    <2>1. n \in Hit(v)
      BY LowestIn, SizesAreNatural DEF Hit
    <2> QED
      BY <2>1 DEF Hit
  <1>2. tlb \in TLBs /\ running \in Spaces
    BY DEF PagingInv, TypeOK, TLBs
  <1>3. tlb[n] \in TLBEntry /\ tlb[n].virtualPage \in Pages
    BY <1>1, <1>2 DEF TLBs, TLBEntry
  <1>4. tlb[n].physicalPage \in Frames
    <2>1. /\ pageTable[running][tlb[n].virtualPage].valid
          /\ pageTable[running][tlb[n].virtualPage].physicalPage = tlb[n].physicalPage
      BY <1>1 DEF PagingInv, TLBCoherent
    <2> QED
      BY <1>2, <1>3, <2>1 DEF PagingInv, FramesExact
  <1> DEFINE e == [tlb[n] EXCEPT !.use = TRUE, !.dirty = tlb[n].dirty \/ b]
  <1>5. /\ e \in TLBEntry
        /\ e.virtualPage = tlb[n].virtualPage /\ e.physicalPage = tlb[n].physicalPage
        /\ e.valid = tlb[n].valid
        /\ tlb[n].dirty => e.dirty
    BY <1>3 DEF TLBEntry
  <1>6. tlb' = [tlb EXCEPT ![n] = e]
    OBVIOUS
  <1> HIDE DEF n, e
  <1>7. tlb' \in TLBs
    BY <1>1, <1>2, <1>5, <1>6 DEF TLBs
  <1>8. FramesExact'
    BY SamePlacesKeepFrames DEF PagingInv, SamePlaces
  <1>9. \A i \in Slots : /\ tlb'[i].virtualPage = tlb[i].virtualPage
                         /\ tlb'[i].physicalPage = tlb[i].physicalPage
                         /\ tlb'[i].valid = tlb[i].valid
                         /\ tlb[i].dirty => tlb'[i].dirty
    BY <1>1, <1>2, <1>5, <1>6 DEF TLBs
  <1>10. TLBCoherent'
    <2>1. ASSUME NEW i \in Slots, tlb'[i].valid
          PROVE  /\ pageTable'[running'][tlb'[i].virtualPage].valid
                 /\ pageTable'[running'][tlb'[i].virtualPage].physicalPage = tlb'[i].physicalPage
                 /\ pageTable'[running'][tlb'[i].virtualPage].dirty => tlb'[i].dirty
      <3>1. /\ pageTable[running][tlb[i].virtualPage].valid
            /\ pageTable[running][tlb[i].virtualPage].physicalPage = tlb[i].physicalPage
            /\ pageTable[running][tlb[i].virtualPage].dirty => tlb[i].dirty
        BY <1>9, <2>1 DEF PagingInv, TLBCoherent
      <3> QED
        BY <1>9, <3>1
    <2>2. \A i, j \in Slots :
            tlb'[i].valid /\ tlb'[j].valid /\ tlb'[i].virtualPage = tlb'[j].virtualPage => i = j
      BY <1>9 DEF PagingInv, TLBCoherent
    <2> QED
      BY <2>1, <2>2 DEF TLBCoherent
  <1> QED
    BY <1>4, <1>7, <1>8, <1>10 DEF n

(* SaveState and RestoreState (addrspace.cc:229-262): use and dirty bits   *)
(* move, pages do not.                                                     *)
LEMMA SwitchKeeps ==
  ASSUME PagingInv, NEW p \in Spaces, SwitchSpace(p)
  PROVE  PagingInv'
  <1> DEFINE mine(u) == {i \in Slots : tlb[i].virtualPage = u}
             entry(u) == [pageTable[running][u] EXCEPT !.use = tlb[Highest(mine(u))].use,
                                                       !.dirty = tlb[Highest(mine(u))].dirty]
             row == [u \in Pages |-> IF mine(u) = {} THEN pageTable[running][u] ELSE entry(u)]
  <1>1. /\ pageTable \in Tables /\ tlb \in TLBs /\ running \in Spaces
    BY DEF PagingInv, TypeOK, Tables, TLBs
  <1>2. \A u \in Pages : pageTable[running][u] \in Entry
    BY <1>1 DEF Tables
  <1>3. ASSUME NEW u \in Pages, mine(u) # {}
        PROVE  /\ entry(u) \in Entry
               /\ entry(u).valid = pageTable[running][u].valid
               /\ entry(u).physicalPage = pageTable[running][u].physicalPage
    <2>1. Highest(mine(u)) \in Slots
      BY <1>3, HighestIn, SizesAreNatural DEF Slots
    <2>2. tlb[Highest(mine(u))] \in TLBEntry
      BY <1>1, <2>1 DEF TLBs
    <2>3. tlb[Highest(mine(u))].use \in BOOLEAN /\ tlb[Highest(mine(u))].dirty \in BOOLEAN
      BY <2>2 DEF TLBEntry
    <2> HIDE DEF mine
    <2> QED
      BY <1>2, <2>3 DEF Entry
  <1>4. pageTable' = [pageTable EXCEPT ![running] = row]
    BY DEF SwitchSpace
  <1> HIDE DEF mine, entry
  <1>5. row \in [Pages -> Entry]
    BY <1>2, <1>3
  <1>6. \A u \in Pages : /\ row[u].valid = pageTable[running][u].valid
                         /\ row[u].physicalPage = pageTable[running][u].physicalPage
    BY <1>3
  <1> HIDE DEF row
  <1>7. pageTable' \in Tables
    BY <1>1, <1>4, <1>5 DEF Tables
  <1>8. SamePlaces(pageTable, pageTable')
    <2>1. pageTable'[running] = row /\ \A q \in Spaces : q # running => pageTable'[q] = pageTable[q]
      BY <1>1, <1>4 DEF Tables
    <2> QED
      BY <1>6, <2>1 DEF SamePlaces
  <1>9. tlb' \in TLBs /\ \A i \in Slots : ~tlb'[i].valid
    BY NewTLBIsEmpty DEF SwitchSpace
  <1>10. TypeOK'
    <2>1. /\ pageTable' \in [Spaces -> [Pages -> Entry]] /\ tlb' \in [Slots -> TLBEntry]
          /\ running' \in Spaces /\ indexTLBSndChc' \in Slots
      BY <1>7, <1>9, SizesAreNatural DEF SwitchSpace, Tables, TLBs
    <2>2. UNCHANGED <<IPT, MemBitMap, SWAPBitMap, mainMemory, swapFile, indexSWAPSndChc,
                      reg, failed>>
      BY DEF SwitchSpace
    <2> QED
      BY <2>1, <2>2 DEF PagingInv, TypeOK
  <1>11. FramesExact'
    <2>1. IPT' = IPT /\ MemBitMap' = MemBitMap
      BY DEF SwitchSpace
    <2> QED
      BY <1>8, <2>1, SamePlacesKeepFrames DEF PagingInv
  <1>12. TLBCoherent'
    BY <1>9 DEF TLBCoherent
  <1> QED
    BY <1>10, <1>11, <1>12 DEF PagingInv

(* Every step keeps the invariant: one case per action.                    *)
LEMMA NextKeepsPaging ==
  ASSUME PagingInv, [Next]_vars
  PROVE  PagingInv'
  <1>1. /\ TypeOK /\ FramesExact /\ TLBCoherent
        /\ pageTable \in Tables /\ tlb \in TLBs /\ running \in Spaces
        /\ Coherent(pageTable, tlb)
    BY DEF PagingInv, TypeOK, Tables, TLBs, TLBCoherent, Coherent
  <1>2. CASE UNCHANGED vars
    <2>1. UNCHANGED <<running, pageTable, tlb, IPT, MemBitMap, SWAPBitMap, mainMemory,
                      swapFile, indexTLBSndChc, indexSWAPSndChc, reg, failed>>
      BY <1>2 DEF vars
    <2>2. TypeOK'
      BY <1>1, <2>1 DEF TypeOK
    <2>3. FramesExact' /\ TLBCoherent'
      BY <1>1, <2>1, UnchangedKeeps
    <2> QED
      BY <2>2, <2>3 DEF PagingInv
  <1>3. ASSUME NEW v \in Pages, ReadMem(v) PROVE PagingInv'
    <2> DEFINE n == Lowest(Hit(v))
    <2>1. n \in Slots
      BY <1>3, LowestIn, SizesAreNatural DEF ReadMem, Hit
    <2>2. tlb' = [tlb EXCEPT ![n] = [tlb[n] EXCEPT !.use = TRUE, !.dirty = tlb[n].dirty \/ FALSE]]
      <3>1. tlb[n] \in TLBEntry
        BY <1>1, <2>1 DEF TLBs
      <3>2. [tlb[n] EXCEPT !.use = TRUE] =
              [tlb[n] EXCEPT !.use = TRUE, !.dirty = tlb[n].dirty \/ FALSE]
        BY <3>1 DEF TLBEntry
      <3>3. tlb' = [tlb EXCEPT ![n] = [tlb[n] EXCEPT !.use = TRUE]]
        BY <1>3 DEF ReadMem
      <3> QED
        BY <3>2, <3>3
    <2>3. /\ tlb[n].physicalPage \in Frames
          /\ tlb' \in TLBs /\ FramesExact' /\ TLBCoherent'
      BY <1>3, <2>2, AccessKeeps DEF ReadMem
    <2>4. /\ reg' = mainMemory[tlb[n].physicalPage]
          /\ UNCHANGED <<running, pageTable, IPT, MemBitMap, SWAPBitMap, mainMemory, swapFile,
                         indexTLBSndChc, indexSWAPSndChc, failed>>
      BY <1>3 DEF ReadMem
    <2> HIDE DEF n
    <2>5. TypeOK'
      BY <1>1, <2>3, <2>4 DEF TypeOK, TLBs
    <2> QED
      BY <2>3, <2>5 DEF PagingInv
  <1>4. ASSUME NEW v \in Pages, NEW d \in Data, WriteMem(v, d) PROVE PagingInv'
    <2> DEFINE n == Lowest(Hit(v))
    <2>1. n \in Slots
      BY <1>4, LowestIn, SizesAreNatural DEF WriteMem, Hit
    <2>2. tlb' = [tlb EXCEPT ![n] = [tlb[n] EXCEPT !.use = TRUE, !.dirty = tlb[n].dirty \/ TRUE]]
      <3>1. tlb[n] \in TLBEntry
        BY <1>1, <2>1 DEF TLBs
      <3>2. tlb' = [[tlb EXCEPT ![n] = [tlb[n] EXCEPT !.use = TRUE]]
                     EXCEPT ![n] = [[tlb EXCEPT ![n] = [tlb[n] EXCEPT !.use = TRUE]][n]
                                      EXCEPT !.dirty = TRUE]]
        BY <1>4 DEF WriteMem
      <3> DEFINE used == [tlb[n] EXCEPT !.use = TRUE]
                 mid == [tlb EXCEPT ![n] = used]
      <3>3. mid[n] = used
        BY <1>1, <2>1 DEF TLBs
      <3>4. tlb' = [tlb EXCEPT ![n] = [used EXCEPT !.dirty = TRUE]]
        <4>1. tlb' = [mid EXCEPT ![n] = [used EXCEPT !.dirty = TRUE]]
          BY <3>2, <3>3
        <4> HIDE DEF used, n
        <4> QED
          BY <1>1, <2>1, <4>1 DEF TLBs
      <3>5. [used EXCEPT !.dirty = TRUE] =
              [tlb[n] EXCEPT !.use = TRUE, !.dirty = tlb[n].dirty \/ TRUE]
        BY <3>1 DEF TLBEntry
      <3> QED
        BY <3>4, <3>5
    <2>3. /\ tlb[n].physicalPage \in Frames
          /\ tlb' \in TLBs /\ FramesExact' /\ TLBCoherent'
      BY <1>4, <2>2, AccessKeeps DEF WriteMem
    <2>4. /\ mainMemory' = [mainMemory EXCEPT ![tlb[n].physicalPage] = d]
          /\ UNCHANGED <<running, pageTable, IPT, MemBitMap, SWAPBitMap, swapFile,
                         indexTLBSndChc, indexSWAPSndChc, reg, failed>>
      BY <1>4 DEF WriteMem
    <2> HIDE DEF n
    <2>5. TypeOK'
      BY <1>1, <2>3, <2>4 DEF TypeOK, TLBs
    <2> QED
      BY <2>3, <2>5 DEF PagingInv
  <1>5. ASSUME NEW v \in Pages, Fault(v)
        PROVE  Misses(v, tlb)
    BY <1>5 DEF Fault, Hit, Misses
  <1>6. ASSUME NEW v \in Pages, LoadResident(v) PROVE PagingInv'
    <2>1. /\ pageTable' \in Tables /\ tlb' \in TLBs /\ indexTLBSndChc' \in Slots
          /\ SamePlaces(pageTable, pageTable')
          /\ TLBCoherent'
      <3>1. /\ EnterTLB(v, pageTable, tlb) /\ pageTable[running][v].valid /\ running' = running
            /\ Misses(v, tlb)
        BY <1>5, <1>6 DEF LoadResident
      <3>2. indexTLBSndChc \in Slots
        BY <1>1 DEF TypeOK
      <3> QED
        BY <1>1, <3>1, <3>2, EnterTLBKeeps
    <2>2. UNCHANGED <<running, IPT, MemBitMap, SWAPBitMap, mainMemory, swapFile,
                      indexSWAPSndChc, reg, failed>>
      BY <1>6 DEF LoadResident
    <2>3. TypeOK'
      BY <1>1, <2>1, <2>2 DEF TypeOK, Tables, TLBs
    <2>4. FramesExact'
      BY <1>1, <2>1, <2>2, SamePlacesKeepFrames
    <2> QED
      BY <2>1, <2>3, <2>4 DEF PagingInv
  <1>7. ASSUME NEW v \in Pages, LoadFree(v) PROVE PagingInv'
    <2> DEFINE f == Lowest(Frames \ MemBitMap)
    <2>1. f \in Frames /\ f \notin MemBitMap
      <3>1. Frames \ MemBitMap # {}
        BY <1>1, <1>7 DEF LoadFree, TypeOK
      <3> QED
        BY <3>1, LowestIn, SizesAreNatural
    <2>2. /\ MemBitMap' = MemBitMap \cup {f}
          /\ mainMemory' = [mainMemory EXCEPT ![f] = Contents(v, mainMemory[f])]
          /\ Install(v, f, pageTable, tlb)
          /\ SWAPBitMap' = SWAPBitMap \ SlotsFreed(v)
          /\ UNCHANGED <<running, swapFile, indexSWAPSndChc, reg, failed>>
          /\ Fault(v) /\ ~pageTable[running][v].valid /\ ~BadSlot(v)
      BY <1>7 DEF LoadFree
    <2> HIDE DEF f
    <2>3. Misses(v, tlb)
      BY <1>5, <2>2
    <2>4. \A p \in Spaces : \A u \in Pages : IPT[f] # <<p, u>>
      <3>1. IPT[f] = NULL
        BY <1>1, <2>1 DEF FramesExact
      <3>2. \A p \in Spaces : \A u \in Pages : <<p, u>> # NULL
        BY VMAssumption
      <3> QED
        BY <3>1, <3>2
    <2>5. FreeIn(f, pageTable)
      <3>1. \A p \in Spaces : \A u \in Pages :
              pageTable[p][u].valid => pageTable[p][u].physicalPage \in Frames \ {f}
        BY <1>1, <2>1, <2>4 DEF FramesExact
      <3>2. \A g \in Frames \ {f} :
              /\ g \in MemBitMap <=> IPT[g] # NULL
              /\ \A p \in Spaces : \A u \in Pages :
                   IPT[g] = <<p, u>> <=> pageTable[p][u].valid /\ pageTable[p][u].physicalPage = g
        BY <1>1 DEF FramesExact
      <3> QED
        BY <3>1, <3>2 DEF FreeIn
    <2>6. /\ pageTable' \in Tables /\ tlb' \in TLBs /\ indexTLBSndChc' \in Slots
          /\ IPT' \in [Frames -> (Spaces \X Pages) \cup {NULL}]
          /\ FramesExact' /\ TLBCoherent'
      BY <1>1, <2>1, <2>2, <2>3, <2>5, InstallKeeps
    <2>7. mainMemory' \in [Frames -> Data]
      <3>1. mainMemory[f] \in Data /\ Contents(v, mainMemory[f]) \in Data
        BY <1>1, <2>1, <2>2, ContentsAreData DEF TypeOK
      <3> QED
        BY <1>1, <2>2, <3>1 DEF TypeOK
    <2>8. TypeOK'
      BY <1>1, <2>1, <2>2, <2>6, <2>7 DEF TypeOK, Tables, TLBs
    <2> QED
      BY <2>6, <2>8 DEF PagingInv
  <1>8. ASSUME NEW v \in Pages, NEW k \in {-1} \cup SwapSlots, NEW d \in Data, MustEvict(v),
               Install(v, VictimFrame, TablesWithoutVictim(k), TLBWithoutVictim),
               mainMemory' = [mainMemory EXCEPT ![VictimFrame] = Contents(v, d)],
               indexSWAPSndChc' = NewHand(UseBits, indexSWAPSndChc, NumPhysPages),
               SWAPBitMap' \subseteq SwapSlots, swapFile' \in [SwapSlots -> Data],
               UNCHANGED <<running, MemBitMap, reg, failed>>
        PROVE  PagingInv'
    <2> DEFINE f == VictimFrame
               out == TablesWithoutVictim(k)
               tb == TLBWithoutVictim
    <2>1. /\ f \in Frames /\ indexSWAPSndChc' \in Frames
          /\ out \in Tables /\ tb \in TLBs
          /\ ~out[running][v].valid
          /\ Coherent(out, tb)
          /\ Misses(v, tb) /\ FreeIn(f, out)
      BY <1>8, EvictFrees
    <2>2. MemBitMap' = MemBitMap \cup {f} /\ running' = running /\ Install(v, f, out, tb)
      BY <1>8, <2>1 DEF MustEvict
    <2> HIDE DEF out, tb
    <2>3. /\ pageTable' \in Tables /\ tlb' \in TLBs /\ indexTLBSndChc' \in Slots
          /\ IPT' \in [Frames -> (Spaces \X Pages) \cup {NULL}]
          /\ FramesExact' /\ TLBCoherent'
      BY <1>1, <2>1, <2>2, InstallKeeps
    <2>4. mainMemory' \in [Frames -> Data]
      <3>1. Contents(v, d) \in Data
        BY <1>1, <1>8, ContentsAreData DEF MustEvict
      <3> QED
        BY <1>1, <1>8, <3>1 DEF TypeOK
    <2>5. TypeOK'
      BY <1>1, <1>8, <2>1, <2>3, <2>4 DEF TypeOK, Tables, TLBs
    <2> QED
      BY <2>3, <2>5 DEF PagingInv
  <1>9. ASSUME NEW v \in Pages, LoadOverClean(v) PROVE PagingInv'
    <2>1. /\ MustEvict(v)
          /\ Install(v, VictimEntry.physicalPage, TablesWithoutVictim(-1), TLBWithoutVictim)
          /\ mainMemory' = [mainMemory EXCEPT ![VictimEntry.physicalPage] = Contents(v, Zero)]
          /\ SWAPBitMap' = SWAPBitMap \ SlotsFreed(v)
          /\ indexSWAPSndChc' = NewHand(UseBits, indexSWAPSndChc, NumPhysPages)
          /\ UNCHANGED <<running, MemBitMap, swapFile, reg, failed>>
      BY <1>9 DEF LoadOverClean
    <2>2. VictimEntry.physicalPage = VictimFrame
      BY <2>1, EvictFrees
    <2>3. SWAPBitMap' \subseteq SwapSlots /\ swapFile' \in [SwapSlots -> Data] /\ Zero \in Data
      BY <1>1, <2>1, VMAssumption DEF TypeOK
    <2> QED
      BY <1>8, <2>1, <2>2, <2>3
  <1>10. ASSUME NEW v \in Pages, LoadOverDirty(v) PROVE PagingInv'
    <2> DEFINE k == Lowest(SwapSlots \ SWAPBitMap)
    <2>1. /\ MustEvict(v) /\ SWAPBitMap # SwapSlots
          /\ swapFile' = [swapFile EXCEPT ![k] = mainMemory[VictimEntry.physicalPage]]
          /\ SWAPBitMap' = (SWAPBitMap \cup {k}) \ SlotsFreed(v)
          /\ mainMemory' = [mainMemory EXCEPT ![VictimFrame] = Contents(v, mainMemory[VictimFrame])]
          /\ Install(v, VictimFrame, TablesWithoutVictim(k), TLBWithoutVictim)
          /\ indexSWAPSndChc' = NewHand(UseBits, indexSWAPSndChc, NumPhysPages)
          /\ UNCHANGED <<running, MemBitMap, reg, failed>>
      BY <1>10 DEF LoadOverDirty
    <2>2. k \in SwapSlots
      <3>1. SwapSlots \ SWAPBitMap # {}
        BY <1>1, <2>1 DEF TypeOK
      <3> QED
        BY <3>1, LowestIn, SizesAreNatural
    <2> HIDE DEF k
    <2>3. VictimEntry.physicalPage = VictimFrame /\ VictimFrame \in Frames
      BY <2>1, EvictFrees
    <2>4. mainMemory[VictimFrame] \in Data
      BY <1>1, <2>3 DEF TypeOK
    <2>5. SWAPBitMap' \subseteq SwapSlots /\ swapFile' \in [SwapSlots -> Data]
      BY <1>1, <2>1, <2>2, <2>3, <2>4 DEF TypeOK
    <2> QED
      BY <1>8, <2>1, <2>2, <2>4, <2>5
  <1>11. ASSUME NEW v \in Pages, SwapExhausted(v) \/ LoadBadSlot(v) PROVE PagingInv'
    <2>1. /\ failed' \in BOOLEAN
          /\ UNCHANGED <<running, pageTable, tlb, IPT, MemBitMap, SWAPBitMap, mainMemory,
                         swapFile, indexTLBSndChc, indexSWAPSndChc, reg>>
      BY <1>11 DEF SwapExhausted, LoadBadSlot
    <2>2. TypeOK'
      BY <1>1, <2>1 DEF TypeOK
    <2>3. FramesExact' /\ TLBCoherent'
      BY <1>1, <2>1, UnchangedKeeps
    <2> QED
      BY <2>2, <2>3 DEF PagingInv
  <1>12. ASSUME NEW p \in Spaces, SwitchSpace(p) PROVE PagingInv'
    BY <1>12, SwitchKeeps
  <1>13. CASE Failed
    BY <1>2, <1>13 DEF Failed
  <1> QED
    BY <1>2, <1>3, <1>4, <1>6, <1>7, <1>9, <1>10, <1>11, <1>12, <1>13 DEF Next

-----------------------------------------------------------------------------
(* Frames, frame bit map, inverted table and page tables always agree, and *)
(* the TLB holds current translations of the running program and forgets   *)
(* no dirty bit (addrspace.cc, translate.cc), for any sizes and whatever   *)
(* new TLB arrays hold.                                                    *)
THEOREM PagingIsConsistent == Spec => [](TypeOK /\ FramesExact /\ TLBCoherent)
  <1>1. Init => PagingInv
    BY InitPaging
  <1>2. PagingInv /\ [Next]_vars => PagingInv'
    BY NextKeepsPaging
  <1> QED
    BY <1>1, <1>2, PTL DEF Spec, PagingInv
=============================================================================
