----------------------------- MODULE LinkedList -----------------------------
(***************************************************************************)
(* The singly linked list of threads/list.h, with its nodes and pointers.  *)
(* The kernel calls the operations with interrupts disabled, or on lists   *)
(* guarded by a lock, so they do not overlap; the loop of SortedInsert and *)
(* that of the destructor take one step per iteration.                     *)
(***************************************************************************)
EXTENDS Integers, Sequences

CONSTANTS
  Nodes,   \* memory for list elements
  Items, Keys,
  Sorted,  \* BOOLEAN: only the Sorted operations are used, as by interrupt.cc
  NULL

LinkedListAssumption == Keys \subseteq Int /\ Sorted \in BOOLEAN /\ NULL \notin Nodes

VARIABLES
  first, last,
  next, key, item,  \* the fields of the list elements
  used,             \* the elements allocated
  pc,               \* "idle", "insert" (in the loop), "delete" (destructor)
  ptr, element      \* local variables of SortedInsert

vars == <<first, last, next, key, item, used, pc, ptr, element>>
fields == <<next, key, item>>

Init ==
  /\ first = NULL /\ last = NULL
  /\ next = [n \in Nodes |-> NULL]
  /\ key = [n \in Nodes |-> 0]
  /\ item = [n \in Nodes |-> NULL]
  /\ used = {}
  /\ pc = "idle" /\ ptr = NULL /\ element = NULL

(* new ListNode(x, k), whose next is NULL until it is assigned.            *)
NewNode(n, x, k) ==
  /\ n \notin used
  /\ used' = used \cup {n}
  /\ item' = [item EXCEPT ![n] = x]
  /\ key' = [key EXCEPT ![n] = k]

(* The contents of deleted memory are not looked at.                       *)
Delete(n) ==
  /\ used' = used \ {n}
  /\ item' = [item EXCEPT ![n] = NULL]
  /\ key' = [key EXCEPT ![n] = 0]
  /\ next' = [next EXCEPT ![n] = NULL]

IsEmpty == first = NULL

Append_(n, x) ==
  /\ pc = "idle" /\ ~Sorted
  /\ NewNode(n, x, 0)
  /\ next' = IF IsEmpty THEN next ELSE [next EXCEPT ![last] = n]
  /\ first' = IF IsEmpty THEN n ELSE first
  /\ last' = n
  /\ UNCHANGED <<pc, ptr, element>>

Prepend(n, x) ==
  /\ pc = "idle" /\ ~Sorted
  /\ NewNode(n, x, 0)
  /\ next' = [next EXCEPT ![n] = first]
  /\ first' = n
  /\ last' = IF IsEmpty THEN n ELSE last
  /\ UNCHANGED <<pc, ptr, element>>

(* SortedInsert up to its loop.                                            *)
SortedInsert(n, x, k) ==
  /\ pc = "idle"
  /\ NewNode(n, x, k)
  /\ IF IsEmpty \/ k < key[first]
     THEN /\ next' = [next EXCEPT ![n] = first]
          /\ first' = n
          /\ last' = IF IsEmpty THEN n ELSE last
          /\ UNCHANGED <<pc, ptr, element>>
     ELSE /\ pc' = "insert" /\ ptr' = first /\ element' = n
          /\ UNCHANGED <<first, last, next>>

Leave == pc' = "idle" /\ ptr' = NULL /\ element' = NULL

WalkOn ==
  /\ pc = "insert" /\ next[ptr] # NULL /\ ~(key[element] < key[next[ptr]])
  /\ ptr' = next[ptr]
  /\ UNCHANGED <<first, last, fields, used, pc, element>>

(* Mutant: equal keys also end the walk.                                   *)
InsertHereEqual ==
  /\ pc = "insert" /\ next[ptr] # NULL /\ key[element] <= key[next[ptr]]
  /\ next' = [next EXCEPT ![element] = next[ptr], ![ptr] = element]
  /\ Leave
  /\ UNCHANGED <<first, last, key, item, used>>

InsertHere ==
  /\ pc = "insert" /\ next[ptr] # NULL /\ key[element] < key[next[ptr]]
  /\ next' = [next EXCEPT ![element] = next[ptr], ![ptr] = element]
  /\ Leave
  /\ UNCHANGED <<first, last, key, item, used>>

InsertLast ==
  /\ pc = "insert" /\ next[ptr] = NULL
  /\ next' = [next EXCEPT ![last] = element]
  /\ last' = element
  /\ Leave
  /\ UNCHANGED <<first, key, item, used>>

(* SortedRemove, and Remove, which calls it; an empty list is left alone.  *)
SortedRemove ==
  /\ pc \in {"idle", "delete"} /\ ~IsEmpty
  /\ IF first = last
     THEN first' = NULL /\ last' = NULL
     ELSE first' = next[first] /\ UNCHANGED last
  /\ Delete(first)
  /\ UNCHANGED <<pc, ptr, element>>

(* ~List removes until nothing is left; the memory may then be a new list. *)
Destructor ==
  /\ pc = "idle"
  /\ pc' = "delete"
  /\ UNCHANGED <<first, last, fields, used, ptr, element>>

Destroyed ==
  /\ pc = "delete" /\ IsEmpty
  /\ pc' = "idle"
  /\ UNCHANGED <<first, last, fields, used, ptr, element>>

Next ==
  \/ \E n \in Nodes, x \in Items :
       Append_(n, x) \/ Prepend(n, x) \/ \E k \in Keys : SortedInsert(n, x, k)
  \/ WalkOn \/ InsertHere \/ InsertLast
  \/ SortedRemove \/ Destructor \/ Destroyed

Spec == Init /\ [][Next]_vars

-----------------------------------------------------------------------------
(* The elements from n on, in the order of Apply's loop.                   *)
RECURSIVE Walk(_, _)
Walk(n, seen) == IF n = NULL \/ n \in seen THEN <<>> ELSE <<n>> \o Walk(next[n], seen \cup {n})

Apply == Walk(first, {})

Linked == { Apply[i] : i \in DOMAIN Apply }

(* The structure: the elements reached from first are the allocated ones,  *)
(* but for the one being inserted, and last is the last of them.           *)
StructureExact ==
  /\ Linked = IF pc = "insert" THEN used \ {element} ELSE used
  /\ IF IsEmpty THEN last = NULL ELSE last = Apply[Len(Apply)] /\ next[last] = NULL
  /\ pc = "insert" => ptr \in Linked /\ element \in used

(* A list used only through the Sorted operations stays in increasing      *)
(* order of its keys (list.h:38-39).                                       *)
StaysSorted ==
  Sorted => \A i, j \in DOMAIN Apply : i < j => key[Apply[i]] <= key[Apply[j]]

(* The list implements the sequence: items leave in the order their        *)
(* insertion gave them, first come first served among equal keys.          *)
Order == [i \in DOMAIN Apply |-> [item |-> item[Apply[i]], key |-> key[Apply[i]]]]

Abstract == INSTANCE ItemSequence WITH items <- Order, Keys <- Keys \cup {0}

ImplementsSequence == Abstract!Spec
=============================================================================
