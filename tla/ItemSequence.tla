---------------------------- MODULE ItemSequence ----------------------------
(***************************************************************************)
(* What a list of the kernel promises: a sequence of items with keys, to   *)
(* which items are added at either end or in the order of their keys,      *)
(* behind those of the same key, and from which the first one is taken.    *)
(***************************************************************************)
EXTENDS Integers, Sequences, FiniteSetsExt

CONSTANTS Items, Keys

VARIABLE items

Entry(x, k) == [item |-> x, key |-> k]

(* The first place whose entry has a larger key, or the end.               *)
Place(k) == Min({ i \in DOMAIN items : items[i].key > k } \cup {Len(items) + 1})

Init == items = <<>>

AddLast(x) == items' = Append(items, Entry(x, 0))
AddFirst(x) == items' = <<Entry(x, 0)>> \o items
Insert(x, k) ==
  items' = SubSeq(items, 1, Place(k) - 1) \o <<Entry(x, k)>> \o SubSeq(items, Place(k), Len(items))
Take == items # <<>> /\ items' = Tail(items)

Next ==
  \/ Take
  \/ \E x \in Items : AddLast(x) \/ AddFirst(x) \/ \E k \in Keys : Insert(x, k)

Spec == Init /\ [][Next]_items
=============================================================================
