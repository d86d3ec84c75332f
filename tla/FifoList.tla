------------------------------ MODULE FifoList ------------------------------
(***************************************************************************)
(* What a SynchList promises (threads/synchlist.h:20-27): items leave in   *)
(* the order in which they were appended, each to one caller of Remove,    *)
(* and Remove waits while there are none.                                  *)
(***************************************************************************)
EXTENDS Sequences

CONSTANTS Users, Elements, None

VARIABLES
  items,    \* the items not yet handed out
  result    \* what a Remove has obtained and not yet returned

listVars == <<items, result>>

ListInit == items = <<>> /\ result = [u \in Users |-> None]

Put(x) == items' = Append(items, x) /\ UNCHANGED result

Get(u) ==
  /\ items # <<>>
  /\ result[u] = None
  /\ result' = [result EXCEPT ![u] = Head(items)]
  /\ items' = Tail(items)

Return(u) == result' = [result EXCEPT ![u] = None] /\ UNCHANGED items

ListNext ==
  \/ \E x \in Elements : Put(x)
  \/ \E u \in Users : Get(u) \/ Return(u)

ListSpec == ListInit /\ [][ListNext]_listVars
=============================================================================
