------------------------------ MODULE SynchList ------------------------------
(***************************************************************************)
(* SynchList (threads/synchlist.h): a list protected by a lock, with the   *)
(* condition listEmpty on which Remove waits.  The lock and the condition  *)
(* are used through their contract, MesaMonitor, which Monitors shows that *)
(* threads/synch.cc implements.                                            *)
(***************************************************************************)
EXTENDS MesaMonitor, FiniteSets

CONSTANTS
  listEmpty,   \* the condition
  Items,       \* what may be put in the list
  Appliers,    \* the threads that may call Apply
  MaxLen,      \* bound on the items in the list and about to be put there
  NULL         \* what List::Remove returns for an empty list

SynchListAssumption == Conds = {listEmpty} /\ NULL \notin Items

VARIABLES
  list,   \* SynchList::list
  pc,     \* what each thread does next
  item    \* the argument of its Append, or the result of its Remove

vars == <<monitorVars, list, pc, item>>

\* "idle": not in a call.  "append": in Append, holding the lock.  "test",
\* "wait", "take": in Remove, at the loop's test, in Wait, after the loop.
\* "unlock", "return": at the Release of Append or Apply, and of Remove.
Location == {"idle", "append", "test", "wait", "take", "unlock", "return"}

Init ==
  /\ MonitorInit
  /\ list = <<>>
  /\ pc = [t \in Threads |-> "idle"]
  /\ item = [t \in Threads |-> NULL]

Goto(t, from, to) == pc[t] = from /\ pc' = [pc EXCEPT ![t] = to]

Pending == Len(list) + Cardinality({ t \in Threads : pc[t] = "append" })

(* SynchList::Append: the lock; then list->Append and the Signal, of which *)
(* no other thread sees the middle; then Release (Unlock).                 *)
AppendLock(t, x) ==
  /\ Pending < MaxLen
  /\ Goto(t, "idle", "append")
  /\ Acquire(t)
  /\ item' = [item EXCEPT ![t] = x]
  /\ UNCHANGED list

(* Mutant: the condition is signalled only when the list was empty.        *)
AppendItemSignalOnce(t) ==
  /\ Goto(t, "append", "unlock")
  /\ list' = Append(list, item[t])
  /\ item' = [item EXCEPT ![t] = NULL]
  /\ IF list = <<>> THEN Signal(t, listEmpty) ELSE UNCHANGED monitorVars

(* Mutant: the item is put in front.                                       *)
AppendItemPrepend(t) ==
  /\ Goto(t, "append", "unlock")
  /\ list' = <<item[t]>> \o list
  /\ item' = [item EXCEPT ![t] = NULL]
  /\ Signal(t, listEmpty)

AppendItem(t) ==
  /\ Goto(t, "append", "unlock")
  /\ list' = Append(list, item[t])
  /\ item' = [item EXCEPT ![t] = NULL]
  /\ Signal(t, listEmpty)

Unlock(t) ==
  /\ Goto(t, "unlock", "idle")
  /\ Release(t)
  /\ UNCHANGED <<list, item>>

(* SynchList::Remove.                                                      *)
RemoveLock(t) ==
  /\ Goto(t, "idle", "test")
  /\ Acquire(t)
  /\ UNCHANGED <<list, item>>

RemoveWait(t) ==
  /\ list = <<>>
  /\ Goto(t, "test", "wait")
  /\ Wait(t, listEmpty)
  /\ UNCHANGED <<list, item>>

(* Mutant: "if" for "while" around Wait.                                   *)
RemoveWakeIf(t) ==
  /\ Goto(t, "wait", "take")
  /\ Regain(t)
  /\ UNCHANGED <<list, item>>

RemoveWake(t) ==
  /\ Goto(t, "wait", "test")
  /\ Regain(t)
  /\ UNCHANGED <<list, item>>

RemoveTest(t) ==
  /\ list # <<>>
  /\ Goto(t, "test", "take")
  /\ UNCHANGED <<monitorVars, list, item>>

RemoveItem(t) ==
  /\ Goto(t, "take", "return")
  /\ IF list = <<>>
     THEN UNCHANGED <<list, item>>
     ELSE /\ item' = [item EXCEPT ![t] = Head(list)]
          /\ list' = Tail(list)
  /\ UNCHANGED monitorVars

RemoveReturn(t) ==
  /\ Goto(t, "return", "idle")
  /\ Release(t)
  /\ item' = [item EXCEPT ![t] = NULL]
  /\ UNCHANGED list

(* SynchList::Apply: the function is called on every item with the lock    *)
(* held; the list is only read.                                            *)
Apply(t) ==
  /\ t \in Appliers
  /\ Goto(t, "idle", "unlock")
  /\ Acquire(t)
  /\ UNCHANGED <<list, item>>

(* What a thread inside a call does next.                                  *)
Continue(t) ==
  \/ AppendItem(t) \/ Unlock(t)
  \/ RemoveWait(t) \/ RemoveWake(t) \/ RemoveTest(t) \/ RemoveItem(t) \/ RemoveReturn(t)

Next ==
  \E t \in Threads :
    \/ \E x \in Items : AppendLock(t, x)
    \/ RemoveLock(t) \/ Apply(t) \/ Continue(t)

Spec == Init /\ [][Next]_vars

-----------------------------------------------------------------------------
(* Types; and the lock is held by the thread that runs code of the list    *)
(* (synchlist.h:80-111).                                                   *)
TypeOK ==
  /\ list \in Seq(Items)
  /\ pc \in [Threads -> Location]
  /\ item \in [Threads -> Items \cup {NULL}]
  /\ \A t \in Threads : holder = t <=> pc[t] \notin {"idle", "wait"}

(* A Remove never returns without an item, although others may empty the   *)
(* list between the Signal and the return from Wait (synchlist.h:103).     *)
RemoveFindsItem == \A t \in Threads : pc[t] = "return" => item[t] # NULL

(* While threads wait, there are as many threads woken, or already past    *)
(* Wait, as there are items: no item lies in the list with its remover     *)
(* asleep (synchlist.h:86).                                                *)
NoStrandedItem ==
  waiting[listEmpty] # <<>> =>
    Len(list) <= Cardinality(woken)
                   + Cardinality({ t \in Threads : pc[t] \in {"test", "take"} })

Inside(t) == pc[t] \in {"test", "wait", "take"}

(* An item in the list is handed out if anybody wants one.                 *)
SomeWanted == list # <<>> /\ \E t \in Threads : Inside(t)
SomeReturns == \E t \in Threads : pc[t] = "return"

ItemsAreTaken == SomeWanted ~> SomeReturns

Fifo == INSTANCE FifoList
  WITH Users <- Threads, Elements <- Items, None <- NULL, items <- list,
       result <- [t \in Threads |-> IF pc[t] = "return" THEN item[t] ELSE NULL]

(* The list hands out every item once, in order.                           *)
ImplementsFifo == Fifo!ListSpec
=============================================================================
