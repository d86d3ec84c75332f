-------------------------- MODULE MCVirtualMemory --------------------------
(* Small instances of VirtualMemory: the executables' pages, and what the  *)
(* memory of a new TLB array holds.                                        *)
EXTENDS VirtualMemory

Ones == [p \in Spaces |-> [v \in 0..noInitData-1 |-> 1]]

\* Memory the allocator has not handed out before is zero.
ZeroedHeap == {[virtualPage |-> 0, use |-> FALSE, dirty |-> FALSE]}

\* Memory that was used before can hold anything.
AnyHeap == [virtualPage : Pages, use : {FALSE}, dirty : BOOLEAN]
=============================================================================
