------------------------------ MODULE MCKernel ------------------------------
(* Small instances of Kernel: the initial values of the semaphores.        *)
EXTENDS Kernel, TLC

NoUnits == [s \in Sems |-> 0]

Symmetry == Permutations(Threads \ {Main}) \cup Permutations(Sems)
=============================================================================
