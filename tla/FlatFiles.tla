----------------------------- MODULE FlatFiles ------------------------------
(***************************************************************************)
(* What the file system promises (filesys/filesys.h): named files of fixed *)
(* size, each with contents of its own.  Creating, removing or writing one *)
(* leaves the others alone.                                                *)
(***************************************************************************)
EXTENDS Integers

CONSTANTS Names, Blocks, MaxBlocks, Absent

VARIABLE files  \* by name: the blocks of the file, or Absent

(* A new file holds whatever its sectors held.                             *)
Create(name) ==
  /\ files[name] = Absent
  /\ \E size \in 0 .. MaxBlocks : \E f \in [1 .. size -> Blocks] :
       files' = [files EXCEPT ![name] = f]

Remove(name) ==
  /\ files[name] # Absent
  /\ files' = [files EXCEPT ![name] = Absent]

Write(name) ==
  /\ files[name] # Absent
  /\ \E i \in DOMAIN files[name], b \in Blocks :
       files' = [files EXCEPT ![name][i] = b]

Init == files = [name \in Names |-> Absent]

Next == \E name \in Names : Create(name) \/ Remove(name) \/ Write(name)

Spec == Init /\ [][Next]_files
=============================================================================
