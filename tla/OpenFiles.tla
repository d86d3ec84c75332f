----------------------------- MODULE OpenFiles ------------------------------
(***************************************************************************)
(* What the file system calls promise a program: an identifier denotes the *)
(* file it was obtained for until it is closed, whatever other programs,   *)
(* and the other threads of the same program, open and close meanwhile.    *)
(***************************************************************************)
CONSTANTS Programs, Handles, Files, None

VARIABLE opened  \* the file each identifier of each program denotes, or None

Init == opened \in [Programs -> [Handles -> Files \cup {None}]]

Open(p, h, f) ==
  /\ opened[p][h] = None
  /\ opened' = [opened EXCEPT ![p][h] = f]

Close(p, h) == opened' = [opened EXCEPT ![p][h] = None]

Next == \E p \in Programs, h \in Handles :
          Close(p, h) \/ \E f \in Files : Open(p, h, f)

Spec == Init /\ [][Next]_opened
=============================================================================
