----------------------------- MODULE AtomicDisk -----------------------------
(***************************************************************************)
(* What the synchronous disk promises: a call reads or writes a sector in  *)
(* one step between its beginning and its return.                          *)
(***************************************************************************)
CONSTANTS Threads, Sectors, Data

VARIABLES
  sectors,  \* contents
  call      \* of each thread: phase "none", "begun" or "done", and arguments

vars == <<sectors, call>>

Idle == [phase |-> "none"]

Call(phase, s, d, writing) == [phase |-> phase, sector |-> s, data |-> d, writing |-> writing]

Init ==
  /\ sectors \in [Sectors -> Data]
  /\ call = [t \in Threads |-> Idle]

Begin(t, s, d, writing) ==
  /\ call[t] = Idle
  /\ call' = [call EXCEPT ![t] = Call("begun", s, d, writing)]
  /\ UNCHANGED sectors

Transfer(t) ==
  /\ call[t].phase = "begun"
  /\ IF call[t].writing
     THEN /\ sectors' = [sectors EXCEPT ![call[t].sector] = call[t].data]
          /\ call' = [call EXCEPT ![t].phase = "done"]
     ELSE /\ call' = [call EXCEPT ![t].phase = "done", ![t].data = sectors[call[t].sector]]
          /\ UNCHANGED sectors

Return(t) ==
  /\ call[t].phase = "done"
  /\ call' = [call EXCEPT ![t] = Idle]
  /\ UNCHANGED sectors

Next ==
  \E t \in Threads :
    \/ Transfer(t) \/ Return(t)
    \/ \E s \in Sectors, d \in Data, writing \in BOOLEAN : Begin(t, s, d, writing)

Spec == Init /\ [][Next]_vars
=============================================================================
