------------------------------ MODULE MailTest ------------------------------
(***************************************************************************)
(* MailTest (network/nettest.cc) run by the main threads of two machines   *)
(* at once: each sends a message to box 0 of the other, waits for the      *)
(* other's message, acknowledges it to the box it names, waits for the     *)
(* acknowledgement of its own message, and halts.                          *)
(***************************************************************************)
EXTENDS PostOffice

VARIABLE stage  \* the call of MailTest a thread is at, or in

mailVars == <<vars, stage>>

MailInit == Init /\ stage = [t \in Threads |-> "hello"]

At(t, from, to) == stage[t] = from /\ stage' = [stage EXCEPT ![t] = to]

Running(m) == \E t \in Threads : MachineOf[t] = m /\ stage[t] # "halted"

FarAddr(m) == CHOOSE far \in Machines : far # m

(* The message received last from a box.                                   *)
LastFrom(m, box) == received[m][box][Len(received[m][box])]

SendHello(t) == At(t, "hello", "wait_hello") /\ Send(t, FarAddr(MachineOf[t]), 0, 1)

WaitHello(t) == At(t, "wait_hello", "ack") /\ Receive(t, 0)

(* Mutant: the acknowledgement goes to the box of the first message.       *)
SendAckToZero(t) ==
  LET in == LastFrom(MachineOf[t], 0)
  IN  At(t, "ack", "wait_ack") /\ Send(t, in.from, 0, 1)

SendAck(t) ==
  LET in == LastFrom(MachineOf[t], 0)
  IN  At(t, "ack", "wait_ack") /\ Send(t, in.from, in.replyTo, 1)

(* The acknowledgement arrives and interrupt->Halt is called: Cleanup      *)
(* closes the socket.                                                      *)
WaitAck(t) == At(t, "wait_ack", "halted") /\ Receive(t, 1)

MailStep(t) == SendHello(t) \/ WaitHello(t) \/ SendAck(t) \/ WaitAck(t)

Sending(t) == SendStep(t) /\ UNCHANGED stage

(* The devices and the post office of a machine run until it halts.        *)
DeviceDone(m) == Running(m) /\ SendDone(m) /\ UNCHANGED stage
DevicePolls(m) == Running(m) /\ CheckPktAvail(m) /\ UNCHANGED stage
WorkerRuns(m) ==
  /\ Running(m)
  /\ WorkerWait(m) \/ WorkerReceive(m) \/ WorkerPut(m)
  /\ UNCHANGED stage

MailNext ==
  \/ \E t \in Threads : MailStep(t) \/ Sending(t)
  \/ \E m \in Machines : DeviceDone(m) \/ DevicePolls(m) \/ WorkerRuns(m)

MailSpec == MailInit /\ [][MailNext]_mailVars

-----------------------------------------------------------------------------
(* A machine that halts has had the message and the acknowledgement of the *)
(* other (nettest.cc:54, 66), also when the network loses packets.         *)
HaltsAfterBoth ==
  \A t \in Threads :
    stage[t] = "halted" =>
      \A b \in {0, 1} :
        \E p \in {received[MachineOf[t]][b][i] : i \in 1 .. Len(received[MachineOf[t]][b])} :
          p.from # MachineOf[t] /\ p.number = b + 1

(* SendToSocket aborts when the destination's socket is gone               *)
(* (sysdep.cc:350): nothing is sent to a machine that has halted.          *)
NoSendToHalted ==
  \A t \in Threads : pc[t] \in {"acquire", "send"} => Running(mail[t].to)

(* With a network that loses nothing both machines get through.            *)
BothHalt == \A t \in Threads : <>(stage[t] = "halted")
=============================================================================
