----------------------------- MODULE PostOffice -----------------------------
(***************************************************************************)
(* The network device (machine/network.cc) and the post office on it       *)
(* (network/post.cc), on several machines at once.                         *)
(*                                                                         *)
(* A packet sent goes to the destination's socket or is lost.  The device  *)
(* polls the socket into a buffer for one packet, and its handler wakes    *)
(* the postal worker, a thread that moves packets from the buffer to the   *)
(* mailboxes.  Mailboxes are SynchLists, with the contract of FifoList.    *)
(* The steps of one machine interleave as threads and handlers do; those   *)
(* of different machines in any way.                                       *)
(***************************************************************************)
EXTENDS Integers, Sequences

CONSTANTS
  Machines,
  Threads,
  MachineOf,    \* the machine a thread runs on
  Boxes,        \* mailbox numbers
  MaxMessages,  \* messages a thread sends
  Lossy,        \* whether reliability is below 1
  Nobody,       \* no thread
  NoPacket      \* inHdr.length = 0

PostOfficeAssumption ==
  /\ MachineOf \in [Threads -> Machines]
  /\ MaxMessages \in Nat
  /\ Lossy \in BOOLEAN

VARIABLES
  socket,            \* packets in the host's socket of a machine
  sendBusy,
  sendsPending,      \* NetworkSendDone interrupts scheduled
  inbox,             \* inHdr and inbox: the packet buffered
  messageAvailable,  \* semaphores
  messageSent,
  sendLock,          \* its holder
  worker,            \* where the postal worker is, and its packet
  boxes,             \* the mailboxes
  pc,                \* where a client thread is in PostOffice::Send
  mail,              \* the message it sends
  numSent,           \* messages it has sent
  received           \* by machine and box: messages taken out, in order

deviceVars == <<socket, sendBusy, sendsPending, inbox>>
officeVars == <<messageAvailable, messageSent, sendLock, worker, boxes>>
clientVars == <<pc, mail, numSent, received>>
vars == <<deviceVars, officeVars, clientVars>>

Init ==
  /\ socket = [m \in Machines |-> <<>>]
  /\ sendBusy = [m \in Machines |-> FALSE]
  /\ sendsPending = [m \in Machines |-> 0]
  /\ inbox = [m \in Machines |-> NoPacket]
  /\ messageAvailable = [m \in Machines |-> 0]
  /\ messageSent = [m \in Machines |-> 0]
  /\ sendLock = [m \in Machines |-> Nobody]
  /\ worker = [m \in Machines |-> [at |-> "P", packet |-> NoPacket]]
  /\ boxes = [m \in Machines |-> [b \in Boxes |-> <<>>]]
  /\ pc = [t \in Threads |-> "idle"]
  /\ mail = [t \in Threads |-> NoPacket]
  /\ numSent = [t \in Threads |-> 0]
  /\ received = [m \in Machines |-> [b \in Boxes |-> <<>>]]

Goto(t, from, to) == pc[t] = from /\ pc' = [pc EXCEPT ![t] = to]

-----------------------------------------------------------------------------
(* PostOffice::Send: a message to a box of a machine, with the box to      *)
(* reply to.                                                               *)
Send(t, to, box, replyTo) ==
  /\ Goto(t, "idle", "acquire")
  /\ numSent[t] < MaxMessages
  /\ numSent' = [numSent EXCEPT ![t] = @ + 1]
  /\ mail' = [mail EXCEPT ![t] =
                [sender |-> t, number |-> numSent'[t], from |-> MachineOf[t],
                 to |-> to, box |-> box, replyTo |-> replyTo]]
  /\ UNCHANGED <<deviceVars, officeVars, received>>

SendAcquire(t) ==
  /\ Goto(t, "acquire", "send")
  /\ sendLock[MachineOf[t]] = Nobody
  /\ sendLock' = [sendLock EXCEPT ![MachineOf[t]] = t]
  /\ UNCHANGED <<deviceVars, messageAvailable, messageSent, worker, boxes>>
  /\ UNCHANGED <<mail, numSent, received>>

(* Network::Send.  sendBusy is tested, and never set.                      *)
NetworkSend(t) ==
  LET m == MachineOf[t]
  IN  /\ Goto(t, "send", "P")
      /\ ~ sendBusy[m]
      /\ sendsPending' = [sendsPending EXCEPT ![m] = @ + 1]
      /\ \/ Lossy /\ UNCHANGED socket
         \/ socket' = [socket EXCEPT ![mail[t].to] = Append(@, mail[t])]
      /\ UNCHANGED <<sendBusy, inbox, officeVars, mail, numSent, received>>

(* Network::SendDone, with PostOffice::PacketSent.                         *)
SendDone(m) ==
  /\ sendsPending[m] > 0
  /\ sendsPending' = [sendsPending EXCEPT ![m] = @ - 1]
  /\ sendBusy' = [sendBusy EXCEPT ![m] = FALSE]
  /\ messageSent' = [messageSent EXCEPT ![m] = @ + 1]
  /\ UNCHANGED <<socket, inbox, messageAvailable, sendLock, worker, boxes, clientVars>>

SendWait(t) ==
  LET m == MachineOf[t]
  IN  /\ Goto(t, "P", "release")
      /\ messageSent[m] > 0
      /\ messageSent' = [messageSent EXCEPT ![m] = @ - 1]
      /\ UNCHANGED <<deviceVars, messageAvailable, sendLock, worker, boxes>>
      /\ UNCHANGED <<mail, numSent, received>>

SendRelease(t) ==
  /\ Goto(t, "release", "idle")
  /\ sendLock' = [sendLock EXCEPT ![MachineOf[t]] = Nobody]
  /\ mail' = [mail EXCEPT ![t] = NoPacket]
  /\ UNCHANGED <<deviceVars, messageAvailable, messageSent, worker, boxes>>
  /\ UNCHANGED <<numSent, received>>

-----------------------------------------------------------------------------
(* Mutant: a packet that is buffered does not stop the poll.               *)
CheckPktAvailAlways(m) ==
  /\ socket[m] # <<>>
  /\ inbox' = [inbox EXCEPT ![m] = Head(socket[m])]
  /\ socket' = [socket EXCEPT ![m] = Tail(@)]
  /\ messageAvailable' = [messageAvailable EXCEPT ![m] = @ + 1]
  /\ UNCHANGED <<sendBusy, sendsPending, messageSent, sendLock, worker, boxes>>
  /\ UNCHANGED clientVars

(* Network::CheckPktAvail, with PostOffice::IncomingPacket: the poll that  *)
(* finds a packet and room for it.                                         *)
CheckPktAvail(m) ==
  /\ inbox[m] = NoPacket
  /\ socket[m] # <<>>
  /\ inbox' = [inbox EXCEPT ![m] = Head(socket[m])]
  /\ socket' = [socket EXCEPT ![m] = Tail(@)]
  /\ messageAvailable' = [messageAvailable EXCEPT ![m] = @ + 1]
  /\ UNCHANGED <<sendBusy, sendsPending, messageSent, sendLock, worker, boxes>>
  /\ UNCHANGED clientVars

(* PostOffice::PostalDelivery: messageAvailable->P.                        *)
WorkerWait(m) ==
  /\ worker[m].at = "P"
  /\ messageAvailable[m] > 0
  /\ messageAvailable' = [messageAvailable EXCEPT ![m] = @ - 1]
  /\ worker' = [worker EXCEPT ![m].at = "receive"]
  /\ UNCHANGED <<deviceVars, messageSent, sendLock, boxes, clientVars>>

(* Network::Receive, called by the worker.                                 *)
WorkerReceive(m) ==
  /\ worker[m].at = "receive"
  /\ worker' = [worker EXCEPT ![m] = [at |-> "put", packet |-> inbox[m]]]
  /\ inbox' = [inbox EXCEPT ![m] = NoPacket]
  /\ UNCHANGED <<socket, sendBusy, sendsPending, messageAvailable, messageSent>>
  /\ UNCHANGED <<sendLock, boxes, clientVars>>

(* MailBox::Put, after the worker's check of the mail header.              *)
WorkerPut(m) ==
  /\ worker[m].at = "put"
  /\ worker[m].packet # NoPacket
  /\ boxes' = [boxes EXCEPT ![m][worker[m].packet.box] = Append(@, worker[m].packet)]
  /\ worker' = [worker EXCEPT ![m] = [at |-> "P", packet |-> NoPacket]]
  /\ UNCHANGED <<deviceVars, messageAvailable, messageSent, sendLock, clientVars>>

(* PostOffice::Receive and MailBox::Get, when the box holds a message.     *)
Receive(t, box) ==
  LET m == MachineOf[t]
  IN  /\ pc[t] = "idle"
      /\ boxes[m][box] # <<>>
      /\ received' = [received EXCEPT ![m][box] = Append(@, Head(boxes[m][box]))]
      /\ boxes' = [boxes EXCEPT ![m][box] = Tail(@)]
      /\ UNCHANGED <<deviceVars, messageAvailable, messageSent, sendLock, worker>>
      /\ UNCHANGED <<pc, mail, numSent>>

-----------------------------------------------------------------------------
(* What a machine does without a new call of its clients.                  *)
MachineStep(m) ==
  \/ SendDone(m)
  \/ CheckPktAvail(m)
  \/ WorkerWait(m)
  \/ WorkerReceive(m)
  \/ WorkerPut(m)

SendStep(t) == SendAcquire(t) \/ NetworkSend(t) \/ SendWait(t) \/ SendRelease(t)

Next ==
  \/ \E m \in Machines : MachineStep(m)
  \/ \E t \in Threads :
       \/ SendStep(t)
       \/ \E box \in Boxes : Receive(t, box)
       \/ \E to \in Machines, box, replyTo \in Boxes : Send(t, to, box, replyTo)

Spec == Init /\ [][Next]_vars

-----------------------------------------------------------------------------
(* "only one message can be sent to the network at any one time"           *)
(* (post.cc:280): at most one interrupt is on its way or counted in        *)
(* messageSent, it belongs to the thread that holds sendLock, and so no    *)
(* Send returns on the interrupt of another.                               *)
OneSendAtATime ==
  \A m \in Machines :
    /\ sendsPending[m] + messageSent[m] =
         IF \E t \in Threads : MachineOf[t] = m /\ pc[t] = "P" THEN 1 ELSE 0
    /\ \A t \in Threads :
         MachineOf[t] = m => ((sendLock[m] = t) <=> pc[t] \in {"send", "P", "release"})

(* The handler's V and the worker's P match the packets that pass through  *)
(* the one buffer (network.cc:63, post.cc:229): the worker never reads an  *)
(* empty buffer, and no packet is polled over another.                     *)
BufferExact ==
  \A m \in Machines :
    /\ (inbox[m] # NoPacket) <=> (messageAvailable[m] = 1 \/ worker[m].at = "receive")
    /\ messageAvailable[m] \in 0 .. 1
    /\ (worker[m].packet # NoPacket) <=> (worker[m].at = "put")

(* The messages of sender t for box b on machine m, oldest first, wherever *)
(* they are by now.                                                        *)
OnTheWay(t, m, b) ==
  LET All == received[m][b] \o boxes[m][b]
               \o (IF worker[m].packet = NoPacket THEN <<>> ELSE <<worker[m].packet>>)
               \o (IF inbox[m] = NoPacket THEN <<>> ELSE <<inbox[m]>>)
               \o socket[m]
  IN  SelectSeq(All, LAMBDA p : p.sender = t /\ p.box = b)

(* "in order but unreliably" (network.h:46): messages of one thread arrive *)
(* in a box in the order they were sent, none twice, and in no other box.  *)
InOrderOnce ==
  \A t \in Threads, m \in Machines, b \in Boxes :
    LET way == OnTheWay(t, m, b)
    IN  /\ \A i \in 1 .. Len(way) - 1 : way[i].number < way[i + 1].number
        /\ \A i \in 1 .. Len(way) : way[i].to = m

PostSound == OneSendAtATime /\ BufferExact /\ InOrderOnce

(* With reliability 1 no message is lost: each one that the network took   *)
(* is on its way or received.                                              *)
NothingLost ==
  \A t \in Threads, n \in 1 .. MaxMessages :
    (n < numSent[t] \/ (n = numSent[t] /\ pc[t] \in {"P", "release", "idle"})) =>
      \E m \in Machines, b \in Boxes :
        \E i \in 1 .. Len(OnTheWay(t, m, b)) : OnTheWay(t, m, b)[i].number = n
=============================================================================
