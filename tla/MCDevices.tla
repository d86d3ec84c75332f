------------------------------ MODULE MCDevices -----------------------------
(***************************************************************************)
(* Interrupts, the console, the network and the post office, and the test  *)
(* programs ConsoleTest and MailTest on them.  The components are explored *)
(* side by side in one run; the variable part says which of them, in which *)
(* instance, a behaviour is about.                                         *)
(***************************************************************************)
EXTENDS Integers, SequencesExt

CONSTANT NoPacket

VARIABLES
  part,   \* the component a behaviour is about
  pending, level, yieldOnReturn, pc, halted, keyboard, text, incoming,
  putBusy, readAvail, writeDone, display, ch, socket, sendBusy,
  sendsPending, inbox, messageAvailable, messageSent, sendLock, worker,
  boxes, mail, numSent, received, stage

vars == <<part,
          pending, level, yieldOnReturn, pc, halted, keyboard, text,
          incoming, putBusy, readAvail, writeDone, display, ch, socket,
          sendBusy, sendsPending, inbox, messageAvailable, messageSent,
          sendLock, worker, boxes, mail, numSent, received, stage>>

\* The timer with random slices and two devices; the times of stats.h scaled down.
RandomSlices == INSTANCE Interrupts WITH
  SystemTick <- 3, UserTick <- 1, TimerTicks <- 5, Randomize <- TRUE,
  Polled <- {}, OneShot <- {"Disk", "ConsoleWrite"}, DeviceTime <- 6

\* Fixed time slices and a keyboard that polls.
Polling == INSTANCE Interrupts WITH
  SystemTick <- 3, UserTick <- 1, TimerTicks <- 5, Randomize <- FALSE,
  Polled <- {"ConsoleRead"}, OneShot <- {"Disk", "ConsoleWrite"},
  DeviceTime <- 4

\* ConsoleTest on texts of up to five letters a and q.
Echo == INSTANCE ConsoleEcho WITH
  Typed <- SeqOf({97, 113}, 5), Quit <- 113

\* Two senders and a receiver, over a network that loses packets.
Post == INSTANCE PostOffice WITH
  Machines <- {1, 2}, Threads <- 1..3, MachineOf <- <<1, 1, 2>>,
  Boxes <- {0, 1}, MaxMessages <- 2, Lossy <- TRUE, Nobody <- 0

\* The same over a network that loses nothing.
ReliablePost == INSTANCE PostOffice WITH
  Machines <- {1, 2}, Threads <- 1..3, MachineOf <- <<1, 1, 2>>,
  Boxes <- {0, 1}, MaxMessages <- 2, Lossy <- FALSE, Nobody <- 0

\* MailTest on two machines, over a network that loses packets.
Mail == INSTANCE MailTest WITH
  Machines <- {1, 2}, Threads <- 1..2, MachineOf <- <<1, 2>>,
  Boxes <- {0, 1}, MaxMessages <- 2, Lossy <- TRUE, Nobody <- 0

\* The same over a network that loses nothing.
ReliableMail == INSTANCE MailTest WITH
  Machines <- {1, 2}, Threads <- 1..2, MachineOf <- <<1, 2>>,
  Boxes <- {0, 1}, MaxMessages <- 2, Lossy <- FALSE, Nobody <- 0

ASSUME
  /\ RandomSlices!InterruptsAssumption /\ Polling!InterruptsAssumption
  /\ Echo!ConsoleAssumption
  /\ Post!PostOfficeAssumption /\ ReliablePost!PostOfficeAssumption
  /\ Mail!PostOfficeAssumption /\ ReliableMail!PostOfficeAssumption

-----------------------------------------------------------------------------
(* A component that is not the one of the behaviour has no state.          *)
Init ==
  \/ /\ \/ part = "random slices" /\ RandomSlices!Init
        \/ part = "polling" /\ Polling!Init
     /\ keyboard = 0 /\ text = 0 /\ incoming = 0 /\ putBusy = 0
     /\ readAvail = 0 /\ writeDone = 0 /\ display = 0 /\ ch = 0
     /\ socket = 0 /\ sendBusy = 0 /\ sendsPending = 0 /\ inbox = 0
     /\ messageAvailable = 0 /\ messageSent = 0 /\ sendLock = 0
     /\ worker = 0 /\ boxes = 0 /\ mail = 0 /\ numSent = 0 /\ received = 0
     /\ stage = 0
  \/ /\ part = "console" /\ Echo!Init
     /\ pending = 0 /\ level = 0 /\ yieldOnReturn = 0 /\ halted = 0
     /\ socket = 0 /\ sendBusy = 0 /\ sendsPending = 0 /\ inbox = 0
     /\ messageAvailable = 0 /\ messageSent = 0 /\ sendLock = 0
     /\ worker = 0 /\ boxes = 0 /\ mail = 0 /\ numSent = 0 /\ received = 0
     /\ stage = 0
  \/ /\ \/ part = "post" /\ Post!Init
        \/ part = "reliable post" /\ ReliablePost!Init
     /\ pending = 0 /\ level = 0 /\ yieldOnReturn = 0 /\ halted = 0
     /\ keyboard = 0 /\ text = 0 /\ incoming = 0 /\ putBusy = 0
     /\ readAvail = 0 /\ writeDone = 0 /\ display = 0 /\ ch = 0 /\ stage = 0
  \/ /\ \/ part = "mail" /\ Mail!MailInit
        \/ part = "reliable mail" /\ ReliableMail!MailInit
     /\ pending = 0 /\ level = 0 /\ yieldOnReturn = 0 /\ halted = 0
     /\ keyboard = 0 /\ text = 0 /\ incoming = 0 /\ putBusy = 0
     /\ readAvail = 0 /\ writeDone = 0 /\ display = 0 /\ ch = 0

(* Thread 3 receives what threads 1 and 2 of the other machine send.       *)
PostNext ==
  \/ \E m \in {1, 2} : Post!MachineStep(m)
  \/ \E t \in {1, 2} : Post!SendStep(t) \/ \E box \in {0, 1} : Post!Send(t, 2, box, box)
  \/ \E box \in {0, 1} : Post!Receive(3, box)

ReliablePostNext ==
  \/ \E m \in {1, 2} : ReliablePost!MachineStep(m)
  \/ \E t \in {1, 2} :
       ReliablePost!SendStep(t) \/ \E box \in {0, 1} : ReliablePost!Send(t, 2, box, box)
  \/ \E box \in {0, 1} : ReliablePost!Receive(3, box)

(* The machine halts, the text is echoed, all messages are received, or a  *)
(* thread waits for a packet that was lost.                                *)
Stopped == part # "polling" /\ UNCHANGED vars

Next ==
  \/ /\ \/ part = "random slices" /\ RandomSlices!Next
        \/ part = "polling" /\ Polling!Next
     /\ UNCHANGED <<part,
                    keyboard, text, incoming, putBusy, readAvail, writeDone,
                    display, ch, socket, sendBusy, sendsPending, inbox,
                    messageAvailable, messageSent, sendLock, worker, boxes,
                    mail, numSent, received, stage>>
  \/ /\ part = "console" /\ Echo!Next
     /\ UNCHANGED <<part,
                    pending, level, yieldOnReturn, halted, socket, sendBusy,
                    sendsPending, inbox, messageAvailable, messageSent,
                    sendLock, worker, boxes, mail, numSent, received, stage>>
  \/ /\ \/ part = "post" /\ PostNext
        \/ part = "reliable post" /\ ReliablePostNext
     /\ UNCHANGED <<part,
                    pending, level, yieldOnReturn, halted, keyboard, text,
                    incoming, putBusy, readAvail, writeDone, display, ch,
                    stage>>
  \/ /\ \/ part = "mail" /\ Mail!MailNext
        \/ part = "reliable mail" /\ ReliableMail!MailNext
     /\ UNCHANGED <<part,
                    pending, level, yieldOnReturn, halted, keyboard, text,
                    incoming, putBusy, readAvail, writeDone, display, ch>>
  \/ Stopped

Spec ==
  /\ Init /\ [][Next]_vars
  /\ WF_(Echo!vars)(part = "console" /\ Echo!CheckCharAvail)
  /\ WF_(Echo!vars)(part = "console" /\ Echo!Next)
  /\ \A t \in {1, 2} :
       /\ WF_(ReliableMail!mailVars)(part = "reliable mail" /\ ReliableMail!MailStep(t))
       /\ WF_(ReliableMail!mailVars)(part = "reliable mail" /\ ReliableMail!Sending(t))
  /\ \A m \in {1, 2} :
       /\ WF_(ReliableMail!mailVars)(part = "reliable mail" /\ ReliableMail!DeviceDone(m))
       /\ WF_(ReliableMail!mailVars)(part = "reliable mail" /\ ReliableMail!DevicePolls(m))
       /\ WF_(ReliableMail!mailVars)(part = "reliable mail" /\ ReliableMail!WorkerRuns(m))

-----------------------------------------------------------------------------
(* When thread code runs, pending interrupts are in the order of their     *)
(* times, none is overdue but a timer's that Idle left behind, and no      *)
(* context switch is owed from an earlier tick; the machine stops by       *)
(* itself only when no device has work left (interrupt.cc:142-330).        *)
InterruptsSound ==
  /\ part = "random slices" => RandomSlices!InterruptsSound
  /\ part = "polling" => Polling!InterruptsSound

(* No handler runs before its time, and an idle machine's clock does not   *)
(* jump over an interrupt (interrupt.cc:287-330).                          *)
OnTime ==
  [][/\ part = "random slices" => RandomSlices!StepOnTime
     /\ part = "polling" => Polling!StepOnTime]_vars

(* Everything typed, up to the first q, is echoed: the echo loses,         *)
(* repeats and reorders nothing, and no interrupt of the console is waited *)
(* for in vain (console.cc:94-151, progtest.cc:60-84).                     *)
EchoesUpToQuit ==
  /\ [](part = "console" => Echo!NothingLost /\ Echo!DeviceFree)
  /\ (part = "console") ~> (part = "console" /\ Echo!Echoed)

(* Messages of one thread arrive in their box in order, at most once, and  *)
(* exactly once when the network loses none; one send at a time is with    *)
(* the network, and the one packet buffer is never read empty nor polled   *)
(* over (network.h:46, network.cc:63, post.cc:229, 280).  A machine that   *)
(* halts has had the message and the acknowledgement of the other, and     *)
(* nothing is sent to one that has halted, for which SendToSocket would    *)
(* abort (nettest.cc:54, 66, sysdep.cc:350).                               *)
MailSound ==
  /\ part = "mail" => Mail!PostSound /\ Mail!HaltsAfterBoth /\ Mail!NoSendToHalted
  /\ part = "post" => Post!PostSound
  /\ part = "reliable post" => ReliablePost!PostSound /\ ReliablePost!NothingLost

(* With a network that loses nothing both machines get through MailTest.   *)
BothHalt ==
  \A t \in {1, 2} : (part = "reliable mail") ~> (part = "reliable mail" /\ stage[t] = "halted")
=============================================================================
