---------------------------- MODULE ConsoleEcho -----------------------------
(***************************************************************************)
(* The console device (machine/console.cc) and the program that tests it   *)
(* (ConsoleTest in userprog/progtest.cc), which echoes what is typed until *)
(* it reads a q.  The keyboard is polled by an interrupt that schedules    *)
(* itself again; a character put on the display is followed by an          *)
(* interrupt.  The two semaphores are abstract (CountingSemaphore): P      *)
(* takes a unit when there is one.                                         *)
(***************************************************************************)
EXTENDS Integers, Sequences

CONSTANTS
  Typed,  \* the texts that may be typed, sequences of bytes
  Quit    \* the byte 'q'

(* The device keeps characters as char and compares them with EOF: as a    *)
(* signed char, byte 255 is EOF.                                           *)
EOF == -1
AsChar(b) == IF b >= 128 THEN b - 256 ELSE b

ConsoleAssumption == \A text \in Typed : text \in Seq(0..255)

VARIABLES
  keyboard,             \* what is typed and not read yet
  text,                 \* all that is typed
  incoming, putBusy,    \* Console::incoming, putBusy
  readAvail, writeDone, \* the semaphores
  display,              \* what has been written
  pc, ch                \* ConsoleTest: "read", "get", "put", "wait", "done"

vars == <<keyboard, text, incoming, putBusy, readAvail, writeDone, display, pc, ch>>

Init ==
  /\ text \in Typed
  /\ keyboard = text
  /\ incoming = EOF /\ putBusy = FALSE
  /\ readAvail = 0 /\ writeDone = 0
  /\ display = <<>>
  /\ pc = "read" /\ ch = EOF

(* The poll: when nothing is typed, or the buffer is full, it only         *)
(* schedules the next one.                                                 *)
CheckCharAvail ==
  /\ incoming = EOF /\ keyboard # <<>>
  /\ incoming' = AsChar(Head(keyboard))
  /\ keyboard' = Tail(keyboard)
  /\ readAvail' = readAvail + 1
  /\ UNCHANGED <<text, putBusy, writeDone, display, pc, ch>>

(* Mutant: the kernel is not told that the character is out.               *)
WriteDoneSilent ==
  /\ putBusy
  /\ putBusy' = FALSE
  /\ UNCHANGED <<keyboard, text, incoming, readAvail, writeDone, display, pc, ch>>

WriteDone ==
  /\ putBusy
  /\ putBusy' = FALSE
  /\ writeDone' = writeDone + 1
  /\ UNCHANGED <<keyboard, text, incoming, readAvail, display, pc, ch>>

ReadP ==
  /\ pc = "read" /\ readAvail > 0
  /\ readAvail' = readAvail - 1
  /\ pc' = "get"
  /\ UNCHANGED <<keyboard, text, incoming, putBusy, writeDone, display, ch>>

GetChar ==
  /\ pc = "get"
  /\ ch' = incoming
  /\ incoming' = EOF
  /\ pc' = "put"
  /\ UNCHANGED <<keyboard, text, putBusy, readAvail, writeDone, display>>

(* PutChar; its assertion is the invariant DeviceFree.                     *)
PutChar ==
  /\ pc = "put"
  /\ display' = Append(display, ch)
  /\ putBusy' = TRUE
  /\ pc' = "wait"
  /\ UNCHANGED <<keyboard, text, incoming, readAvail, writeDone, ch>>

WriteP ==
  /\ pc = "wait" /\ writeDone > 0
  /\ writeDone' = writeDone - 1
  /\ pc' = IF ch = Quit THEN "done" ELSE "read"
  /\ ch' = EOF
  /\ UNCHANGED <<keyboard, text, incoming, putBusy, readAvail, display>>

Next == CheckCharAvail \/ WriteDone \/ ReadP \/ GetChar \/ PutChar \/ WriteP

(* Polls and interrupts keep coming, and the only thread gets the CPU.     *)
Spec == Init /\ [][Next]_vars /\ WF_vars(CheckCharAvail) /\ WF_vars(Next)

-----------------------------------------------------------------------------
Chars(s) == [i \in DOMAIN s |-> AsChar(s[i])]

(* What is on the display, on its way through the program, in the device's *)
(* buffer and still to be read is what was typed: the echo loses,          *)
(* repeats and reorders nothing.                                           *)
NothingLost ==
  display \o (IF pc = "put" THEN <<ch>> ELSE <<>>)
          \o (IF readAvail + (IF pc = "get" THEN 1 ELSE 0) > 0 THEN <<incoming>> ELSE <<>>)
          \o Chars(keyboard)
    = Chars(text)

(* A character is put only when the device is free (console.cc:146), and   *)
(* each semaphore holds at most the one unit of the one operation.         *)
DeviceFree ==
  /\ pc = "put" => ~putBusy
  /\ readAvail + writeDone <= 2 /\ readAvail <= 1
  /\ (pc = "wait") <=> (putBusy \/ writeDone > 0)

(* Everything typed, up to the first q, is echoed.                         *)
Echoed == pc = "done" \/ (Len(display) = Len(text) /\ pc = "read")

EchoesUpToQuit == <>Echoed
=============================================================================
