----------------------------- MODULE Interrupts -----------------------------
(***************************************************************************)
(* Simulated time and the delivery of device interrupts                    *)
(* (machine/interrupt.cc, machine/timer.cc).  Only differences of times    *)
(* matter: an entry of the list pending holds how far its time is from     *)
(* now, and what the code does by advancing totalTicks is done by          *)
(* subtracting from every entry.  A handler runs to its end inside         *)
(* CheckIfDue.  What threads do is left open: they execute instructions,   *)
(* disable and enable interrupts, start device requests and block.         *)
(***************************************************************************)
EXTENDS Integers, Sequences, SequencesExt

CONSTANTS
  SystemTick, UserTick,  \* advance of the clock; 10 and 1 in machine/stats.h
  TimerTicks,            \* time between timer interrupts; 100
  Randomize,             \* BOOLEAN: option -rs
  Polled,                \* devices whose handler schedules the next interrupt
                         \* (console keyboard, network input)
  OneShot,               \* devices interrupting once per request
                         \* (disk, console display, network output)
  DeviceTime             \* their delay

InterruptsAssumption ==
  /\ {SystemTick, UserTick, TimerTicks, DeviceTime} \subseteq Nat \ {0}
  /\ "Timer" \notin Polled \cup OneShot
  /\ Randomize \in BOOLEAN

VARIABLES
  pending,        \* Interrupt::pending, sorted by time
  level,          \* IntOn, IntOff
  yieldOnReturn,
  pc,             \* "run": thread code; "tick": the loop of OneTick;
                  \* "idle", "idleMore": the two calls in Idle
  halted

vars == <<pending, level, yieldOnReturn, pc, halted>>

TimeOfNextInterrupt == IF Randomize THEN 1..(2 * TimerTicks) ELSE {TimerTicks}

Delays(d) == IF d = "Timer" THEN TimeOfNextInterrupt ELSE {DeviceTime}

(* Mutant: an interrupt is put at the end of the list.                     *)
ScheduledLast(list, d, fromNow) == Append(list, [type |-> d, in |-> fromNow])

(* Schedule: SortedInsert puts it behind the entries of the same time.     *)
Scheduled(list, d, fromNow) ==
  LET earlier(e) == e.in <= fromNow
      later(e) == e.in > fromNow
  IN  SelectSeq(list, earlier) \o <<[type |-> d, in |-> fromNow]>> \o SelectSeq(list, later)

Later(list, ticks) == [i \in DOMAIN list |-> [list[i] EXCEPT !.in = @ - ticks]]

(* The timer exists with option -rs or with fixed slices; the keyboard and *)
(* the network start polling when their device is created.                 *)
Init ==
  /\ \E ds \in SetToSeqs({"Timer"} \cup Polled) :
       \E f \in [DOMAIN ds -> 1..(2 * TimerTicks)] :
         /\ \A i \in DOMAIN ds : f[i] \in Delays(ds[i])
         /\ \A i, j \in DOMAIN ds : i < j => f[i] <= f[j]
         /\ pending = [i \in DOMAIN ds |-> [type |-> ds[i], in |-> f[i]]]
  /\ level = "IntOff"
  /\ yieldOnReturn = FALSE
  /\ pc = "run"
  /\ halted = FALSE

Running == pc = "run" /\ ~halted

(* SetLevel(IntOff)                                                        *)
Disable ==
  /\ Running /\ level = "IntOn"
  /\ level' = "IntOff"
  /\ UNCHANGED <<pending, yieldOnReturn, pc, halted>>

(* A device is given a request; at most one per device is outstanding.     *)
Request(d) ==
  /\ Running
  /\ \A i \in DOMAIN pending : pending[i].type # d
  /\ pending' = Scheduled(pending, d, DeviceTime)
  /\ UNCHANGED <<level, yieldOnReturn, pc, halted>>

(* OneTick up to its loop: kernel code enabled interrupts (SystemMode), or *)
(* a user instruction was executed (UserMode).                             *)
OneTick ==
  /\ Running
  /\ pending' = Later(pending, IF level = "IntOff" THEN SystemTick ELSE UserTick)
  /\ level' = "IntOff"
  /\ pc' = "tick"
  /\ UNCHANGED <<yieldOnReturn, halted>>

(* The handler of the first entry.  The timer's handler asks for a context *)
(* switch: it tests for IdleMode, but CheckIfDue has set SystemMode.       *)
Fire(list) ==
  LET d == Head(list).type
  IN  /\ yieldOnReturn' = (yieldOnReturn \/ d = "Timer")
      /\ IF d \in OneShot
         THEN pending' = Tail(list)
         ELSE \E n \in Delays(d) : pending' = Scheduled(Tail(list), d, n)

(* Mutant: an interrupt one tick away is taken for due.                    *)
DueEarly(list) == list # <<>> /\ Head(list).in <= 1

(* The two tests of CheckIfDue that put the entry back.                    *)
Due(list) == list # <<>> /\ Head(list).in <= 0
OnlyTimer(list) == Len(list) = 1 /\ Head(list).type = "Timer"

TickFire ==
  /\ pc = "tick" /\ ~halted /\ Due(pending)
  /\ Fire(pending)
  /\ UNCHANGED <<level, pc, halted>>

(* The end of OneTick; a Yield asked for happens here.                     *)
TickEnd ==
  /\ pc = "tick" /\ ~halted /\ ~Due(pending)
  /\ level' = "IntOn"
  /\ yieldOnReturn' = FALSE
  /\ pc' = "run"
  /\ UNCHANGED <<pending, halted>>

(* Sleep finds no thread ready: Idle is called with interrupts disabled.   *)
Idle ==
  /\ Running /\ level = "IntOff"
  /\ pc' = "idle"
  /\ UNCHANGED <<pending, level, yieldOnReturn, halted>>

(* CheckIfDue(true): the clock jumps to the first entry.                   *)
Advanced == IF Head(pending).in > 0 THEN Later(pending, Head(pending).in) ELSE pending

(* Idle halts when nothing but the timer is pending.  The clock has been   *)
(* advanced to the timer's time, and the entry put back.                   *)
IdleHalt ==
  /\ pc = "idle" /\ ~halted
  /\ pending = <<>> \/ OnlyTimer(pending)
  /\ pending' = IF pending = <<>> THEN pending ELSE Advanced
  /\ halted' = TRUE
  /\ UNCHANGED <<level, yieldOnReturn, pc>>

IdleFirst ==
  /\ pc = "idle" /\ ~halted
  /\ pending # <<>> /\ ~OnlyTimer(pending)
  /\ Fire(Advanced)
  /\ pc' = "idleMore"
  /\ UNCHANGED <<level, halted>>

IdleMore ==
  /\ pc = "idleMore"
  /\ Due(pending) /\ ~OnlyTimer(pending)
  /\ Fire(pending)
  /\ UNCHANGED <<level, pc, halted>>

(* Idle returns to Sleep, which looks for a ready thread again.            *)
IdleEnd ==
  /\ pc = "idleMore"
  /\ ~Due(pending) \/ OnlyTimer(pending)
  /\ yieldOnReturn' = FALSE
  /\ pc' = "run"
  /\ UNCHANGED <<pending, level, halted>>

Next ==
  \/ Disable \/ Idle
  \/ \E d \in OneShot : Request(d)
  \/ OneTick \/ TickFire \/ TickEnd
  \/ IdleHalt \/ IdleFirst \/ IdleMore \/ IdleEnd

Spec == Init /\ [][Next]_vars

-----------------------------------------------------------------------------
(* Types; one entry per device, and the devices that poll never stop.      *)
TypeOK ==
  /\ level \in {"IntOn", "IntOff"}
  /\ yieldOnReturn \in BOOLEAN /\ halted \in BOOLEAN
  /\ \A i \in DOMAIN pending : pending[i].type \in {"Timer"} \cup Polled \cup OneShot
  /\ \A i, j \in DOMAIN pending : pending[i].type = pending[j].type => i = j
  /\ {"Timer"} \cup Polled \subseteq { pending[i].type : i \in DOMAIN pending }

(* Interrupts are delivered in the order of their times: CheckIfDue looks  *)
(* at the first entry only.                                                *)
PendingSorted == \A i, j \in DOMAIN pending : i < j => pending[i].in <= pending[j].in

(* No handler runs before its time, and an idle machine's clock does not   *)
(* jump over an interrupt.                                                 *)
StepOnTime ==
  /\ pc \in {"tick", "idleMore"} /\ pending' # pending => Head(pending).in <= 0
  /\ pc = "idle" => \A i \in DOMAIN pending' : pending'[i].in >= 0

OnTime == [][StepOnTime]_vars

(* When thread code runs, no interrupt is overdue, with one exception:     *)
(* Idle leaves the timer's behind when nothing else is pending, and it is  *)
(* delivered at the next tick.                                             *)
OnlyTimerLate ==
  pc = "run" => \A i \in DOMAIN pending : pending[i].in <= 0 => pending[i].type = "Timer"

(* A context switch asked for by the timer is done or given up before      *)
(* thread code runs again: it never hits a later, unrelated, tick.         *)
YieldConsumed == pc = "run" => ~yieldOnReturn

(* The machine stops by itself only when no device has work left.          *)
HaltsOnlyWhenDone == halted => \A i \in DOMAIN pending : pending[i].type = "Timer"

InterruptsSound ==
  TypeOK /\ PendingSorted /\ OnlyTimerLate /\ YieldConsumed /\ HaltsOnlyWhenDone
=============================================================================
