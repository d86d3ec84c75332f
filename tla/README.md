# NachOS, second project, in TLA+

This directory holds TLA+ models of the NachOS operating system in
`src/nachos64/code`, the TLC configurations that check them on small instances,
and TLAPS proofs about the thread kernel, locks and conditions, and paging for
every instance.
Paths below are relative to `src/nachos64/code`. `PROJECT.json` gives, for every
definition that models code, the lines it models; for every property, a faulty
variant of the code that breaks it; and the hazards the properties were chosen
for.

## The system

NachOS is a teaching operating system that runs as one host process. A simulated
machine (`machine/`: MIPS processor, interrupts, timer, disk, console, network)
carries a kernel with threads and synchronisation (`threads/`), which runs user
programs (`userprog/`). The students' part is the semaphores' `Destroy`, locks and
conditions, the system calls, and virtual memory with a software-managed TLB,
swap and second-chance replacement (`userprog/addrspace.cc`, compiled with `VM`
and `USE_TLB`). A file system (`filesys/`) and a post office (`network/`) complete
the tree; user programs use the *stub* file system, which calls the host.

| part | sources | modules |
|---|---|---|
| threads, ready list, switch, deletion | `threads/thread.cc`, `scheduler.cc`, `switch.s`, `system.cc` | `Kernel` |
| semaphores | `threads/synch.cc` | `Kernel` implements `CountingSemaphore` |
| locks, conditions | `threads/synch.cc` | `Monitors` implements `MesaMonitor` |
| lists | `threads/list.h` | `LinkedList` implements `ItemSequence` |
| synchronised lists | `threads/synchlist.h` | `SynchList` on `MesaMonitor`, implements `FifoList` |
| dining philosophers | `threads/dinningph.cc`, `threadtest.cc` | `DiningPhilosophers` on `MesaMonitor` |
| interrupts, timer | `machine/interrupt.cc`, `timer.cc` | `Interrupts`; their interleaving with threads in `Kernel` |
| demand paging, TLB, swap | `userprog/addrspace.cc`, `machine/translate.cc` | `VirtualMemory` (with `SecondChance`, `ClockWalk`) implements `UserMemory` |
| Exec, Join, Exit, Fork, Halt | `userprog/exception.cc` | `Processes` |
| user semaphores | `userprog/exception.cc`, `NachosSems.cc` | `UserSemaphores` |
| open files, console output | `userprog/exception.cc`, `nachostabla.cc` | `FileCalls` implements `OpenFiles` |
| console | `machine/console.cc`, `userprog/progtest.cc` | `ConsoleEcho` |
| disk, synchronous disk | `machine/disk.cc`, `filesys/synchdisk.cc` | `DiskTiming`; `SynchDisk` implements `AtomicDisk` |
| bit maps | `userprog/bitmap.cc` | `BitMap` implements `BitSet` |
| files on sectors | `filesys/openfile.cc` | `OpenFile` implements `ByteFile` |
| file system | `filesys/filesys.cc`, `directory.cc`, `filehdr.cc` | `FileSystem` implements `FlatFiles` |
| network, post office | `machine/network.cc`, `network/post.cc`, `nettest.cc` | `PostOffice`, `MailTest` |
| processor | `machine/mipssim.cc`, `machine.cc`, `threads/thread.cc`, `bin/execute.c` | `Mips` implements `MipsIsa`; `MipsAlu`, `MipsMult` |

The modules are stacked as the code is: what one implements, the next uses.
`Kernel` implements the counting semaphore; `Monitors` uses semaphores as that
contract says and implements the Mesa monitor; `SynchList`, `DiningPhilosophers`
and `SynchDisk` extend `MesaMonitor`; the mailboxes of `PostOffice` are the fifo lists
that `SynchList` implements; `MailTest` extends `PostOffice`.

Abstract specifications (`CountingSemaphore`, `MesaMonitor`, `ItemSequence`,
`FifoList`, `UserMemory`, `OpenFiles`, `AtomicDisk`, `BitSet`, `ByteFile`,
`FlatFiles`, `MipsIsa`) say what a component promises and are not mapped to code.
Definitions marked "Mutant" are faulty variants, used only to show that
properties can fail.

## The modules

### Kernel

`Kernel` models threads, the scheduler and semaphores on one CPU. A thread loses
the CPU only in `Yield`, `Sleep` or `Finish`, and interrupt handlers run only in
`OneTick` (interrupts being re-enabled) and in `Idle`. An action is therefore what
one thread does from one such point to the next. What the threads compute is left
open: a running thread may call any operation, in any order, on any semaphore.

| state | code |
|---|---|
| `status` | `Thread::status`, plus `NoThread` before `new` and `Deleted` after `delete` |
| `pc`, `waitsFor` | the saved stack of a thread: where it continues after `SWITCH`, and the semaphore whose `P` it is in |
| `currentThread`, `readyList`, `threadToBeDestroyed` | the globals of `system.cc` and `Scheduler::readyList` |
| `value`, `queue` | the two fields of each `Semaphore` |
| `level`, `mode`, `pending`, `halted` | `Interrupt::level`, `status`, the list of pending device interrupts, and whether `Cleanup` was called |

`Run` is `Scheduler::Run` up to where the next thread has executed the code after
`SWITCH`. Two details of the code carry weight. A thread that never had the CPU
starts at `ThreadRoot`, not after `SWITCH`, so it skips the deletion of
`threadToBeDestroyed`. And `P` tests the value again in a loop after it is woken.

`Kernel` implements `CountingSemaphore` (the contract in `synch.h:24-48`) with
`waiting[s]` mapped to the set of threads inside `P` of `s`, asleep or woken.

Left out of `Kernel`: the times of pending interrupts (any pending device
interrupt may be the next one, a superset of the code's behaviours; the times are
in `Interrupts`); stack contents and overflow checks; and the direct call of
`scheduler->Run` in `Nachos_Exit`, which is in `Processes`.

### Synchronisation

`Monitors` has one action for each access to shared data between two semaphore
calls of `Lock` and `Condition`, since the CPU may change hands there. `Wait`
queues its own semaphore, releases the lock, and only then calls `P`; the
refinement of `MesaMonitor` shows that this looks like one step, and so does a
`Broadcast` that signals its waiters one by one. `SynchList` and
`DiningPhilosophers` call the monitor's operations at the places where the code
does. `pickup` waits under `if`, not `while`; that it works is a property
(`NeighboursApart`). `LinkedList` has nodes and pointers, and the loop of
`SortedInsert` takes one step per iteration.

### VirtualMemory, SecondChance, ClockWalk, UserMemory

`VirtualMemory` models the page tables, the TLB, the inverted page table `IPT`, the
two bit maps, memory and the swap file. A page holds one word. Its actions are a
load or store that hits the TLB (`ReadMem`, `WriteMem`); one action per outcome of
`AddrSpace::load` (`LoadResident`, `LoadFree`, `LoadOverClean`, `LoadOverDirty`,
`SwapExhausted`, `LoadBadSlot`); and a context switch (`SwitchSpace`, which is
`SaveState` followed by `RestoreState`). `load` is one action because the stub file
system never gives up the CPU.

`load` repeats the same text for code, initialised data, fresh pages and pages in
swap. The actions share it: `Contents` says where the page comes from, `Install`
enters it in page table, `IPT` and TLB. The one difference between the copies is
kept: only the branch for fresh pages with a clean victim clears the frame.

`SaveState` and `RestoreState` allocate a new TLB array and assign only `valid`. What
the other fields hold is undefined; the constant `Stale` is the set of values they
may have. `ZeroedHeap` is the benign case of fresh zeroed memory (page 0, clean:
page 0 is start-up code and is never written); `AnyHeap` allows any page of the
program, dirty or not. A page number outside the page table, which the code would
use as an index all the same, is not modelled.

`SecondChance` is the clock walk in closed form. `ClockWalk` is the loop itself, one
iteration per step, checked against that closed form. `UserMemory` gives each
program its own pages; a load returns the last value stored, pages backed by the
executable start with its contents, and fresh pages are unspecified until first
written.

Left out: the copy of an address space by `Fork`; the sizes of the segments
(`noInitData` is a constant); page numbers beyond the address space; failure to
open the executable or the swap file. A program that exited is one that is not
switched to again, since its frames and swap slots are never released.


### System calls: Processes, UserSemaphores, FileCalls

A handler of `exception.cc` runs without losing the CPU except in `P` and in
`scheduler->Run`, so it is one action up to such a point. `Processes` has the table
`execFiles` with its bit map, the entries (and whether they were deleted), and the
semaphore each `Join` allocates, named by the thread inside it. `Exec` may find the
table full or, later, no executable; both outcomes are actions of the code.
`Preemptive` allows the CPU to be taken away inside `Join`, between the test of the
identifier and its use, as option `-p` does. `UserSemaphores` keeps kernel
semaphores apart from their identifiers, so that an identifier can be reused while
threads still sleep in the semaphore it denoted before. `FileCalls` has the tables
of open files of several programs, the host's descriptors (external), and the
semaphore `Console`; `Write` with an identifier that is not open keeps that
semaphore and repeats the instruction, as the code does.

### Devices: Interrupts, ConsoleEcho, PostOffice, MailTest

`Interrupts` keeps the distance of every pending interrupt from now, so that time
needs no bound. `OneTick`, `CheckIfDue` and `Idle` are taken apart into one step per
handler. `ConsoleEcho` composes the device, its polling and write interrupts, and
the echo program. `PostOffice` has several machines, each with sockets, a
one-packet buffer, a worker thread, mailboxes and concurrent senders; the network
loses any packet when `Lossy`. `MailTest` runs the main threads of `nettest.cc` on it.

### Storage: DiskTiming, SynchDisk, BitMap, OpenFile, FileSystem

`DiskTiming` is `ComputeLatency`, `TimeToSeek`, `ModuloDiff` and `UpdateLast` over
absolute time, with ghost state that records how the disk really turns.
`SynchDisk` is the lock, the request, and `P` until the interrupt; the device
transfers the data at once and interrupts at any later moment. `BitMap` works on
words, with unused bits of any value in the last one. `OpenFile` is the arithmetic
of partial sectors. `FileSystem` makes each write of `Create` and `Remove` to the disk
a step, so that its invariants hold also between them. `Remove` is called only for
files that are not open, as its one caller does (`fstest.cc:179`).

### Processor: Mips, MipsAlu, MipsMult

`Mips` is the control of `OneInstruction`: two program counters, the delayed load,
exceptions before an instruction takes effect and its restart, system calls that
advance the counters themselves, and `SaveUserState`/`RestoreUserState`. The next
instruction is any of a set, which covers every program; programs leave alone, in
the instruction after a load, the register being loaded. `MipsIsa` has neither
delayed loads nor faults nor a shared register file. `MipsAlu` states the cases of
both interpreters from the C operators on words of `W` bits; `MipsMult` is the loop of
`Mult`. Left out: 32-bit words, the extraction of instruction fields in `Decode`, and
the debugger.

## The runs

The modules `MC...` instantiate the components for TLC. Each of them joins the
components of one layer, most of them in several instances. Its variable `part`
says which instance a behaviour is about; the variables of the others have no
state, and each property says for which parts it is meant. A behaviour never
leaves its part, so a run checks each instance as a run of its own would.
Constants are given in the `INSTANCE` definitions, with the reason for each
instance; each module states the assumptions of its instances.

| run | instances | shows |
|---|---|---|
| `kernel` | 4 threads, 2 semaphores, at most 2 units | `Inv`, `NoLostWakeup`, `DeleteOnlyFinished`, and that the kernel implements `CountingSemaphore` |
| `kernel_live` | a smaller instance, with fairness | every ready thread runs; no unit stays unused beside a thread inside `P` |
| `synchronisation` | 4 threads on a lock and a condition; 2 conditions; lists with and without `Apply`; 5 philosophers with 2 meals; lists of 3 and sorted lists of 4 elements | no lost signal, one holder, no stranded item, neighbours apart, everybody eats; monitor, fifo and sequence implemented |
| `paging` | 2 programs; a full swap file; fewer TLB slots than frames; one TLB slot; used heap memory; walks over up to 5 places | frames, swap and TLB consistent, no dirty bit lost, `UserMemory` implemented; the clock's loop ends and equals the closed form |
| `programs` | 3 threads that start, fork, join and exit in any order; a parent that waits for its children; preemption in `Join`; 3 semaphores on 2 identifiers; 3 threads of 2 programs with files | no deleted entry used, `Join` returns after the end and returns at all, identifiers exact, console semaphore exact, `OpenFiles` implemented |
| `devices` | random slices and fixed slices with polling; texts of up to 5 characters; 2 senders and a receiver, lossy and not; `MailTest`, lossy and not | interrupts in order and on time, the machine stops only when done; text echoed; mail in order, at most once, complete when nothing is lost; both machines halt |
| `storage` | 3 tracks of 3 sectors; 3 threads on 2 sectors; 5 bits in words of 3; 5 bytes in sectors of 2; 3 names for 2 directory entries | latencies exact, one request at a time, free map exact; the four abstract specifications implemented |
| `processor` | words of 8 bits; products of 5 bits; control, memory access, and thread switches | arithmetic exact and equal in both interpreters, products exact, `MipsIsa` implemented |
| `kernel_reclaim` | *violation* | a finished thread can be forgotten |
| `paging_junk` | *violation* | a dirty bit is lost |
| `paging_zero` | *violation* | a fresh page is not zero |
| `processes_twice` | *violation* | a `Join` never returns |

**Bounds.** Kernel: the hazards need a sleeper, a thread that takes the unit first, a
finished thread and a new one, hence four threads; two semaphores make queues
interfere; `MaxUnits` (units present or promised by a pending interrupt) only keeps
the state space finite, and the proofs hold for every value of it. Monitors and
lists: a waiter, a signaller, one that overtakes and one more. Paging: what
matters is that programs together have more pages than frames, that there are
fewer, as many and more modified pages than swap slots, and that the TLB is smaller
than, or as large as, memory (the code has 4 frames, 4 TLB slots and 64 swap slots).
Tables (programs, semaphores, files, directory) have fewer entries than users, so
that they fill up and their entries are reused. `MaxPrograms`, `MaxMessages`, `MaxTime`,
`MaxLen` and `Rounds` bound what would grow for ever. Word sizes are the smallest at
which signs, carries and unused bits all differ.

**Fairness.** `Kernel`'s `FairSpec` assumes that the CPU goes on (weak fairness of the
steps that follow a context switch, and of `Idle`) and that the running thread is
made to yield again and again. The latter is the timer, started by the options
`-rs` and `-p`; without it a thread that never blocks keeps the CPU, and the
properties are not claimed. The other runs assume, per thread, that a thread inside
a call goes on when it can (which is what `ReadyRuns` gives), that a device raises
the interrupts it owes (`Schedule` puts them in the list; `OnTime` and `InterruptsSound`
are about their delivery), and that a loop keeps iterating. Nothing is assumed
about who calls what. `ItemsAreTaken` is claimed for lists without `Apply`, whose
callers may keep the lock from the others.

Deadlock is checked in all suites; `Stopped` names the parts that may end (a machine
that was halted, a finished test, a calculation).

## What the violations show

* `FinishedIsReclaimed`. A finishes; B, which is new, gets the CPU and starts at
  `ThreadRoot`, so it does not delete A; B finishes and `Finish` overwrites
  `threadToBeDestroyed`. A's object and stack are never freed. `thread.cc:143-145`
  says that `Scheduler::Run` will call the destructor.
* `CleanPagesRecoverable` (with `AnyHeap`). `SaveState` copies `use` and `dirty` from all
  TLB slots, filled or not. If an unfilled slot's memory names a page the program
  has modified, with `dirty` false, the page's dirty bit is cleared and the next
  eviction drops the data. It depends on what the allocator returns: the arrays
  are never freed by the code, so it takes other heap blocks of that size.
  With zeroed memory the property holds (`paging`).
* `FreshPagesAreZero`. Fresh pages are cleared only when the victim is clean
  (`addrspace.cc:771`). The comment at 150-151 states the intent for both segments,
  in the branch compiled without `VM`, where the call itself is commented out.
* `JoinReturns` (two joiners). A second `Join` on the same program overwrites the
  semaphore of the first (`exception.cc:562`); one of the two is never woken.
  `syscall.h:66` says "Only return once the the user program "id" has finished."

Other disagreements were met while the modules were written. The modules do what
the code does, and the properties are stated so that they do not claim otherwise:

* `Join` always returns 0 (`exception.cc:567`); `syscall.h:67` says "Return the exit status."
* An `Exec` whose file cannot be opened (`exception.cc:492-495`) leaves its entry
  behind, and a `Join` on it waits for ever; with a full table (532-535) the program
  counter is not advanced and the call repeats itself, against the comment at 56-57.
* With `-p`, a `Join` preempted between the test of the identifier and
  `execFiles[id]->s = joinSem` (`exception.cc:562`) writes to an entry `Exit` deleted.
* `Semaphore::Destroy` readies the waiters but leaves `value` at 0, so they sleep again;
  `synch.cc:103` says "freeing the waiting threads".
* `P` loops while `value == 0`, so it does not wait on a negative value, which
  `SemCreate` lets through; `synch.h:27` says "waits until value > 0".
* `Open` that fails leaves `r2` as it was (`exception.cc:121`). `Write` to an identifier that is
  not open returns with `Console` taken and the counter not advanced (229).
* A byte 255 from the keyboard looks like an empty buffer (`console.cc:97`).
* `FileHeader::Allocate` does not compare the size with `NumDirect` (`filehdr.cc:49`).
* `sendBusy` is never set when a packet is sent (`network.cc:106`).
* `OR` computes `rs | rs` (`mipssim.cc:376`), and `SRL`, `SRLV` shift arithmetically (447);
  `InterpretersAgree` compares the two interpreters on all other instructions.

## What is proved

`KernelProofs` and `KernelSemaphoreProofs` are checked by TLAPS for every finite set
of threads, every set of semaphores with any initial values, and every `MaxUnits`
(`KernelAssumption`).

* `KernelInvariant`: `Spec => []Inv`. None of the parts of `Inv` is inductive alone.
  That `V` appends to the ready list a thread that is not yet there follows from
  `QueuesExact` (it is `BLOCKED`); that `Run` deletes no thread that a list holds
  follows from `ThreadStates` (a thread to be destroyed is `BLOCKED` in `Finish`, and
  so neither `READY` nor inside `P`); and that `Sleep` and the handlers find
  interrupts as they expect follows from `LevelMatchesCode`.
  The proof has a lemma for each shared piece (`VKeepsInv`, `WaitOnKeepsInv`,
  `TakeUnitKeepsInv`, `RunFirstReady`) and one case per action (`NextKeepsInv`).
* `KernelTypes`, `ReadyListIsExact`, `QueuesAreExact`, `LevelAlwaysMatches`,
  `NoThreadUsedAfterDelete`: consequences of `Inv`.
* `OnlyFinishedDeleted`: the action property `DeleteOnlyFinished`.
* `WakeupsAreKept`: `Spec => []NoLostWakeup`. Given `Inv`, the property is inductive:
  `V` adds a unit and moves one thread from the queue to the woken ones; a woken
  thread that leaves takes a unit with it; one that queues again found no unit.
* `KernelImplementsSemaphore`: each step of the kernel is a step of
  `CountingSemaphore` or leaves value and waiting set alone.

`MonitorsProofs` proves `MonitorIsSound` for any set of threads and any non-empty set
of conditions: `Spec => []MonitorSound`, that is mutual exclusion, `lockHolder` exact
where the assertions of `Release`, `Wait` and `Signal` read it, and no lost or
duplicated signal. The inductive invariant `Inv` of `Monitors` says where the semaphore
of a `Wait` can be without counting (`WaitersExact`): queued once, at the one condition
its thread waits on; or on its way in a `Signal`; or with its unit. That one thread at
a time is on its way in a `Signal` comes from `MutualExclusion`, so the parts are
proved together. `InvCounts` turns this into the sums of `SignalsKept`. The run
`synchronisation` checks `Inv` as well.

`VirtualMemoryProofs` proves `PagingIsConsistent` for any number of address spaces,
pages, frames, TLB slots and swap slots, and for any contents of new TLB arrays
(`VMAssumption` only): `Spec => [](TypeOK /\ FramesExact /\ TLBCoherent)`. The three are
inductive together. That a load reads a frame at all needs `TLBCoherent`; that the
slot `updateSwapVictimInfo` invalidates is the only one of the victim needs
`FramesExact` and that each page is in the TLB once; and that `useThisTLBIndex` saves
each bit to its own page needs that the slots it passes are all valid. The argument:
the searches find what they look for (`LowestIn`, `PassesIn`, from the least-number
principle of `WellFoundedInduction`); an eviction leaves a frame that is free in all
tables (`EvictFrees`); a frame that is free in all tables can be given to a page
(`InstallKeeps`); entering the TLB moves no page (`EnterTLBKeeps`).

**Only model-checked.** Liveness, since TLAPS handles neither fairness nor `ENABLED`. That
the clock's loop computes its closed form, which needs induction over data.
`SwapExact`, `CleanPagesRecoverable` and `UserMemory`: they depend on what the
heap holds (see `paging_junk`), through invariants on stale TLB slots that are not
worked out. The refinement of `MesaMonitor`. The processor's arithmetic (`Bitwise` is
out of the prover's reach). All other components.

## Not modelled

* The copy of an address space by `Fork` (`addrspace.cc:60-97`): two page tables then
  name the same frame while the inverted table has room for one, so none of the
  invariants of `VirtualMemory` is meant for it. The layout of segments that the
  constructor for an executable (99-147) computes is the constant `noInitData`.
* A start of the file system from a disk that a crash left in the middle of
  `Create` or `Remove`: the code has no recovery to model. Files that are open while
  they are removed. `List` and `Print`.
* `Decode`'s field extraction, 32-bit words and the debugger of the processor.
* `fstest.cc` and `main.cc`: a test driver and option parsing, sequences of calls whose
  callees are modelled.
* `sysdep.cc`, `utility.cc`, `preemptive.cc`, `stats.cc`: wrappers of the host, debugging
  output, counters. What the kernel relies on is in the modules that use it, marked
  external in the map.
* `bin/coff2noff.c` and its relatives: sequential file converters that run before the
  system does.
