------------------------------ MODULE MCStorage -----------------------------
(***************************************************************************)
(* From the disk to the file system.  The components are explored side by  *)
(* side in one run; the variable part says which of them a behaviour is    *)
(* about.                                                                  *)
(***************************************************************************)
EXTENDS Integers, Sequences, TLC

CONSTANTS Names, Data, Absent

VARIABLES
  part,   \* the component a behaviour is about
  totalTicks, lastSector, bufferInit, active, doneAt, request, holder,
  waiting, woken, sectors, semaphore, pc, args, map, answer, file, disk,
  dataSectors, seekPosition, result, table, freeMap, mem, open

vars == <<part,
          totalTicks, lastSector, bufferInit, active, doneAt, request,
          holder, waiting, woken, sectors, semaphore, pc, args, map, answer,
          file, disk, dataSectors, seekPosition, result, table, freeMap,
          mem, open>>

\* Three tracks of three sectors.
DiskArm == INSTANCE DiskTiming WITH
  SectorsPerTrack <- 3, NumTracks <- 3, SeekTime <- 3, RotationTime <- 2,
  MaxTime <- 24

\* Three threads, two sectors.
Synch == INSTANCE SynchDisk WITH
  Threads <- 1..3, Conds <- {}, NoThread <- 0, Sectors <- {0, 1},
  Data <- {0, 1}

\* Five bits in two words of three: one unused bit in the last word.
Map == INSTANCE BitMap WITH
  NumBits <- 5, BitsInWord <- 3

\* A file of five bytes in sectors of two, on a disk of four sectors.
Opened == INSTANCE OpenFile WITH
  Bytes <- {0, 1}, SectorSize <- 2, DiskSectors <- 0..3, FileLength <- 5,
  Layouts <- {[i \in 0..2 |-> (3 + i) % 4]},
  Buffers <- {<<>>, <<1>>, <<1, 0, 0, 1>>}, MaxRequest <- 4,
  MaxPosition <- 5

\* Three names, two directory entries, four sectors for files.
Filesys == INSTANCE FileSystem WITH
  NumDirEntries <- 2, NumSectors <- 6, SystemSectors <- {0, 1},
  NumDirect <- 2, Sizes <- {0, 1, 2}

ASSUME
  /\ DiskArm!DiskTimingAssumption /\ Synch!SynchDiskAssumption
  /\ Map!BitMapAssumption /\ Opened!OpenFileAssumption /\ Filesys!FileSystemAssumption

-----------------------------------------------------------------------------
(* A component that is not the one of the behaviour has no state.          *)
Init ==
  \/ /\ part = "disk" /\ DiskArm!Init
     /\ holder = 0 /\ waiting = 0 /\ woken = 0 /\ sectors = 0
     /\ semaphore = 0 /\ pc = 0 /\ args = 0 /\ map = 0 /\ answer = 0
     /\ file = 0 /\ disk = 0 /\ dataSectors = 0 /\ seekPosition = 0
     /\ result = 0 /\ table = 0 /\ freeMap = 0 /\ mem = 0 /\ open = 0
  \/ /\ part = "synch disk" /\ Synch!Init
     /\ totalTicks = 0 /\ lastSector = 0 /\ bufferInit = 0 /\ doneAt = 0
     /\ request = 0 /\ map = 0 /\ answer = 0 /\ file = 0 /\ disk = 0
     /\ dataSectors = 0 /\ seekPosition = 0 /\ result = 0 /\ table = 0
     /\ freeMap = 0 /\ mem = 0 /\ open = 0
  \/ /\ part = "bit map" /\ Map!Init
     /\ totalTicks = 0 /\ lastSector = 0 /\ bufferInit = 0 /\ active = 0
     /\ doneAt = 0 /\ request = 0 /\ holder = 0 /\ waiting = 0 /\ woken = 0
     /\ sectors = 0 /\ semaphore = 0 /\ pc = 0 /\ args = 0 /\ disk = 0
     /\ dataSectors = 0 /\ seekPosition = 0 /\ result = 0 /\ table = 0
     /\ freeMap = 0 /\ mem = 0 /\ open = 0
  \/ /\ part = "open file" /\ Opened!Init
     /\ totalTicks = 0 /\ lastSector = 0 /\ bufferInit = 0 /\ active = 0
     /\ doneAt = 0 /\ request = 0 /\ holder = 0 /\ waiting = 0 /\ woken = 0
     /\ sectors = 0 /\ semaphore = 0 /\ pc = 0 /\ args = 0 /\ map = 0
     /\ answer = 0 /\ file = 0 /\ table = 0 /\ freeMap = 0 /\ mem = 0
     /\ open = 0
  \/ /\ part = "file system" /\ Filesys!Init
     /\ totalTicks = 0 /\ lastSector = 0 /\ bufferInit = 0 /\ active = 0
     /\ doneAt = 0 /\ request = 0 /\ holder = 0 /\ waiting = 0 /\ woken = 0
     /\ sectors = 0 /\ semaphore = 0 /\ args = 0 /\ map = 0 /\ answer = 0
     /\ file = 0 /\ dataSectors = 0 /\ seekPosition = 0 /\ result = 0

(* The last request of the disk is done when the bound on time is reached. *)
Stopped == part = "disk" /\ UNCHANGED vars

Symmetry == Permutations(Names) \cup Permutations(Data)

Next ==
  \/ /\ part = "disk" /\ DiskArm!Next
     /\ UNCHANGED <<part,
                    holder, waiting, woken, sectors, semaphore, pc, args,
                    map, answer, file, disk, dataSectors, seekPosition,
                    result, table, freeMap, mem, open>>
  \/ /\ part = "synch disk" /\ Synch!Next
     /\ UNCHANGED <<part,
                    totalTicks, lastSector, bufferInit, doneAt, request,
                    map, answer, file, disk, dataSectors, seekPosition,
                    result, table, freeMap, mem, open>>
  \/ /\ part = "bit map" /\ Map!Next
     /\ UNCHANGED <<part,
                    totalTicks, lastSector, bufferInit, active, doneAt,
                    request, holder, waiting, woken, sectors, semaphore, pc,
                    args, disk, dataSectors, seekPosition, result, table,
                    freeMap, mem, open>>
  \/ /\ part = "open file" /\ Opened!Next
     /\ UNCHANGED <<part,
                    totalTicks, lastSector, bufferInit, active, doneAt,
                    request, holder, waiting, woken, sectors, semaphore, pc,
                    args, map, answer, file, table, freeMap, mem, open>>
  \/ /\ part = "file system" /\ Filesys!Next
     /\ UNCHANGED <<part,
                    totalTicks, lastSector, bufferInit, active, doneAt,
                    request, holder, waiting, woken, sectors, semaphore,
                    args, map, answer, file, dataSectors, seekPosition,
                    result>>
  \/ Stopped

Spec == Init /\ [][Next]_vars

-----------------------------------------------------------------------------
(* A write ends when its sector has passed under the head for the first    *)
(* time after the seek, never earlier and never a turn late; a read is     *)
(* served from the track buffer only if the sector has passed since the    *)
(* head came to the track (disk.cc:208-271).                               *)
LatencyExact ==
  part = "disk" =>
    DiskArm!WriteLatencyExact /\ DiskArm!BufferedReadSound /\ DiskArm!BufferStarted

(* ReadSector and WriteSector (synchdisk.cc:72-97) look like atomic reads  *)
(* and writes to the threads that call them: the disk gets one request at  *)
(* a time, and its interrupt wakes the thread that made the request        *)
(* (disk.cc:120, 140, synchdisk.cc:72-109).                                *)
ImplementsAtomicDisk ==
  /\ [](part = "synch disk" => Synch!OneRequest)
  /\ part = "synch disk" => Synch!Atomic!Init
  /\ [][part = "synch disk" => [Synch!Atomic!Next]_(Synch!Atomic!vars)]_vars

(* Mark, Clear and Find on words are those on a set of numbers, for any    *)
(* contents of the unused bits, which they keep; reading the file brings   *)
(* back the set that was written; and each Find takes one from NumClear    *)
(* and fails only at zero, as FileHeader::Allocate relies on (bitmap.cc:   *)
(* 46-165, filehdr.cc:46-50).                                              *)
ImplementsBitSet ==
  [][part = "bit map" => Map!SetStep /\ Map!FindCounts /\ Map!SpareBitsStep]_vars

(* Through any sequence of reads, writes and seeks a file is an array of   *)
(* bytes, and no sector of another file is touched (openfile.cc:113-183).  *)
ImplementsByteFile ==
  [][part = "open file" => [Opened!File!Next]_(Opened!File!vars) /\ Opened!OthersKept]_vars


(* The file system keeps the contents of files apart through any sequence  *)
(* of Create, Remove, Open and writes; a file appears and disappears with  *)
(* the write of the directory (filesys.cc:206, 285).                       *)
ImplementsFlatFiles ==
  /\ part = "file system" => Filesys!Files!Init
  /\ [][part = "file system" => [Filesys!Files!Next]_(Filesys!Stored)]_vars
=============================================================================
