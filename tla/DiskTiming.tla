----------------------------- MODULE DiskTiming -----------------------------
(***************************************************************************)
(* How long the simulated disk takes (machine/disk.cc): seek, rotation and *)
(* the track buffer.  Time is absolute here, since the head's position is  *)
(* a function of it; it is bounded by MaxTime.                             *)
(***************************************************************************)
EXTENDS Integers

CONSTANTS
  SectorsPerTrack, NumTracks,  \* 32 and 32 in machine/disk.h
  SeekTime, RotationTime,      \* 500 and 500 in machine/stats.h
  MaxTime

DiskTimingAssumption ==
  /\ {SectorsPerTrack, NumTracks, SeekTime, RotationTime} \subseteq Nat \ {0}
  /\ MaxTime \in Nat

Sectors == 0..(SectorsPerTrack * NumTracks - 1)

VARIABLES
  totalTicks,
  lastSector, bufferInit, active,  \* fields of Disk
  doneAt,                          \* when the interrupt is scheduled
  request                          \* the last one: sector, write, latency, and
                                   \* the state in which it was made

vars == <<totalTicks, lastSector, bufferInit, active, doneAt, request>>

Track(s) == s \div SectorsPerTrack
Abs(n) == IF n < 0 THEN -n ELSE n

(* TimeToSeek: the seek, and the wait for the next sector boundary.        *)
Seek(s) == Abs(Track(s) - Track(lastSector)) * SeekTime
Over(s) == (totalTicks + Seek(s)) % RotationTime

(* Mutant: a full sector is waited for at a boundary.                      *)
RoundUpFull(s) == RotationTime - Over(s)

RoundUp(s) == IF Over(s) > 0 THEN RotationTime - Over(s) ELSE 0

ModuloDiff(to, from) ==
  (((to % SectorsPerTrack) - (from % SectorsPerTrack)) + SectorsPerTrack) % SectorsPerTrack

TimeAfter(s) == totalTicks + Seek(s) + RoundUp(s)

InTrackBuffer(s, writing) ==
  /\ ~writing /\ Seek(s) = 0
  /\ (TimeAfter(s) - bufferInit) \div RotationTime > ModuloDiff(s, bufferInit \div RotationTime)

ComputeLatency(s, writing) ==
  IF InTrackBuffer(s, writing)
  THEN RotationTime
  ELSE Seek(s) + RoundUp(s) + ModuloDiff(s, TimeAfter(s) \div RotationTime) * RotationTime
         + RotationTime

Init ==
  /\ totalTicks = 0
  /\ lastSector = 0 /\ bufferInit = 0 /\ active = FALSE
  /\ doneAt = 0
  /\ request = [sector |-> 0, writing |-> TRUE, latency |-> 0, at |-> 0, from |-> 0, since |-> 0]

UpdateLast(s) ==
  /\ bufferInit' = IF Seek(s) # 0 THEN TimeAfter(s) ELSE bufferInit
  /\ lastSector' = s

(* ReadRequest and WriteRequest; SynchDisk shows that active is false.     *)
Request(s, writing) ==
  /\ ~active
  /\ totalTicks + ComputeLatency(s, writing) <= MaxTime
  /\ active' = TRUE
  /\ doneAt' = totalTicks + ComputeLatency(s, writing)
  /\ request' = [sector |-> s, writing |-> writing, latency |-> ComputeLatency(s, writing),
                 at |-> totalTicks, from |-> lastSector, since |-> bufferInit]
  /\ UpdateLast(s)
  /\ UNCHANGED totalTicks

(* Time passes, up to the interrupt.                                       *)
Tick ==
  /\ totalTicks < (IF active THEN doneAt ELSE MaxTime)
  /\ totalTicks' = totalTicks + 1
  /\ UNCHANGED <<lastSector, bufferInit, active, doneAt, request>>

HandleInterrupt ==
  /\ active /\ totalTicks = doneAt
  /\ active' = FALSE
  /\ UNCHANGED <<totalTicks, lastSector, bufferInit, doneAt, request>>

Next ==
  \/ \E s \in Sectors, writing \in BOOLEAN : Request(s, writing)
  \/ Tick \/ HandleInterrupt

Spec == Init /\ [][Next]_vars

-----------------------------------------------------------------------------
(* The disk itself: at a time that is a multiple of RotationTime the head  *)
(* is at the start of a sector, one sector per RotationTime.               *)
StartsSector(time, s) ==
  time % RotationTime = 0 /\ (time \div RotationTime) % SectorsPerTrack = s % SectorsPerTrack

Arrival == request.at + Abs(Track(request.sector) - Track(request.from)) * SeekTime

(* A write ends when the sector has passed under the head for the first    *)
(* time after the seek (disk.cc:216-223): never earlier, never a turn late.*)
WriteLatencyExact ==
  (active /\ request.writing) =>
    LET start == doneAt - RotationTime
    IN  /\ start >= Arrival /\ StartsSector(start, request.sector)
        /\ \A time \in Arrival..(start - 1) : ~StartsSector(time, request.sector)

(* A read is served from the track buffer only if the whole sector has     *)
(* passed under the head, at the latest by the next sector boundary, since *)
(* the head came to this track; otherwise it takes as long as a write.     *)
BufferedReadSound ==
  (active /\ ~request.writing) =>
    \/ \E time \in request.since..(request.at + RotationTime - 1) :
         /\ doneAt = request.at + RotationTime
         /\ StartsSector(time, request.sector)
         /\ time + RotationTime <= request.at + RotationTime - 1
         /\ Arrival = request.at
    \/ LET start == doneAt - RotationTime
       IN  start >= Arrival /\ StartsSector(start, request.sector)

(* When the disk is free, the track buffer has begun to fill: the time     *)
(* since then, which ComputeLatency divides, is not negative.              *)
BufferStarted == ~active => bufferInit <= totalTicks /\ bufferInit % RotationTime = 0
=============================================================================
