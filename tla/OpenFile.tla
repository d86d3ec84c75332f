------------------------------ MODULE OpenFile ------------------------------
(***************************************************************************)
(* Class OpenFile (filesys/openfile.cc, compiled with FILESYS): a file of  *)
(* bytes on a disk that reads and writes whole sectors.  The header says   *)
(* which sectors hold the file, in any order on the disk.                  *)
(*                                                                         *)
(* A request is one step: the restrictions of filesys.cc:30-41 leave       *)
(* concurrent accesses out.  What is modelled is the arithmetic: clipping  *)
(* at the end of the file, the sectors touched, and the partial sectors    *)
(* that are read before they are written.                                  *)
(***************************************************************************)
EXTENDS Integers, Sequences

CONSTANTS
  Bytes,        \* values of a byte
  SectorSize,
  DiskSectors,  \* the sectors of the disk
  FileLength,
  Layouts,      \* how the file may lie on the disk
  Buffers,      \* sequences of bytes that are written
  MaxRequest,   \* largest number of bytes read
  MaxPosition   \* largest position sought

OpenFileAssumption ==
  /\ SectorSize \in Nat \ {0}
  /\ FileLength \in Nat
  /\ MaxRequest \in Nat
  /\ MaxPosition \in Nat
  /\ \A f \in Layouts :
       \A i, j \in 0 .. (FileLength - 1) \div SectorSize :
         f[i] \in DiskSectors /\ (f[i] = f[j] => i = j)

VARIABLES
  disk,          \* contents of the sectors
  dataSectors,   \* hdr->dataSectors
  seekPosition,
  result         \* the bytes the last call read or wrote

vars == <<disk, dataSectors, seekPosition, result>>

(* The file has been created: its sectors are distinct (FileHeader::       *)
(* Allocate) and hold whatever was there.                                  *)
Init ==
  /\ dataSectors \in Layouts
  /\ \E b \in Bytes : disk = [s \in DiskSectors |-> [o \in 0 .. SectorSize - 1 |-> b]]
  /\ seekPosition = 0
  /\ result = <<>>

(* FileHeader::ByteToSector                                                *)
ByteToSector(offset) == dataSectors[offset \div SectorSize]

(* The check of the request.                                               *)
Clipped(numBytes, position) ==
  IF numBytes <= 0 \/ position >= FileLength THEN 0
  ELSE IF position + numBytes > FileLength THEN FileLength - position
  ELSE numBytes

FirstSector(position) == position \div SectorSize

LastSector(n, position) == (position + n - 1) \div SectorSize

(* The bytes of the n > 0 that ReadAt returns: the sectors are read into   *)
(* buf and the part wanted is copied.                                      *)
CopyOut(n, position) ==
  LET first == FirstSector(position)
      buf == [o \in 0 .. (1 + LastSector(n, position) - first) * SectorSize - 1 |->
                disk[ByteToSector((first + o \div SectorSize) * SectorSize)]
                    [o % SectorSize]]
  IN  [i \in 1 .. n |-> buf[position - first * SectorSize + i - 1]]

(* Mutant: a sector that is written in part is not read when both ends of  *)
(* the request are in it.                                                  *)
ReadFirstOne(n, position) ==
  LET first == FirstSector(position)
      last == LastSector(n, position)
  IN  IF first = last THEN {}
      ELSE {s \in {first} : position # first * SectorSize}
             \cup {s \in {last} : position + n # (last + 1) * SectorSize}

(* The sectors WriteAt reads first: the first and the last if they are     *)
(* written only in part.                                                   *)
ReadFirst(n, position) ==
  LET first == FirstSector(position)
      last == LastSector(n, position)
      firstAligned == position = first * SectorSize
      lastAligned == position + n = (last + 1) * SectorSize
  IN  {s \in {first} : ~ firstAligned}
        \cup {s \in {last} : ~ lastAligned /\ (first # last \/ firstAligned)}

(* WriteAt's buffer: fresh memory (junk), then what ReadAt brings in,      *)
(* which stops at the end of the file, then the bytes to write.            *)
Buffer(from, n, position, junk) ==
  LET first == FirstSector(position)
      base == first * SectorSize
  IN  [o \in 0 .. (1 + LastSector(n, position) - first) * SectorSize - 1 |->
         IF o \in position - base .. position - base + n - 1
         THEN from[o - (position - base) + 1]
         ELSE LET s == first + o \div SectorSize
              IN  IF s \in ReadFirst(n, position)
                     /\ o % SectorSize < Clipped(SectorSize, s * SectorSize)
                  THEN CopyOut(Clipped(SectorSize, s * SectorSize), s * SectorSize)
                         [(o % SectorSize) + 1]
                  ELSE junk]

(* The disk after the sectors first..last are written from buf.            *)
DiskAfter(buf, first, last) ==
  [d \in DiskSectors |->
     IF \E s \in first .. last : ByteToSector(s * SectorSize) = d
     THEN LET s == CHOOSE k \in first .. last : ByteToSector(k * SectorSize) = d
          IN  [o \in 0 .. SectorSize - 1 |-> buf[(s - first) * SectorSize + o]]
     ELSE disk[d]]

ReadAt(numBytes, position) ==
  LET n == Clipped(numBytes, position)
  IN  /\ result' = IF n = 0 THEN <<>> ELSE CopyOut(n, position)
      /\ UNCHANGED <<disk, dataSectors>>

WriteAt(from, position) ==
  LET n == Clipped(Len(from), position)
  IN  /\ result' = SubSeq(from, 1, n)
      /\ \E junk \in Bytes :
           disk' = IF n = 0 THEN disk
                   ELSE DiskAfter(Buffer(from, n, position, junk),
                                  FirstSector(position), LastSector(n, position))
      /\ UNCHANGED dataSectors

(* OpenFile::Read and OpenFile::Write                                      *)
Read(numBytes) ==
  ReadAt(numBytes, seekPosition) /\ seekPosition' = seekPosition + Len(result')

Write(from) ==
  WriteAt(from, seekPosition) /\ seekPosition' = seekPosition + Len(result')

Seek(position) ==
  /\ seekPosition' = position
  /\ UNCHANGED <<disk, dataSectors, result>>

Next ==
  \/ \E position \in 0 .. MaxPosition :
       \/ Seek(position)
       \/ \E n \in 0 .. MaxRequest : ReadAt(n, position) /\ UNCHANGED seekPosition
       \/ \E from \in Buffers : WriteAt(from, position) /\ UNCHANGED seekPosition
  \/ \E n \in 0 .. MaxRequest : Read(n)
  \/ \E from \in Buffers : Write(from)

Spec == Init /\ [][Next]_vars

-----------------------------------------------------------------------------
File == INSTANCE ByteFile WITH
          bytes <- [b \in 1 .. FileLength |->
                      disk[ByteToSector(b - 1)][(b - 1) % SectorSize]],
          position <- seekPosition

(* openfile.cc:113-183: through any sequence of reads, writes and seeks,   *)
(* the file is an array of bytes: a read returns the bytes last written, a *)
(* write changes its own bytes and no others, though sectors are written   *)
(* whole, and both stop at the end of the file.                            *)
ImplementsByteFile ==
  [][File!Next]_(File!vars)

(* WriteAt touches no sector of another file (openfile.cc:178-180).        *)
OthersKept ==
  \A d \in DiskSectors :
    (\A i \in DOMAIN dataSectors : dataSectors[i] # d) => disk'[d] = disk[d]
=============================================================================
