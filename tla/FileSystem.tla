----------------------------- MODULE FileSystem -----------------------------
(***************************************************************************)
(* The file system of filesys/filesys.cc, directory.cc and filehdr.cc      *)
(* (compiled with FILESYS): one directory and a map of free sectors, both  *)
(* kept on the disk, and a header sector for each file.                    *)
(*                                                                         *)
(* Create and Remove read the directory and the map into memory, change    *)
(* the copies, and write them back one after the other: each write is a    *)
(* step here, so that the order of the writes shows.  Only one operation   *)
(* runs at a time (filesys.cc:32).  Sectors hold headers or data; the      *)
(* sectors of the map and of the directory themselves are variables of     *)
(* their own.  Sizes are in sectors.                                       *)
(***************************************************************************)
EXTENDS Integers, Sequences, FiniteSetsExt

CONSTANTS
  Names,
  NumDirEntries,
  NumSectors,
  SystemSectors,  \* headers and data of the map and the directory
  NumDirect,      \* room for data sectors in a header
  Sizes,          \* sizes, in sectors, that are asked for
  Data,           \* contents of a data sector
  Absent

FileSystemAssumption ==
  /\ NumDirEntries \in Nat \ {0}
  /\ NumSectors \in Nat
  /\ SystemSectors \subseteq 0 .. NumSectors - 1
  /\ Sizes \subseteq Nat
  /\ NumDirect \in Nat

VARIABLES
  table,    \* the directory on the disk
  freeMap,  \* the map on the disk: the sectors in use
  disk,     \* the other sectors
  pc,       \* the write that comes next, or "idle"
  mem,      \* the copies in memory of the operation under way
  open      \* open files: header read by OpenFile::OpenFile, or Absent

vars == <<table, freeMap, disk, pc, mem, open>>

Sectors == 0 .. NumSectors - 1

DirEntry == 1 .. NumDirEntries

Free == [inUse |-> FALSE, name |-> Absent, sector |-> 0]

NoCopies == [table |-> <<>>, map |-> {}, hdr |-> <<>>, sector |-> 0]

(* FileSystem::FileSystem(TRUE): the disk has been formatted.  Data        *)
(* sectors hold garbage.                                                   *)
Init ==
  /\ table = [i \in DirEntry |-> Free]
  /\ freeMap = SystemSectors
  /\ \E d \in Data : disk = [s \in Sectors |-> [kind |-> "data", block |-> d]]
  /\ pc = "idle"
  /\ mem = NoCopies
  /\ open = [n \in Names |-> Absent]

-----------------------------------------------------------------------------
(* Directory::FindIndex; the empty set stands for -1.                      *)
FindIndex(t, name) == {i \in DirEntry : t[i].inUse /\ t[i].name = name}

(* Directory::Find, for a name that is there.                              *)
Find(t, name) == t[Min(FindIndex(t, name))].sector

(* Directory::Add takes the first free entry.                              *)
HasRoom(t, name) == FindIndex(t, name) = {} /\ \E i \in DirEntry : ~ t[i].inUse

Add(t, name, newSector) ==
  [t EXCEPT ![Min({i \in DirEntry : ~ t[i].inUse})] =
     [inUse |-> TRUE, name |-> name, sector |-> newSector]]

(* Directory::Remove only clears inUse.                                    *)
RemoveEntry(t, name) ==
  [t EXCEPT ![Min(FindIndex(t, name))].inUse = FALSE]

(* BitMap::Find, n times: the n first clear bits, in order.                *)
FirstClear(map, n) ==
  CHOOSE q \in [1 .. n -> Sectors \ map] :
    /\ \A i, j \in 1 .. n : i < j => q[i] < q[j]
    /\ \A s \in Sectors \ map : (\E i \in 1 .. n : q[i] = s) \/ \A i \in 1 .. n : q[i] < s

(* Mutant: the sectors are found but not marked.                           *)
AllocateUnmarked(map, n) == [hdr |-> FirstClear(map, n), map |-> map]

(* FileHeader::Allocate when NumClear is enough: the data sectors of the   *)
(* new header and the map that marks them.                                 *)
Allocate(map, n) ==
  LET q == FirstClear(map, n)
  IN  [hdr |-> q, map |-> map \cup {q[i] : i \in 1 .. n}]


(* FileHeader::Deallocate, and Clear of the header's sector.               *)
Deallocate(map, hdr, sector) ==
  (map \ {hdr[i] : i \in DOMAIN hdr}) \ {sector}

-----------------------------------------------------------------------------
(* FileSystem::Create up to its first write.  When it fails, nothing has   *)
(* been written and the copies are dropped, so no step is taken.           *)
CreateBegin(name, size) ==
  /\ pc = "idle"
  /\ FindIndex(table, name) = {}
  /\ freeMap # Sectors
  /\ LET sector == Min(Sectors \ freeMap)
         marked == freeMap \cup {sector}
         file == Allocate(marked, size)
     IN  /\ HasRoom(table, name)
         /\ Cardinality(Sectors \ marked) >= size
         /\ mem' = [table |-> Add(table, name, sector), map |-> file.map,
                    hdr |-> file.hdr, sector |-> sector]
  /\ pc' = "create_header"
  /\ UNCHANGED <<table, freeMap, disk, open>>

(* hdr->WriteBack(sector)                                                  *)
CreateWriteHeader ==
  /\ pc = "create_header"
  /\ disk' = [disk EXCEPT ![mem.sector] = [kind |-> "header", sectors |-> mem.hdr]]
  /\ pc' = "create_directory"
  /\ UNCHANGED <<table, freeMap, mem, open>>

(* directory->WriteBack(directoryFile)                                     *)
CreateWriteDirectory ==
  /\ pc = "create_directory"
  /\ table' = mem.table
  /\ pc' = "create_map"
  /\ UNCHANGED <<freeMap, disk, mem, open>>

(* freeMap->WriteBack(freeMapFile)                                         *)
CreateWriteMap ==
  /\ pc = "create_map"
  /\ freeMap' = mem.map
  /\ pc' = "idle"
  /\ mem' = NoCopies
  /\ UNCHANGED <<table, disk, open>>

(* FileSystem::Remove up to its first write.  Remove does not look whether *)
(* the file is open: that its callers close it first (as fstest.cc:178-179 *)
(* does) is assumed of them.                                               *)
RemoveBegin(name) ==
  /\ pc = "idle"
  /\ FindIndex(table, name) # {}
  /\ open[name] = Absent
  /\ LET sector == Find(table, name)
     IN  mem' = [table |-> RemoveEntry(table, name),
                 map |-> Deallocate(freeMap, disk[sector].sectors, sector),
                 hdr |-> <<>>, sector |-> 0]
  /\ pc' = "remove_map"
  /\ UNCHANGED <<table, freeMap, disk, open>>

RemoveWriteMap ==
  /\ pc = "remove_map"
  /\ freeMap' = mem.map
  /\ pc' = "remove_directory"
  /\ UNCHANGED <<table, disk, mem, open>>

RemoveWriteDirectory ==
  /\ pc = "remove_directory"
  /\ table' = mem.table
  /\ pc' = "idle"
  /\ mem' = NoCopies
  /\ UNCHANGED <<freeMap, disk, open>>

(* FileSystem::Open and OpenFile::OpenFile: the header is read once.       *)
Open(name) ==
  /\ pc = "idle"
  /\ FindIndex(table, name) # {}
  /\ open' = [open EXCEPT ![name] = disk[Find(table, name)].sectors]
  /\ UNCHANGED <<table, freeMap, disk, pc, mem>>

(* OpenFile::~OpenFile                                                     *)
Close(name) ==
  /\ pc = "idle"
  /\ open[name] # Absent
  /\ open' = [open EXCEPT ![name] = Absent]
  /\ UNCHANGED <<table, freeMap, disk, pc, mem>>

(* OpenFile::WriteAt, of one sector.                                       *)
WriteAt(name, i, d) ==
  /\ pc = "idle"
  /\ open[name] # Absent
  /\ i \in DOMAIN open[name]
  /\ disk' = [disk EXCEPT ![open[name][i]] = [kind |-> "data", block |-> d]]
  /\ UNCHANGED <<table, freeMap, pc, mem, open>>

Next ==
  \/ CreateWriteHeader
  \/ CreateWriteDirectory
  \/ CreateWriteMap
  \/ RemoveWriteMap
  \/ RemoveWriteDirectory
  \/ \E name \in Names :
       \/ \E size \in Sizes : CreateBegin(name, size)
       \/ RemoveBegin(name)
       \/ Open(name)
       \/ Close(name)
       \/ \E i \in 1 .. NumDirect, d \in Data : WriteAt(name, i, d)

Spec == Init /\ [][Next]_vars

-----------------------------------------------------------------------------
Listed == {i \in DirEntry : table[i].inUse}

(* The sectors of the file of an entry: its header and its data.           *)
SectorsOf(i) ==
  {table[i].sector}
    \cup {disk[table[i].sector].sectors[k] : k \in DOMAIN disk[table[i].sector].sectors}


(* Create writes the header before the directory (filesys.cc:205-206): at  *)
(* every moment, also when Nachos exits between two writes, each name      *)
(* listed on the disk leads to a header that was written, and no name is   *)
(* listed twice.                                                           *)
NamesLeadToHeaders ==
  \A i \in Listed :
    /\ disk[table[i].sector].kind = "header"
    /\ \A j \in Listed : table[i].name = table[j].name => i = j

(* A file whose header is overwritten has contents no file can have.       *)
Damaged == [i \in {0} |-> Absent]

Contents(name) ==
  IF FindIndex(table, name) = {} THEN Absent
  ELSE LET header == disk[Find(table, name)]
       IN  IF header.kind # "header" THEN Damaged
           ELSE [i \in DOMAIN header.sectors |->
                   LET s == disk[header.sectors[i]]
                   IN  IF s.kind = "data" THEN s.block ELSE Absent]

Stored == [name \in Names |-> Contents(name)]

Files == INSTANCE FlatFiles WITH
           files <- Stored,
           Blocks <- Data \cup {Absent},
           MaxBlocks <- NumDirect

(* The file system keeps each file's contents apart from the others'       *)
(* through any sequence of Create, Remove, Open and writes: a file appears *)
(* and disappears with the write of the directory.                         *)
ImplementsFlatFiles == Files!Spec
=============================================================================
