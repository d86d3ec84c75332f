\* From the disk to the file system.
SPECIFICATION Spec
CONSTANTS
  Names = {f1, f2, f3}
  Data = {d1, d2}
  Absent = Absent
SYMMETRY Symmetry
INVARIANTS
  LatencyExact
  
PROPERTIES
  ImplementsAtomicDisk
  ImplementsBitSet
  ImplementsByteFile
  ImplementsFlatFiles
