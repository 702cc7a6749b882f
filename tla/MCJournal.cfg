SPECIFICATION Spec
CONSTANTS
  Entries = {e1, e2}
  MaxLines = 4
  MaxFaults = 3
  FaultKinds = {"shortwrite", "fsync", "dirsync", "crash"}
SYMMETRY EntrySymmetry
INVARIANTS TypeOK WithinCap    OneTearOneLine
PROPERTY CompactionKeepsMeaning
