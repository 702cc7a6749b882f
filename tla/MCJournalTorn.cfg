SPECIFICATION Spec
CONSTANTS
  Entries = {e1, e2}
  MaxLines = 4
  MaxFaults = 1
  FaultKinds = {"crash"}
SYMMETRY EntrySymmetry
INVARIANT NeverUnreadable
