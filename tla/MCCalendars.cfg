SPECIFICATION Spec
CHECK_DEADLOCK FALSE
CONSTANTS
  n1 = n1
  Names = {n1}
  Creators = {c1, c2}
  NameOf <- OneName
  Deleters = {d1}
  Pages = {p1, p2}
  Sources = {s1}
  MaxCalendars = 3
  MaxFaults = 1
  FaultKinds = {"failed", "lostanswer", "cancel", "crash"}
INVARIANTS TypeOK TwinsOnlyFromMishaps MemoryHoldsNoDeleted DeletedStaysHidden MadeIsShown UsedStays
SYMMETRY Symmetric
