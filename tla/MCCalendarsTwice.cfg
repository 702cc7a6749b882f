SPECIFICATION Spec
CHECK_DEADLOCK FALSE
CONSTANTS
  n1 = n1
  Names = {n1}
  Creators = {c1, c2}
  NameOf <- OneName
  Deleters = {}
  Pages = {p1}
  Sources = {s1}
  MaxCalendars = 3
  MaxFaults = 1
  FaultKinds = {"cancel"}
INVARIANT NameMadeOnce
