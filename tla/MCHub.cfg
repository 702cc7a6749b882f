SPECIFICATION Spec
CONSTANTS
  k1 = k1
  o1 = o1
  l1 = l1
  Unkeyed = {}
  Worker = Worker
  NoKey = NoKey
  Keys = {k1}
  Entries = {a1, s1}
  Deletes = {d1}
  KeyOf <- OneKey
  SyncPosts = {s1}
  Backlog <- NoBacklog
  Orphans = {}
  DeadAfter = 2
  CompactAfter = 1
  MaxLines = 4
  MaxEvents = 4
  MaxFaults = 2
  FaultKinds = {"transient", "permanent", "lostanswer", "journal", "crash", "cancel", "stop"}
INVARIANTS TypeOK AckedNeverLost LookupStillTrue DuplicatesOnlyFromStrays
PROPERTY KeepsPromise
