SPECIFICATION Spec
CONSTANTS
  k1 = k1
  o1 = o1
  l1 = l1
  Unkeyed = {l1}
  Worker = Worker
  NoKey = NoKey
  Keys = {k1}
  Entries = {l1, a1, a2}
  Deletes = {}
  KeyOf <- OneKey
  SyncPosts = {}
  Backlog <- UnkeyedBacklog
  Orphans = {}
  DeadAfter = 2
  CompactAfter = 1
  MaxLines = 10
  MaxEvents = 5
  MaxFaults = 3
  FaultKinds = {"transient", "permanent", "journal", "crash", "stop"}
PROPERTY StaleOnlyAfterFailure
