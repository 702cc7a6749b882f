SPECIFICATION Spec
CONSTANTS
  k1 = k1
  o1 = o1
  l1 = l1
  Unkeyed = {}
  Worker = Worker
  NoKey = NoKey
  Keys = {k1}
  Entries = {a1}
  Deletes = {}
  KeyOf <- OneKey
  SyncPosts = {}
  Backlog <- NoBacklog
  Orphans = {}
  DeadAfter = 2
  CompactAfter = 1
  MaxLines = 8
  MaxEvents = 3
  MaxFaults = 1
  FaultKinds = {"lostanswer"}
INVARIANT NeverDuplicated
