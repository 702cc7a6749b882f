----------------------------- MODULE HubProofs ------------------------------
(***************************************************************************)
(* What holds of the hub at work for any number of entries, deletes, keys, *)
(* lines and faults: nothing that was accepted is lost, the journal keeps  *)
(* the promise of an inbox, a lookup under the key lock stays true, and    *)
(* only a failure brings back stale content.                               *)
(*                                                                         *)
(* The argument for the promise has two halves.  What a step may do to the *)
(* journal is one of a few things (JournalStep), and those keep the        *)
(* promise (Promised).  That a step does no other is because a task that   *)
(* is to mark an entry holds one the journal took (Control).  The locks    *)
(* (LockInv), the types (TypeInv) and the order of deliveries (TurnInv)    *)
(* are built on that invariant, one on the other.                          *)
(***************************************************************************)
EXTENDS Hub, JournalRecordsProofs

-----------------------------------------------------------------------------
\* The journal took e at some time.
Taken(seq, e) == \E i \in DOMAIN seq : seq[i] = e

\* The labels of a task that has an entry in hand.
Working == {"deliver", "queued", "write", "ok", "transient", "permanent"}

Shapes ==
  /\ log \in Seq(Record) /\ order \in Seq(Entries) /\ todo \in Seq(Entries)
  /\ pc \in [Tasks -> Labels]
  /\ applied \subseteq Entries

\* Every line is about an entry the journal took, and such an entry is
\* pending, set aside or stored by Google.
Promised ==
  /\ \A r \in Record : Holds(log, r) => Taken(order, r.id)
  /\ \A e \in Entries : Taken(order, e) => IsPending(e) \/ IsDead(e) \/ e \in applied

\* What tasks, snapshots and requests have in hand was taken, and a task
\* that will mark an entry done has had it stored.
Control ==
  /\ \A e \in Entries : Taken(order, e) => pc[e] # "new"
  /\ \A i \in DOMAIN todo : Taken(order, todo[i])
  /\ \A e \in Entries : pc[e] \in Working => Taken(order, e)
  /\ \A req \in late : req.by \in Entries => Taken(order, req.by)
  /\ pc[Worker] \in Working \ {"deliver"} => todo # <<>>
  /\ \A e \in Entries : pc[e] = "ok" => e \in applied
  /\ pc[Worker] = "ok" => Head(todo) \in applied
  /\ acked \subseteq {e \in Entries : Taken(order, e)}

HubInv == Shapes /\ Promised /\ Control

-----------------------------------------------------------------------------
(***************************************************************************)
(* What a step does to the journal and to what Google has stored.          *)
(***************************************************************************)
Stores(e) == Taken(order, e) /\ applied' = applied \union {e} /\ UNCHANGED journal
Takes(e) ==
  /\ ~Taken(order, e)
  /\ log' = Append(log, EntryRec(e)) /\ order' = Append(order, e)
  /\ UNCHANGED applied
MarksDone(e) ==
  /\ Taken(order, e) /\ e \in applied
  /\ log' = Append(log, DoneRec(e))
  /\ UNCHANGED <<order, applied>>
MarksDead(e) ==
  /\ Taken(order, e)
  /\ log' = Append(log, DeadRec(e))
  /\ UNCHANGED <<order, applied>>
Compacts == log' = Compacted(log) /\ UNCHANGED <<order, applied>>

JournalStep ==
  \/ UNCHANGED <<journal, applied>>
  \/ \E e \in Entries : Stores(e) \/ Takes(e) \/ MarksDone(e) \/ MarksDead(e)
  \/ Compacts

\* A worker with an entry in hand has one that the journal took; a handler
\* has its own.
LEMMA JobInHand ==
  ASSUME HubInv, NEW t \in Tasks, pc[t] \in Working, t \notin Deletes,
         t = Worker => todo # <<>>
  PROVE  Job(t) \in Entries /\ Taken(order, Job(t))
<1>1. CASE t = Worker
  <2>1. Head(todo) = todo[1] /\ 1 \in DOMAIN todo /\ todo[1] \in Entries
    BY <1>1 DEF HubInv, Shapes
  <2> QED
    BY <1>1, <2>1 DEF Job, HubInv, Control
<1>2. CASE t # Worker
  BY <1>2 DEF Job, Tasks, HubInv, Control
<1> QED
  BY <1>1, <1>2

\* Google runs what a task asks for, or what a task that is gone asked for.
LEMMA RanStep ==
  ASSUME NEW req, req.by \in Entries => Taken(order, req.by), Ran(req), UNCHANGED journal,
         applied \subseteq Entries
  PROVE  JournalStep /\ applied \subseteq applied'
BY DEF Ran, JournalStep, Stores

\* One line more, or an error with the line in the file all the same.
LEMMA OneLine ==
  ASSUME NEW r, Journalled(r) \/ NotJournalled(r)
  PROVE  log' = log \/ log' = Append(log, r)
BY DEF Journalled, NotJournalled

\* A log is not the log with a line more.
LEMMA AppendDiffers ==
  ASSUME NEW ls \in Seq(Record), NEW r \in Record
  PROVE  /\ Append(ls, r) # ls /\ Append(ls, r) \in Seq(Record)
         /\ \A x : Holds(Append(ls, r), x) <=> Holds(ls, x) \/ x = r
<1> DEFINE n == Len(ls)
           b == Append(ls, r)
<1>1. /\ n \in Nat /\ DOMAIN ls = 1..n /\ b \in Seq(Record) /\ Len(b) = n + 1
      /\ DOMAIN b = 1..n + 1 /\ b[n + 1] = r /\ \A i \in 1..n : b[i] = ls[i]
  OBVIOUS
<1>2. b # ls
  <2>0. Len(ls) \in Nat /\ Len(b) = Len(ls) + 1
    OBVIOUS
  <2>1. Len(b) # Len(ls)
    BY <2>0
  <2> HIDE DEF b
  <2> QED
    BY <2>1
<1>3. \A i \in 1..n + 1 : i \in 1..n \/ i = n + 1
  BY <1>1
<1>4. n + 1 \in 1..n + 1 /\ \A i \in 1..n : i \in 1..n + 1
  BY <1>1
<1> HIDE DEF n, b
<1>5. ASSUME NEW x PROVE Holds(b, x) <=> Holds(ls, x) \/ x = r
  BY <1>1, <1>3, <1>4, Zenon DEF Holds
<1> QED
  BY <1>1, <1>2, <1>5 DEF b

\* What the journal took stays taken.
LEMMA OrderAppend ==
  ASSUME order \in Seq(Entries), NEW e \in Entries, order' = Append(order, e)
  PROVE  /\ order' \in Seq(Entries)
         /\ Taken(order', e) /\ \A x : Taken(order, x) => Taken(order', x)
         /\ \A x : Taken(order', x) => Taken(order, x) \/ x = e
<1> DEFINE n == Len(order)
<1>1. /\ n \in Nat /\ DOMAIN order = 1..n /\ order' \in Seq(Entries)
      /\ DOMAIN order' = 1..n + 1
      /\ order'[n + 1] = e /\ \A i \in 1..n : order'[i] = order[i]
  OBVIOUS
<1>2. \A i \in 1..n + 1 : i \in 1..n \/ i = n + 1
  BY <1>1
<1>3. n + 1 \in 1..n + 1 /\ \A i \in 1..n : i \in 1..n + 1
  BY <1>1
<1> HIDE DEF n
<1> QED
  BY <1>1, <1>2, <1>3 DEF Taken

LEMMA OrderKept ==
  ASSUME Shapes, JournalStep
  PROVE  order' \in Seq(Entries) /\ \A x : Taken(order, x) => Taken(order', x)
<1>1. CASE order' = order
  BY <1>1 DEF Shapes
<1>2. CASE \E e \in Entries : Takes(e)
  BY <1>2, OrderAppend DEF Takes, Shapes
<1> QED
  BY <1>1, <1>2 DEF JournalStep, Stores, MarksDone, MarksDead, Compacts, journal

-----------------------------------------------------------------------------
(***************************************************************************)
(* Each action does one of these things.                                   *)
(***************************************************************************)
LEMMA PostJournal ==
  ASSUME HubInv, NEW e \in Entries, Post(e)
  PROVE  JournalStep
<1>1. ~Taken(order, e)
  BY DEF Post, HubInv, Control
<1>2. log' = log \/ log' = Append(log, EntryRec(e))
  BY OneLine DEF Post
<1>3. EntryRec(e) \in Record /\ applied' = applied
  BY DEF EntryRec, Record, Post, google
<1>4. CASE log' = log
  BY <1>3, <1>4 DEF Post, JournalStep, journal
<1>5. CASE log' = Append(log, EntryRec(e))
  <2>1. log' # log
    BY <1>3, <1>5, AppendDiffers DEF HubInv, Shapes
  <2>2. order' = Append(order, e)
    BY <2>1 DEF Post
  <2> QED
    BY <1>1, <1>3, <1>5, <2>2 DEF JournalStep, Takes
<1> QED
  BY <1>2, <1>4, <1>5

LEMMA WriteJournal ==
  ASSUME HubInv, NEW t \in Tasks, Write(t)
  PROVE  JournalStep /\ applied \subseteq applied'
<1>1. Request(t).by \in Entries => Taken(order, Request(t).by)
  <2>1. Request(t).by = Job(t)
    BY DEF Request
  <2>2. CASE t \in Deletes
    BY <2>1, <2>2, TasksAssumption DEF Job
  <2>3. CASE t \notin Deletes
    <3>1. pc[t] \in Working /\ (t = Worker => todo # <<>>)
      BY DEF Write, Working, HubInv, Control
    <3> QED
      BY <2>1, <2>3, <3>1, JobInHand
  <2> QED
    BY <2>2, <2>3
<1>2. UNCHANGED journal
  BY DEF Write
<1>3. CASE Ran(Request(t))
  BY <1>1, <1>2, <1>3, RanStep DEF HubInv, Shapes
<1>4. CASE applied' = applied
  BY <1>2, <1>4 DEF JournalStep
<1> QED
  BY <1>3, <1>4 DEF Write

LEMMA SyncAnswerJournal ==
  ASSUME HubInv, NEW e \in Entries, SyncAnswer(e)
  PROVE  JournalStep
<1>1. Taken(order, e)
  BY DEF SyncAnswer, HubInv, Control, Working
<1>2. order' = order /\ applied' = applied
  BY DEF SyncAnswer, google
<1>3. CASE pc[e] = "ok"
  <2>1. e \in applied
    BY <1>3 DEF HubInv, Control
  <2>2. log' = log \/ log' = Append(log, DoneRec(e))
    BY <1>3, OneLine DEF SyncAnswer
  <2> QED
    BY <1>1, <1>2, <2>1, <2>2 DEF JournalStep, MarksDone, journal
<1>4. CASE pc[e] # "ok"
  BY <1>2, <1>4 DEF SyncAnswer, JournalStep, journal
<1> QED
  BY <1>3, <1>4

LEMMA SettleJournal ==
  ASSUME HubInv, Settle
  PROVE  JournalStep
<1> DEFINE e == Head(todo)
<1>1. todo # <<>> /\ pc[Worker] \in Working
  BY DEF Settle, SettleOk, SettleTransient, SettlePermanent, Working
<1>2. e \in Entries /\ Taken(order, e)
  <2>1. Worker \in Tasks /\ Worker \notin Deletes
    BY TasksAssumption DEF Tasks
  <2> QED
    BY <1>1, <2>1, JobInHand DEF Job
<1>3. order' = order /\ applied' = applied
  BY DEF Settle, google
<1> HIDE DEF e
<1>4. CASE SettleOk(e)
  <2>1. e \in applied
    BY <1>4 DEF SettleOk, HubInv, Control, e
  <2>2. log' = log \/ log' = Append(log, DoneRec(e))
    BY <1>4, OneLine DEF SettleOk
  <2> QED
    BY <1>2, <1>3, <2>1, <2>2 DEF JournalStep, MarksDone, journal
<1>5. CASE SettleTransient(e)
  BY <1>3, <1>5 DEF SettleTransient, JournalStep, journal
<1>6. CASE SettlePermanent(e)
  <2>1. log' = log \/ log' = Append(log, DeadRec(e))
    BY <1>6, OneLine DEF SettlePermanent
  <2> QED
    BY <1>2, <1>3, <2>1 DEF JournalStep, MarksDead, journal
<1> QED
  BY <1>4, <1>5, <1>6 DEF Settle, e

LEMMA LateArrivalJournal ==
  ASSUME HubInv, LateArrival
  PROVE  JournalStep /\ applied \subseteq applied'
<1>1. PICK req \in late :
        \/ Possible(req) /\ Ran(req) /\ Strayed(req.key)
        \/ ~Possible(req) /\ UNCHANGED <<events, nextId, applied, stray>>
  BY DEF LateArrival
<1>2. UNCHANGED journal
  BY DEF LateArrival
<1>3. req.by \in Entries => Taken(order, req.by)
  BY DEF HubInv, Control
<1>4. CASE Ran(req)
  BY <1>2, <1>3, <1>4, RanStep DEF HubInv, Shapes
<1>5. CASE UNCHANGED <<events, nextId, applied, stray>>
  BY <1>2, <1>5 DEF JournalStep
<1> QED
  BY <1>1, <1>4, <1>5

\* Every step does.
LEMMA NextJournal ==
  ASSUME HubInv, [Next]_vars
  PROVE  JournalStep
<1>1. CASE \E e \in Entries : Post(e) \/ SyncAnswer(e)
  BY <1>1, PostJournal, SyncAnswerJournal
<1>2. CASE \E t \in Tasks : Write(t)
  BY <1>2, WriteJournal
<1>3. CASE Settle \/ LateArrival
  BY <1>3, SettleJournal, LateArrivalJournal
<1>4. CASE EndPass
  BY <1>4 DEF EndPass, JournalStep, Compacts, journal, google
<1>5. CASE \/ \E t \in Tasks : Deliver(t) \/ Lookup(t) \/ Cancel(t)
           \/ \E d \in Deletes : DeleteQueue(d) \/ DeleteLookup(d)
           \/ BeginPass \/ SkipOrphan \/ LastPass
           \/ Authenticated \/ Stop \/ Crash \/ Start \/ UNCHANGED vars
  <2>1. UNCHANGED <<journal, applied>>
    BY <1>5 DEF Deliver, Lookup, Cancel, DeleteQueue, DeleteLookup, BeginPass,
         SkipOrphan, LastPass, Authenticated, Stop, Crash, Start, vars, google
  <2> QED
    BY <2>1 DEF JournalStep
<1>6. Worker \in Tasks /\ Entries \subseteq Tasks /\ Deletes \subseteq Tasks
      /\ Handlers \subseteq Tasks
  BY DEF Tasks, Handlers
<1> QED
  BY <1>1, <1>2, <1>3, <1>4, <1>5, <1>6
  DEF Next, WorkerStep, HandlerStep, DeleteStep

-----------------------------------------------------------------------------
(***************************************************************************)
(* What each of these things does to one entry.                            *)
(***************************************************************************)
InLog(e) == Holds(log, EntryRec(e))

\* The three kinds of record of one entry, and of two.
LEMMA RecordsDiffer ==
  \A a, b \in Entries :
    /\ EntryRec(a) \in Record /\ DoneRec(a) \in Record /\ DeadRec(a) \in Record
    /\ EntryRec(a).id = a /\ DoneRec(a).id = a /\ DeadRec(a).id = a
    /\ EntryRec(a) # DoneRec(b) /\ EntryRec(a) # DeadRec(b) /\ DoneRec(a) # DeadRec(b)
    /\ (EntryRec(a) = EntryRec(b) => a = b) /\ (DoneRec(a) = DoneRec(b) => a = b)
    /\ (DeadRec(a) = DeadRec(b) => a = b)
BY DEF EntryRec, DoneRec, DeadRec, Record

\* An entry that was not taken is not in the log, in any way.
LEMMA NotTaken ==
  ASSUME HubInv, NEW e \in Entries, ~Taken(order, e)
  PROVE  ~InLog(e) /\ ~Holds(log, DoneRec(e)) /\ ~Holds(log, DeadRec(e))
BY RecordsDiffer DEF HubInv, Promised, InLog

LEMMA TakesEffect ==
  ASSUME HubInv, NEW e \in Entries, Takes(e)
  PROVE  /\ IsPending(e)' /\ ~IsDead(e)'
         /\ \A x \in Entries \ {e} : /\ IsPending(x)' <=> IsPending(x)
                                     /\ IsDead(x)' <=> IsDead(x)
<1>1. \A x : Holds(log', x) <=> Holds(log, x) \/ x = EntryRec(e)
  BY RecordsDiffer, AppendDiffers DEF Takes, HubInv, Shapes
<1>2. ~Holds(log, DoneRec(e)) /\ ~Holds(log, DeadRec(e))
  BY NotTaken DEF Takes
<1> QED
  BY <1>1, <1>2, RecordsDiffer DEF IsPending, IsDead, Marked

LEMMA MarksDoneEffect ==
  ASSUME HubInv, NEW e \in Entries, MarksDone(e)
  PROVE  /\ ~IsPending(e)' /\ (IsDead(e)' <=> IsDead(e))
         /\ \A x \in Entries \ {e} : /\ IsPending(x)' <=> IsPending(x)
                                     /\ IsDead(x)' <=> IsDead(x)
<1>1. \A x : Holds(log', x) <=> Holds(log, x) \/ x = DoneRec(e)
  BY RecordsDiffer, AppendDiffers DEF MarksDone, HubInv, Shapes
<1> QED
  BY <1>1, RecordsDiffer DEF IsPending, IsDead, Marked

LEMMA MarksDeadEffect ==
  ASSUME HubInv, NEW e \in Entries, MarksDead(e)
  PROVE  /\ ~IsPending(e)' /\ (IsDead(e)' <=> InLog(e)) /\ (IsDead(e) => IsDead(e)')
         /\ \A x \in Entries \ {e} : /\ IsPending(x)' <=> IsPending(x)
                                     /\ IsDead(x)' <=> IsDead(x)
<1>1. \A x : Holds(log', x) <=> Holds(log, x) \/ x = DeadRec(e)
  BY RecordsDiffer, AppendDiffers DEF MarksDead, HubInv, Shapes
<1> QED
  BY <1>1, RecordsDiffer DEF IsPending, IsDead, Marked, InLog

LEMMA CompactsEffect ==
  ASSUME HubInv, Compacts
  PROVE  /\ log' \in Seq(Record)
         /\ \A x : Holds(log', x) => Holds(log, x)
         /\ \A e \in Entries : /\ IsPending(e)' <=> IsPending(e)
                               /\ IsDead(e)' <=> IsDead(e)
<1>1. log \in Seq(Record) /\ log' = Compacted(log)
  BY DEF HubInv, Shapes, Compacts
<1>2. \A x : Holds(log', x) => Holds(log, x) /\ x.kind # "done"
  BY <1>1, CompactedAddsNothing
<1>3. ASSUME NEW e \in Entries PROVE IsDead(e)' <=> IsDead(e)
  <2>1. IsDead(e) => IsDead(e)'
    BY <1>1, CompactedKeepsDead DEF IsDead
  <2>2. IsDead(e)' => IsDead(e)
    BY <1>2 DEF IsDead
  <2> QED
    BY <2>1, <2>2
<1>4. ASSUME NEW e \in Entries, IsPending(e) PROVE IsPending(e)'
  <2>1. InLog(e) /\ ~Holds(log, DoneRec(e)) /\ ~Holds(log, DeadRec(e))
    BY <1>4 DEF IsPending, Marked, InLog
  <2>2. Holds(log', EntryRec(e))
    BY <1>1, <2>1, CompactedKeepsUndelivered DEF InLog
  <2> QED
    BY <1>2, <2>1, <2>2 DEF IsPending, Marked
<1>5. ASSUME NEW e \in Entries, IsPending(e)' PROVE IsPending(e)
  <2>1. Holds(log', EntryRec(e)) /\ ~Holds(log', DeadRec(e))
    BY <1>5 DEF IsPending, Marked
  <2>2. Holds(log, EntryRec(e))
    BY <1>2, <2>1
  <2>3. ~Holds(log, DeadRec(e))
    BY <1>1, <2>1, <2>2, CompactedKeepsDead
  <2>4. ~Holds(log, DoneRec(e))
    BY <1>1, <2>1, <2>3, CompactedDropsDelivered
  <2> QED
    BY <2>2, <2>3, <2>4 DEF IsPending, Marked
<1> QED
  BY <1>1, <1>2, <1>3, <1>4, <1>5, CompactedType

-----------------------------------------------------------------------------
(***************************************************************************)
(* The promise is kept, whatever a step does to the journal.               *)
(***************************************************************************)
LEMMA PromisedStep ==
  ASSUME HubInv, JournalStep
  PROVE  Promised' /\ log' \in Seq(Record) /\ applied' \subseteq Entries
<1>0. log \in Seq(Record) /\ applied \subseteq Entries /\ order \in Seq(Entries)
  BY DEF HubInv, Shapes
<1>a. /\ \A r \in Record : Holds(log, r) => Taken(order, r.id)
      /\ \A e \in Entries : Taken(order, e) => IsPending(e) \/ IsDead(e) \/ e \in applied
  BY DEF HubInv, Promised
<1>1. CASE UNCHANGED journal /\ applied \subseteq applied' /\ applied' \subseteq Entries
  <2>1. log' = log /\ order' = order
    BY <1>1 DEF journal
  <2> QED
    BY <1>0, <1>1, <1>a, <2>1 DEF Promised, IsPending, IsDead
<1>2. ASSUME NEW e \in Entries, Stores(e)
      PROVE  applied \subseteq applied' /\ applied' \subseteq Entries /\ UNCHANGED journal
  BY <1>0, <1>2 DEF Stores
<1>3. ASSUME NEW e \in Entries, NEW r \in Record, r.id = e,
             log' = Append(log, r), applied' = applied,
             Taken(order', e), \A x : Taken(order, x) => Taken(order', x),
             \A x : Taken(order', x) => Taken(order, x) \/ x = e,
             IsPending(e)' \/ IsDead(e)' \/ e \in applied,
             \A x \in Entries \ {e} : /\ IsPending(x)' <=> IsPending(x)
                                      /\ IsDead(x)' <=> IsDead(x)
      PROVE  Promised' /\ log' \in Seq(Record) /\ applied' \subseteq Entries
  <2>1. log' \in Seq(Record) /\ \A x : Holds(log', x) <=> Holds(log, x) \/ x = r
    BY <1>0, <1>3, AppendDiffers
  <2>2. \A x \in Record : Holds(log', x) => Taken(order', x.id)
    BY <1>3, <1>a, <2>1
  <2>3. ASSUME NEW x \in Entries, Taken(order', x)
        PROVE  IsPending(x)' \/ IsDead(x)' \/ x \in applied'
    <3>1. CASE x = e
      BY <1>3, <3>1
    <3>2. CASE x # e
      <4>1. Taken(order, x)
        BY <1>3, <2>3, <3>2
      <4>2. IsPending(x)' <=> IsPending(x)
        BY <1>3, <3>2, Zenon
      <4>3. IsDead(x)' <=> IsDead(x)
        BY <1>3, <3>2, Zenon
      <4> QED
        BY <1>3, <1>a, <4>1, <4>2, <4>3
    <3> QED
      BY <3>1, <3>2
  <2> QED
    BY <1>0, <1>3, <2>1, <2>2, <2>3 DEF Promised
<1>4. ASSUME NEW e \in Entries, Takes(e)
      PROVE  Promised' /\ log' \in Seq(Record) /\ applied' \subseteq Entries
  <2>1. /\ Taken(order', e) /\ \A x : Taken(order, x) => Taken(order', x)
        /\ \A x : Taken(order', x) => Taken(order, x) \/ x = e
    BY <1>0, <1>4, OrderAppend DEF Takes
  <2> QED
    BY <1>3, <1>4, <2>1, RecordsDiffer, TakesEffect DEF Takes
<1>5. ASSUME NEW e \in Entries, MarksDone(e)
      PROVE  Promised' /\ log' \in Seq(Record) /\ applied' \subseteq Entries
  <2>1. \A x : Taken(order, x) <=> Taken(order', x)
    BY <1>5 DEF MarksDone
  <2> QED
    BY <1>3, <1>5, <2>1, RecordsDiffer, MarksDoneEffect DEF MarksDone
<1>6. ASSUME NEW e \in Entries, MarksDead(e)
      PROVE  Promised' /\ log' \in Seq(Record) /\ applied' \subseteq Entries
  <2>1. \A x : Taken(order, x) <=> Taken(order', x)
    BY <1>6 DEF MarksDead
  <2>2. IsDead(e)' \/ e \in applied
    BY <1>6, <1>a, MarksDeadEffect DEF MarksDead, IsPending, InLog
  <2> QED
    BY <1>3, <1>6, <2>1, <2>2, RecordsDiffer, MarksDeadEffect DEF MarksDead
<1>7. CASE Compacts
  <2>1. (\A x : Taken(order, x) <=> Taken(order', x)) /\ applied' = applied
    BY <1>7 DEF Compacts
  <2> QED
    <3>1. /\ log' \in Seq(Record) /\ \A x : Holds(log', x) => Holds(log, x)
          /\ \A e \in Entries : /\ IsPending(e)' <=> IsPending(e)
                                /\ IsDead(e)' <=> IsDead(e)
      BY <1>7, CompactsEffect
    <3>2. \A x \in Record : Holds(log', x) => Taken(order', x.id)
      BY <1>a, <2>1, <3>1
    <3>3. ASSUME NEW e \in Entries, Taken(order', e)
          PROVE  IsPending(e)' \/ IsDead(e)' \/ e \in applied'
      <4>1. Taken(order, e)
        BY <2>1, <3>3
      <4>2. IsPending(e)' <=> IsPending(e)
        BY <3>1, Zenon
      <4>3. IsDead(e)' <=> IsDead(e)
        BY <3>1, Zenon
      <4> QED
        BY <1>a, <2>1, <4>1, <4>2, <4>3
    <3> QED
      BY <1>0, <2>1, <3>1, <3>2, <3>3 DEF Promised
<1>8. CASE UNCHANGED <<journal, applied>>
  BY <1>0, <1>1, <1>8
<1> QED
  BY <1>1, <1>2, <1>4, <1>5, <1>6, <1>7, <1>8 DEF JournalStep

-----------------------------------------------------------------------------
(***************************************************************************)
(* The control: what the tasks have in hand.                               *)
(***************************************************************************)
\* What Control needs of a step that moves task t to a label and leaves the
\* worker's snapshot alone.
MayMove(t, label) ==
  /\ label # "new"
  /\ t \in Entries /\ label \in Working => Taken(order, t)
  /\ t \in Entries /\ label = "ok" => t \in applied'
  /\ t = Worker /\ label \in Working \ {"deliver"} => todo # <<>>
  /\ t = Worker /\ label = "ok" => Head(todo) \in applied'

\* What it needs of every step but a post: the journal takes no new entry,
\* nothing stored is forgotten, and late requests are about taken entries.
Holding ==
  /\ UNCHANGED <<order, acked>>
  /\ applied \subseteq applied'
  /\ \A req \in late' : req.by \in Entries => Taken(order, req.by)

LEMMA MoveControl ==
  ASSUME HubInv, NEW t \in Tasks, NEW label, MayMove(t, label), Holding,
         Goto(t, label), UNCHANGED todo
  PROVE  Control'
<1>0. /\ pc \in [Tasks -> Labels] /\ Worker \in Tasks /\ Entries \subseteq Tasks
      /\ Worker \notin Entries
  BY TasksAssumption DEF HubInv, Shapes, Tasks
<1>1. \A x : Taken(order', x) <=> Taken(order, x)
  BY DEF Holding
<1>2. \A u \in Tasks : pc'[u] = IF u = t THEN label ELSE pc[u]
  BY <1>0 DEF Goto
<1>3. \A e \in Entries : Taken(order', e) => pc'[e] # "new"
  BY <1>0, <1>1, <1>2 DEF MayMove, HubInv, Control
<1>4. \A i \in DOMAIN todo' : Taken(order', todo'[i])
  BY <1>1 DEF HubInv, Control
<1>5. \A e \in Entries : pc'[e] \in Working => Taken(order', e)
  BY <1>0, <1>1, <1>2 DEF MayMove, HubInv, Control
<1>6. \A req \in late' : req.by \in Entries => Taken(order', req.by)
  BY <1>1 DEF Holding
<1>7. pc'[Worker] \in Working \ {"deliver"} => todo' # <<>>
  BY <1>0, <1>2 DEF MayMove, HubInv, Control
<1>8. \A e \in Entries : pc'[e] = "ok" => e \in applied'
  BY <1>0, <1>2 DEF MayMove, Holding, HubInv, Control
<1>9. pc'[Worker] = "ok" => Head(todo') \in applied'
  BY <1>0, <1>2 DEF MayMove, Holding, HubInv, Control
<1>10. acked' \subseteq {e \in Entries : Taken(order', e)}
  BY <1>1 DEF Holding, HubInv, Control
<1> QED
  BY <1>3, <1>4, <1>5, <1>6, <1>7, <1>8, <1>9, <1>10 DEF Control

\* A step that moves no task.
LEMMA StayControl ==
  ASSUME HubInv, Holding, UNCHANGED <<pc, todo>>
  PROVE  Control'
<1>1. \A x : Taken(order', x) <=> Taken(order, x)
  BY DEF Holding
<1>2. \A i \in DOMAIN todo' : Taken(order', todo'[i])
  BY <1>1 DEF HubInv, Control
<1>3. \A req \in late' : req.by \in Entries => Taken(order', req.by)
  BY <1>1 DEF Holding
<1>4. acked' \subseteq {e \in Entries : Taken(order', e)}
  BY <1>1 DEF Holding, HubInv, Control
<1>5. (\A e \in Entries : Taken(order', e) => pc'[e] # "new")
      /\ \A e \in Entries : pc'[e] \in Working => Taken(order', e)
  BY <1>1 DEF HubInv, Control
<1>6. /\ pc'[Worker] \in Working \ {"deliver"} => todo' # <<>>
      /\ \A e \in Entries : pc'[e] = "ok" => e \in applied'
      /\ pc'[Worker] = "ok" => Head(todo') \in applied'
  BY DEF Holding, HubInv, Control
<1> QED
  BY <1>2, <1>3, <1>4, <1>5, <1>6 DEF Control

LEMMA PostControl ==
  ASSUME HubInv, NEW e \in Entries, Post(e)
  PROVE  Control'
<1>0. /\ pc \in [Tasks -> Labels] /\ Worker \in Tasks /\ Entries \subseteq Tasks
      /\ Worker # e /\ EntryRec(e) \in Record
  BY TasksAssumption, RecordsDiffer DEF HubInv, Shapes, Tasks
<1>1. \A x : Taken(order, x) => Taken(order', x)
  <2>1. Shapes /\ JournalStep
    BY PostJournal DEF HubInv
  <2> QED
    BY <2>1, OrderKept
<1>2. /\ todo' = todo /\ late' = late /\ applied' = applied
      /\ \/ acked' = acked
         \/ acked' = acked \union {e} /\ Journalled(EntryRec(e))
  BY DEF Post, worker, google
<1>3. \E label \in Labels : Goto(e, label) /\ label \in {"answered", "deliver"}
                            /\ (label = "deliver" => Journalled(EntryRec(e)))
  BY DEF Post, Labels
<1>4. PICK label \in Labels : Goto(e, label) /\ label \in {"answered", "deliver"}
                              /\ (label = "deliver" => Journalled(EntryRec(e)))
  BY <1>3
<1>5. \A u \in Tasks : pc'[u] = IF u = e THEN label ELSE pc[u]
  BY <1>0, <1>4 DEF Goto
<1>6. Journalled(EntryRec(e)) => Taken(order', e)
  <2> SUFFICES ASSUME Journalled(EntryRec(e)) PROVE Taken(order', e)
    OBVIOUS
  <2>1. log' # log
    BY <1>0, AppendDiffers DEF Journalled, HubInv, Shapes
  <2>2. order' = Append(order, e)
    BY <2>1 DEF Post
  <2> QED
    BY <2>2, OrderAppend DEF HubInv, Shapes
<1>7. \A x : Taken(order', x) => Taken(order, x) \/ x = e
  <2>1. CASE order' = order
    BY <2>1
  <2>2. CASE order' = Append(order, e)
    BY <2>2, OrderAppend DEF HubInv, Shapes
  <2> QED
    BY <2>1, <2>2 DEF Post
<1>8. \A x \in Entries : Taken(order', x) => pc'[x] # "new"
  BY <1>0, <1>4, <1>5, <1>7 DEF HubInv, Control
<1>9. \A i \in DOMAIN todo' : Taken(order', todo'[i])
  BY <1>1, <1>2 DEF HubInv, Control
<1>10. \A x \in Entries : pc'[x] \in Working => Taken(order', x)
  BY <1>0, <1>1, <1>4, <1>5, <1>6 DEF HubInv, Control, Working
<1>11. \A req \in late' : req.by \in Entries => Taken(order', req.by)
  BY <1>1, <1>2 DEF HubInv, Control
<1>12. /\ pc'[Worker] \in Working \ {"deliver"} => todo' # <<>>
       /\ \A x \in Entries : pc'[x] = "ok" => x \in applied'
       /\ pc'[Worker] = "ok" => Head(todo') \in applied'
  BY <1>0, <1>2, <1>4, <1>5 DEF HubInv, Control
<1>13. acked' \subseteq {x \in Entries : Taken(order', x)}
  BY <1>1, <1>2, <1>6 DEF HubInv, Control
<1> QED
  BY <1>8, <1>9, <1>10, <1>11, <1>12, <1>13 DEF Control

\* deliver() goes on only for an entry in hand.
LEMMA DeliverControl ==
  ASSUME HubInv, NEW t \in Tasks, t \notin Deletes, Deliver(t) \/ Lookup(t)
  PROVE  Control'
<1>1. PICK label \in {"write", "queued", "transient", "permanent"} : Goto(t, label)
  BY DEF Deliver, Lookup
<1>2. pc[t] \in Working /\ (t = Worker => todo # <<>>)
  BY DEF Deliver, Lookup, Runnable, Working, HubInv, Control
<1>3. MayMove(t, label)
  BY <1>1, <1>2 DEF MayMove, HubInv, Control
<1>4. Holding /\ UNCHANGED todo
  BY DEF Deliver, Lookup, Holding, journal, worker, google, HubInv, Control
<1> QED
  BY <1>1, <1>3, <1>4, MoveControl

\* A delivery is ok only once Google has stored the event.
LEMMA WriteControl ==
  ASSUME HubInv, NEW t \in Tasks, Write(t)
  PROVE  Control'
<1>1. Holding /\ UNCHANGED todo
  BY WriteJournal DEF Write, Holding, journal, worker, HubInv, Control
<1>2. CASE pc' = pc
  BY <1>1, <1>2, StayControl
<1>3. CASE Ran(Request(t)) /\ Goto(t, IF t \in Deletes THEN "answered" ELSE "ok")
  <2>1. CASE t \in Deletes
    <3>1. MayMove(t, "answered")
      BY <2>1, TasksAssumption DEF MayMove, Working
    <3> QED
      BY <1>1, <1>3, <2>1, <3>1, MoveControl
  <2>2. CASE t \notin Deletes
    <3>1. pc[t] \in Working /\ (t = Worker => todo # <<>>)
      BY DEF Write, Working, HubInv, Control
    <3>2. Job(t) \in Entries /\ (t \in Entries => Taken(order, t))
      BY <2>2, <3>1, JobInHand DEF HubInv, Control
    <3>3. Job(t) \in applied'
      BY <1>3, <3>2 DEF Ran, Request
    <3>4. (t \in Entries => Job(t) = t) /\ (t = Worker => Job(t) = Head(todo))
      BY TasksAssumption DEF Job
    <3>5. MayMove(t, "ok")
      BY <3>1, <3>2, <3>3, <3>4 DEF MayMove
    <3> QED
      BY <1>1, <1>3, <2>2, <3>5, MoveControl
  <2> QED
    BY <2>1, <2>2
<1>4. CASE \E label \in {"answered", "transient", "permanent"} :
             Goto(t, IF t \in Deletes THEN "answered" ELSE label)
  <2>1. PICK label \in {"answered", "transient", "permanent"} : Goto(t, label)
    BY <1>4
  <2>2. pc[t] \in Working /\ (t = Worker => todo # <<>>)
    BY DEF Write, Working, HubInv, Control
  <2>3. MayMove(t, label)
    BY <2>1, <2>2 DEF MayMove, Working, HubInv, Control
  <2> QED
    BY <1>1, <2>1, <2>3, MoveControl
<1> QED
  BY <1>2, <1>3, <1>4 DEF Write

\* A handler that answers, a delete that queues or looks up, the end of a
\* pass, a handler that is dropped: none goes on with an entry.
LEMMA LeaveControl ==
  ASSUME HubInv, NEW t \in Tasks,
         \/ t \in Entries /\ SyncAnswer(t)
         \/ t \in Deletes /\ (DeleteQueue(t) \/ DeleteLookup(t))
         \/ t = Worker /\ EndPass
         \/ t \in Handlers /\ Cancel(t)
  PROVE  Control'
<1>0. Worker \notin Entries \union Deletes /\ Entries \intersect Deletes = {}
  BY TasksAssumption
<1>1. CASE t \in Entries /\ SyncAnswer(t)
  <2>1. MayMove(t, "answered")
    BY <1>0, <1>1 DEF MayMove, Working
  <2>2. Holding /\ UNCHANGED todo /\ Goto(t, "answered")
    BY <1>1 DEF SyncAnswer, Holding, worker, google, HubInv, Control
  <2> QED
    BY <2>1, <2>2, MoveControl
<1>2. CASE t \in Deletes /\ (DeleteQueue(t) \/ DeleteLookup(t))
  <2>1. PICK label \in {"queued", "write", "answered"} : Goto(t, label)
    BY <1>2 DEF DeleteQueue, DeleteLookup
  <2>2. MayMove(t, label)
    BY <1>0, <1>2, <2>1 DEF MayMove
  <2>3. Holding /\ UNCHANGED todo
    BY <1>2 DEF DeleteQueue, DeleteLookup, Holding, journal, worker, google, HubInv, Control
  <2> QED
    BY <2>1, <2>2, <2>3, MoveControl
<1>3. CASE t = Worker /\ EndPass
  <2>1. MayMove(t, "idle")
    BY <1>0, <1>3 DEF MayMove, Working
  <2>2. Holding /\ UNCHANGED todo /\ Goto(t, "idle")
    BY <1>3 DEF EndPass, Holding, google, HubInv, Control
  <2> QED
    BY <2>1, <2>2, MoveControl
<1>4. CASE t \in Handlers /\ Cancel(t)
  <2>1. MayMove(t, "dropped")
    BY <1>0, <1>4 DEF MayMove, Working, Handlers
  <2>2. UNCHANGED <<order, acked, applied, todo>> /\ Goto(t, "dropped")
    <3>1. Cancel(t)
      BY <1>4
    <3> QED
      BY <3>1 DEF Cancel, journal, worker
  <2>3. \/ late' = late
        \/ pc[t] = "write" /\ late' = late \union {Request(t)}
    <3>1. Cancel(t)
      BY <1>4
    <3>2. CASE LeftBehind({})
      BY <3>2 DEF LeftBehind
    <3>3. CASE pc[t] = "write" /\ LeftBehind({Request(t)})
      BY <3>3 DEF LeftBehind
    <3> QED
      BY <3>1, <3>2, <3>3 DEF Cancel
  <2>4. pc[t] = "write" /\ t \in Entries => Taken(order, t)
    BY DEF Working, HubInv, Control
  <2>5. Request(t).by = t
    BY <1>0, <1>4 DEF Request, Job, Handlers
  <2>6. Holding
    BY <2>2, <2>3, <2>4, <2>5 DEF Holding, HubInv, Control
  <2> QED
    BY <2>1, <2>2, <2>6, MoveControl
<1> QED
  BY <1>1, <1>2, <1>3, <1>4

\* A snapshot is of entries the journal took.
LEMMA BeginPassControl ==
  ASSUME HubInv, BeginPass
  PROVE  Control' /\ todo' \in Seq(Entries)
<1>0. /\ log \in Seq(Record) /\ pc \in [Tasks -> Labels] /\ Worker \in Tasks
      /\ Entries \subseteq Tasks /\ Worker \notin Entries
  BY TasksAssumption DEF HubInv, Shapes, Tasks
<1> DEFINE P == Pending(log)
<1>1. /\ P \in Seq(Record) /\ todo' = [i \in DOMAIN P |-> P[i].id]
      /\ \A i \in DOMAIN P : Holds(log, P[i])
  BY <1>0, PendingElements DEF BeginPass, Snapshot
<1> HIDE DEF P
<1>2. /\ Len(P) \in Nat /\ DOMAIN P = 1..Len(P)
      /\ \A i \in DOMAIN P : P[i] \in Record /\ P[i].id \in Entries
  <2>1. Len(P) \in Nat /\ DOMAIN P = 1..Len(P) /\ \A i \in DOMAIN P : P[i] \in Record
    BY <1>1
  <2> QED
    BY <2>1 DEF Record
<1>3. todo' \in Seq(Entries) /\ DOMAIN todo' = DOMAIN P
  <2>1. todo' \in [1..Len(P) -> Entries]
    BY <1>1, <1>2
  <2> QED
    BY <1>2, <2>1
<1>4. \A i \in DOMAIN todo' : Taken(order, todo'[i])
  BY <1>1, <1>2, <1>3 DEF HubInv, Promised
<1>5. /\ UNCHANGED <<order, acked, applied, late>>
      /\ pc' = [pc EXCEPT ![Worker] = "deliver"]
  BY DEF BeginPass, Goto, journal, google
<1>6. \A x : Taken(order', x) <=> Taken(order, x)
  BY <1>5
<1>7. pc'[Worker] = "deliver" /\ \A e \in Entries : pc'[e] = pc[e]
  BY <1>0, <1>5
<1>8. (\A i \in DOMAIN todo' : Taken(order', todo'[i]))
      /\ (\A req \in late' : req.by \in Entries => Taken(order', req.by))
      /\ (\A e \in Entries : Taken(order', e) => pc'[e] # "new")
      /\ (\A e \in Entries : pc'[e] \in Working => Taken(order', e))
      /\ acked' \subseteq {e \in Entries : Taken(order', e)}
  BY <1>4, <1>5, <1>6, <1>7 DEF HubInv, Control
<1>9. /\ pc'[Worker] \in Working \ {"deliver"} => todo' # <<>>
      /\ \A e \in Entries : pc'[e] = "ok" => e \in applied'
      /\ pc'[Worker] = "ok" => Head(todo') \in applied'
  BY <1>5, <1>7 DEF HubInv, Control
<1> QED
  BY <1>3, <1>8, <1>9 DEF Control

\* The worker goes on to the rest of its snapshot.
LEMMA NextEntryControl ==
  ASSUME HubInv, SkipOrphan \/ Settle
  PROVE  Control' /\ todo' \in Seq(Entries)
<1>0. /\ pc \in [Tasks -> Labels] /\ Worker \in Tasks
      /\ Entries \subseteq Tasks /\ Worker \notin Entries /\ todo \in Seq(Entries)
  BY TasksAssumption DEF HubInv, Shapes, Tasks
<1>1. todo # <<>> /\ todo' = Tail(todo)
  BY DEF SkipOrphan, Settle
<1>2. /\ UNCHANGED <<order, acked, applied, late>>
      /\ pc'[Worker] = "deliver" /\ \A e \in Entries : pc'[e] = pc[e]
  BY <1>0 DEF SkipOrphan, Settle, Goto, journal, google
<1>3. /\ todo' \in Seq(Entries)
      /\ \A i \in DOMAIN todo' : i + 1 \in DOMAIN todo /\ todo'[i] = todo[i + 1]
  BY <1>0, <1>1
<1>4. \A x : Taken(order', x) <=> Taken(order, x)
  BY <1>2
<1>5. \A i \in DOMAIN todo' : Taken(order', todo'[i])
  BY <1>3, <1>4 DEF HubInv, Control
<1>6. (\A req \in late' : req.by \in Entries => Taken(order', req.by))
      /\ (\A e \in Entries : Taken(order', e) => pc'[e] # "new")
      /\ (\A e \in Entries : pc'[e] \in Working => Taken(order', e))
      /\ acked' \subseteq {e \in Entries : Taken(order', e)}
  BY <1>2, <1>4 DEF HubInv, Control
<1>7. /\ pc'[Worker] \in Working \ {"deliver"} => todo' # <<>>
      /\ \A e \in Entries : pc'[e] = "ok" => e \in applied'
      /\ pc'[Worker] = "ok" => Head(todo') \in applied'
  BY <1>2 DEF HubInv, Control
<1> QED
  BY <1>3, <1>5, <1>6, <1>7 DEF Control

\* What a crash leaves under way is about entries in hand.
LEMMA CrashControl ==
  ASSUME HubInv, Crash
  PROVE  Control'
<1>1. UNCHANGED <<order, acked, applied, pc, todo>>
  BY DEF Crash, journal, worker
<1>2. PICK ts \in SUBSET {t \in Tasks : pc[t] = "write"} :
        late' = late \union {Request(t) : t \in ts}
  BY DEF Crash, LeftBehind
<1>3. ASSUME NEW t \in ts, Request(t).by \in Entries PROVE Taken(order, Request(t).by)
  <2>1. t \in Tasks /\ pc[t] \in Working /\ (t = Worker => todo # <<>>)
    BY DEF Working, HubInv, Control
  <2>2. Request(t).by = Job(t)
    BY DEF Request
  <2>3. t \notin Deletes
    BY <1>3, <2>2, TasksAssumption DEF Job
  <2> QED
    BY <2>1, <2>2, <2>3, JobInHand
<1>4. Holding
  BY <1>1, <1>2, <1>3 DEF Holding, HubInv, Control
<1> QED
  BY <1>1, <1>4, StayControl

\* A new process starts with nothing in hand.
LEMMA StartControl ==
  ASSUME HubInv, Start
  PROVE  Control' /\ todo' \in Seq(Entries)
<1>0. Worker \in Tasks /\ Entries \subseteq Tasks /\ Worker \notin Entries
  BY TasksAssumption DEF Tasks
<1>1. UNCHANGED <<order, acked, applied, late>> /\ todo' = <<>>
  BY DEF Start, journal, google
<1>2. /\ pc'[Worker] = "idle"
      /\ \A e \in Entries : \/ pc'[e] = "dropped" /\ pc[e] # "new"
                            \/ pc'[e] = pc[e] /\ pc[e] \in {"new", "answered", "dropped"}
  BY <1>0 DEF Start, InFlight, Handlers
<1>3. \A x : Taken(order', x) <=> Taken(order, x)
  BY <1>1
<1>4. todo' \in Seq(Entries) /\ \A i \in DOMAIN todo' : Taken(order', todo'[i])
  BY <1>1
<1>5. (\A req \in late' : req.by \in Entries => Taken(order', req.by))
      /\ (\A e \in Entries : Taken(order', e) => pc'[e] # "new")
      /\ acked' \subseteq {e \in Entries : Taken(order', e)}
  BY <1>1, <1>2, <1>3 DEF HubInv, Control
<1>6. /\ \A e \in Entries : pc'[e] \notin Working
      /\ pc'[Worker] \notin Working
  BY <1>2 DEF Working
<1> QED
  BY <1>4, <1>5, <1>6 DEF Control, Working

\* Every step keeps the control.
LEMMA ControlStep ==
  ASSUME HubInv, [Next]_vars
  PROVE  Control' /\ todo' \in Seq(Entries)
<1>0. Worker \in Tasks /\ Entries \subseteq Tasks /\ Deletes \subseteq Tasks
      /\ Handlers \subseteq Tasks /\ Worker \notin Deletes
      /\ Entries \intersect Deletes = {}
  BY TasksAssumption DEF Tasks, Handlers
<1>t. todo \in Seq(Entries)
  BY DEF HubInv, Shapes
<1>1. CASE \E e \in Entries : Post(e)
  <2>1. todo' = todo
    BY <1>1 DEF Post, worker
  <2> QED
    BY <1>1, <1>t, <2>1, PostControl
<1>2. CASE \E t \in Tasks : t \notin Deletes /\ (Deliver(t) \/ Lookup(t))
  <2>1. todo' = todo
    BY <1>2 DEF Deliver, Lookup, worker
  <2> QED
    BY <1>2, <1>t, <2>1, DeliverControl
<1>3. CASE \E t \in Tasks : Write(t)
  <2>1. todo' = todo
    BY <1>3 DEF Write, worker
  <2> QED
    BY <1>3, <1>t, <2>1, WriteControl
<1>4. CASE \/ \E t \in Entries : SyncAnswer(t)
           \/ \E t \in Deletes : DeleteQueue(t) \/ DeleteLookup(t)
           \/ EndPass
           \/ \E t \in Handlers : Cancel(t)
  <2>1. todo' = todo
    BY <1>4 DEF SyncAnswer, DeleteQueue, DeleteLookup, EndPass, Cancel, worker
  <2> QED
    BY <1>0, <1>4, <1>t, <2>1, LeaveControl
<1>5. CASE BeginPass \/ SkipOrphan \/ Settle
  BY <1>5, BeginPassControl, NextEntryControl
<1>6. CASE Crash
  <2>1. todo' = todo
    BY <1>6 DEF Crash, worker
  <2> QED
    BY <1>6, <1>t, <2>1, CrashControl
<1>7. CASE Start
  BY <1>7, StartControl
<1>8. CASE LastPass \/ Authenticated \/ Stop \/ LateArrival \/ UNCHANGED vars
  <2>1. UNCHANGED <<order, acked, pc, todo>> /\ late' \subseteq late
    BY <1>8 DEF LastPass, Authenticated, Stop, LateArrival, vars, journal, worker, google
  <2>2. applied \subseteq applied'
    BY <1>8, LateArrivalJournal DEF LastPass, Authenticated, Stop, vars, google
  <2>3. Holding
    BY <2>1, <2>2 DEF Holding, HubInv, Control
  <2> QED
    BY <1>t, <2>1, <2>3, StayControl
<1> QED
  BY <1>0, <1>1, <1>2, <1>3, <1>4, <1>5, <1>6, <1>7, <1>8
  DEF Next, WorkerStep, HandlerStep, DeleteStep
-----------------------------------------------------------------------------
(***************************************************************************)
(* The invariant of every behaviour.                                       *)
(***************************************************************************)
LEMMA LabelsStep ==
  ASSUME HubInv, [Next]_vars
  PROVE  pc' \in [Tasks -> Labels]
<1>0. pc \in [Tasks -> Labels]
  BY DEF HubInv, Shapes
<1>1. ASSUME NEW t, NEW label \in Labels, Goto(t, label)
      PROVE  pc' \in [Tasks -> Labels]
  BY <1>0, <1>1 DEF Goto
<1>2. CASE \E e \in Entries : Post(e) \/ SyncAnswer(e)
  BY <1>0, <1>1, <1>2 DEF Post, SyncAnswer, Labels
<1>3. CASE \E t \in Tasks : Deliver(t) \/ Lookup(t)
  BY <1>0, <1>1, <1>3 DEF Deliver, Lookup, Labels
<1>4. CASE \E t \in Tasks : Write(t)
  BY <1>0, <1>1, <1>4 DEF Write, Labels
<1>5. CASE BeginPass \/ SkipOrphan \/ Settle \/ EndPass \/ LastPass
  BY <1>0, <1>1, <1>5 DEF BeginPass, SkipOrphan, Settle, EndPass, LastPass, Labels
<1>6. CASE \E d \in Deletes : DeleteQueue(d) \/ DeleteLookup(d)
  BY <1>0, <1>1, <1>6 DEF DeleteQueue, DeleteLookup, Labels
<1>7. CASE \E t \in Handlers : Cancel(t)
  BY <1>0, <1>1, <1>7 DEF Cancel, Labels
<1>8. CASE Start
  <2>1. \A t \in Tasks : (IF t = Worker THEN "idle"
                          ELSE IF t \in InFlight THEN "dropped" ELSE pc[t]) \in Labels
    BY <1>0 DEF Labels
  <2> QED
    BY <1>8, <2>1 DEF Start
<1>9. CASE Authenticated \/ Stop \/ Crash \/ LateArrival \/ UNCHANGED vars
  BY <1>0, <1>9 DEF Authenticated, Stop, Crash, LateArrival, vars
<1> QED
  <2>1. Worker \in Tasks /\ Entries \subseteq Tasks /\ Deletes \subseteq Tasks
    BY DEF Tasks
  <2> QED
    BY <2>1, <1>2, <1>3, <1>4, <1>5, <1>6, <1>7, <1>8, <1>9
    DEF Next, WorkerStep, HandlerStep, DeleteStep

\* The journal an earlier process left is of entries alone.
LEMMA FirstLog ==
  ASSUME Init
  PROVE  /\ log \in Seq(Record) /\ order \in Seq(Entries)
         /\ \A x : Holds(log, x) => \E e \in Entries : x = EntryRec(e) /\ Taken(order, e)
         /\ \A e \in Entries : Taken(order, e) => Holds(log, EntryRec(e))
<1>1. order = Backlog /\ log = [i \in DOMAIN Backlog |-> EntryRec(Backlog[i])]
  BY DEF Init
<1>2. /\ Backlog \in Seq(Entries) /\ Len(Backlog) \in Nat
      /\ DOMAIN Backlog = 1..Len(Backlog)
      /\ \A i \in DOMAIN Backlog : Backlog[i] \in Entries
  BY BacklogAssumption
<1>3. \A i \in DOMAIN Backlog : EntryRec(Backlog[i]) \in Record
  BY <1>2, RecordsDiffer
<1>4. log \in Seq(Record)
  <2>1. log \in [1..Len(Backlog) -> Record]
    BY <1>1, <1>2, <1>3
  <2> QED
    BY <1>2, <2>1
<1>5. DOMAIN log = DOMAIN order /\ \A i \in DOMAIN order : log[i] = EntryRec(order[i])
  BY <1>1
<1> QED
  BY <1>1, <1>2, <1>4, <1>5 DEF Holds, Taken

LEMMA HubInit ==
  ASSUME Init
  PROVE  HubInv
<1>1. Shapes
  <2>1. log \in Seq(Record) /\ order \in Seq(Entries)
    BY FirstLog
  <2>2. todo \in Seq(Entries) /\ applied \subseteq Entries
    BY DEF Init
  <2>3. pc \in [Tasks -> Labels]
    BY DEF Init, Labels
  <2> QED
    BY <2>1, <2>2, <2>3 DEF Shapes
<1>2. Promised
  <2>1. \A r \in Record : Holds(log, r) => Taken(order, r.id)
    BY FirstLog, RecordsDiffer
  <2>2. ASSUME NEW e \in Entries, Taken(order, e) PROVE IsPending(e)
    <3>1. Holds(log, EntryRec(e))
      BY <2>2, FirstLog
    <3>2. ~Holds(log, DoneRec(e)) /\ ~Holds(log, DeadRec(e))
      BY FirstLog, RecordsDiffer
    <3> QED
      BY <3>1, <3>2 DEF IsPending, Marked
  <2> QED
    BY <2>1, <2>2 DEF Promised
<1>3. Control
  <2>1. \A e \in Entries : Taken(order, e) <=> InBacklog(e)
    BY DEF Init, Taken, InBacklog
  <2>2. /\ Worker \in Tasks /\ Entries \subseteq Tasks /\ Worker \notin Entries
    BY TasksAssumption DEF Tasks
  <2>3. /\ pc[Worker] = "idle"
        /\ \A e \in Entries : pc[e] = IF InBacklog(e) THEN "answered" ELSE "new"
    BY <2>2 DEF Init
  <2>4. todo = <<>> /\ late = {} /\ acked = {e \in Entries : InBacklog(e)}
    BY DEF Init
  <2>5. \A i \in DOMAIN todo : Taken(order, todo[i])
    BY <2>4
  <2> QED
    BY <2>1, <2>3, <2>4, <2>5 DEF Control, Working
<1> QED
  BY <1>1, <1>2, <1>3 DEF HubInv

LEMMA HubStep ==
  ASSUME HubInv, [Next]_vars
  PROVE  HubInv'
<1>1. JournalStep
  BY NextJournal
<1>2. Promised' /\ log' \in Seq(Record) /\ applied' \subseteq Entries
  BY <1>1, PromisedStep
<1>3. order' \in Seq(Entries)
  BY <1>1, OrderKept DEF HubInv
<1>4. Control' /\ todo' \in Seq(Entries)
  BY ControlStep
<1>5. pc' \in [Tasks -> Labels]
  BY LabelsStep
<1> QED
  BY <1>2, <1>3, <1>4, <1>5 DEF HubInv, Shapes

LEMMA HubInvHolds == Spec => []HubInv
<1>1. Init => HubInv
  BY HubInit
<1>2. HubInv /\ [Next]_vars => HubInv'
  BY HubStep
<1> QED
  BY <1>1, <1>2, PTL DEF Spec

\* "Nothing is lost" (README, T1 in core/journal.rs): an entry whose source
\* was told it is journalled is pending, set aside, or stored by Google, for
\* any number of entries, deletes, keys, lines and faults (ingest,
\* drain_once_tracking, compact).
THEOREM AckedIsNeverLost == Spec => []AckedNeverLost
<1>1. HubInv => AckedNeverLost
  BY DEF HubInv, Promised, Control, AckedNeverLost
<1> QED
  BY <1>1, HubInvHolds, PTL

-----------------------------------------------------------------------------
(***************************************************************************)
(* The journal, read as an inbox, keeps the inbox's promise.               *)
(***************************************************************************)
\* How an entry stands in the inbox.
LEMMA Stand ==
  ASSUME NEW e \in Entries
  PROVE  /\ InboxState[e] = IF IsPending(e) THEN "held" ELSE IF IsDead(e) THEN "aside"
                            ELSE IF Taken(order, e) THEN "delivered" ELSE "unknown"
         /\ InboxState'[e] = IF IsPending(e)' THEN "held" ELSE IF IsDead(e)' THEN "aside"
                             ELSE IF Taken(order', e) THEN "delivered" ELSE "unknown"
BY DEF InboxState, IsPending, IsDead, Taken

\* The inbox is a function on the entries.
LEMMA InboxFunction ==
  /\ InboxState = [e \in Entries |-> InboxState[e]]
  /\ InboxState' = [e \in Entries |-> InboxState'[e]]
BY DEF InboxState, IsPending, IsDead

\* Nothing becomes of the inbox when nothing becomes of any entry.
LEMMA Stutter ==
  ASSUME \A e \in Entries : InboxState'[e] = InboxState[e]
  PROVE  InboxState' = InboxState
BY InboxFunction

\* One entry moves.
LEMMA Moves ==
  ASSUME NEW e \in Entries, NEW from, InboxState[e] \in from,
         \A x \in Entries \ {e} : InboxState'[x] = InboxState[x],
         UNCHANGED applied
  PROVE  Promise!Move(e, from, InboxState'[e])
<1>1. InboxState' = [InboxState EXCEPT ![e] = InboxState'[e]]
  BY InboxFunction
<1> QED
  BY <1>1 DEF Promise!Move

LEMMA PromiseInit ==
  ASSUME Init
  PROVE  Promise!Init
<1>1. ASSUME NEW e \in Entries PROVE InboxState[e] \in {"unknown", "held"}
  <2>1. ~Holds(log, DoneRec(e)) /\ ~Holds(log, DeadRec(e))
    BY FirstLog, RecordsDiffer
  <2>2. Taken(order, e) => Holds(log, EntryRec(e))
    BY FirstLog
  <2>3. InboxState[e] = IF IsPending(e) THEN "held" ELSE IF IsDead(e) THEN "aside"
                        ELSE IF Taken(order, e) THEN "delivered" ELSE "unknown"
    BY Stand
  <2> QED
    BY <2>1, <2>2, <2>3 DEF IsPending, IsDead, Marked
<1>2. InboxState \in [Entries -> {"unknown", "held"}]
  BY <1>1, InboxFunction
<1>3. applied = {}
  BY DEF Init
<1> QED
  BY <1>2, <1>3 DEF Promise!Init

LEMMA PromiseStep ==
  ASSUME HubInv, JournalStep
  PROVE  [Promise!Next]_(Promise!vars)
<1>1. ASSUME InboxState' = InboxState, UNCHANGED applied
      PROVE  [Promise!Next]_(Promise!vars)
  BY <1>1 DEF Promise!vars
<1>2. CASE UNCHANGED <<journal, applied>>
  <2>1. InboxState' = InboxState
    BY <1>2 DEF journal, InboxState, IsPending, IsDead
  <2> QED
    BY <1>1, <1>2, <2>1
<1>3. ASSUME NEW e \in Entries, Stores(e) PROVE [Promise!Next]_(Promise!vars)
  <2>1. InboxState' = InboxState
    BY <1>3 DEF Stores, journal, InboxState, IsPending, IsDead
  <2>2. InboxState[e] # "unknown"
    BY <1>3, Stand DEF Stores
  <2>3. Promise!Store(e)
    BY <1>3, <2>1, <2>2 DEF Stores, Promise!Store
  <2> QED
    BY <2>3 DEF Promise!Next
<1>4. ASSUME NEW e \in Entries, Takes(e) PROVE [Promise!Next]_(Promise!vars)
  <2>1. /\ \A x : Taken(order, x) => Taken(order', x)
        /\ \A x : Taken(order', x) => Taken(order, x) \/ x = e
    BY <1>4, OrderAppend DEF Takes, HubInv, Shapes
  <2>2. InboxState[e] \in {"unknown"}
    BY <1>4, NotTaken, Stand DEF Takes, IsPending, IsDead, InLog
  <2>3. InboxState'[e] = "held"
    BY <1>4, TakesEffect, Stand
  <2>4. ASSUME NEW x \in Entries \ {e} PROVE InboxState'[x] = InboxState[x]
    <3>1. (IsPending(x)' <=> IsPending(x)) /\ (IsDead(x)' <=> IsDead(x))
      BY <1>4, TakesEffect, Zenon
    <3> QED
      BY <2>1, <3>1, Stand
  <2>5. Promise!Hold(e)
    BY <1>4, <2>2, <2>3, <2>4, Moves DEF Takes, Promise!Hold
  <2> QED
    BY <2>5 DEF Promise!Next
<1>5. ASSUME NEW e \in Entries, MarksDone(e) PROVE [Promise!Next]_(Promise!vars)
  <2>1. \A x \in Entries : Taken(order', x) <=> Taken(order, x)
    BY <1>5 DEF MarksDone
  <2>2. ~IsPending(e)' /\ (IsDead(e)' <=> IsDead(e))
    BY <1>5, MarksDoneEffect, Zenon
  <2>3. ASSUME NEW x \in Entries \ {e} PROVE InboxState'[x] = InboxState[x]
    <3>1. (IsPending(x)' <=> IsPending(x)) /\ (IsDead(x)' <=> IsDead(x))
      BY <1>5, MarksDoneEffect, Zenon
    <3> QED
      BY <2>1, <3>1, Stand
  <2>4. CASE IsPending(e)
    <3>1. ~IsDead(e)
      BY <2>4 DEF IsPending, IsDead, Marked
    <3>2. InboxState[e] \in {"held"} /\ InboxState'[e] = "delivered"
      BY <1>5, <2>1, <2>2, <2>4, <3>1, Stand DEF MarksDone
    <3>3. Promise!Settle(e)
      BY <1>5, <2>3, <3>2, Moves DEF MarksDone, Promise!Settle
    <3> QED
      BY <3>3 DEF Promise!Next
  <2>5. CASE ~IsPending(e)
    <3>1. InboxState'[e] = InboxState[e]
      BY <2>1, <2>2, <2>5, Stand
    <3> QED
      BY <1>1, <1>5, <2>3, <3>1, Stutter DEF MarksDone
  <2> QED
    BY <2>4, <2>5
<1>6. ASSUME NEW e \in Entries, MarksDead(e) PROVE [Promise!Next]_(Promise!vars)
  <2>1. \A x \in Entries : Taken(order', x) <=> Taken(order, x)
    BY <1>6 DEF MarksDead
  <2>2. ~IsPending(e)' /\ (IsDead(e)' <=> InLog(e))
    BY <1>6, MarksDeadEffect, Zenon
  <2>3. ASSUME NEW x \in Entries \ {e} PROVE InboxState'[x] = InboxState[x]
    <3>1. (IsPending(x)' <=> IsPending(x)) /\ (IsDead(x)' <=> IsDead(x))
      BY <1>6, MarksDeadEffect, Zenon
    <3> QED
      BY <2>1, <3>1, Stand
  <2>4. CASE InLog(e) /\ ~IsDead(e)
    <3>1. InboxState[e] \in {"held", "delivered"} /\ InboxState'[e] = "aside"
      BY <1>6, <2>2, <2>4, Stand DEF MarksDead
    <3>2. Promise!SetAside(e)
      BY <1>6, <2>3, <3>1, Moves DEF MarksDead, Promise!SetAside
    <3> QED
      BY <3>2 DEF Promise!Next
  <2>5. CASE ~InLog(e) \/ IsDead(e)
    <3>1. ~IsPending(e) /\ (IsDead(e) <=> InLog(e))
      BY <2>5 DEF IsPending, IsDead, Marked, InLog
    <3>2. InboxState'[e] = InboxState[e]
      BY <2>1, <2>2, <3>1, Stand
    <3> QED
      BY <1>1, <1>6, <2>3, <3>2, Stutter DEF MarksDead
  <2> QED
    BY <2>4, <2>5
<1>7. CASE Compacts
  <2>1. ASSUME NEW x \in Entries PROVE InboxState'[x] = InboxState[x]
    <3>1. (IsPending(x)' <=> IsPending(x)) /\ (IsDead(x)' <=> IsDead(x))
      BY <1>7, CompactsEffect, Zenon
    <3>2. Taken(order', x) <=> Taken(order, x)
      BY <1>7 DEF Compacts
    <3> QED
      BY <3>1, <3>2, Stand
  <2> QED
    BY <1>1, <1>7, <2>1, Stutter DEF Compacts
<1> QED
  BY <1>2, <1>3, <1>4, <1>5, <1>6, <1>7 DEF JournalStep

\* The hub implements the inbox, for any number of entries, deletes, keys,
\* lines and faults: what is held stays held until Google has stored it or
\* it is set aside, and what is settled does not come back (append,
\* mark_delivered, mark_dead, compact under the handlers and the worker).
THEOREM HubKeepsPromise == Spec => KeepsPromise
<1>1. Init => Promise!Init
  BY PromiseInit
<1>2. HubInv /\ [Next]_vars => [Promise!Next]_(Promise!vars)
  BY NextJournal, PromiseStep
<1> QED
  BY <1>1, <1>2, HubInvHolds, PTL DEF Spec, KeepsPromise, Promise!Spec
-----------------------------------------------------------------------------
(***************************************************************************)
(* The key locks: what a lookup found stays true until the request built   *)
(* on it goes out, and so a key has one event, and one more at most for    *)
(* each request that went astray.                                          *)
(***************************************************************************)
\* The ids of the events that carry a key.
IdsOf(evs, key) == {ev.id : ev \in {x \in evs : x.key = key}}

\* What task t asks of Google, from what the tasks have found and what the
\* worker has in hand.
Asks(t, fnd, rest) ==
  LET job == IF t = Worker THEN Head(rest) ELSE t
  IN  [key |-> KeyOf[job], id |-> fnd[t], by |-> job]

\* A request names an event of its own key, or none, or one that is gone.
Fits(req, evs, next) ==
  /\ req.id \in Nat /\ req.id < next
  /\ req.key \in Keys \union {NoKey} /\ req.by \in Entries \union Deletes
  /\ \A ev \in evs : ev.id = req.id => ev.key = req.key

\* A creation has room for one event more; a replacement has its event,
\* unless a request of the key went astray.
Room(ids, astray, id) ==
  IF id = NoEvent THEN Cardinality(ids) <= astray ELSE astray = 0 => id \in ids

\* Task t may send the request: it holds the key's lock, and what it found
\* is true.
Secure(t, req, queue, evs, next, astray) ==
  /\ Fits(req, evs, next)
  /\ req.key # NoKey => /\ queue[req.key] # <<>> /\ Head(queue[req.key]) = t
                        /\ Room(IdsOf(evs, req.key), astray[req.key], req.id)

GoogleOK ==
  /\ events \subseteq [id : Nat \ {0}, key : Keys \union {NoKey}, body : Entries \union Deletes]
  /\ nextId \in Nat \ {0} /\ stray \in [Keys -> Nat]
  /\ \A ev \in events : ev.id < nextId
  /\ \A a, b \in events : a.id = b.id => a.key = b.key
  /\ \A req \in late : Fits(req, events, nextId)
  /\ \A k \in Keys : /\ IsFiniteSet(IdsOf(events, k))
                     /\ Cardinality(IdsOf(events, k)) <= 1 + stray[k]

LocksOK ==
  /\ lockq \in [Keys -> Seq(Tasks)] /\ found \in [Tasks -> Nat]
  /\ \A t \in Tasks : pc[t] = "write" =>
       Secure(t, Asks(t, found, todo), lockq, events, nextId, stray)

LockInv == HubInv /\ GoogleOK /\ LocksOK

LEMMA AsksIsRequest ==
  \A t : /\ Request(t) = Asks(t, found, todo) /\ Asks(t, found, todo).key = Key(t)
         /\ Asks(t, found, todo).id = found[t] /\ Asks(t, found, todo).by = Job(t)
BY DEF Request, Asks, Key, Job

\* Whose key a task with a job goes by.
LEMMA KeyOfJob ==
  ASSUME HubInv, NEW t \in Tasks, pc[t] \in Working \/ t # Worker
  PROVE  /\ Runnable(t) \/ pc[t] # "deliver" => Job(t) \in Entries \union Deletes
         /\ Job(t) \in Entries \union Deletes => Key(t) \in Keys \union {NoKey}
<1>1. CASE t = Worker
  <2>1. pc[t] # "deliver" \/ Runnable(t) => todo # <<>>
    BY <1>1 DEF Runnable, HubInv, Control
  <2>2. todo # <<>> => Head(todo) \in Entries
    BY DEF HubInv, Shapes
  <2> QED
    BY <1>1, <2>1, <2>2, KeysAssumption DEF Job, Key
<1>2. CASE t # Worker
  BY <1>2, KeysAssumption DEF Job, Key, Tasks
<1> QED
  BY <1>1, <1>2

-----------------------------------------------------------------------------
\* What may become of the queues when task t joins one, leaves one, or
\* neither: the heads, but for t, stay.
HeadsKept(t) ==
  /\ lockq' \in [Keys -> Seq(Tasks)]
  /\ \A k \in Keys : lockq[k] # <<>> /\ Head(lockq[k]) # t =>
       lockq'[k] # <<>> /\ Head(lockq'[k]) = Head(lockq[k])

LEMMA AppendHead ==
  ASSUME NEW q \in Seq(Tasks), NEW t \in Tasks
  PROVE  /\ Append(q, t) \in Seq(Tasks)
         /\ q # <<>> => Append(q, t) # <<>> /\ Head(Append(q, t)) = Head(q)
OBVIOUS

LEMMA WithoutHead ==
  ASSUME NEW q \in Seq(Tasks), NEW t
  PROVE  /\ Without(q, t) \in Seq(Tasks)
         /\ q # <<>> /\ Head(q) # t => /\ Without(q, t) # <<>>
                                       /\ Head(Without(q, t)) = Head(q)
<1> DEFINE at == {i \in DOMAIN q : q[i] = t}
           k == CHOOSE i \in at : TRUE
           r == [i \in 1 .. Len(q) - 1 |-> q[IF i < k THEN i ELSE i + 1]]
<1>0. Len(q) \in Nat /\ DOMAIN q = 1 .. Len(q) /\ \A i \in 1 .. Len(q) : q[i] \in Tasks
  OBVIOUS
<1>1. CASE at = {}
  BY <1>1 DEF Without
<1>2. CASE at # {}
  <2>1. Without(q, t) = r
    BY <1>2 DEF Without
  <2>2. k \in 1 .. Len(q) /\ q[k] = t
    BY <1>0, <1>2
  <2> HIDE DEF k
  <2>3. Len(q) - 1 \in Nat /\ \A i \in 1 .. Len(q) - 1 :
          (IF i < k THEN i ELSE i + 1) \in 1 .. Len(q)
    BY <1>0, <2>2
  <2>4. r \in [1 .. Len(q) - 1 -> Tasks]
    BY <1>0, <2>3
  <2>5. r \in Seq(Tasks) /\ Len(r) = Len(q) - 1
    BY <2>3, <2>4
  <2>6. ASSUME q # <<>>, Head(q) # t
        PROVE  r # <<>> /\ Head(r) = Head(q)
    <3>1. Head(q) = q[1] /\ k # 1
      BY <2>2, <2>6
    <3>2. 1 \in 1 .. Len(q) - 1 /\ 1 < k
      BY <1>0, <2>2, <3>1
    <3>3. r[1] = q[1]
      BY <3>2
    <3> HIDE DEF r
    <3> QED
      BY <2>5, <3>1, <3>2, <3>3
  <2> QED
    BY <2>1, <2>5, <2>6
<1> QED
  BY <1>1, <1>2

LEMMA Waits ==
  ASSUME LocksOK, NEW t \in Tasks, NEW k \in Keys,
         lockq' = [lockq EXCEPT ![k] = Append(@, t)]
  PROVE  HeadsKept(t)
<1>1. lockq \in [Keys -> Seq(Tasks)]
  BY DEF LocksOK
<1>2. \A j \in Keys : lockq'[j] = IF j = k THEN Append(lockq[k], t) ELSE lockq[j]
  BY <1>1
<1>3. lockq[k] \in Seq(Tasks)
  BY <1>1
<1>4. Append(lockq[k], t) \in Seq(Tasks)
  BY <1>3, AppendHead
<1> QED
  BY <1>1, <1>2, <1>3, <1>4, AppendHead DEF HeadsKept

LEMMA Releases ==
  ASSUME LocksOK, NEW t \in Tasks, Release(t), Key(t) \in Keys \union {NoKey},
         Key(t) # NoKey => HoldsLock(t)
  PROVE  HeadsKept(t)
<1>1. lockq \in [Keys -> Seq(Tasks)]
  BY DEF LocksOK
<1>2. CASE Key(t) = NoKey
  BY <1>1, <1>2 DEF Release, HeadsKept
<1>3. CASE Key(t) # NoKey
  <2>1. lockq[Key(t)] \in Seq(Tasks) /\ lockq[Key(t)] # <<>> /\ Head(lockq[Key(t)]) = t
    BY <1>1, <1>3 DEF HoldsLock
  <2>2. Tail(lockq[Key(t)]) \in Seq(Tasks)
    BY <2>1
  <2>3. \A j \in Keys : lockq'[j] = IF j = Key(t) THEN Tail(lockq[Key(t)]) ELSE lockq[j]
    BY <1>1, <1>3 DEF Release
  <2>4. lockq' \in [Keys -> Seq(Tasks)]
    BY <1>1, <1>3, <2>2 DEF Release
  <2> QED
    BY <2>1, <2>3, <2>4 DEF HeadsKept
<1> QED
  BY <1>2, <1>3

LEMMA Leaves ==
  ASSUME LocksOK, NEW t \in Tasks, Key(t) \in Keys \union {NoKey},
         lockq' = IF Key(t) = NoKey THEN lockq
                  ELSE [lockq EXCEPT ![Key(t)] = Without(@, t)]
  PROVE  HeadsKept(t)
<1>1. lockq \in [Keys -> Seq(Tasks)]
  BY DEF LocksOK
<1>2. CASE Key(t) = NoKey
  BY <1>1, <1>2 DEF HeadsKept
<1>3. CASE Key(t) # NoKey
  <2>1. lockq[Key(t)] \in Seq(Tasks)
    BY <1>1, <1>3
  <2>2. /\ Without(lockq[Key(t)], t) \in Seq(Tasks)
        /\ lockq[Key(t)] # <<>> /\ Head(lockq[Key(t)]) # t =>
             /\ Without(lockq[Key(t)], t) # <<>>
             /\ Head(Without(lockq[Key(t)], t)) = Head(lockq[Key(t)])
    BY <2>1, WithoutHead
  <2>3. \A j \in Keys : lockq'[j] = IF j = Key(t) THEN Without(lockq[Key(t)], t) ELSE lockq[j]
    BY <1>1, <1>3
  <2>4. lockq' \in [Keys -> Seq(Tasks)]
    BY <1>1, <1>3, <2>2
  <2> QED
    BY <2>2, <2>3, <2>4 DEF HeadsKept
<1> QED
  BY <1>2, <1>3
-----------------------------------------------------------------------------
(***************************************************************************)
(* Steps that leave the calendar alone.                                    *)
(***************************************************************************)
\* Requests left at Google come from tasks that were writing.
LateFromWriters ==
  \A req \in late' :
    \/ req \in late
    \/ \E t \in Tasks : pc[t] = "write" /\ req = Asks(t, found, todo)

LEMMA QuietStep ==
  ASSUME GoogleOK, LocksOK, UNCHANGED <<events, nextId, stray>>, LateFromWriters,
         NEW t \in Tasks, HeadsKept(t), found' \in [Tasks -> Nat],
         \A u \in Tasks \ {t} : /\ pc'[u] = "write" => pc[u] = "write"
                                /\ Asks(u, found', todo') = Asks(u, found, todo),
         pc'[t] = "write" => Secure(t, Asks(t, found', todo'), lockq', events, nextId, stray)
  PROVE  GoogleOK' /\ LocksOK'
<1>1. GoogleOK'
  <2>1. \A req \in late' : Fits(req, events, nextId)
    BY DEF LateFromWriters, GoogleOK, LocksOK, Secure
  <2> QED
    BY <2>1 DEF GoogleOK
<1>2. ASSUME NEW u \in Tasks, pc'[u] = "write"
      PROVE  Secure(u, Asks(u, found', todo'), lockq', events', nextId', stray')
  <2>1. CASE u = t
    BY <1>2, <2>1
  <2>2. CASE u # t
    <3> DEFINE req == Asks(u, found, todo)
    <3>1. Secure(u, req, lockq, events, nextId, stray) /\ Asks(u, found', todo') = req
      BY <1>2, <2>2 DEF LocksOK
    <3> HIDE DEF req
    <3>2. req.key # NoKey => /\ req.key \in Keys /\ lockq[req.key] # <<>>
                             /\ Head(lockq[req.key]) = u
      BY <3>1 DEF Secure, Fits
    <3>3. req.key # NoKey => lockq'[req.key] # <<>> /\ Head(lockq'[req.key]) = u
      BY <2>2, <3>2 DEF HeadsKept
    <3> QED
      BY <3>1, <3>3 DEF Secure
  <2> QED
    BY <2>1, <2>2
<1>3. lockq' \in [Keys -> Seq(Tasks)]
  BY DEF HeadsKept
<1> QED
  BY <1>1, <1>2, <1>3 DEF LocksOK

\* A task goes on to something that is not a request.
LEMMA QuietMove ==
  ASSUME GoogleOK, LocksOK, UNCHANGED <<events, nextId, stray, found>>, LateFromWriters,
         pc \in [Tasks -> Labels],
         NEW t \in Tasks, HeadsKept(t), t = Worker \/ UNCHANGED todo,
         NEW label, label # "write", Goto(t, label)
  PROVE  GoogleOK' /\ LocksOK'
<1>1. \A u \in Tasks : pc'[u] = IF u = t THEN label ELSE pc[u]
  BY DEF Goto
<1>2. \A u \in Tasks \ {t} : Asks(u, found', todo') = Asks(u, found, todo)
  BY DEF Asks
<1>3. found' \in [Tasks -> Nat]
  BY DEF LocksOK
<1> QED
  BY <1>1, <1>2, <1>3, QuietStep

\* No task goes anywhere.
LEMMA QuietStay ==
  ASSUME GoogleOK, LocksOK, UNCHANGED <<events, nextId, stray, found, pc, todo, lockq>>,
         LateFromWriters
  PROVE  GoogleOK' /\ LocksOK'
<1>1. GoogleOK'
  <2>1. \A req \in late' : Fits(req, events, nextId)
    BY DEF LateFromWriters, GoogleOK, LocksOK, Secure
  <2> QED
    BY <2>1 DEF GoogleOK
<1>2. LocksOK'
  BY DEF LocksOK
<1> QED
  BY <1>1, <1>2

\* A task that knows what it has to know goes on to its request.
LEMMA QuietEnter ==
  ASSUME GoogleOK, LocksOK, UNCHANGED <<events, nextId, stray, todo, lockq, late>>,
         pc \in [Tasks -> Labels],
         NEW t \in Tasks, Goto(t, "write"),
         NEW id \in Nat, found' = [found EXCEPT ![t] = id],
         Secure(t, [key |-> Key(t), id |-> id, by |-> Job(t)], lockq, events, nextId, stray)
  PROVE  GoogleOK' /\ LocksOK'
<1>1. \A u \in Tasks : pc'[u] = IF u = t THEN "write" ELSE pc[u]
  BY DEF Goto
<1>2. /\ found' \in [Tasks -> Nat]
      /\ \A u \in Tasks : found'[u] = IF u = t THEN id ELSE found[u]
  BY DEF LocksOK
<1>3. \A u \in Tasks \ {t} : Asks(u, found', todo') = Asks(u, found, todo)
  BY <1>2 DEF Asks
<1>4. Asks(t, found', todo') = [key |-> Key(t), id |-> id, by |-> Job(t)]
  BY <1>2 DEF Asks, Key, Job
<1>5. HeadsKept(t) /\ LateFromWriters
  BY DEF HeadsKept, LateFromWriters, LocksOK
<1> QED
  BY <1>1, <1>2, <1>3, <1>4, <1>5, QuietStep

\* What a lookup under the lock returns makes its request secure.
LEMMA FoundIsSecure ==
  ASSUME GoogleOK, NEW t, NEW key \in Keys, NEW by \in Entries \union Deletes,
         lockq[key] # <<>>, Head(lockq[key]) = t,
         NEW id, \/ id = NoEvent /\ IdsOf(events, key) = {}
                 \/ id \in IdsOf(events, key)
  PROVE  /\ id \in Nat
         /\ Secure(t, [key |-> key, id |-> id, by |-> by], lockq, events, nextId, stray)
<1> DEFINE req == [key |-> key, id |-> id, by |-> by]
<1>1. req.key = key /\ req.id = id /\ req.by = by
  OBVIOUS
<1> HIDE DEF req
<1>2. CASE id = NoEvent /\ IdsOf(events, key) = {}
  <2>1. Fits(req, events, nextId)
    BY <1>1, <1>2 DEF Fits, GoogleOK, NoEvent
  <2>2. Cardinality(IdsOf(events, key)) = 0 /\ stray[key] \in Nat
    BY <1>2, FS_EmptySet DEF GoogleOK
  <2>3. Room(IdsOf(events, key), stray[key], id)
    BY <1>2, <2>2 DEF Room
  <2>4. Secure(t, req, lockq, events, nextId, stray)
    BY <1>1, <2>1, <2>3 DEF Secure
  <2> QED
    BY <1>2, <2>4 DEF NoEvent, req
<1>3. CASE id \in IdsOf(events, key)
  <2>1. PICK ev \in events : ev.key = key /\ ev.id = id
    BY <1>3 DEF IdsOf
  <2>2. id \in Nat \ {0} /\ id < nextId /\ \A x \in events : x.id = id => x.key = key
    BY <2>1 DEF GoogleOK
  <2>3. Fits(req, events, nextId)
    BY <1>1, <2>2 DEF Fits
  <2> QED
    BY <1>1, <1>3, <2>2, <2>3 DEF Secure, Room, NoEvent, req
<1> QED
  BY <1>2, <1>3
-----------------------------------------------------------------------------
\* Steps of the worker's pass, a post, a sync handler's answer: no lock, no
\* request.
LEMMA PassLocks ==
  ASSUME LockInv,
         \/ \E e \in Entries : Post(e) \/ SyncAnswer(e)
         \/ BeginPass \/ SkipOrphan \/ Settle \/ EndPass
  PROVE  GoogleOK' /\ LocksOK'
<1>1. UNCHANGED <<events, nextId, stray, found, lockq, late>>
  BY DEF Post, SyncAnswer, BeginPass, SkipOrphan, Settle, EndPass, google
<1>2. /\ GoogleOK /\ LocksOK /\ pc \in [Tasks -> Labels]
      /\ Worker \in Tasks /\ Entries \subseteq Tasks
  BY DEF LockInv, HubInv, Shapes, Tasks
<1>3. LateFromWriters /\ \A t : HeadsKept(t)
  BY <1>1, <1>2 DEF LateFromWriters, HeadsKept, LocksOK
<1>4. ASSUME NEW t \in Tasks, NEW label, label # "write", Goto(t, label),
             t = Worker \/ UNCHANGED todo
      PROVE  GoogleOK' /\ LocksOK'
  BY <1>1, <1>2, <1>3, <1>4, QuietMove
<1>5. CASE \E e \in Entries : Post(e)
  <2>1. PICK e \in Entries : Post(e)
    BY <1>5
  <2>2. todo' = todo /\ \E label : label # "write" /\ Goto(e, label)
    BY <2>1 DEF Post, worker
  <2> QED
    BY <1>2, <1>4, <2>2
<1>6. CASE \E e \in Entries : SyncAnswer(e)
  <2>1. PICK e \in Entries : SyncAnswer(e)
    BY <1>6
  <2>2. todo' = todo /\ Goto(e, "answered")
    BY <2>1 DEF SyncAnswer, worker
  <2> QED
    BY <1>2, <1>4, <2>2
<1>7. CASE BeginPass \/ Settle \/ EndPass
  <2>1. Goto(Worker, "deliver") \/ Goto(Worker, "idle")
    BY <1>7 DEF BeginPass, Settle, EndPass
  <2> QED
    BY <1>2, <1>4, <2>1
<1>8. CASE SkipOrphan
  <2>1. pc' = pc /\ pc[Worker] = "deliver"
    BY <1>8 DEF SkipOrphan
  <2>2. Goto(Worker, "deliver")
    BY <1>2, <2>1 DEF Goto
  <2> QED
    BY <1>2, <1>4, <2>2
<1> QED
  BY <1>5, <1>6, <1>7, <1>8

LEMMA DeliverLocks ==
  ASSUME LockInv, NEW t \in Tasks, t \notin Deletes, Deliver(t)
  PROVE  GoogleOK' /\ LocksOK'
<1>1. UNCHANGED <<events, nextId, stray, late, todo>>
  BY DEF Deliver, google, worker
<1>2. GoogleOK /\ LocksOK /\ HubInv /\ pc \in [Tasks -> Labels]
  BY DEF LockInv, HubInv, Shapes
<1>3. Job(t) \in Entries \union Deletes /\ Key(t) \in Keys \union {NoKey}
  BY <1>2, KeyOfJob DEF Deliver, Working
<1>4. LateFromWriters
  BY <1>1 DEF LateFromWriters
<1>5. CASE /\ Key(t) = NoKey /\ found' = [found EXCEPT ![t] = NoEvent]
           /\ Goto(t, "write") /\ UNCHANGED lockq
  <2> DEFINE req == [key |-> Key(t), id |-> NoEvent, by |-> Job(t)]
  <2>1. Fits(req, events, nextId) /\ req.key = NoKey
    BY <1>2, <1>3, <1>5 DEF Fits, GoogleOK, NoEvent
  <2>2. Secure(t, req, lockq, events, nextId, stray)
    BY <2>1 DEF Secure
  <2> HIDE DEF req
  <2>3. NoEvent \in Nat
    BY DEF NoEvent
  <2> QED
    BY <1>1, <1>2, <1>5, <2>2, <2>3, QuietEnter DEF req
<1>6. CASE /\ Key(t) # NoKey /\ lockq' = [lockq EXCEPT ![Key(t)] = Append(@, t)]
           /\ Goto(t, "queued") /\ UNCHANGED found
  <2>1. HeadsKept(t)
    BY <1>2, <1>3, <1>6, Waits
  <2> QED
    BY <1>1, <1>2, <1>4, <1>6, <2>1, QuietMove
<1>7. CASE Goto(t, "permanent") /\ UNCHANGED <<found, lockq>>
  <2>1. HeadsKept(t)
    BY <1>2, <1>7 DEF HeadsKept, LocksOK
  <2> QED
    BY <1>1, <1>2, <1>4, <1>7, <2>1, QuietMove
<1> QED
  BY <1>5, <1>6, <1>7 DEF Deliver

\* A lookup, of a delivery or of a delete.
LEMMA LookupLocks ==
  ASSUME LockInv, NEW t \in Tasks,
         (t \notin Deletes /\ Lookup(t)) \/ (t \in Deletes /\ DeleteLookup(t))
  PROVE  GoogleOK' /\ LocksOK'
<1>1. UNCHANGED <<events, nextId, stray, late, todo>>
  BY DEF Lookup, DeleteLookup, google, worker
<1>2. GoogleOK /\ LocksOK /\ HubInv /\ pc \in [Tasks -> Labels]
  BY DEF LockInv, HubInv, Shapes
<1>3. pc[t] = "queued" /\ HoldsLock(t)
  BY DEF Lookup, DeleteLookup
<1>4. Job(t) \in Entries \union Deletes /\ Key(t) \in Keys \union {NoKey}
  BY <1>2, <1>3, KeyOfJob DEF Working
<1>5. Key(t) \in Keys /\ lockq[Key(t)] # <<>> /\ Head(lockq[Key(t)]) = t
  BY <1>3, <1>4 DEF HoldsLock
<1>6. LateFromWriters
  BY <1>1 DEF LateFromWriters
<1>7. Matches(Key(t)) = IdsOf(events, Key(t)) /\ (t \in Deletes => KeyOf[t] = Key(t))
  BY TasksAssumption DEF Matches, IdsOf, Key, Job
<1>8. CASE \E label \in {"transient", "permanent", "answered"} :
             Goto(t, label) /\ Release(t) /\ UNCHANGED found
  <2>1. HeadsKept(t)
    BY <1>2, <1>3, <1>4, <1>8, Releases
  <2> QED
    BY <1>1, <1>2, <1>6, <1>8, <2>1, QuietMove
<1>9. CASE /\ Goto(t, "write") /\ UNCHANGED lockq
           /\ \E id : /\ found' = [found EXCEPT ![t] = id]
                      /\ \/ id = NoEvent /\ Matches(Key(t)) = {}
                         \/ id \in Matches(Key(t))
  <2>1. PICK id : /\ found' = [found EXCEPT ![t] = id]
                  /\ \/ id = NoEvent /\ IdsOf(events, Key(t)) = {}
                     \/ id \in IdsOf(events, Key(t))
    BY <1>7, <1>9
  <2>2. id \in Nat /\ Secure(t, [key |-> Key(t), id |-> id, by |-> Job(t)],
                             lockq, events, nextId, stray)
    BY <1>2, <1>4, <1>5, <2>1, FoundIsSecure
  <2> QED
    BY <1>1, <1>2, <1>9, <2>1, <2>2, QuietEnter
<1>10. CASE t \notin Deletes /\ Lookup(t)
  <2>1. CASE /\ \E id \in IF Matches(Key(t)) = {} THEN {NoEvent} ELSE Matches(Key(t)) :
                  found' = [found EXCEPT ![t] = id]
             /\ Goto(t, "write")
             /\ UNCHANGED <<lockq, faults>>
    BY <1>9, <2>1
  <2> QED
    BY <1>8, <1>10, <2>1 DEF Lookup
<1>11. CASE t \in Deletes /\ DeleteLookup(t)
  <2>1. CASE /\ \E id \in Matches(KeyOf[t]) : found' = [found EXCEPT ![t] = id]
             /\ Goto(t, "write")
             /\ UNCHANGED <<lockq, faults>>
    BY <1>7, <1>9, <1>11, <2>1
  <2> QED
    BY <1>8, <1>11, <2>1 DEF DeleteLookup
<1> QED
  BY <1>10, <1>11

\* A delete that queues, a handler that is dropped.
LEMMA HandlerLocks ==
  ASSUME LockInv, NEW t \in Handlers,
         (t \in Deletes /\ DeleteQueue(t)) \/ Cancel(t)
  PROVE  GoogleOK' /\ LocksOK'
<1>1. UNCHANGED <<events, nextId, stray, todo, found>>
  BY DEF DeleteQueue, Cancel, google, worker
<1>2. GoogleOK /\ LocksOK /\ pc \in [Tasks -> Labels]
  BY DEF LockInv, HubInv, Shapes
<1>3. /\ t \in Tasks /\ Job(t) = t /\ Key(t) = KeyOf[t]
      /\ Key(t) \in Keys \union {NoKey} /\ (t \in Deletes => Key(t) \in Keys)
  BY TasksAssumption, KeysAssumption DEF Handlers, Tasks, Job, Key
<1>4. CASE t \in Deletes /\ DeleteQueue(t)
  <2>1. lockq' = [lockq EXCEPT ![Key(t)] = Append(@, t)] /\ Goto(t, "queued") /\ late' = late
    BY <1>3, <1>4 DEF DeleteQueue, google
  <2>2. HeadsKept(t)
    BY <1>2, <1>3, <1>4, <2>1, Waits
  <2>3. LateFromWriters
    BY <2>1 DEF LateFromWriters
  <2> QED
    BY <1>1, <1>2, <1>3, <2>1, <2>2, <2>3, QuietMove
<1>5. CASE Cancel(t)
  <2>1. Goto(t, "dropped")
    BY <1>5 DEF Cancel
  <2>2. HeadsKept(t)
    BY <1>2, <1>3, <1>5, Leaves DEF Cancel
  <2>3. \A req \in late' : \/ req \in late
                           \/ pc[t] = "write" /\ req = Request(t)
    <3>1. CASE LeftBehind({})
      BY <3>1 DEF LeftBehind
    <3>2. CASE pc[t] = "write" /\ LeftBehind({Request(t)})
      BY <3>2 DEF LeftBehind
    <3> QED
      BY <1>5, <3>1, <3>2 DEF Cancel
  <2>4. LateFromWriters
    BY <1>3, <2>3, AsksIsRequest DEF LateFromWriters
  <2> QED
    BY <1>1, <1>2, <1>3, <2>1, <2>2, <2>4, QuietMove
<1> QED
  BY <1>4, <1>5

\* The process: nothing a task holds changes, or nothing is held any more.
LEMMA ProcessLocks ==
  ASSUME LockInv, Authenticated \/ Stop \/ LastPass \/ Crash \/ Start \/ UNCHANGED vars
  PROVE  GoogleOK' /\ LocksOK'
<1>1. UNCHANGED <<events, nextId, stray>> /\ GoogleOK /\ LocksOK
  BY DEF Authenticated, Stop, LastPass, Crash, Start, vars, google, LockInv
<1>2. LateFromWriters
  <2>1. CASE late' = late
    BY <2>1 DEF LateFromWriters
  <2>2. CASE Crash
    BY <2>2, AsksIsRequest DEF Crash, LeftBehind, LateFromWriters
  <2> QED
    BY <2>1, <2>2 DEF Authenticated, Stop, LastPass, Start, vars, google
<1>3. CASE UNCHANGED <<found, pc, todo, lockq>>
  BY <1>1, <1>2, <1>3, QuietStay
<1>4. CASE Start
  <2>1. \A t \in Tasks : pc'[t] # "write"
    BY <1>4 DEF Start, InFlight, Handlers, Tasks
  <2>2. lockq' \in [Keys -> Seq(Tasks)] /\ found' \in [Tasks -> Nat]
    BY <1>4 DEF Start, NoEvent
  <2>3. LocksOK'
    BY <2>1, <2>2 DEF LocksOK
  <2>4. GoogleOK'
    BY <1>1, <1>4 DEF Start, google, GoogleOK
  <2> QED
    BY <2>3, <2>4
<1> QED
  BY <1>3, <1>4 DEF Authenticated, Stop, LastPass, Crash, vars, worker
-----------------------------------------------------------------------------
(***************************************************************************)
(* Steps at Google.                                                        *)
(***************************************************************************)
\* Where the events come from that are there once Google has run a request,
\* and which are still there.
LEMMA RanEvents ==
  ASSUME GoogleOK, NEW req, Fits(req, events, nextId), Ran(req)
  PROVE  /\ nextId' \in Nat \ {0} /\ nextId <= nextId'
         /\ events' \subseteq [id : Nat \ {0}, key : Keys \union {NoKey},
                               body : Entries \union Deletes]
         /\ \A ev \in events' :
              \/ \E old \in events : old.id = ev.id /\ old.key = ev.key
              \/ /\ req.id = NoEvent /\ req.by \notin Deletes /\ nextId' = nextId + 1
                 /\ ev.id = nextId /\ ev.key = req.key
         /\ \A old \in events : old.id # req.id =>
              \E ev \in events' : ev.id = old.id /\ ev.key = old.key
<1> DEFINE Recs == [id : Nat \ {0}, key : Keys \union {NoKey}, body : Entries \union Deletes]
           new == [id |-> nextId, key |-> req.key, body |-> req.by]
           put(ev) == [ev EXCEPT !.body = req.by]
<1>1. events \subseteq Recs /\ nextId \in Nat \ {0}
  BY DEF GoogleOK
<1>2. req.key \in Keys \union {NoKey} /\ req.by \in Entries \union Deletes
  BY DEF Fits
<1>3. nextId' = (IF req.id = NoEvent THEN nextId + 1 ELSE nextId)
  BY DEF Ran
<1>4. CASE req.by \in Deletes
  <2>1. events' = {ev \in events : ev.id # req.id}
    BY <1>4 DEF Ran
  <2> QED
    BY <1>1, <1>3, <2>1
<1>5. CASE req.by \notin Deletes /\ req.id = NoEvent
  <2>1. events' = events \union {new}
    BY <1>5 DEF Ran
  <2>2. new \in Recs /\ new.id = nextId /\ new.key = req.key
    BY <1>1, <1>2
  <2> HIDE DEF new, Recs
  <2>3. events' \subseteq Recs
    BY <1>1, <2>1, <2>2
  <2>4. nextId' = nextId + 1
    BY <1>3, <1>5
  <2>5. \A ev \in events' : ev \in events \/ (ev.id = nextId /\ ev.key = req.key)
    BY <2>1, <2>2
  <2> QED
    BY <1>1, <1>5, <2>1, <2>3, <2>4, <2>5 DEF Recs
<1>6. CASE req.by \notin Deletes /\ req.id # NoEvent
  <2>1. events' = {IF ev.id = req.id THEN put(ev) ELSE ev : ev \in events}
    BY <1>6 DEF Ran
  <2>2. \A ev \in events : put(ev) \in Recs /\ put(ev).id = ev.id /\ put(ev).key = ev.key
    BY <1>1, <1>2
  <2> HIDE DEF put, Recs
  <2>3. \A ev \in events' : ev \in Recs /\ \E old \in events : old.id = ev.id /\ old.key = ev.key
    BY <1>1, <2>1, <2>2
  <2>4. \A old \in events : old.id # req.id => old \in events'
    BY <2>1
  <2>5. nextId' = nextId
    BY <1>3, <1>6
  <2> QED
    BY <1>1, <2>3, <2>4, <2>5 DEF Recs
<1> QED
  BY <1>4, <1>5, <1>6

\* What that makes of the ids of a key.
LEMMA RanIds ==
  ASSUME GoogleOK, NEW req, Fits(req, events, nextId), Ran(req), NEW k \in Keys
  PROVE  /\ k # req.key => IdsOf(events', k) = IdsOf(events, k)
         /\ req.id = NoEvent => IdsOf(events', k) \subseteq IdsOf(events, k) \union {nextId}
         /\ req.id # NoEvent => IdsOf(events', k) \subseteq IdsOf(events, k)
<1>1. ASSUME NEW id \in IdsOf(events', k)
      PROVE  \/ id \in IdsOf(events, k)
             \/ id = nextId /\ req.id = NoEvent /\ k = req.key
  <2>1. PICK ev \in events' : ev.id = id /\ ev.key = k
    BY <1>1 DEF IdsOf
  <2>2. \/ \E old \in events : old.id = ev.id /\ old.key = ev.key
        \/ req.id = NoEvent /\ ev.id = nextId /\ ev.key = req.key
    BY RanEvents
  <2> QED
    BY <2>1, <2>2 DEF IdsOf
<1>2. ASSUME k # req.key, NEW id \in IdsOf(events, k)
      PROVE  id \in IdsOf(events', k)
  <2>1. PICK old \in events : old.id = id /\ old.key = k
    BY <1>2 DEF IdsOf
  <2>2. old.id # req.id
    BY <1>2, <2>1 DEF Fits
  <2>3. \E ev \in events' : ev.id = old.id /\ ev.key = old.key
    BY <2>2, RanEvents
  <2> QED
    BY <2>1, <2>3 DEF IdsOf
<1> QED
  BY <1>1, <1>2

\* A request that fitted fits still.
LEMMA RanFits ==
  ASSUME GoogleOK, NEW req, Fits(req, events, nextId), Ran(req),
         NEW r, Fits(r, events, nextId)
  PROVE  Fits(r, events', nextId')
<1>1. r.id \in Nat /\ r.id < nextId /\ nextId \in Nat /\ nextId' \in Nat /\ nextId <= nextId'
  BY RanEvents DEF Fits, GoogleOK
<1>2. ASSUME NEW ev \in events', ev.id = r.id PROVE ev.key = r.key
  <2>1. \/ \E old \in events : old.id = ev.id /\ old.key = ev.key
        \/ ev.id = nextId
    BY RanEvents
  <2> QED
    BY <1>1, <1>2, <2>1 DEF Fits
<1> QED
  BY <1>1, <1>2 DEF Fits
LEMMA RanCounts ==
  ASSUME GoogleOK, NEW req, Fits(req, events, nextId), Ran(req), NEW k \in Keys
  PROVE  /\ IsFiniteSet(IdsOf(events', k))
         /\ Cardinality(IdsOf(events', k)) \in Nat /\ Cardinality(IdsOf(events, k)) \in Nat
         /\ Cardinality(IdsOf(events', k)) <= Cardinality(IdsOf(events, k)) + 1
         /\ req.id # NoEvent \/ k # req.key =>
              Cardinality(IdsOf(events', k)) <= Cardinality(IdsOf(events, k))
<1> DEFINE A == IdsOf(events, k)
           B == IdsOf(events', k)
           C == A \union {nextId}
<1>1. IsFiniteSet(A)
  BY DEF GoogleOK
<1>2. /\ k # req.key => B = A
      /\ req.id = NoEvent => B \subseteq C
      /\ req.id # NoEvent => B \subseteq A
  BY RanIds
<1> HIDE DEF A, B
<1>3. IsFiniteSet(C) /\ Cardinality(C) <= Cardinality(A) + 1 /\ Cardinality(A) \in Nat
      /\ Cardinality(C) \in Nat
  <2>1. /\ IsFiniteSet(C)
        /\ Cardinality(C) = IF nextId \in A THEN Cardinality(A) ELSE Cardinality(A) + 1
    BY <1>1, FS_AddElement
  <2>2. Cardinality(A) \in Nat
    BY <1>1, FS_CardinalityType
  <2> QED
    BY <2>1, <2>2
<1>4. CASE B \subseteq A
  <2>1. IsFiniteSet(B) /\ Cardinality(B) <= Cardinality(A)
    BY <1>1, <1>4, FS_Subset
  <2>2. Cardinality(B) \in Nat
    BY <2>1, FS_CardinalityType
  <2> QED
    BY <1>3, <2>1, <2>2 DEF A, B
<1>5. CASE B \subseteq C /\ req.id = NoEvent /\ k = req.key
  <2>1. IsFiniteSet(B) /\ Cardinality(B) <= Cardinality(C)
    BY <1>3, <1>5, FS_Subset
  <2>2. Cardinality(B) \in Nat
    BY <2>1, FS_CardinalityType
  <2> QED
    BY <1>3, <1>5, <2>1, <2>2 DEF A, B
<1> QED
  BY <1>2, <1>4, <1>5

\* A creation needs room, or is counted as astray.
LEMMA RanGoogle ==
  ASSUME GoogleOK, NEW req, Fits(req, events, nextId), Ran(req),
         late' \subseteq late, stray' \in [Keys -> Nat],
         \A k \in Keys : \/ k # req.key /\ stray'[k] = stray[k]
                         \/ k = req.key /\ stray'[k] = stray[k] + 1
                         \/ /\ k = req.key /\ stray'[k] = stray[k]
                            /\ req.id = NoEvent => Cardinality(IdsOf(events, k)) <= stray[k]
  PROVE  GoogleOK'
<1>1. /\ nextId \in Nat /\ \A ev \in events : ev.id \in Nat /\ ev.id < nextId
      /\ \A a, b \in events : a.id = b.id => a.key = b.key
      /\ stray \in [Keys -> Nat]
  BY DEF GoogleOK
<1>2. /\ nextId' \in Nat \ {0} /\ nextId <= nextId'
      /\ events' \subseteq [id : Nat \ {0}, key : Keys \union {NoKey}, body : Entries \union Deletes]
      /\ \A ev \in events' :
           \/ \E old \in events : old.id = ev.id /\ old.key = ev.key
           \/ nextId' = nextId + 1 /\ ev.id = nextId /\ ev.key = req.key
  BY RanEvents
<1>3. \A ev \in events' : ev.id < nextId'
  BY <1>1, <1>2
<1>4. ASSUME NEW a \in events', NEW b \in events', a.id = b.id PROVE a.key = b.key
  BY <1>1, <1>2, <1>4
<1>5. \A r \in late' : Fits(r, events', nextId')
  BY RanFits DEF GoogleOK
<1>6. ASSUME NEW k \in Keys
      PROVE  IsFiniteSet(IdsOf(events', k)) /\ Cardinality(IdsOf(events', k)) <= 1 + stray'[k]
  <2>1. Cardinality(IdsOf(events, k)) <= 1 + stray[k] /\ stray[k] \in Nat
    BY <1>1 DEF GoogleOK
  <2> QED
    BY <1>6, <2>1, RanCounts
<1> QED
  BY <1>2, <1>3, <1>4, <1>5, <1>6 DEF GoogleOK

\* Another task's request is as secure as before.
LEMMA RanSecure ==
  ASSUME GoogleOK, NEW req, Fits(req, events, nextId), Ran(req),
         NEW u, NEW r, Secure(u, r, lockq, events, nextId, stray),
         r.key # NoKey => /\ lockq'[r.key] # <<>> /\ Head(lockq'[r.key]) = u
                          /\ \/ r.key # req.key /\ stray'[r.key] = stray[r.key]
                             \/ stray'[r.key] = stray[r.key] + 1
  PROVE  Secure(u, r, lockq', events', nextId', stray')
<1>1. Fits(r, events, nextId) /\ Fits(r, events', nextId')
  BY RanFits DEF Secure
<1>2. CASE r.key = NoKey
  BY <1>1, <1>2 DEF Secure
<1>3. CASE r.key # NoKey
  <2>1. r.key \in Keys /\ Room(IdsOf(events, r.key), stray[r.key], r.id) /\ stray[r.key] \in Nat
    BY <1>1, <1>3 DEF Secure, Fits, GoogleOK
  <2>2. CASE r.key # req.key /\ stray'[r.key] = stray[r.key]
    <3>1. IdsOf(events', r.key) = IdsOf(events, r.key)
      BY <2>1, <2>2, RanIds
    <3> QED
      BY <1>1, <1>3, <2>1, <2>2, <3>1 DEF Secure
  <2>3. CASE stray'[r.key] = stray[r.key] + 1
    <3>1. /\ Cardinality(IdsOf(events', r.key)) <= Cardinality(IdsOf(events, r.key)) + 1
          /\ Cardinality(IdsOf(events', r.key)) \in Nat /\ Cardinality(IdsOf(events, r.key)) \in Nat
      BY <2>1, RanCounts
    <3>2. Room(IdsOf(events', r.key), stray'[r.key], r.id)
      BY <2>1, <2>3, <3>1 DEF Room
    <3> QED
      BY <1>1, <1>3, <3>2 DEF Secure
  <2> QED
    BY <1>3, <2>2, <2>3
<1> QED
  BY <1>2, <1>3

LEMMA StrayedCounts ==
  ASSUME GoogleOK, NEW key \in Keys \union {NoKey}, Strayed(key)
  PROVE  /\ stray' \in [Keys -> Nat]
         /\ \A k \in Keys : stray'[k] = IF k = key THEN stray[k] + 1 ELSE stray[k]
<1>1. stray \in [Keys -> Nat] /\ NoKey \notin Keys
  BY KeysAssumption DEF GoogleOK
<1>2. CASE key = NoKey
  BY <1>1, <1>2 DEF Strayed
<1>3. CASE key # NoKey
  BY <1>1, <1>3 DEF Strayed
<1> QED
  BY <1>2, <1>3

LEMMA LateLocks ==
  ASSUME LockInv, LateArrival
  PROVE  GoogleOK' /\ LocksOK'
<1>1. PICK req \in late :
        /\ late' = late \ {req}
        /\ \/ Possible(req) /\ Ran(req) /\ Strayed(req.key)
           \/ ~Possible(req) /\ UNCHANGED <<events, nextId, applied, stray>>
  BY DEF LateArrival
<1>2. UNCHANGED <<pc, found, lockq, todo>>
  BY DEF LateArrival, worker
<1>3. GoogleOK /\ LocksOK /\ Fits(req, events, nextId)
  BY DEF LockInv, GoogleOK
<1>4. CASE Ran(req) /\ Strayed(req.key)
  <2>1. /\ stray' \in [Keys -> Nat]
        /\ \A k \in Keys : stray'[k] = IF k = req.key THEN stray[k] + 1 ELSE stray[k]
    BY <1>3, <1>4, StrayedCounts DEF Fits
  <2>2. GoogleOK'
    BY <1>1, <1>3, <1>4, <2>1, RanGoogle
  <2>3. ASSUME NEW u \in Tasks, pc'[u] = "write"
        PROVE  Secure(u, Asks(u, found', todo'), lockq', events', nextId', stray')
    <3> DEFINE r == Asks(u, found, todo)
    <3>1. Secure(u, r, lockq, events, nextId, stray) /\ Asks(u, found', todo') = r
      BY <1>2, <1>3, <2>3 DEF LocksOK
    <3> HIDE DEF r
    <3>2. r.key # NoKey => /\ r.key \in Keys /\ lockq'[r.key] # <<>> /\ Head(lockq'[r.key]) = u
                           /\ \/ r.key # req.key /\ stray'[r.key] = stray[r.key]
                              \/ stray'[r.key] = stray[r.key] + 1
      BY <1>2, <2>1, <3>1 DEF Secure, Fits
    <3> QED
      BY <1>3, <1>4, <3>1, <3>2, RanSecure
  <2> QED
    BY <1>2, <1>3, <2>2, <2>3 DEF LocksOK
<1>5. CASE UNCHANGED <<events, nextId, applied, stray>>
  <2>1. LateFromWriters
    BY <1>1 DEF LateFromWriters
  <2> QED
    BY <1>2, <1>3, <1>5, <2>1, QuietStay
<1> QED
  BY <1>1, <1>4, <1>5

LEMMA WriteLocks ==
  ASSUME LockInv, NEW t \in Tasks, Write(t)
  PROVE  GoogleOK' /\ LocksOK'
<1> DEFINE req == Asks(t, found, todo)
<1>1. UNCHANGED <<late, found, todo>> /\ pc[t] = "write"
  BY DEF Write, worker
<1>2. GoogleOK /\ LocksOK /\ pc \in [Tasks -> Labels]
  BY DEF LockInv, HubInv, Shapes
<1>3. Secure(t, req, lockq, events, nextId, stray)
  BY <1>1, <1>2 DEF LocksOK
<1>4. /\ Request(t) = req /\ req.key = Key(t)
      /\ Fits(req, events, nextId) /\ Key(t) \in Keys \union {NoKey}
      /\ Key(t) # NoKey => /\ HoldsLock(t)
                           /\ Room(IdsOf(events, Key(t)), stray[Key(t)], req.id)
  BY <1>3, AsksIsRequest DEF Secure, Fits, HoldsLock
<1> HIDE DEF req
<1>5. LateFromWriters
  BY <1>1 DEF LateFromWriters
<1>6. ASSUME NEW label, label # "write", Goto(t, label), Release(t), Ran(req), UNCHANGED stray
      PROVE  GoogleOK' /\ LocksOK'
  <2>1. HeadsKept(t)
    BY <1>2, <1>4, <1>6, Releases
  <2>2. GoogleOK'
    <3>1. stray' \in [Keys -> Nat] /\ NoKey \notin Keys
      BY <1>2, <1>6, KeysAssumption DEF GoogleOK
    <3>2. \A k \in Keys : k = req.key /\ req.id = NoEvent => Cardinality(IdsOf(events, k)) <= stray[k]
      BY <1>4, <3>1 DEF Room
    <3> QED
      BY <1>1, <1>2, <1>4, <1>6, <3>1, <3>2, RanGoogle
  <2>3. \A u \in Tasks : pc'[u] = IF u = t THEN label ELSE pc[u]
    BY <1>2, <1>6 DEF Goto
  <2>4. ASSUME NEW u \in Tasks, pc'[u] = "write"
        PROVE  Secure(u, Asks(u, found', todo'), lockq', events', nextId', stray')
    <3> DEFINE r == Asks(u, found, todo)
    <3>1. Secure(u, r, lockq, events, nextId, stray) /\ Asks(u, found', todo') = r /\ u # t
      BY <1>1, <1>2, <1>6, <2>3, <2>4 DEF LocksOK
    <3> HIDE DEF r
    <3>2. r.key # NoKey => r.key \in Keys /\ lockq[r.key] # <<>> /\ Head(lockq[r.key]) = u
      BY <3>1 DEF Secure, Fits
    <3>3. r.key # NoKey => r.key # req.key
      BY <1>4, <3>1, <3>2 DEF HoldsLock
    <3>4. r.key # NoKey => lockq'[r.key] # <<>> /\ Head(lockq'[r.key]) = u
      BY <2>1, <3>1, <3>2 DEF HeadsKept
    <3> QED
      BY <1>2, <1>4, <1>6, <3>1, <3>3, <3>4, RanSecure
  <2>5. lockq' \in [Keys -> Seq(Tasks)] /\ found' \in [Tasks -> Nat]
    BY <1>1, <1>2, <2>1 DEF HeadsKept, LocksOK
  <2> QED
    BY <2>2, <2>4, <2>5 DEF LocksOK
<1>7. CASE Ran(req) /\ Strayed(Key(t)) /\ UNCHANGED <<pc, lockq>>
  <2>1. /\ stray' \in [Keys -> Nat]
        /\ \A k \in Keys : stray'[k] = IF k = req.key THEN stray[k] + 1 ELSE stray[k]
    BY <1>2, <1>4, <1>7, StrayedCounts
  <2>2. GoogleOK'
    BY <1>1, <1>2, <1>4, <1>7, <2>1, RanGoogle
  <2>3. ASSUME NEW u \in Tasks, pc'[u] = "write"
        PROVE  Secure(u, Asks(u, found', todo'), lockq', events', nextId', stray')
    <3> DEFINE r == Asks(u, found, todo)
    <3>1. Secure(u, r, lockq, events, nextId, stray) /\ Asks(u, found', todo') = r
      BY <1>1, <1>2, <1>7, <2>3 DEF LocksOK
    <3> HIDE DEF r
    <3>2. r.key # NoKey => /\ r.key \in Keys /\ lockq'[r.key] # <<>> /\ Head(lockq'[r.key]) = u
                           /\ \/ r.key # req.key /\ stray'[r.key] = stray[r.key]
                              \/ stray'[r.key] = stray[r.key] + 1
      BY <1>7, <2>1, <3>1 DEF Secure, Fits
    <3> QED
      BY <1>2, <1>4, <1>7, <3>1, <3>2, RanSecure
  <2> QED
    BY <1>1, <1>2, <1>7, <2>2, <2>3 DEF LocksOK
<1>8. ASSUME NEW label, label # "write", Goto(t, label), Release(t),
             UNCHANGED <<events, nextId, stray>>
      PROVE  GoogleOK' /\ LocksOK'
  <2>1. HeadsKept(t)
    BY <1>2, <1>4, <1>8, Releases
  <2> QED
    BY <1>1, <1>2, <1>5, <1>8, <2>1, QuietMove
<1>9. CASE /\ Ran(req) /\ Release(t) /\ UNCHANGED <<stray, faults>>
           /\ Goto(t, IF t \in Deletes THEN "answered" ELSE "ok")
  BY <1>6, <1>9
<1>10. CASE /\ Release(t) /\ UNCHANGED <<events, nextId, applied, stray>>
            /\ \E label \in {"answered", "transient", "permanent"} :
                 Goto(t, IF t \in Deletes THEN "answered" ELSE label)
  BY <1>8, <1>10
<1> QED
  BY <1>4, <1>7, <1>9, <1>10 DEF Write

-----------------------------------------------------------------------------
LEMMA LockInit ==
  ASSUME Init
  PROVE  LockInv
<1>1. HubInv
  BY HubInit
<1>2. GoogleOK
  <2>1. events = {} /\ nextId = 1 /\ late = {} /\ stray = [k \in Keys |-> 0]
    BY DEF Init
  <2>2. \A k \in Keys : IdsOf(events, k) = {}
    BY <2>1 DEF IdsOf
  <2>3. IsFiniteSet({}) /\ Cardinality({}) = 0
    BY FS_EmptySet
  <2>4. \A k \in Keys : /\ IsFiniteSet(IdsOf(events, k))
                        /\ Cardinality(IdsOf(events, k)) <= 1 + stray[k]
    BY <2>1, <2>2, <2>3
  <2> QED
    BY <2>1, <2>4 DEF GoogleOK
<1>3. LocksOK
  <2>1. \A t \in Tasks : pc[t] # "write"
    BY DEF Init
  <2>2. lockq \in [Keys -> Seq(Tasks)] /\ found \in [Tasks -> Nat]
    BY DEF Init, NoEvent
  <2> QED
    BY <2>1, <2>2 DEF LocksOK
<1> QED
  BY <1>1, <1>2, <1>3 DEF LockInv

LEMMA LockStep ==
  ASSUME LockInv, [Next]_vars
  PROVE  LockInv'
<1>0. Worker \in Tasks /\ Entries \subseteq Tasks /\ Deletes \subseteq Tasks
      /\ Worker \notin Deletes /\ Entries \intersect Deletes = {} /\ Deletes \subseteq Handlers
  BY TasksAssumption DEF Tasks, Handlers
<1>1. HubInv'
  BY HubStep DEF LockInv
<1>2. GoogleOK' /\ LocksOK'
  <2>1. CASE \/ \E e \in Entries : Post(e) \/ SyncAnswer(e)
             \/ BeginPass \/ SkipOrphan \/ Settle \/ EndPass
    BY <2>1, PassLocks
  <2>2. CASE \E t \in Tasks : t \notin Deletes /\ (Deliver(t) \/ Lookup(t))
    BY <2>2, DeliverLocks, LookupLocks
  <2>3. CASE \E t \in Tasks : Write(t)
    BY <2>3, WriteLocks
  <2>4. CASE \E t \in Deletes : DeleteQueue(t) \/ DeleteLookup(t)
    BY <1>0, <2>4, HandlerLocks, LookupLocks
  <2>5. CASE \E t \in Handlers : Cancel(t)
    BY <2>5, HandlerLocks
  <2>6. CASE Authenticated \/ Stop \/ LastPass \/ Crash \/ Start \/ UNCHANGED vars
    BY <2>6, ProcessLocks
  <2>7. CASE LateArrival
    BY <2>7, LateLocks
  <2> QED
    BY <1>0, <2>1, <2>2, <2>3, <2>4, <2>5, <2>6, <2>7
    DEF Next, WorkerStep, HandlerStep, DeleteStep
<1> QED
  BY <1>1, <1>2 DEF LockInv

LEMMA LockInvHolds == Spec => []LockInv
<1>1. Init => LockInv
  BY LockInit
<1>2. LockInv /\ [Next]_vars => LockInv'
  BY LockStep
<1> QED
  BY <1>1, <1>2, PTL DEF Spec

\* The key lock makes search-then-write atomic: what a lookup returned is
\* still so when its request goes out, for any number of tasks, keys and
\* faults, unless Google ran a request of the key late or twice (KeyLocks,
\* deliver and delete_event).
THEOREM LookupStaysTrue == Spec => []LookupStillTrue
<1>1. ASSUME LockInv, NEW t \in Tasks, pc[t] = "write", Key(t) # NoKey, stray[Key(t)] = 0
      PROVE  IF found[t] = NoEvent THEN Matches(Key(t)) = {} ELSE found[t] \in Matches(Key(t))
  <2>1. Secure(t, Asks(t, found, todo), lockq, events, nextId, stray)
    BY <1>1 DEF LockInv, LocksOK
  <2>2. Key(t) \in Keys /\ Room(IdsOf(events, Key(t)), stray[Key(t)], found[t])
    BY <1>1, <2>1, AsksIsRequest DEF Secure, Fits
  <2>3. Matches(Key(t)) = IdsOf(events, Key(t)) /\ IsFiniteSet(IdsOf(events, Key(t)))
    BY <1>1, <2>2 DEF Matches, IdsOf, LockInv, GoogleOK
  <2>4. CASE found[t] = NoEvent
    <3>1. /\ Cardinality(IdsOf(events, Key(t))) <= 0
          /\ Cardinality(IdsOf(events, Key(t))) \in Nat
      BY <1>1, <2>2, <2>3, <2>4, FS_CardinalityType DEF Room
    <3>2. Cardinality(IdsOf(events, Key(t))) = 0
      BY <3>1
    <3> QED
      BY <2>3, <2>4, <3>2, FS_EmptySet
  <2>5. CASE found[t] # NoEvent
    BY <1>1, <2>2, <2>3, <2>5 DEF Room
  <2> QED
    BY <2>4, <2>5
<1>2. LockInv => LookupStillTrue
  BY <1>1 DEF LookupStillTrue
<1> QED
  BY <1>2, LockInvHolds, PTL

\* Redelivery converges (K2, AR16): crashes, failed markers, redeliveries and
\* concurrent handlers alone never duplicate an event, in any number.
THEOREM NoOtherDuplicates == Spec => []DuplicatesOnlyFromStrays
<1>1. LockInv => DuplicatesOnlyFromStrays
  <2>1. \A k : Matches(k) = IdsOf(events, k)
    BY DEF Matches, IdsOf
  <2> QED
    BY <2>1 DEF DuplicatesOnlyFromStrays, LockInv, GoogleOK
<1> QED
  BY <1>1, LockInvHolds, PTL
-----------------------------------------------------------------------------
(***************************************************************************)
(* The types, and with them the cap and the bounds.                        *)
(***************************************************************************)
CapOK == Len(log) <= MaxLines /\ EntriesOnce(log)
ProcessOK ==
  /\ proc \in {"up", "stopping", "down"} /\ phase \in {"auth", "replay", "loop", "final"}
  /\ delivered \in 0..CompactAfter /\ since \in 0..CompactAfter
  /\ permanent \in [Entries -> 0..DeadAfter]
  /\ faults \in 0..MaxFaults
HistoryOK == slipped \subseteq Entries /\ gone \subseteq Keys
CalendarOK ==
  /\ events \subseteq Event /\ nextId \in 1..(MaxEvents + 1)
  /\ late \subseteq RequestOf /\ found \in [Tasks -> 0..MaxEvents]

TypeInv == LockInv /\ CapOK /\ ProcessOK /\ HistoryOK /\ CalendarOK

\* A journal step at the level of lines: none more, one within the cap, or
\* a compaction.
LEMMA LineStep ==
  ASSUME HubInv, [Next]_vars
  PROVE  \/ log' = log \/ log' = Compacted(log)
         \/ Len(log) < MaxLines /\ \E r : log' = Append(log, r)
<1>1. ASSUME NEW r, Journalled(r) \/ NotJournalled(r)
      PROVE  log' = log \/ (Len(log) < MaxLines /\ log' = Append(log, r))
  BY <1>1 DEF Journalled, NotJournalled
<1>2. CASE \E e \in Entries : Post(e) \/ SyncAnswer(e)
  BY <1>1, <1>2 DEF Post, SyncAnswer
<1>3. CASE Settle
  BY <1>1, <1>3 DEF Settle, SettleOk, SettleTransient, SettlePermanent
<1>4. CASE EndPass
  BY <1>4 DEF EndPass
<1>5. CASE \/ \E t \in Tasks : Deliver(t) \/ Lookup(t) \/ Write(t)
           \/ \E t \in Handlers : Cancel(t)
           \/ \E d \in Deletes : DeleteQueue(d) \/ DeleteLookup(d)
           \/ BeginPass \/ SkipOrphan \/ LastPass
           \/ Authenticated \/ Stop \/ Crash \/ Start \/ LateArrival \/ UNCHANGED vars
  <2>1. UNCHANGED journal
    BY <1>5 DEF Deliver, Lookup, Write, Cancel, DeleteQueue, DeleteLookup, BeginPass,
         SkipOrphan, LastPass, Authenticated, Stop, Crash, Start, LateArrival, vars
  <2> QED
    BY <2>1 DEF journal
<1>6. Worker \in Tasks /\ Entries \subseteq Tasks /\ Deletes \subseteq Tasks
  BY DEF Tasks
<1> QED
  BY <1>2, <1>3, <1>4, <1>5, <1>6 DEF Next, WorkerStep, HandlerStep, DeleteStep

LEMMA OnceAppend ==
  ASSUME NEW ls \in Seq(Record), EntriesOnce(ls), NEW r \in Record,
         r.kind = "entry" => ~Holds(ls, r)
  PROVE  EntriesOnce(Append(ls, r))
<1> DEFINE n == Len(ls)
           b == Append(ls, r)
<1>1. /\ n \in Nat /\ DOMAIN ls = 1..n /\ DOMAIN b = 1..n + 1
      /\ b[n + 1] = r /\ \A i \in 1..n : b[i] = ls[i] /\ ls[i] \in Record
  OBVIOUS
<1>2. \A i \in 1..n + 1 : i \in 1..n \/ i = n + 1
  BY <1>1
<1> HIDE DEF n, b
<1>3. \A x \in Record : x.kind = "entry" /\ r.kind = "entry" /\ x.id = r.id => x = r
  BY DEF Record
<1> QED
  BY <1>1, <1>2, <1>3 DEF EntriesOnce, Holds, b

LEMMA CapStep ==
  ASSUME HubInv, CapOK, [Next]_vars
  PROVE  CapOK'
<1>1. log \in Seq(Record) /\ MaxLines \in Nat /\ Len(log) \in Nat
  BY NumbersAssumption DEF HubInv, Shapes
<1>2. EntriesOnce(log')
  <2>1. ASSUME NEW r \in Record, log' = Append(log, r), r.kind = "entry" => ~Holds(log, r)
        PROVE  EntriesOnce(log')
    BY <1>1, <2>1, OnceAppend DEF CapOK
  <2>2. CASE \E e \in Entries : Takes(e)
    BY <2>1, <2>2, NotTaken, RecordsDiffer DEF Takes, InLog
  <2>3. CASE \E e \in Entries : MarksDone(e) \/ MarksDead(e)
    <3>1. \A e \in Entries : DoneRec(e).kind # "entry" /\ DeadRec(e).kind # "entry"
      BY DEF DoneRec, DeadRec
    <3> QED
      BY <2>1, <2>3, <3>1, RecordsDiffer DEF MarksDone, MarksDead
  <2>4. CASE Compacts
    BY <1>1, <2>4, CompactedOnce DEF Compacts, CapOK
  <2>5. CASE log' = log
    BY <2>5 DEF CapOK
  <2> QED
    BY <2>2, <2>3, <2>4, <2>5, NextJournal DEF JournalStep, Stores, journal
<1>3. Len(log') <= MaxLines
  <2>1. CASE log' = log
    BY <2>1 DEF CapOK
  <2>2. CASE log' = Compacted(log)
    <3>1. Len(Compacted(log)) <= Len(log) /\ Compacted(log) \in Seq(Record)
      BY <1>1, CompactedIsNoLonger, CompactedType DEF CapOK
    <3>2. Len(Compacted(log)) \in Nat
      BY <3>1
    <3> QED
      BY <1>1, <2>2, <3>1, <3>2 DEF CapOK
  <2>3. CASE Len(log) < MaxLines /\ \E r : log' = Append(log, r)
    <3>1. PICK r : log' = Append(log, r)
      BY <2>3
    <3>2. Len(log') = Len(log) + 1
      BY <1>1, <3>1
    <3> QED
      BY <1>1, <2>3, <3>2
  <2> QED
    BY <2>1, <2>2, <2>3, LineStep
<1> QED
  BY <1>2, <1>3 DEF CapOK
LEMMA FaultsStep ==
  ASSUME faults \in 0..MaxFaults, [Next]_vars
  PROVE  faults' \in 0..MaxFaults
<1>0. ASSUME UNCHANGED faults \/ \E kind : Fault(kind)
      PROVE  faults' \in 0..MaxFaults
  BY <1>0, NumbersAssumption DEF Fault
<1>1. ASSUME NEW r, Journalled(r) \/ NotJournalled(r)
      PROVE  UNCHANGED faults \/ \E kind : Fault(kind)
  BY <1>1 DEF Journalled, NotJournalled
<1>2. CASE \E e \in Entries : Post(e) \/ SyncAnswer(e)
  BY <1>0, <1>1, <1>2 DEF Post, SyncAnswer
<1>3. CASE Settle
  BY <1>0, <1>1, <1>3 DEF Settle, SettleOk, SettleTransient, SettlePermanent
<1>4. CASE \E t \in Tasks : Deliver(t) \/ Lookup(t)
  BY <1>0, <1>4 DEF Deliver, Lookup
<1>5. CASE \E t \in Tasks : Write(t)
  BY <1>0, <1>5 DEF Write
<1>6. CASE EndPass
  BY <1>0, <1>6 DEF EndPass
<1>7. CASE \E d \in Deletes : DeleteQueue(d) \/ DeleteLookup(d)
  BY <1>0, <1>7 DEF DeleteQueue, DeleteLookup
<1>8. CASE \/ \E t \in Handlers : Cancel(t)
           \/ BeginPass \/ SkipOrphan \/ LastPass \/ Authenticated \/ Stop \/ Crash
           \/ Start \/ LateArrival \/ UNCHANGED vars
  BY <1>0, <1>8 DEF Cancel, BeginPass, SkipOrphan, LastPass, Authenticated, Stop,
     Crash, Start, LateArrival, vars
<1>9. Worker \in Tasks /\ Entries \subseteq Tasks /\ Deletes \subseteq Tasks
  BY DEF Tasks
<1> QED
  BY <1>2, <1>3, <1>4, <1>5, <1>6, <1>7, <1>8, <1>9
  DEF Next, WorkerStep, HandlerStep, DeleteStep

LEMMA SettleProcess ==
  ASSUME HubInv, ProcessOK, Settle
  PROVE  /\ delivered' \in 0..CompactAfter /\ permanent' \in [Entries -> 0..DeadAfter]
         /\ UNCHANGED <<proc, phase, since>>
<1> DEFINE e == Head(todo)
<1>1. /\ permanent \in [Entries -> 0..DeadAfter] /\ delivered \in 0..CompactAfter
      /\ DeadAfter \in Nat \ {0} /\ CompactAfter \in Nat \ {0}
  BY NumbersAssumption DEF ProcessOK
<1>2. e \in Entries
  BY DEF Settle, HubInv, Shapes
<1>3. UNCHANGED <<proc, phase, since>>
  BY DEF Settle
<1>4. SettleOk(e) \/ SettleTransient(e) \/ SettlePermanent(e)
  BY DEF Settle
<1> HIDE DEF e
<1>5. CASE SettleOk(e)
  BY <1>1, <1>3, <1>5 DEF SettleOk, AtMost
<1>6. CASE SettleTransient(e)
  BY <1>1, <1>2, <1>3, <1>6 DEF SettleTransient
<1>7. CASE SettlePermanent(e)
  <2> DEFINE seen == (IF phase = "loop" THEN permanent[e] ELSE 0) + 1
  <2>1. permanent[e] \in 0..DeadAfter /\ seen \in Nat \ {0}
    BY <1>1, <1>2
  <2>2. ASSUME NEW n \in 0..DeadAfter,
               permanent' = IF phase = "loop" THEN [permanent EXCEPT ![e] = n] ELSE permanent
        PROVE  permanent' \in [Entries -> 0..DeadAfter]
    BY <1>1, <1>2, <2>2
  <2>3. delivered' = delivered
    BY <1>7 DEF SettlePermanent
  <2>4. \E n : /\ n = 0 \/ (n = seen /\ seen < DeadAfter) \/ n = AtMost(seen, DeadAfter)
               /\ permanent' = IF phase = "loop" THEN [permanent EXCEPT ![e] = n] ELSE permanent
    BY <1>7 DEF SettlePermanent
  <2> HIDE DEF seen
  <2>5. \A n : n = 0 \/ (n = seen /\ seen < DeadAfter) \/ n = AtMost(seen, DeadAfter)
                 => n \in 0..DeadAfter
    BY <1>1, <2>1 DEF AtMost
  <2> QED
    BY <1>1, <1>3, <2>2, <2>3, <2>4, <2>5
<1> QED
  BY <1>4, <1>5, <1>6, <1>7

LEMMA ProcessStep ==
  ASSUME HubInv, ProcessOK, [Next]_vars
  PROVE  ProcessOK'
<1>0. faults' \in 0..MaxFaults /\ CompactAfter \in Nat \ {0} /\ DeadAfter \in Nat \ {0}
  BY FaultsStep, NumbersAssumption DEF ProcessOK
<1>1. CASE \/ \E e \in Entries : Post(e) \/ SyncAnswer(e)
           \/ \E t \in Tasks : Deliver(t) \/ Lookup(t) \/ Write(t)
           \/ \E t \in Handlers : Cancel(t)
           \/ \E d \in Deletes : DeleteQueue(d) \/ DeleteLookup(d)
           \/ LateArrival \/ UNCHANGED vars
  <2>1. UNCHANGED <<worker, proc>>
    BY <1>1 DEF Post, SyncAnswer, Deliver, Lookup, Write, Cancel, DeleteQueue, DeleteLookup,
         LateArrival, vars
  <2> QED
    BY <1>0, <2>1 DEF worker, ProcessOK
<1>2. CASE Settle
  BY <1>0, <1>2, SettleProcess DEF ProcessOK
<1>3. CASE BeginPass \/ SkipOrphan
  BY <1>0, <1>3 DEF BeginPass, SkipOrphan, ProcessOK
<1>4. CASE EndPass
  <2>1. since' \in 0..CompactAfter
    <3>1. delivered \in 0..CompactAfter /\ since \in 0..CompactAfter
      BY DEF ProcessOK
    <3>2. AtMost(since + delivered, CompactAfter) \in 0..CompactAfter
      BY <1>0, <3>1 DEF AtMost
    <3> QED
      BY <1>0, <1>4, <3>1, <3>2 DEF EndPass
  <2>2. phase' \in {"auth", "replay", "loop", "final"} /\ proc' \in {"up", "stopping", "down"}
    BY <1>4 DEF EndPass, ProcessOK
  <2> QED
    BY <1>0, <1>4, <2>1, <2>2 DEF EndPass, ProcessOK
<1>5. CASE LastPass \/ Authenticated
  BY <1>0, <1>5 DEF LastPass, Authenticated, ProcessOK
<1>6. CASE Stop \/ Crash
  <2>1. UNCHANGED worker /\ proc' \in {"up", "stopping", "down"}
    BY <1>6 DEF Stop, Crash
  <2> QED
    BY <1>0, <2>1 DEF worker, ProcessOK
<1>7. CASE Start
  BY <1>0, <1>7 DEF Start, ProcessOK
<1>8. Worker \in Tasks /\ Entries \subseteq Tasks /\ Deletes \subseteq Tasks
  BY DEF Tasks
<1> QED
  BY <1>1, <1>2, <1>3, <1>4, <1>5, <1>6, <1>7, <1>8
  DEF Next, WorkerStep, HandlerStep, DeleteStep

LEMMA HistoryStep ==
  ASSUME HubInv, HistoryOK, [Next]_vars
  PROVE  HistoryOK'
<1>1. CASE \E e \in Entries : Post(e)
  BY <1>1 DEF Post, HistoryOK
<1>2. CASE \E e \in Entries : SyncAnswer(e)
  BY <1>2 DEF SyncAnswer, HistoryOK
<1>3. CASE \E t \in Tasks : Write(t)
  <2>1. \A t \in Deletes : Key(t) \in Keys
    BY TasksAssumption, KeysAssumption DEF Key, Job
  <2> QED
    BY <1>3, <2>1 DEF Write, HistoryOK
<1>4. CASE Settle
  <2>1. Head(todo) \in Entries
    BY <1>4 DEF Settle, HubInv, Shapes
  <2> QED
    BY <1>4, <2>1 DEF Settle, SettleOk, SettleTransient, SettlePermanent, HistoryOK
<1>5. CASE Crash \/ \E t \in Handlers : Cancel(t)
  <2>1. \A reqs : LeftBehind(reqs) => slipped' \subseteq slipped \union Entries
    BY DEF LeftBehind
  <2> QED
    BY <1>5, <2>1 DEF Crash, Cancel, HistoryOK
<1>6. CASE \/ \E t \in Tasks : Deliver(t) \/ Lookup(t)
           \/ \E d \in Deletes : DeleteQueue(d) \/ DeleteLookup(d)
           \/ BeginPass \/ SkipOrphan \/ EndPass \/ LastPass
           \/ Authenticated \/ Stop \/ Start \/ LateArrival \/ UNCHANGED vars
  BY <1>6 DEF Deliver, Lookup, DeleteQueue, DeleteLookup, BeginPass, SkipOrphan, EndPass,
     LastPass, Authenticated, Stop, Start, LateArrival, vars, HistoryOK
<1>7. Worker \in Tasks /\ Entries \subseteq Tasks /\ Deletes \subseteq Tasks
  BY DEF Tasks
<1> QED
  BY <1>1, <1>2, <1>3, <1>4, <1>5, <1>6, <1>7
  DEF Next, WorkerStep, HandlerStep, DeleteStep
LEMMA RanTypes ==
  ASSUME GoogleOK, CalendarOK, NEW req, Fits(req, events, nextId), Possible(req), Ran(req)
  PROVE  events' \subseteq Event /\ nextId' \in 1..(MaxEvents + 1)
<1> DEFINE new == [id |-> nextId, key |-> req.key, body |-> req.by]
           put(ev) == [ev EXCEPT !.body = req.by]
<1>1. events \subseteq Event /\ nextId \in 1..(MaxEvents + 1) /\ MaxEvents \in Nat
  BY NumbersAssumption DEF CalendarOK
<1>2. req.key \in Keys \union {NoKey} /\ req.by \in Entries \union Deletes
  BY DEF Fits
<1>3. req.id = NoEvent => nextId <= MaxEvents
  BY DEF Possible
<1>4. nextId' \in 1..(MaxEvents + 1)
  BY <1>1, <1>3 DEF Ran
<1>5. CASE req.by \in Deletes
  BY <1>1, <1>4, <1>5 DEF Ran
<1>6. CASE req.by \notin Deletes /\ req.id = NoEvent
  <2>1. events' = events \union {new}
    BY <1>6 DEF Ran
  <2>2. nextId \in 1..MaxEvents
    BY <1>1, <1>3, <1>6
  <2>3. new \in Event
    BY <1>2, <1>6, <2>2 DEF Event
  <2> QED
    BY <1>1, <1>4, <2>1, <2>3
<1>7. CASE req.by \notin Deletes /\ req.id # NoEvent
  <2>1. events' = {IF ev.id = req.id THEN put(ev) ELSE ev : ev \in events}
    BY <1>7 DEF Ran
  <2>2. \A ev \in events : put(ev) \in Event
    BY <1>1, <1>2, <1>7 DEF Event
  <2> HIDE DEF put
  <2> QED
    BY <1>1, <1>4, <2>1, <2>2
<1> QED
  BY <1>5, <1>6, <1>7

\* A task that is writing has a request of the right shape.
LEMMA RequestType ==
  ASSUME LockInv, CalendarOK, NEW t \in Tasks, pc[t] = "write"
  PROVE  Request(t) \in RequestOf /\ Fits(Request(t), events, nextId)
<1>1. Request(t) = Asks(t, found, todo) /\ Fits(Request(t), events, nextId)
  BY AsksIsRequest DEF LockInv, LocksOK, Secure
<1>2. Key(t) \in Keys \union {NoKey} /\ Job(t) \in Entries \union Deletes
  BY <1>1, AsksIsRequest DEF Fits
<1>3. found[t] \in 0..MaxEvents
  BY DEF CalendarOK
<1> QED
  BY <1>1, <1>2, <1>3 DEF Request, RequestOf

LEMMA CalendarStep ==
  ASSUME LockInv, CalendarOK, [Next]_vars
  PROVE  CalendarOK'
<1>0. /\ events \subseteq Event /\ nextId \in 1..(MaxEvents + 1) /\ MaxEvents \in Nat
      /\ late \subseteq RequestOf /\ found \in [Tasks -> 0..MaxEvents]
      /\ GoogleOK
  BY NumbersAssumption DEF CalendarOK, LockInv
<1>1. CASE \E t \in Tasks : Write(t)
  <2>1. PICK t \in Tasks : Write(t)
    BY <1>1
  <2>2. UNCHANGED <<late, found>> /\ Fits(Request(t), events, nextId)
    BY <2>1, RequestType DEF Write
  <2>3. \/ Possible(Request(t)) /\ Ran(Request(t))
        \/ UNCHANGED <<events, nextId>>
    BY <2>1 DEF Write
  <2> QED
    BY <1>0, <2>2, <2>3, RanTypes DEF CalendarOK
<1>2. CASE LateArrival
  <2>1. PICK req \in late :
          /\ late' = late \ {req}
          /\ \/ Possible(req) /\ Ran(req) /\ Strayed(req.key)
             \/ ~Possible(req) /\ UNCHANGED <<events, nextId, applied, stray>>
    BY <1>2 DEF LateArrival
  <2>2. found' = found /\ Fits(req, events, nextId)
    BY <1>0, <1>2 DEF LateArrival, GoogleOK
  <2> QED
    BY <1>0, <2>1, <2>2, RanTypes DEF CalendarOK
<1>3. CASE Crash \/ \E t \in Handlers : Cancel(t)
  <2>1. UNCHANGED <<events, nextId, found>>
    BY <1>3 DEF Crash, Cancel
  <2>2. Handlers \subseteq Tasks
    BY DEF Handlers, Tasks
  <2>3. ASSUME NEW req \in late', req \notin late
        PROVE  \E t \in Tasks : pc[t] = "write" /\ req = Request(t)
    <3>1. CASE Crash
      BY <2>3, <3>1 DEF Crash, LeftBehind
    <3>2. CASE \E t \in Handlers : Cancel(t)
      <4>1. PICK t \in Handlers : Cancel(t)
        BY <3>2
      <4>2. CASE LeftBehind({})
        BY <2>3, <4>2 DEF LeftBehind
      <4>3. CASE pc[t] = "write" /\ LeftBehind({Request(t)})
        BY <2>2, <2>3, <4>3 DEF LeftBehind
      <4> QED
        BY <4>1, <4>2, <4>3 DEF Cancel
    <3> QED
      BY <1>3, <3>1, <3>2
  <2>4. late' \subseteq RequestOf
    BY <1>0, <2>3, RequestType
  <2> QED
    BY <1>0, <2>1, <2>4 DEF CalendarOK
<1>4. CASE \/ \E t \in Tasks : Deliver(t) \/ Lookup(t)
           \/ \E d \in Deletes : DeleteLookup(d)
           \/ Start
  <2>1. UNCHANGED <<events, nextId, late>>
    BY <1>4 DEF Deliver, Lookup, DeleteLookup, Start, google
  <2>2. \A key : Matches(key) \subseteq 0..MaxEvents
    BY <1>0 DEF Matches, Event
  <2>3. NoEvent \in 0..MaxEvents
    BY <1>0 DEF NoEvent
  <2>4. found' \in [Tasks -> 0..MaxEvents]
    <3>1. CASE \E t \in Tasks : Deliver(t)
      BY <1>0, <2>3, <3>1 DEF Deliver
    <3>2. CASE \E t \in Tasks : Lookup(t)
      BY <1>0, <2>2, <2>3, <3>2 DEF Lookup
    <3>3. CASE \E d \in Deletes : DeleteLookup(d)
      BY <1>0, <2>2, <3>3 DEF DeleteLookup
    <3>4. CASE Start
      BY <2>3, <3>4 DEF Start
    <3> QED
      BY <1>4, <3>1, <3>2, <3>3, <3>4
  <2> QED
    BY <1>0, <2>1, <2>4 DEF CalendarOK
<1>5. CASE \/ \E e \in Entries : Post(e) \/ SyncAnswer(e)
           \/ \E d \in Deletes : DeleteQueue(d)
           \/ BeginPass \/ SkipOrphan \/ Settle \/ EndPass \/ LastPass
           \/ Authenticated \/ Stop \/ UNCHANGED vars
  <2>1. UNCHANGED <<google, found>>
    BY <1>5 DEF Post, SyncAnswer, DeleteQueue, BeginPass, SkipOrphan, Settle, EndPass,
       LastPass, Authenticated, Stop, vars
  <2> QED
    BY <2>1 DEF google, CalendarOK
<1>6. Worker \in Tasks /\ Entries \subseteq Tasks /\ Deletes \subseteq Tasks
  BY DEF Tasks
<1> QED
  BY <1>1, <1>2, <1>3, <1>4, <1>5, <1>6
  DEF Next, WorkerStep, HandlerStep, DeleteStep

LEMMA TypeInit ==
  ASSUME Init
  PROVE  CapOK /\ ProcessOK /\ HistoryOK /\ CalendarOK
<1>0. /\ DeadAfter \in Nat /\ CompactAfter \in Nat /\ MaxEvents \in Nat /\ MaxFaults \in Nat
      /\ Backlog \in Seq(Entries) /\ Len(Backlog) <= MaxLines
      /\ \A i, j \in DOMAIN Backlog : Backlog[i] = Backlog[j] => i = j
  BY NumbersAssumption, BacklogAssumption
<1>1. log = [i \in DOMAIN Backlog |-> EntryRec(Backlog[i])]
  BY DEF Init
<1>2. CapOK
  <2>1. Len(Backlog) \in Nat /\ DOMAIN Backlog = 1..Len(Backlog)
        /\ \A i \in DOMAIN Backlog : Backlog[i] \in Entries
    BY <1>0
  <2>2. Len(log) = Len(Backlog)
    <3>1. log \in Seq(Record) /\ DOMAIN log = 1..Len(Backlog)
      BY <1>1, <2>1, FirstLog
    <3> QED
      BY <2>1, <3>1
  <2>3. EntriesOnce(log)
    BY <1>0, <1>1, <2>1, RecordsDiffer DEF EntriesOnce
  <2> QED
    BY <1>0, <2>2, <2>3 DEF CapOK
<1>3. ProcessOK
  BY <1>0 DEF Init, ProcessOK
<1>4. HistoryOK
  BY DEF Init, HistoryOK
<1>5. CalendarOK
  <2>1. found \in [Tasks -> 0..MaxEvents]
    BY <1>0 DEF Init, NoEvent
  <2> QED
    BY <1>0, <2>1 DEF Init, CalendarOK
<1> QED
  BY <1>2, <1>3, <1>4, <1>5

LEMMA TypeStep ==
  ASSUME TypeInv, [Next]_vars
  PROVE  TypeInv'
<1>1. LockInv' /\ CalendarOK'
  BY LockStep, CalendarStep DEF TypeInv
<1>2. CapOK' /\ ProcessOK' /\ HistoryOK'
  BY CapStep, ProcessStep, HistoryStep DEF TypeInv, LockInv
<1> QED
  BY <1>1, <1>2 DEF TypeInv

\* Every reachable state has its types: the journal never passes its cap,
\* also not with a compaction, and no counter its bound.
THEOREM HubTyped == Spec => []TypeOK
<1>1. Init => TypeInv
  BY LockInit, TypeInit DEF TypeInv
<1>2. TypeInv /\ [Next]_vars => TypeInv'
  BY TypeStep
<1>3. TypeInv => TypeOK
  <2> SUFFICES ASSUME TypeInv PROVE TypeOK
    OBVIOUS
  <2>1. /\ log \in Seq(Record) /\ order \in Seq(Entries) /\ todo \in Seq(Entries)
        /\ pc \in [Tasks -> Labels] /\ applied \subseteq Entries /\ acked \subseteq Entries
    BY DEF TypeInv, LockInv, HubInv, Shapes, Control
  <2>2. lockq \in [Keys -> Seq(Tasks)] /\ stray \in [Keys -> Nat]
    BY DEF TypeInv, LockInv, LocksOK, GoogleOK
  <2> QED
    BY <2>1, <2>2 DEF TypeInv, CapOK, ProcessOK, HistoryOK, CalendarOK, TypeOK
<1> QED
  BY <1>1, <1>2, <1>3, PTL DEF Spec

-----------------------------------------------------------------------------
(***************************************************************************)
(* The order of deliveries: what was accepted earlier and has not failed   *)
(* is out of the worker's way before what was accepted later.              *)
(***************************************************************************)
Async == Entries \ SyncPosts

Earlier(ord, a, b) == \E i, j \in DOMAIN ord : i < j /\ ord[i] = a /\ ord[j] = b

Apart(s) == \A i, j \in DOMAIN s : s[i] = s[j] => i = j

Waiting(ls, e) == Holds(ls, EntryRec(e)) /\ ~Marked(ls, e)

\* The pending entries stand in the log in the order they were taken.
OrderedLog(ls, ord) ==
  \A i, j \in DOMAIN ls :
    ( /\ i < j
      /\ ls[i].kind = "entry" /\ ~Marked(ls, ls[i].id)
      /\ ls[j].kind = "entry" /\ ~Marked(ls, ls[j].id) )
    => Earlier(ord, ls[i].id, ls[j].id)

\* An entry that is in nobody's way: it has failed, or is no work of the
\* worker any more, or never was.
Clear(a, slid, ls) == a \in slid \/ a \in Orphans \/ ~Waiting(ls, a)

OrderOK == Apart(order) /\ OrderedLog(log, order)

StoredOK ==
  /\ applied \subseteq {e \in Entries : Taken(order, e)}
  /\ \A ev \in events : ev.body \in applied
  /\ \A x, y \in events : x.id = y.id => x = y

\* The handler of an asynchronous post is done once it has answered.
AsyncOK == \A e \in Async : pc[e] \in {"new", "answered"}

LateOK == \A req \in late : req.by \in Entries => req.by \in slipped

\* The worker's snapshot is of entries that wait, and lists what was taken
\* earlier earlier.
TodoOK ==
  /\ Apart(todo)
  /\ \A i \in DOMAIN todo : todo[i] \in Async => Waiting(log, todo[i])
  /\ pc[Worker] \in Working \ {"deliver"} => Head(todo) \notin Orphans
  /\ \A a \in Async : \A i \in DOMAIN todo :
       Earlier(order, a, todo[i]) =>
         Clear(a, slipped, log) \/ \E j \in DOMAIN todo : j < i /\ todo[j] = a

\* What was taken before an entry that is stored, or that a request left at
\* Google may yet store, is in nobody's way.
PastOK ==
  \A a, b \in Async :
    Earlier(order, a, b) /\ (b \in applied \/ \E req \in late : req.by = b)
      => Clear(a, slipped, log)

TurnInv == TypeInv /\ OrderOK /\ StoredOK /\ AsyncOK /\ LateOK /\ TodoOK /\ PastOK

-----------------------------------------------------------------------------
\* p lists elements of s in the order of their positions in I.
InOrder(p, s, I) ==
  \A k, l \in DOMAIN p : k < l => \E i, j \in I : i < j /\ p[k] = s[i] /\ p[l] = s[j]

LEMMA AtPositionsOrder ==
  ASSUME NEW T, NEW s \in Seq(T), NEW I, I \subseteq 1..Len(s)
  PROVE  InOrder(AtPositions(s, I), s, I)
<1> SUFFICES ASSUME NEW k \in 1..Cardinality(I), NEW l \in 1..Cardinality(I), k < l
             PROVE  \E i, j \in I : /\ i < j /\ AtPositions(s, I)[k] = s[i]
                                    /\ AtPositions(s, I)[l] = s[j]
  BY DEF InOrder, AtPositions
<1> DEFINE n == Cardinality(I)
           pick(m) == CHOOSE i \in I : Rank(I, i) = m
<1>0. Len(s) \in Nat
  OBVIOUS
<1>1. Len(s) \in Nat /\ n \in Nat
  BY <1>0, PositionsFinite
<1>2. \A m \in 1..n : pick(m) \in I /\ Rank(I, pick(m)) = m
  BY <1>1, RankReached
<1>3. AtPositions(s, I) = [m \in 1..n |-> s[pick(m)]]
  BY DEF AtPositions
<1>4. k \in 1..n /\ l \in 1..n
  OBVIOUS
<1> HIDE DEF pick, n
<1>5. pick(k) \in I /\ pick(l) \in I /\ Rank(I, pick(k)) = k /\ Rank(I, pick(l)) = l
  BY <1>2, <1>4
<1>6. pick(k) \in Int /\ pick(l) \in Int /\ k \in Int /\ l \in Int
  <2>1. \A i \in I : i \in Int
    BY <1>1
  <2>2. \A i \in 1..n : i \in Int
    BY <1>1
  <2>3. pick(k) \in Int /\ pick(l) \in Int
    BY <1>5, <2>1, Zenon
  <2> QED
    BY <1>4, <2>2, <2>3, Zenon
<1>7. pick(k) < pick(l)
  <2>1. CASE pick(l) < pick(k)
    <3>1. Rank(I, pick(l)) < Rank(I, pick(k))
      BY <1>1, <1>5, <2>1, RankIncreases
    <3> QED
      BY <1>5, <1>6, <3>1
  <2>2. CASE pick(l) = pick(k)
    <3>1. k = l
      BY <1>5, <2>2
    <3> QED
      BY <1>6, <3>1
  <2> QED
    BY <1>6, <2>1, <2>2
<1> QED
  BY <1>3, <1>4, <1>5, <1>7

\* A replay keeps the order of the log.
LEMMA PendingOrder ==
  ASSUME NEW ls \in Seq(Record)
  PROVE  InOrder(Pending(ls), ls, PendingPositions(ls))
<1>1. PendingPositions(ls) \subseteq 1..Len(ls)
  BY DEF PendingPositions
<1> QED
  BY <1>1, AtPositionsOrder DEF Pending

LEMMA EarlierTaken ==
  ASSUME NEW ord, NEW a, NEW b, Earlier(ord, a, b)
  PROVE  Taken(ord, a) /\ Taken(ord, b)
BY DEF Earlier, Taken

\* Earlier is not also later.
LEMMA EarlierOneWay ==
  ASSUME NEW ord \in Seq(Entries), Apart(ord), NEW a, NEW b, Earlier(ord, a, b)
  PROVE  a # b /\ ~Earlier(ord, b, a)
<1>1. PICK i, j \in DOMAIN ord : i < j /\ ord[i] = a /\ ord[j] = b
  BY DEF Earlier
<1>2. DOMAIN ord \subseteq Int
  OBVIOUS
<1>3. \A x, y \in DOMAIN ord : ord[x] = b /\ ord[y] = a => x = j /\ y = i
  BY <1>1 DEF Apart
<1>4. i # j /\ ~(j < i)
  BY <1>1, <1>2
<1>5. a # b
  BY <1>1, <1>4 DEF Apart
<1>6. ~Earlier(ord, b, a)
  BY <1>3, <1>4 DEF Earlier
<1> QED
  BY <1>5, <1>6

\* Taking one entry more changes nothing among the others.
LEMMA EarlierAppend ==
  ASSUME NEW ord \in Seq(Entries), NEW e \in Entries
  PROVE  /\ \A a, b : Earlier(ord, a, b) => Earlier(Append(ord, e), a, b)
         /\ \A a, b : Earlier(Append(ord, e), a, b) => Earlier(ord, a, b) \/ b = e
         /\ \A a : Taken(ord, a) => Earlier(Append(ord, e), a, e)
         /\ Apart(ord) /\ ~Taken(ord, e) => Apart(Append(ord, e))
<1> DEFINE n == Len(ord)
           b == Append(ord, e)
<1>1. /\ n \in Nat /\ DOMAIN ord = 1..n /\ DOMAIN b = 1..n + 1
      /\ b[n + 1] = e /\ \A i \in 1..n : b[i] = ord[i] /\ i < n + 1
  OBVIOUS
<1>2. \A i \in 1..n + 1 : i \in 1..n \/ i = n + 1
  BY <1>1
<1>3. n + 1 \in 1..n + 1 /\ (\A i \in 1..n : i \in 1..n + 1) /\ \A i \in 1..n + 1 : ~(n + 1 < i)
  BY <1>1
<1> HIDE DEF n, b
<1>4. ASSUME NEW x, NEW y, Earlier(ord, x, y) PROVE Earlier(b, x, y)
  BY <1>1, <1>3, <1>4 DEF Earlier
<1>5. ASSUME NEW x, NEW y, Earlier(b, x, y) PROVE Earlier(ord, x, y) \/ y = e
  BY <1>1, <1>2, <1>3, <1>5 DEF Earlier
<1>6. ASSUME NEW x, Taken(ord, x) PROVE Earlier(b, x, e)
  BY <1>1, <1>3, <1>6 DEF Earlier, Taken
<1>7. ASSUME Apart(ord), ~Taken(ord, e) PROVE Apart(b)
  BY <1>1, <1>2, <1>7 DEF Apart, Taken
<1> QED
  BY <1>4, <1>5, <1>6, <1>7 DEF b

\* A line more leaves the log ordered, if it is a marker or the last to be
\* taken.
LEMMA OrderedAppend ==
  ASSUME NEW ls \in Seq(Record), NEW r \in Record, NEW ord, OrderedLog(ls, ord),
         NEW ord2, \A a, b : Earlier(ord, a, b) => Earlier(ord2, a, b),
         r.kind = "entry" => \A i \in DOMAIN ls : Earlier(ord2, ls[i].id, r.id)
  PROVE  OrderedLog(Append(ls, r), ord2)
<1> DEFINE n == Len(ls)
           b == Append(ls, r)
<1>1. /\ n \in Nat /\ DOMAIN ls = 1..n /\ DOMAIN b = 1..n + 1
      /\ b[n + 1] = r /\ \A i \in 1..n : b[i] = ls[i]
  OBVIOUS
<1>2. \A i \in 1..n + 1 : i \in 1..n \/ i = n + 1
  BY <1>1
<1>3. \A i \in 1..n + 1 : ~(n + 1 < i)
  BY <1>1
<1>4. \A x : Marked(ls, x) => Marked(b, x)
  BY AppendDiffers DEF Marked
<1> HIDE DEF n, b
<1>5. ASSUME NEW i \in DOMAIN b, NEW j \in DOMAIN b, i < j,
             b[i].kind = "entry", ~Marked(b, b[i].id),
             b[j].kind = "entry", ~Marked(b, b[j].id)
      PROVE  Earlier(ord2, b[i].id, b[j].id)
  <2>1. i \in 1..n /\ b[i] = ls[i]
    BY <1>1, <1>2, <1>3, <1>5
  <2>2. CASE j \in 1..n
    BY <1>1, <1>4, <1>5, <2>1, <2>2 DEF OrderedLog
  <2>3. CASE j = n + 1
    BY <1>1, <1>5, <2>1, <2>3
  <2> QED
    BY <1>1, <1>2, <2>2, <2>3
<1> QED
  BY <1>5 DEF OrderedLog, b

\* A compaction leaves the pending entries in their order.
LEMMA OrderedCompacted ==
  ASSUME NEW ls \in Seq(Record), NEW ord, OrderedLog(ls, ord)
  PROVE  OrderedLog(Compacted(ls), ord)
<1> DEFINE P == Pending(ls)
           D == DeadEntries(ls)
           C == Compacted(ls)
           n == Len(P)
           m == Len(D)
<1>1. LaidOut(C, P, D, n, m)
  BY CompactedLayout
<1>2. C \in Seq(Record) /\ P \in Seq(Record) /\ D \in Seq(Record)
  BY CompactedType, PendingElements, DeadEntriesElements
<1>3. DOMAIN C = 1..n + 2 * m /\ DOMAIN P = 1..n /\ n \in Nat /\ m \in Nat
  BY <1>1, <1>2 DEF LaidOut
<1>4. ASSUME NEW k \in DOMAIN P, NEW l \in DOMAIN P, k < l
      PROVE  Earlier(ord, P[k].id, P[l].id)
  <2>1. PICK i, j \in PendingPositions(ls) : i < j /\ P[k] = ls[i] /\ P[l] = ls[j]
    BY <1>4, PendingOrder DEF InOrder
  <2> QED
    BY <2>1 DEF PendingPositions, OrderedLog
<1>5. ASSUME NEW i \in DOMAIN C, C[i].kind = "entry", ~Marked(C, C[i].id)
      PROVE  i \in 1..n /\ C[i] = P[i]
  <2>1. CASE i \in 1..n
    BY <1>1, <2>1 DEF LaidOut
  <2>2. ASSUME NEW j \in 1..m, i = n + (2 * j - 1) \/ i = n + 2 * j PROVE FALSE
    <3>1. /\ C[n + (2 * j - 1)] = D[j] /\ C[n + 2 * j] = DeadRec(D[j].id)
          /\ n + 2 * j \in DOMAIN C
      BY <1>1, <1>3, <2>2 DEF LaidOut
    <3>2. Holds(C, DeadRec(D[j].id))
      BY <3>1 DEF Holds
    <3>3. C[i] = D[j] \/ C[i] = DeadRec(D[j].id)
      BY <2>2, <3>1
    <3> HIDE DEF C, D
    <3>4. DeadRec(D[j].id).kind # "entry"
      BY DEF DeadRec
    <3> QED
      BY <1>5, <3>2, <3>3, <3>4 DEF Marked
  <2> QED
    BY <1>1, <1>3, <2>1, <2>2 DEF LaidOut
<1> HIDE DEF C, P, n, m
<1>6. ASSUME NEW i \in DOMAIN C, NEW j \in DOMAIN C, i < j,
             C[i].kind = "entry", ~Marked(C, C[i].id),
             C[j].kind = "entry", ~Marked(C, C[j].id)
      PROVE  Earlier(ord, C[i].id, C[j].id)
  BY <1>3, <1>4, <1>5, <1>6
<1> QED
  BY <1>6 DEF OrderedLog, C

-----------------------------------------------------------------------------
(***************************************************************************)
(* What a step does to the order and to who waits.                         *)
(***************************************************************************)
\* Of the entries taken before, none changes its place.
LEMMA EarlierStep ==
  ASSUME HubInv, Apart(order), [Next]_vars
  PROVE  /\ Apart(order')
         /\ \A a, b : Earlier(order, a, b) => Earlier(order', a, b)
         /\ \A a, b : Earlier(order', a, b) /\ Taken(order, b) => Earlier(order, a, b)
<1>0. order \in Seq(Entries)
  BY DEF HubInv, Shapes
<1>1. CASE \E e \in Entries : Takes(e)
  BY <1>0, <1>1, EarlierAppend DEF Takes
<1>2. CASE order' = order
  BY <1>2
<1> QED
  BY <1>1, <1>2, NextJournal DEF JournalStep, Stores, MarksDone, MarksDead, Compacts, journal

\* An entry that was taken and does not wait never waits again.
LEMMA WaitingStep ==
  ASSUME HubInv, [Next]_vars, NEW a \in Entries, Taken(order, a), Waiting(log', a)
  PROVE  Waiting(log, a)
<1>1. ASSUME NEW e \in Entries, Takes(e) PROVE Waiting(log, a)
  <2>1. a # e
    BY <1>1 DEF Takes
  <2> QED
    BY <1>1, <2>1, TakesEffect DEF IsPending, Waiting
<1>2. ASSUME NEW e \in Entries, MarksDone(e) PROVE Waiting(log, a)
  BY <1>2, MarksDoneEffect DEF IsPending, Waiting
<1>3. ASSUME NEW e \in Entries, MarksDead(e) PROVE Waiting(log, a)
  BY <1>3, MarksDeadEffect DEF IsPending, Waiting
<1>4. CASE Compacts
  BY <1>4, CompactsEffect DEF IsPending, Waiting
<1>5. CASE log' = log
  BY <1>5 DEF Waiting
<1> QED
  BY <1>1, <1>2, <1>3, <1>4, <1>5, NextJournal DEF JournalStep, Stores, journal

\* A failure is never forgotten.
LEMMA SlippedStep ==
  ASSUME [Next]_vars
  PROVE  slipped \subseteq slipped'
<1>1. \A reqs : LeftBehind(reqs) => slipped \subseteq slipped'
  BY DEF LeftBehind
<1>2. CASE \E e \in Entries : Post(e) \/ SyncAnswer(e)
  BY <1>2 DEF Post, SyncAnswer
<1>3. CASE Settle
  BY <1>3 DEF Settle, SettleOk, SettleTransient, SettlePermanent
<1>4. CASE Crash \/ \E t \in Handlers : Cancel(t)
  BY <1>1, <1>4 DEF Crash, Cancel
<1>5. CASE \/ \E t \in Tasks : Deliver(t) \/ Lookup(t) \/ Write(t)
           \/ \E d \in Deletes : DeleteQueue(d) \/ DeleteLookup(d)
           \/ BeginPass \/ SkipOrphan \/ EndPass \/ LastPass
           \/ Authenticated \/ Stop \/ Start \/ LateArrival \/ UNCHANGED vars
  BY <1>5 DEF Deliver, Lookup, Write, DeleteQueue, DeleteLookup, BeginPass, SkipOrphan,
     EndPass, LastPass, Authenticated, Stop, Start, LateArrival, vars
<1>6. Worker \in Tasks /\ Entries \subseteq Tasks /\ Deletes \subseteq Tasks
  BY DEF Tasks
<1> QED
  BY <1>2, <1>3, <1>4, <1>5, <1>6 DEF Next, WorkerStep, HandlerStep, DeleteStep

\* An entry in nobody's way stays so.
LEMMA ClearStep ==
  ASSUME HubInv, [Next]_vars, NEW a \in Entries, Taken(order, a), Clear(a, slipped, log)
  PROVE  Clear(a, slipped', log')
BY WaitingStep, SlippedStep DEF Clear

-----------------------------------------------------------------------------
(***************************************************************************)
(* The parts of the invariant, one after the other.                        *)
(***************************************************************************)
LEMMA OrderStep ==
  ASSUME HubInv, OrderOK, [Next]_vars
  PROVE  OrderOK'
<1>0. /\ log \in Seq(Record) /\ order \in Seq(Entries)
      /\ Apart(order) /\ OrderedLog(log, order)
  BY DEF HubInv, Shapes, OrderOK
<1>1. Apart(order') /\ \A a, b : Earlier(order, a, b) => Earlier(order', a, b)
  BY <1>0, EarlierStep
<1>2. ASSUME NEW e \in Entries, Takes(e) PROVE OrderedLog(log', order')
  <2>1. \A i \in DOMAIN log : Taken(order, log[i].id)
    <3>1. \A i \in DOMAIN log : log[i] \in Record /\ Holds(log, log[i])
      BY <1>0 DEF Holds
    <3> QED
      BY <3>1 DEF HubInv, Promised
  <2>2. \A i \in DOMAIN log : Earlier(order', log[i].id, e)
    BY <1>0, <1>2, <2>1, EarlierAppend DEF Takes
  <2>3. EntryRec(e) \in Record /\ EntryRec(e).id = e
    BY RecordsDiffer
  <2>4. OrderedLog(Append(log, EntryRec(e)), order')
    BY <1>0, <1>1, <2>2, <2>3, OrderedAppend
  <2> QED
    BY <1>2, <2>4 DEF Takes
<1>3. ASSUME NEW e \in Entries, MarksDone(e) \/ MarksDead(e) PROVE OrderedLog(log', order')
  <2>1. DoneRec(e).kind # "entry" /\ DeadRec(e).kind # "entry"
    BY DEF DoneRec, DeadRec
  <2>2. PICK r \in Record : r.kind # "entry" /\ log' = Append(log, r)
    BY <1>3, <2>1, RecordsDiffer DEF MarksDone, MarksDead
  <2>3. OrderedLog(Append(log, r), order')
    BY <1>0, <1>1, <2>2, OrderedAppend
  <2> QED
    BY <2>2, <2>3
<1>4. ASSUME Compacts PROVE OrderedLog(log', order')
  BY <1>0, <1>4, OrderedCompacted DEF Compacts
<1>5. ASSUME UNCHANGED journal PROVE OrderedLog(log', order')
  BY <1>0, <1>5 DEF journal
<1>6. OrderedLog(log', order')
  BY <1>2, <1>3, <1>4, <1>5, NextJournal DEF JournalStep, Stores, journal
<1> QED
  BY <1>1, <1>6 DEF OrderOK

\* What a request that Google runs makes of the events.
LEMMA RanBodies ==
  ASSUME GoogleOK, NEW req, Fits(req, events, nextId), Ran(req)
  PROVE  /\ applied \subseteq applied'
         /\ \A ev \in events' : ev \in events \/ (ev.body = req.by /\ req.by \in Entries)
         /\ (\A x, y \in events : x.id = y.id => x = y)
              => \A x, y \in events' : x.id = y.id => x = y
         /\ req.by \in Entries => req.by \in applied'
<1> DEFINE new == [id |-> nextId, key |-> req.key, body |-> req.by]
           put(ev) == [ev EXCEPT !.body = req.by]
<1>0. /\ req.by \in Entries \union Deletes
      /\ events \subseteq [id : Nat \ {0}, key : Keys \union {NoKey},
                           body : Entries \union Deletes]
      /\ \A ev \in events : ev.id # nextId
  <2>1. \A ev \in events : ev.id \in Nat /\ nextId \in Nat /\ ev.id < nextId
    BY DEF GoogleOK
  <2> QED
    BY <2>1 DEF Fits, GoogleOK
<1>1. applied \subseteq applied' /\ (req.by \in Entries => req.by \in applied')
  BY DEF Ran
<1>2. CASE req.by \in Deletes
  BY <1>1, <1>2 DEF Ran
<1>3. CASE req.by \notin Deletes /\ req.id = NoEvent
  <2>1. events' = events \union {new}
    BY <1>3 DEF Ran
  <2>2. new.id = nextId /\ new.body = req.by
    OBVIOUS
  <2> HIDE DEF new
  <2> QED
    BY <1>0, <1>1, <1>3, <2>1, <2>2
<1>4. CASE req.by \notin Deletes /\ req.id # NoEvent
  <2>1. events' = {IF ev.id = req.id THEN put(ev) ELSE ev : ev \in events}
    BY <1>4 DEF Ran
  <2>2. \A ev \in events : put(ev).id = ev.id /\ put(ev).body = req.by
    BY <1>0
  <2> HIDE DEF put
  <2> QED
    BY <1>0, <1>1, <1>4, <2>1, <2>2
<1> QED
  BY <1>0, <1>2, <1>3, <1>4

\* A step at Google runs one request, of a task that is writing or of one
\* that is gone; the other steps leave the calendar alone.
LEMMA GoogleStep ==
  ASSUME LockInv, [Next]_vars
  PROVE  \/ UNCHANGED <<events, nextId, applied>>
         \/ \E req : /\ Ran(req) /\ Fits(req, events, nextId)
                     /\ \/ req \in late
                        \/ \E t \in Tasks : pc[t] = "write" /\ req = Request(t)
<1>1. CASE \E t \in Tasks : Write(t)
  <2>1. PICK t \in Tasks : Write(t)
    BY <1>1
  <2>2. pc[t] = "write" /\ Fits(Request(t), events, nextId)
    BY <2>1, AsksIsRequest DEF Write, LockInv, LocksOK, Secure
  <2>3. Ran(Request(t)) \/ UNCHANGED <<events, nextId, applied>>
    BY <2>1 DEF Write
  <2> QED
    BY <2>2, <2>3
<1>2. CASE LateArrival
  <2>1. PICK req \in late : Ran(req) \/ UNCHANGED <<events, nextId, applied>>
    BY <1>2 DEF LateArrival
  <2>2. Fits(req, events, nextId)
    BY DEF LockInv, GoogleOK
  <2> QED
    BY <2>1, <2>2
<1>3. CASE \/ \E t \in Tasks : Deliver(t) \/ Lookup(t)
           \/ \E t \in Handlers : Cancel(t)
           \/ \E d \in Deletes : DeleteQueue(d) \/ DeleteLookup(d)
           \/ \E e \in Entries : Post(e) \/ SyncAnswer(e)
           \/ BeginPass \/ SkipOrphan \/ Settle \/ EndPass \/ LastPass
           \/ Authenticated \/ Stop \/ Crash \/ Start \/ UNCHANGED vars
  BY <1>3 DEF Deliver, Lookup, Cancel, DeleteQueue, DeleteLookup, Post, SyncAnswer,
     BeginPass, SkipOrphan, Settle, EndPass, LastPass, Authenticated, Stop, Crash, Start,
     google, vars
<1>4. Worker \in Tasks /\ Entries \subseteq Tasks /\ Deletes \subseteq Tasks
  BY DEF Tasks
<1> QED
  BY <1>1, <1>2, <1>3, <1>4 DEF Next, WorkerStep, HandlerStep, DeleteStep

LEMMA StoredStep ==
  ASSUME LockInv, CalendarOK, StoredOK, [Next]_vars
  PROVE  StoredOK'
<1>0. HubInv /\ GoogleOK /\ Shapes
  BY DEF LockInv, HubInv
<1>1. applied' \subseteq {e \in Entries : Taken(order', e)}
  <2>1. \A x : Taken(order, x) => Taken(order', x)
    BY <1>0, NextJournal, OrderKept
  <2>2. applied' = applied \/ \E e \in Entries : Taken(order, e) /\ applied' = applied \union {e}
    BY <1>0, NextJournal DEF JournalStep, Stores, Takes, MarksDone, MarksDead, Compacts
  <2> QED
    BY <2>1, <2>2 DEF StoredOK
<1>2. CASE UNCHANGED <<events, nextId, applied>>
  BY <1>1, <1>2 DEF StoredOK
<1>3. ASSUME NEW req, Ran(req), Fits(req, events, nextId) PROVE StoredOK'
  <2>1. /\ applied \subseteq applied'
        /\ \A ev \in events' : ev \in events \/ (ev.body = req.by /\ req.by \in Entries)
        /\ \A x, y \in events' : x.id = y.id => x = y
        /\ req.by \in Entries => req.by \in applied'
    BY <1>0, <1>3, RanBodies DEF StoredOK
  <2>2. \A ev \in events' : ev.body \in applied'
    BY <2>1 DEF StoredOK
  <2> QED
    BY <1>1, <2>1, <2>2 DEF StoredOK
<1> QED
  BY <1>2, <1>3, GoogleStep

\* An asynchronous post takes its handler no further than its answer.
LEMMA AsyncStep ==
  ASSUME HubInv, AsyncOK, [Next]_vars
  PROVE  AsyncOK'
<1>0. /\ pc \in [Tasks -> Labels] /\ Worker \in Tasks /\ Entries \subseteq Tasks
      /\ Deletes \subseteq Tasks /\ Worker \notin Entries /\ Entries \intersect Deletes = {}
      /\ Async \subseteq Entries /\ \A e \in Async : e \notin SyncPosts
  BY TasksAssumption DEF HubInv, Shapes, Tasks, Async
<1>1. ASSUME NEW t \in Tasks, t \notin Async, NEW label, Goto(t, label) PROVE AsyncOK'
  BY <1>0, <1>1 DEF Goto, AsyncOK
<1>2. CASE \E e \in Entries : Post(e)
  <2>1. PICK e \in Entries : Post(e)
    BY <1>2
  <2>2. CASE e \in Async
    <3>1. Goto(e, "answered")
      BY <1>0, <2>1, <2>2 DEF Post
    <3> QED
      BY <1>0, <2>2, <3>1 DEF Goto, AsyncOK
  <2>3. CASE e \notin Async
    BY <1>0, <1>1, <2>1, <2>3 DEF Post
  <2> QED
    BY <2>2, <2>3
<1>3. CASE \E t \in Tasks : Deliver(t) \/ Lookup(t) \/ Write(t)
  <2>1. PICK t \in Tasks : Deliver(t) \/ Lookup(t) \/ Write(t)
    BY <1>3
  <2>2. t \notin Async
    BY <2>1 DEF Deliver, Lookup, Write, AsyncOK
  <2>3. UNCHANGED pc \/ \E label : Goto(t, label)
    BY <2>1 DEF Deliver, Lookup, Write
  <2> QED
    BY <1>1, <2>2, <2>3 DEF AsyncOK
<1>4. CASE \/ \E e \in Entries : SyncAnswer(e)
           \/ \E t \in Handlers : Cancel(t)
  <2>1. PICK t \in Tasks : t \notin Async /\ \E label : Goto(t, label)
    BY <1>0, <1>4 DEF SyncAnswer, Cancel, InFlight, Handlers, AsyncOK
  <2> QED
    BY <1>1, <2>1
<1>5. CASE \/ \E d \in Deletes : DeleteQueue(d) \/ DeleteLookup(d)
           \/ BeginPass \/ Settle \/ EndPass
  <2>1. PICK t \in Tasks : t \notin Async /\ \E label : Goto(t, label)
    BY <1>0, <1>5 DEF DeleteQueue, DeleteLookup, BeginPass, Settle, EndPass
  <2> QED
    BY <1>1, <2>1
<1>6. CASE Start
  <2>1. \A e \in Async : pc'[e] = pc[e]
    BY <1>0, <1>6 DEF Start, InFlight, AsyncOK
  <2> QED
    BY <2>1 DEF AsyncOK
<1>7. CASE SkipOrphan \/ LastPass \/ Authenticated \/ Stop \/ Crash \/ LateArrival \/ UNCHANGED vars
  <2>1. pc' = pc
    BY <1>7 DEF SkipOrphan, LastPass, Authenticated, Stop, Crash, LateArrival, vars
  <2> QED
    BY <2>1 DEF AsyncOK
<1> QED
  BY <1>0, <1>2, <1>3, <1>4, <1>5, <1>6, <1>7
  DEF Next, WorkerStep, HandlerStep, DeleteStep

\* A request that is left at Google is of a task that was writing, and the
\* delivery it was part of has failed.
LEMMA LeftStep ==
  ASSUME [Next]_vars, NEW req \in late'
  PROVE  \/ req \in late
         \/ \E t \in Tasks : /\ pc[t] = "write" /\ req = Request(t)
                             /\ req.by \in Entries => req.by \in slipped'
<1>1. CASE Crash
  BY <1>1 DEF Crash, LeftBehind
<1>2. CASE \E t \in Handlers : Cancel(t)
  <2>1. PICK t \in Handlers : Cancel(t)
    BY <1>2
  <2>2. t \in Tasks
    BY DEF Handlers, Tasks
  <2>3. CASE LeftBehind({})
    BY <2>3 DEF LeftBehind
  <2>4. CASE pc[t] = "write" /\ LeftBehind({Request(t)})
    BY <2>2, <2>4 DEF LeftBehind
  <2> QED
    BY <2>1, <2>3, <2>4 DEF Cancel
<1>3. CASE LateArrival
  BY <1>3 DEF LateArrival
<1>4. CASE \/ \E t \in Tasks : Deliver(t) \/ Lookup(t) \/ Write(t)
           \/ \E d \in Deletes : DeleteQueue(d) \/ DeleteLookup(d)
           \/ \E e \in Entries : Post(e) \/ SyncAnswer(e)
           \/ BeginPass \/ SkipOrphan \/ Settle \/ EndPass \/ LastPass
           \/ Authenticated \/ Stop \/ Start \/ UNCHANGED vars
  BY <1>4 DEF Deliver, Lookup, Write, DeleteQueue, DeleteLookup, Post, SyncAnswer,
     BeginPass, SkipOrphan, Settle, EndPass, LastPass, Authenticated, Stop, Start,
     google, vars
<1>5. Worker \in Tasks /\ Entries \subseteq Tasks /\ Deletes \subseteq Tasks
  BY DEF Tasks
<1> QED
  BY <1>1, <1>2, <1>3, <1>4, <1>5 DEF Next, WorkerStep, HandlerStep, DeleteStep

LEMMA LateStep ==
  ASSUME LateOK, [Next]_vars
  PROVE  LateOK'
BY LeftStep, SlippedStep DEF LateOK

\* Only the worker has an asynchronous entry's request under way, and it is
\* the head of its snapshot.
LEMMA AsyncWriter ==
  ASSUME HubInv, AsyncOK, NEW t \in Tasks, pc[t] = "write", Request(t).by \in Async
  PROVE  /\ t = Worker /\ 1 \in DOMAIN todo /\ Request(t).by = todo[1]
         /\ Head(todo) = todo[1]
<1>1. Request(t).by = Job(t)
  BY DEF Request
<1>2. CASE t = Worker
  <2>1. todo # <<>> /\ todo \in Seq(Entries)
    BY <1>2 DEF HubInv, Shapes, Control, Working
  <2>2. 1 \in DOMAIN todo /\ Head(todo) = todo[1]
    BY <2>1
  <2> QED
    BY <1>1, <1>2, <2>2 DEF Job
<1>3. CASE t \in Entries \union Deletes
  <2>1. t # Worker
    BY <1>3, TasksAssumption
  <2>2. t \in Async
    BY <1>1, <2>1 DEF Job
  <2> QED
    BY <2>2 DEF AsyncOK
<1> QED
  BY <1>2, <1>3 DEF Tasks

\* What was taken before an entry that is being written is in nobody's way.
LEMMA WriterClear ==
  ASSUME HubInv, AsyncOK, TodoOK, NEW t \in Tasks, pc[t] = "write",
         NEW a \in Async, NEW b \in Async, Request(t).by = b, Earlier(order, a, b)
  PROVE  Clear(a, slipped, log)
<1>1. 1 \in DOMAIN todo /\ b = todo[1]
  BY AsyncWriter
<1>2. Clear(a, slipped, log) \/ \E j \in DOMAIN todo : j < 1 /\ todo[j] = a
  BY <1>1 DEF TodoOK
<1>3. \A j \in DOMAIN todo : ~(j < 1)
  BY DEF HubInv, Shapes
<1> QED
  BY <1>2, <1>3

LEMMA PastStep ==
  ASSUME LockInv, OrderOK, StoredOK, AsyncOK, TodoOK, PastOK, [Next]_vars
  PROVE  PastOK'
<1>0. HubInv /\ Apart(order) /\ Async \subseteq Entries
  BY DEF LockInv, OrderOK, Async
<1>1. SUFFICES ASSUME NEW a \in Async, NEW b \in Async, Earlier(order', a, b),
                      b \in applied' \/ \E req \in late' : req.by = b
               PROVE  Clear(a, slipped', log')
  BY DEF PastOK
<1>2. \/ b \in applied
      \/ \E req \in late : req.by = b
      \/ \E t \in Tasks : pc[t] = "write" /\ Request(t).by = b
  <2>1. CASE b \in applied' /\ b \notin applied
    <3>1. PICK req : /\ Ran(req)
                     /\ \/ req \in late
                        \/ \E t \in Tasks : pc[t] = "write" /\ req = Request(t)
      BY <2>1, GoogleStep
    <3>2. req.by = b
      BY <2>1, <3>1 DEF Ran
    <3> QED
      BY <3>1, <3>2
  <2>2. CASE \E req \in late' : req.by = b
    BY <2>2, LeftStep
  <2> QED
    BY <1>1, <2>1, <2>2
<1>3. Taken(order, b)
  <2>1. CASE b \in applied
    BY <2>1 DEF StoredOK
  <2>2. CASE \E req \in late : req.by = b
    BY <1>0, <2>2 DEF HubInv, Control
  <2>3. CASE \E t \in Tasks : pc[t] = "write" /\ Request(t).by = b
    <3>1. b = todo[1] /\ 1 \in DOMAIN todo
      BY <1>0, <2>3, AsyncWriter
    <3> QED
      BY <1>0, <3>1 DEF HubInv, Control
  <2> QED
    BY <1>2, <2>1, <2>2, <2>3
<1>4. Earlier(order, a, b)
  BY <1>0, <1>1, <1>3, EarlierStep
<1>5. Clear(a, slipped, log)
  BY <1>0, <1>2, <1>4, WriterClear DEF PastOK
<1>6. Taken(order, a)
  BY <1>4, EarlierTaken
<1> QED
  BY <1>0, <1>5, <1>6, ClearStep

-----------------------------------------------------------------------------
(***************************************************************************)
(* The worker's snapshot.                                                  *)
(***************************************************************************)
\* A line about another entry leaves an entry waiting.
LEMMA StillWaiting ==
  ASSUME NEW ls \in Seq(Record), NEW r \in Record, NEW x \in Entries, Waiting(ls, x),
         r.kind = "entry" \/ r.id # x
  PROVE  Waiting(Append(ls, r), x)
<1>1. \A y : Holds(Append(ls, r), y) <=> Holds(ls, y) \/ y = r
  BY AppendDiffers
<1>2. DoneRec(x) # r /\ DeadRec(x) # r
  BY DEF DoneRec, DeadRec
<1> QED
  BY <1>1, <1>2 DEF Waiting, Marked

\* What is ahead of an entry of the snapshot stays ahead of it, or gets out
\* of the way.
LEMMA AheadStep ==
  ASSUME HubInv, OrderOK, TodoOK, [Next]_vars,
         NEW a \in Async, NEW i \in DOMAIN todo, Earlier(order', a, todo[i])
  PROVE  Clear(a, slipped', log') \/ \E j \in DOMAIN todo : j < i /\ todo[j] = a
<1>1. Taken(order, todo[i]) /\ Async \subseteq Entries
  BY DEF HubInv, Control, Async
<1>2. Earlier(order, a, todo[i])
  BY <1>1, EarlierStep DEF OrderOK
<1>3. Clear(a, slipped, log) \/ \E j \in DOMAIN todo : j < i /\ todo[j] = a
  BY <1>2 DEF TodoOK
<1>4. Clear(a, slipped, log) => Clear(a, slipped', log')
  BY <1>1, <1>2, EarlierTaken, ClearStep
<1> QED
  BY <1>3, <1>4

\* A step that leaves the snapshot alone.
LEMMA SameTodo ==
  ASSUME HubInv, OrderOK, TodoOK, [Next]_vars, todo' = todo,
         \A x \in Async : Waiting(log, x) => Waiting(log', x),
         pc'[Worker] \in Working \ {"deliver"} =>
           pc[Worker] \in Working \ {"deliver"} \/ Head(todo) \notin Orphans
  PROVE  TodoOK'
<1>1. /\ Apart(todo')
      /\ \A i \in DOMAIN todo' : todo'[i] \in Async => Waiting(log', todo'[i])
      /\ pc'[Worker] \in Working \ {"deliver"} => Head(todo') \notin Orphans
  BY DEF TodoOK
<1>2. \A a \in Async : \A i \in DOMAIN todo' : Earlier(order', a, todo'[i]) =>
        Clear(a, slipped', log') \/ \E j \in DOMAIN todo' : j < i /\ todo'[j] = a
  BY AheadStep
<1> QED
  BY <1>1, <1>2 DEF TodoOK

\* The snapshot of a new pass.
LEMMA BeginPassTodo ==
  ASSUME HubInv, OrderOK, BeginPass
  PROVE  TodoOK'
<1> DEFINE P == Pending(log)
           T == [i \in DOMAIN P |-> P[i].id]
<1>0. /\ log \in Seq(Record) /\ order \in Seq(Entries) /\ Apart(order)
      /\ OrderedLog(log, order) /\ Async \subseteq Entries
      /\ pc \in [Tasks -> Labels] /\ Worker \in Tasks
  BY TasksAssumption DEF HubInv, Shapes, OrderOK, Async, Tasks
<1>1. /\ todo' = T /\ log' = log /\ order' = order /\ slipped' = slipped
      /\ pc'[Worker] = "deliver"
  BY <1>0 DEF BeginPass, Snapshot, Goto, journal
<1>2. /\ P \in Seq(Record)
      /\ \A i \in DOMAIN P : P[i].kind = "entry" /\ Holds(log, P[i]) /\ ~Marked(log, P[i].id)
  BY <1>0, PendingElements
<1>3. \A i, j \in DOMAIN P : i < j => Earlier(order, P[i].id, P[j].id)
  <2>1. InOrder(P, log, PendingPositions(log))
    BY <1>0, PendingOrder
  <2>2. ASSUME NEW i \in DOMAIN P, NEW j \in DOMAIN P, i < j
        PROVE  Earlier(order, P[i].id, P[j].id)
    <3>1. PICK x, y \in PendingPositions(log) : x < y /\ P[i] = log[x] /\ P[j] = log[y]
      BY <2>1, <2>2 DEF InOrder
    <3> QED
      BY <1>0, <3>1 DEF PendingPositions, OrderedLog
  <2> QED
    BY <2>2
<1>4. ASSUME NEW a \in Entries, Waiting(log, a) PROVE \E j \in DOMAIN P : P[j] = EntryRec(a)
  BY <1>0, <1>4, UnmarkedIsPending DEF Waiting, Holds
<1>5. ASSUME NEW i \in DOMAIN P PROVE Waiting(log, P[i].id)
  <2>1. P[i] \in Record /\ P[i].kind = "entry"
    BY <1>2
  <2>2. P[i] = EntryRec(P[i].id)
    BY <2>1 DEF Record, EntryRec
  <2> QED
    BY <1>2, <2>2 DEF Waiting
<1>6. DOMAIN P \subseteq Int
  BY <1>2
<1> HIDE DEF P
<1>7. DOMAIN T = DOMAIN P /\ \A i \in DOMAIN P : T[i] = P[i].id
  OBVIOUS
<1> HIDE DEF T
<1>8. \A i, j \in DOMAIN T : i < j => Earlier(order, T[i], T[j])
  BY <1>3, <1>7
<1>9. Apart(T)
  <2>1. ASSUME NEW i \in DOMAIN T, NEW j \in DOMAIN T, T[i] = T[j], i < j PROVE FALSE
    <3>1. Earlier(order, T[i], T[j])
      BY <1>8, <2>1
    <3> QED
      BY <1>0, <2>1, <3>1, EarlierOneWay
  <2>2. \A i, j \in DOMAIN T : i = j \/ i < j \/ j < i
    BY <1>6, <1>7
  <2> QED
    BY <2>1, <2>2 DEF Apart
<1>10. ASSUME NEW a \in Async, NEW i \in DOMAIN T, Earlier(order, a, T[i]), Waiting(log, a)
       PROVE  \E j \in DOMAIN T : j < i /\ T[j] = a
  <2>1. PICK j \in DOMAIN T : T[j] = a
    <3>1. PICK j \in DOMAIN P : P[j] = EntryRec(a)
      BY <1>0, <1>4, <1>10
    <3> QED
      BY <1>7, <3>1 DEF EntryRec
  <2>2. a # T[i] /\ ~Earlier(order, T[i], a)
    BY <1>0, <1>10, EarlierOneWay
  <2>3. i # j /\ ~(i < j)
    BY <1>8, <2>1, <2>2
  <2>4. i \in Int /\ j \in Int
    BY <1>6, <1>7
  <2>5. j < i
    BY <2>3, <2>4
  <2> QED
    BY <2>1, <2>5
<1>11. \A a \in Async : \A i \in DOMAIN todo' : Earlier(order', a, todo'[i]) =>
         Clear(a, slipped', log') \/ \E j \in DOMAIN todo' : j < i /\ todo'[j] = a
  BY <1>1, <1>10 DEF Clear
<1>12. \A i \in DOMAIN todo' : Waiting(log', todo'[i])
  BY <1>1, <1>5, <1>7
<1> QED
  BY <1>1, <1>9, <1>11, <1>12 DEF TodoOK, Working

\* The worker is through with the head of its snapshot: the entry has
\* failed, is marked, or has no profile.
LEMMA HeadDone ==
  ASSUME HubInv, SkipOrphan \/ Settle
  PROVE  /\ Clear(Head(todo), slipped', log')
         /\ log' = log \/ \E r \in Record : r.id = Head(todo) /\ log' = Append(log, r)
<1> DEFINE h == Head(todo)
<1>0. log \in Seq(Record) /\ h \in Entries
  BY DEF HubInv, Shapes, SkipOrphan, Settle
<1>1. CASE SkipOrphan
  BY <1>1 DEF SkipOrphan, Clear, journal
<1> HIDE DEF h
<1>2. CASE Settle /\ SettleOk(h)
  <2>1. log' = log \/ log' = Append(log, DoneRec(h))
    BY <1>2, OneLine DEF SettleOk
  <2>2. h \in slipped' \/ log' = Append(log, DoneRec(h))
    BY <1>2 DEF SettleOk, Journalled
  <2>3. log' = Append(log, DoneRec(h)) => Marked(log', h)
    BY <1>0, RecordsDiffer, AppendDiffers DEF Marked
  <2> QED
    BY <1>0, <2>1, <2>2, <2>3, RecordsDiffer DEF Clear, Waiting, h
<1>3. CASE Settle /\ SettleTransient(h)
  BY <1>3 DEF SettleTransient, Clear, h
<1>4. CASE Settle /\ SettlePermanent(h)
  <2>1. log' = log \/ log' = Append(log, DeadRec(h))
    BY <1>4, OneLine DEF SettlePermanent
  <2>2. h \in slipped'
    BY <1>4 DEF SettlePermanent
  <2> QED
    BY <1>0, <2>1, <2>2, RecordsDiffer DEF Clear, h
<1> QED
  BY <1>1, <1>2, <1>3, <1>4 DEF Settle, h

LEMMA NextEntryTodo ==
  ASSUME HubInv, OrderOK, TodoOK, [Next]_vars, SkipOrphan \/ Settle
  PROVE  TodoOK'
<1>0. /\ log \in Seq(Record) /\ todo \in Seq(Entries) /\ Async \subseteq Entries
      /\ pc \in [Tasks -> Labels] /\ Worker \in Tasks
  BY DEF HubInv, Shapes, Async, Tasks
<1>1. todo # <<>> /\ todo' = Tail(todo) /\ pc'[Worker] = "deliver"
  BY <1>0 DEF SkipOrphan, Settle, Goto
<1>2. /\ Head(todo) = todo[1] /\ 1 \in DOMAIN todo
      /\ \A i \in DOMAIN todo' : /\ i + 1 \in DOMAIN todo /\ todo'[i] = todo[i + 1]
                                 /\ i + 1 # 1 /\ i \in Int
      /\ \A j \in DOMAIN todo : j # 1 => j - 1 \in DOMAIN todo' /\ j \in Int /\ (j - 1) + 1 = j
      /\ \A j \in DOMAIN todo : j \in Int
  BY <1>0, <1>1
<1>3. /\ Clear(todo[1], slipped', log')
      /\ log' = log \/ \E r \in Record : r.id = todo[1] /\ log' = Append(log, r)
  BY <1>2, HeadDone
<1>4. Apart(todo')
  <2>1. ASSUME NEW i \in DOMAIN todo', NEW j \in DOMAIN todo', todo'[i] = todo'[j]
        PROVE  i = j
    <3>1. i + 1 = j + 1
      BY <1>2, <2>1 DEF TodoOK, Apart
    <3>2. i \in Int /\ j \in Int
      BY <1>2
    <3> QED
      BY <3>1, <3>2
  <2> QED
    BY <2>1 DEF Apart
<1>5. ASSUME NEW i \in DOMAIN todo', todo'[i] \in Async PROVE Waiting(log', todo'[i])
  <2>1. todo'[i] = todo[i + 1] /\ i + 1 \in DOMAIN todo /\ i + 1 # 1
    BY <1>2
  <2>2. Waiting(log, todo'[i])
    BY <1>5, <2>1 DEF TodoOK
  <2>3. todo'[i] # todo[1]
    BY <1>2, <2>1 DEF TodoOK, Apart
  <2> QED
    BY <1>0, <1>3, <1>5, <2>2, <2>3, StillWaiting
<1>6. ASSUME NEW a \in Async, NEW i \in DOMAIN todo', Earlier(order', a, todo'[i])
      PROVE  Clear(a, slipped', log') \/ \E j \in DOMAIN todo' : j < i /\ todo'[j] = a
  <2>1. todo'[i] = todo[i + 1] /\ i + 1 \in DOMAIN todo
    BY <1>2
  <2>2. Clear(a, slipped', log') \/ \E j \in DOMAIN todo : j < i + 1 /\ todo[j] = a
    BY <1>6, <2>1, AheadStep
  <2>3. ASSUME NEW j \in DOMAIN todo, j < i + 1, todo[j] = a, j # 1
        PROVE  \E k \in DOMAIN todo' : k < i /\ todo'[k] = a
    <3>1. j - 1 \in DOMAIN todo' /\ todo'[j - 1] = todo[j]
      BY <1>2, <2>3
    <3>2. j \in Int /\ i \in Int
      BY <1>2
    <3>3. j - 1 < i
      BY <2>3, <3>2
    <3> QED
      BY <2>3, <3>1, <3>3
  <2> QED
    BY <1>3, <2>2, <2>3
<1> QED
  BY <1>1, <1>4, <1>5, <1>6 DEF TodoOK, Working

LEMMA TodoStep ==
  ASSUME HubInv, OrderOK, AsyncOK, TodoOK, [Next]_vars
  PROVE  TodoOK'
<1>0. /\ log \in Seq(Record) /\ Async \subseteq Entries /\ Worker \in Tasks
      /\ Entries \subseteq Tasks /\ Deletes \subseteq Tasks /\ pc \in [Tasks -> Labels]
      /\ Worker \notin Entries /\ Worker \notin Deletes /\ Handlers = Entries \union Deletes
  BY TasksAssumption DEF HubInv, Shapes, Async, Tasks, Handlers
<1>1. CASE \E e \in Entries : Post(e)
  <2>1. PICK e \in Entries : Post(e)
    BY <1>1
  <2>2. todo' = todo /\ pc'[Worker] = pc[Worker]
    BY <1>0, <2>1 DEF Post, worker, Goto
  <2>3. log' = log \/ log' = Append(log, EntryRec(e))
    BY <2>1, OneLine DEF Post
  <2>4. \A x \in Async : Waiting(log, x) => Waiting(log', x)
    <3>1. EntryRec(e) \in Record /\ EntryRec(e).kind = "entry"
      BY DEF EntryRec, Record
    <3>2. ASSUME NEW x \in Async, Waiting(log, x) PROVE Waiting(Append(log, EntryRec(e)), x)
      BY <1>0, <3>1, <3>2, StillWaiting
    <3> QED
      BY <2>3, <3>2
  <2> QED
    BY <2>2, <2>4, SameTodo
<1>2. CASE \E e \in Entries : SyncAnswer(e)
  <2>1. PICK e \in Entries : SyncAnswer(e)
    BY <1>2
  <2>2. todo' = todo /\ pc'[Worker] = pc[Worker]
    BY <1>0, <2>1 DEF SyncAnswer, worker, Goto
  <2>3. log' = log \/ log' = Append(log, DoneRec(e))
    BY <2>1, OneLine DEF SyncAnswer
  <2>4. e \notin Async
    BY <2>1 DEF SyncAnswer, AsyncOK
  <2>5. \A x \in Async : Waiting(log, x) => Waiting(log', x)
    <3>1. DoneRec(e) \in Record /\ DoneRec(e).id = e
      BY RecordsDiffer
    <3>2. ASSUME NEW x \in Async, Waiting(log, x) PROVE Waiting(Append(log, DoneRec(e)), x)
      BY <1>0, <2>4, <3>1, <3>2, StillWaiting
    <3> QED
      BY <2>3, <3>2
  <2> QED
    BY <2>2, <2>5, SameTodo
<1>3. CASE EndPass
  <2>1. todo = <<>> /\ todo' = todo /\ pc'[Worker] = "idle"
    BY <1>0, <1>3 DEF EndPass, Goto
  <2> QED
    BY <2>1 DEF TodoOK, Apart, Working
<1>4. CASE BeginPass \/ SkipOrphan \/ Settle
  BY <1>4, BeginPassTodo, NextEntryTodo
<1>5. CASE Start
  <2>1. todo' = <<>> /\ pc'[Worker] = "idle"
    BY <1>0, <1>5 DEF Start
  <2> QED
    BY <2>1 DEF TodoOK, Apart, Working
<1>6. CASE \E t \in Tasks : Deliver(t) \/ Lookup(t) \/ Write(t)
  <2>1. PICK t \in Tasks : Deliver(t) \/ Lookup(t) \/ Write(t)
    BY <1>6
  <2>2. todo' = todo /\ log' = log
    BY <2>1 DEF Deliver, Lookup, Write, worker, journal
  <2>3. CASE t = Worker
    <3>1. pc[Worker] \in Working \ {"deliver"} \/ Head(todo) \notin Orphans
      BY <2>1, <2>3 DEF Deliver, Runnable, Lookup, Write, Working
    <3> QED
      BY <2>2, <3>1, SameTodo
  <2>4. CASE t # Worker
    <3>1. pc'[Worker] = pc[Worker]
      BY <1>0, <2>1, <2>4 DEF Deliver, Lookup, Write, Goto
    <3> QED
      BY <2>2, <3>1, SameTodo
  <2> QED
    BY <2>3, <2>4
<1>7. CASE \/ \E t \in Handlers : Cancel(t)
           \/ \E d \in Deletes : DeleteQueue(d) \/ DeleteLookup(d)
           \/ LastPass \/ Authenticated \/ Stop \/ Crash \/ LateArrival \/ UNCHANGED vars
  <2>1. todo' = todo /\ log' = log
    BY <1>7 DEF Cancel, DeleteQueue, DeleteLookup, LastPass, Authenticated, Stop, Crash,
       LateArrival, vars, worker, journal
  <2>2. pc'[Worker] = pc[Worker]
    BY <1>0, <1>7 DEF Cancel, DeleteQueue, DeleteLookup, LastPass, Authenticated, Stop, Crash,
       LateArrival, vars, Goto
  <2> QED
    BY <2>1, <2>2, SameTodo
<1> QED
  BY <1>0, <1>1, <1>2, <1>3, <1>4, <1>5, <1>6, <1>7
  DEF Next, WorkerStep, HandlerStep, DeleteStep

-----------------------------------------------------------------------------
(***************************************************************************)
(* Stale content only after a failure.                                     *)
(***************************************************************************)
LEMMA TurnInit ==
  ASSUME Init
  PROVE  OrderOK /\ StoredOK /\ AsyncOK /\ LateOK /\ TodoOK /\ PastOK
<1>0. /\ Backlog \in Seq(Entries) /\ \A i, j \in DOMAIN Backlog : Backlog[i] = Backlog[j] => i = j
      /\ log = [i \in DOMAIN Backlog |-> EntryRec(Backlog[i])] /\ order = Backlog
  BY BacklogAssumption DEF Init
<1>1. OrderOK
  <2>1. \A i \in DOMAIN log : log[i].id = order[i] /\ i \in DOMAIN order
    BY <1>0, RecordsDiffer
  <2>2. OrderedLog(log, order)
    BY <2>1 DEF OrderedLog, Earlier
  <2> QED
    BY <1>0, <2>2 DEF OrderOK, Apart
<1>2. StoredOK /\ LateOK /\ PastOK
  BY DEF Init, StoredOK, LateOK, PastOK
<1>3. AsyncOK
  BY TasksAssumption DEF Init, AsyncOK, Async, Tasks
<1>4. TodoOK
  <2>1. todo = <<>> /\ pc[Worker] = "idle"
    BY DEF Init, Tasks
  <2> QED
    BY <2>1 DEF TodoOK, Apart, Working
<1> QED
  BY <1>1, <1>2, <1>3, <1>4

LEMMA TurnInvHolds == Spec => []TurnInv
<1>1. Init => TurnInv
  BY LockInit, TypeInit, TurnInit DEF TypeInv, TurnInv
<1>2. TurnInv /\ [Next]_vars => TurnInv'
  <2> SUFFICES ASSUME TurnInv, [Next]_vars PROVE TurnInv'
    OBVIOUS
  <2>0. HubInv /\ LockInv /\ CalendarOK
    BY DEF TurnInv, TypeInv, LockInv
  <2>1. TypeInv'
    BY TypeStep DEF TurnInv
  <2>2. OrderOK' /\ StoredOK' /\ AsyncOK'
    BY <2>0, OrderStep, StoredStep, AsyncStep DEF TurnInv
  <2>3. LateOK' /\ TodoOK' /\ PastOK'
    BY <2>0, LateStep, TodoStep, PastStep DEF TurnInv
  <2> QED
    BY <2>1, <2>2, <2>3 DEF TurnInv
<1> QED
  BY <1>1, <1>2, PTL DEF Spec

\* An event changes only to what was accepted later, unless what it changes
\* to had failed.
LEMMA NoStaleStep ==
  ASSUME TurnInv, [Next]_vars, NEW old \in events, NEW new \in events', old.id = new.id,
         Earlier(order, new.body, old.body), new.body \in Async, old.body \in Async
  PROVE  new.body \in slipped
<1> DEFINE a == new.body
           b == old.body
<1>0. /\ LockInv /\ HubInv /\ GoogleOK /\ StoredOK /\ AsyncOK /\ LateOK /\ TodoOK /\ PastOK
      /\ order \in Seq(Entries) /\ Apart(order) /\ Async \subseteq Entries
  BY DEF TurnInv, TypeInv, LockInv, HubInv, Shapes, OrderOK, Async
<1>1. a # b
  BY <1>0, EarlierOneWay
<1>2. new \notin events
  BY <1>0, <1>1 DEF StoredOK
<1>3. PICK req : /\ Ran(req) /\ Fits(req, events, nextId)
                 /\ \/ req \in late
                    \/ \E t \in Tasks : pc[t] = "write" /\ req = Request(t)
  BY <1>0, <1>2, GoogleStep
<1>4. a = req.by
  BY <1>0, <1>2, <1>3, RanBodies
<1>5. Clear(a, slipped, log)
  BY <1>0 DEF StoredOK, PastOK
<1>6. CASE req \in late
  BY <1>0, <1>4, <1>6 DEF LateOK
<1>7. CASE \E t \in Tasks : pc[t] = "write" /\ req = Request(t)
  <2>1. PICK t \in Tasks : pc[t] = "write" /\ req = Request(t)
    BY <1>7
  <2>2. t = Worker /\ 1 \in DOMAIN todo /\ a = todo[1] /\ Head(todo) = todo[1]
    BY <1>0, <1>4, <2>1, AsyncWriter
  <2>3. a \notin Orphans /\ Waiting(log, a)
    BY <1>0, <2>1, <2>2 DEF TodoOK, Working
  <2> QED
    BY <1>5, <2>3 DEF Clear
<1> QED
  BY <1>3, <1>6, <1>7

\* Among asynchronous posts, content that was accepted earlier replaces
\* content that was accepted later only if the earlier entry's delivery or
\* its marker had failed, for any number of entries, crashes, compactions
\* and requests that Google runs late (pending, drain_once_tracking).
THEOREM StaleNeedsFailure == Spec => StaleOnlyAfterFailure
<1>1. TurnInv /\ [Next]_vars =>
        [\A old \in events, new \in events' :
           ( /\ old.id = new.id
             /\ Before(new.body, old.body)
             /\ {old.body, new.body} \intersect SyncPosts = {} )
           => new.body \in slipped]_vars
  <2> SUFFICES ASSUME TurnInv, [Next]_vars, NEW old \in events, NEW new \in events',
                      old.id = new.id, Before(new.body, old.body),
                      {old.body, new.body} \intersect SyncPosts = {}
               PROVE  new.body \in slipped
    OBVIOUS
  <2>1. Earlier(order, new.body, old.body)
    BY DEF Before, Earlier
  <2>2. old.body \in Entries /\ new.body \in Entries
    <3>1. order \in Seq(Entries)
      BY DEF TurnInv, TypeInv, LockInv, HubInv, Shapes
    <3> QED
      BY <2>1, <3>1 DEF Earlier
  <2> QED
    BY <2>1, <2>2, NoStaleStep DEF Async
<1> QED
  BY <1>1, TurnInvHolds, PTL DEF Spec, StaleOnlyAfterFailure
=============================================================================
