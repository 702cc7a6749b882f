-------------------------------- MODULE Hub ---------------------------------
(***************************************************************************)
(* Almanac at work: the ingest handlers, the delivery worker and the       *)
(* delete handler running concurrently over one journal, one set of key    *)
(* locks and one Google calendar, with crashes, restarts and clean stops   *)
(* (shell/ingest.rs, shell/worker.rs, shell/delivery.rs, main.rs).         *)
(*                                                                         *)
(* A step is what runs between two awaits that matter: a journal append, a *)
(* request at Google, a lock handed over.  The journal appends or fails    *)
(* here in one step; module Journal opens that step up.                    *)
(***************************************************************************)
EXTENDS JournalRecords

CONSTANTS
  Deletes,       \* delete requests
  Worker,        \* the worker task
  Keys, NoKey,   \* upsert keys, and the lack of one
  KeyOf,         \* the key of an entry's event, or the one a delete names
  SyncPosts,     \* entries posted to .../sync, the others are answered 202
  Backlog,       \* entries an earlier process left in the journal
  Orphans,       \* backlog entries whose source has no profile any more
  DeadAfter,     \* PERMANENT_FAILURES_BEFORE_DEAD
  CompactAfter,  \* COMPACT_AFTER_DELIVERIES
  MaxLines,      \* the journal's cap, in lines
  MaxEvents,     \* bound on the events ever created
  MaxFaults,     \* bound on the faults of a behaviour
  FaultKinds     \* which of AllFaults the environment may produce

Tasks == {Worker} \union Entries \union Deletes

AllFaults ==
  {"transient", "permanent", "lostanswer", "journal", "crash", "cancel", "stop"}

ASSUME TasksAssumption ==
  /\ Worker \notin Entries \union Deletes
  /\ Entries \intersect Deletes = {}
ASSUME KeysAssumption ==
  /\ NoKey \notin Keys
  /\ KeyOf \in [Entries \union Deletes -> Keys \union {NoKey}]
  /\ \A d \in Deletes : KeyOf[d] \in Keys
ASSUME BacklogAssumption ==
  /\ Backlog \in Seq(Entries) /\ Len(Backlog) <= MaxLines
  /\ \A i, j \in DOMAIN Backlog : Backlog[i] = Backlog[j] => i = j
  /\ SyncPosts \subseteq Entries
  /\ Orphans \subseteq {Backlog[i] : i \in DOMAIN Backlog}
ASSUME NumbersAssumption ==
  /\ DeadAfter \in Nat \ {0} /\ CompactAfter \in Nat \ {0}
  /\ MaxLines \in Nat \ {0} /\ MaxEvents \in Nat /\ MaxFaults \in Nat
  /\ FaultKinds \subseteq AllFaults

VARIABLES
  log,        \* the journal
  proc,       \* the process: up, stopping or down
  phase,      \* where worker::run is: auth (not spawned yet), replay, loop, final
  pc,         \* what each task does next
  todo,       \* the rest of the worker's snapshot of the pending entries
  delivered,  \* deliveries of this pass, counted up to CompactAfter
  since,      \* since_compaction, counted up to CompactAfter
  permanent,  \* the in-memory count of permanent failures per entry
  found,      \* what a task's lookup returned
  lockq,      \* each key lock's queue; the head holds it
  events,     \* the calendar
  nextId,     \* the next id Google gives to an event
  order,      \* history: the entries in the order the journal took them
  acked,      \* history: entries whose source was told they are journalled
  applied,    \* history: entries whose event Google has stored
  late,       \* requests sent by tasks that are gone, which Google may yet run
  stray,      \* history: requests per key Google ran late, or may run twice
  slipped,    \* history: entries whose delivery, or its marker, once failed
  gone,       \* history: keys whose delete was answered 200 when no post of
              \* the key was in flight or pending, and none has come since
  faults

journal == <<log, order>>
worker == <<phase, todo, delivered, since, permanent>>
google == <<events, nextId, applied, late, stray>>
vars == <<journal, worker, google, proc, pc, found, lockq, acked, slipped,
          gone, faults>>

-----------------------------------------------------------------------------
NoEvent == 0
Job(t) == IF t = Worker THEN Head(todo) ELSE t
Key(t) == KeyOf[Job(t)]

Goto(t, label) == pc' = [pc EXCEPT ![t] = label]

\* Mutant: the lock is looked up but never taken.
HoldsNoLock(t) == Key(t) # NoKey /\ \E i \in DOMAIN lockq[Key(t)] : lockq[Key(t)][i] = t

\* The key lock is a tokio Mutex: waiters get it in the order they came.
HoldsLock(t) == Key(t) # NoKey /\ lockq[Key(t)] # <<>> /\ Head(lockq[Key(t)]) = t
Release(t) ==
  lockq' = IF Key(t) = NoKey THEN lockq
           ELSE [lockq EXCEPT ![Key(t)] = Tail(@)]

\* A queue without t, who is in it once at most.
Without(q, t) ==
  LET at == {i \in DOMAIN q : q[i] = t} IN
  IF at = {} THEN q
  ELSE LET k == CHOOSE i \in at : TRUE
       IN [i \in 1 .. Len(q) - 1 |-> q[IF i < k THEN i ELSE i + 1]]

Fault(kind) ==
  /\ kind \in FaultKinds
  /\ faults < MaxFaults
  /\ faults' = faults + 1

\* Mutant: one line too many.
JournalledPastCap(r) ==
  /\ Len(log) <= MaxLines
  /\ log' = Append(log, r)
  /\ UNCHANGED faults

\* append(): the record is durable, or the caller gets an error and the
\* record may be in the file all the same (a failed fsync).  The cap makes
\* no difference between an entry and a marker.
Journalled(r) ==
  /\ Len(log) < MaxLines
  /\ log' = Append(log, r)
  /\ UNCHANGED faults
NotJournalled(r) ==
  \/ Len(log) >= MaxLines /\ UNCHANGED <<log, faults>>
  \/ /\ Len(log) < MaxLines
     /\ Fault("journal")
     /\ log' \in {log, Append(log, r)}

AtMost(n, bound) == IF n < bound THEN n ELSE bound
-----------------------------------------------------------------------------
(***************************************************************************)
(* POST /v1/ingest and /v1/ingest/.../sync, from the checks at the door to *)
(* the journal's answer.  A request refused at the door changes nothing.   *)
(***************************************************************************)
Post(e) ==
  /\ proc = "up" /\ pc[e] = "new"
  /\ \/ /\ Journalled(EntryRec(e))
        /\ acked' = acked \union {e}
        /\ Goto(e, IF e \in SyncPosts THEN "deliver" ELSE "answered")
     \/ /\ NotJournalled(EntryRec(e))
        /\ Goto(e, "answered")
        /\ UNCHANGED acked
  /\ order' = IF log' # log THEN Append(order, e) ELSE order
  /\ gone' = gone \ {KeyOf[e]}
  /\ UNCHANGED <<worker, google, proc, found, lockq, slipped>>

-----------------------------------------------------------------------------
(***************************************************************************)
(* deliver(), run by the worker for the head of its snapshot and by a sync *)
(* handler for its own entry.                                              *)
(***************************************************************************)
Runnable(t) == t = Worker => todo # <<>> /\ Head(todo) \notin Orphans

\* map_payload, then straight to the creation for want of a key, or to the
\* end of the key lock's queue.
Deliver(t) ==
  /\ pc[t] = "deliver" /\ Runnable(t)
  /\ \/ /\ Key(t) = NoKey
        /\ found' = [found EXCEPT ![t] = NoEvent]
        /\ Goto(t, "write")
        /\ UNCHANGED <<lockq, faults>>
     \/ /\ Key(t) # NoKey
        /\ lockq' = [lockq EXCEPT ![Key(t)] = Append(@, t)]
        /\ Goto(t, "queued")
        /\ UNCHANGED <<found, faults>>
     \/ /\ Fault("permanent")
        /\ Goto(t, "permanent")
        /\ UNCHANGED <<found, lockq>>
  /\ UNCHANGED <<journal, worker, google, proc, acked, slipped, gone>>

\* find_event_by_property: the first of the events that carry the key.
Matches(key) == {ev.id : ev \in {x \in events : x.key = key}}

Lookup(t) ==
  /\ t \notin Deletes /\ pc[t] = "queued" /\ HoldsLock(t)
  /\ \/ /\ \E id \in IF Matches(Key(t)) = {} THEN {NoEvent} ELSE Matches(Key(t)) :
             found' = [found EXCEPT ![t] = id]
        /\ Goto(t, "write")
        /\ UNCHANGED <<lockq, faults>>
     \/ \E outcome \in {"transient", "permanent"} :
          /\ Fault(outcome)
          /\ Goto(t, outcome)
          /\ Release(t)
          /\ UNCHANGED found
  /\ UNCHANGED <<journal, worker, google, proc, acked, slipped, gone>>

\* Every post of the key was answered and is settled in the journal.
NothingLeft(key) ==
  \A e \in Entries : KeyOf[e] = key =>
    /\ pc[e] \in {"new", "answered", "dropped"}
    /\ ~\E i \in DOMAIN Pending(log) : Pending(log)[i].id = e

\* A request at Google, and what it does there.  decide(): a lookup that
\* found nothing leads to a creation, otherwise the event is replaced; one
\* that is no longer there is not (404 or 410).
Request(t) == [key |-> Key(t), id |-> found[t], by |-> Job(t)]

\* Mutant: decide() forgets what the lookup found, every delivery creates.
RanAsCreate(req) ==
  /\ events' = events \union {[id |-> nextId, key |-> req.key, body |-> req.by]}
  /\ nextId' = nextId + 1
  /\ applied' = applied \union {req.by}

Ran(req) ==
  /\ events' =
       IF req.by \in Deletes THEN {ev \in events : ev.id # req.id}
       ELSE IF req.id = NoEvent
         THEN events \union {[id |-> nextId, key |-> req.key, body |-> req.by]}
         ELSE {IF ev.id = req.id THEN [ev EXCEPT !.body = req.by] ELSE ev : ev \in events}
  /\ nextId' = IF req.id = NoEvent THEN nextId + 1 ELSE nextId
  /\ applied' = IF req.by \in Entries THEN applied \union {req.by} ELSE applied

Possible(req) ==
  IF req.id = NoEvent THEN nextId <= MaxEvents
  ELSE \E ev \in events : ev.id = req.id

Strayed(key) ==
  stray' = IF key = NoKey THEN stray ELSE [stray EXCEPT ![key] = @ + 1]

\* create_event, update_event or delete_event inside send_with_retry.  An
\* answer that is lost after Google acted is retried: the same request goes
\* out again, without a new lookup.
Write(t) ==
  /\ pc[t] = "write"
  /\ \/ /\ Possible(Request(t))
        /\ Ran(Request(t))
        /\ Goto(t, IF t \in Deletes THEN "answered" ELSE "ok")
        /\ gone' = IF t \in Deletes /\ NothingLeft(Key(t))
                     THEN gone \union {Key(t)} ELSE gone
        /\ Release(t)
        /\ UNCHANGED <<stray, faults>>
     \/ /\ Possible(Request(t))
        /\ Ran(Request(t))
        /\ Fault("lostanswer")
        /\ Strayed(Key(t))
        /\ UNCHANGED <<pc, lockq, gone>>
     \/ /\ found[t] # NoEvent /\ ~Possible(Request(t))
        /\ Goto(t, IF t \in Deletes THEN "answered" ELSE "permanent")
        /\ Release(t)
        /\ UNCHANGED <<events, nextId, applied, stray, gone, faults>>
     \/ \E outcome \in {"transient", "permanent"} :
          /\ Fault(outcome)
          /\ Goto(t, IF t \in Deletes THEN "answered" ELSE outcome)
          /\ Release(t)
          /\ UNCHANGED <<events, nextId, applied, stray, gone>>
  /\ UNCHANGED <<journal, worker, late, proc, found, acked, slipped>>

-----------------------------------------------------------------------------
(***************************************************************************)
(* The sync handler after deliver(): a delivery is marked done, a failure  *)
(* leaves the entry pending; the source hears 200 or 502.                  *)
(***************************************************************************)
\* Mutant: the entry is marked done whatever became of the delivery.
SyncAnswerAlwaysDone(e) ==
  /\ pc[e] \in {"ok", "transient", "permanent"}
  /\ Journalled(DoneRec(e))
  /\ Goto(e, "answered")
  /\ UNCHANGED <<order, worker, google, proc, found, lockq, acked, slipped, gone>>

SyncAnswer(e) ==
  /\ pc[e] \in {"ok", "transient", "permanent"}
  /\ \/ /\ pc[e] = "ok"
        /\ \/ Journalled(DoneRec(e)) /\ UNCHANGED slipped
           \/ NotJournalled(DoneRec(e)) /\ slipped' = slipped \union {e}
     \/ /\ pc[e] # "ok"
        /\ slipped' = slipped \union {e}
        /\ UNCHANGED <<log, faults>>
  /\ Goto(e, "answered")
  /\ UNCHANGED <<order, worker, google, proc, found, lockq, acked, gone>>

-----------------------------------------------------------------------------
(***************************************************************************)
(* The worker's pass: a snapshot of what is pending, each entry in turn,   *)
(* and what the pass leaves behind.                                        *)
(***************************************************************************)
\* Mutant: newest first.
SnapshotReversed ==
  LET n == Len(Pending(log)) IN [i \in 1..n |-> Pending(log)[n + 1 - i].id]

Snapshot == [i \in DOMAIN Pending(log) |-> Pending(log)[i].id]

BeginPass ==
  /\ proc # "down" /\ phase # "auth" /\ pc[Worker] = "idle"
  /\ todo' = Snapshot
  /\ delivered' = 0
  /\ Goto(Worker, "deliver")
  /\ UNCHANGED <<journal, phase, since, permanent, google, proc, found, lockq,
                 acked, slipped, gone, faults>>

\* Mutant: an entry without a profile ends the pass.
SkipRest ==
  /\ pc[Worker] = "deliver" /\ todo # <<>> /\ Head(todo) \in Orphans
  /\ todo' = <<>>
  /\ UNCHANGED <<journal, phase, delivered, since, permanent, google, proc, pc,
                 found, lockq, acked, slipped, gone, faults>>

\* No profile: the entry stays pending and is never counted towards dead.
SkipOrphan ==
  /\ pc[Worker] = "deliver" /\ todo # <<>> /\ Head(todo) \in Orphans
  /\ todo' = Tail(todo)
  /\ UNCHANGED <<journal, phase, delivered, since, permanent, google, proc, pc,
                 found, lockq, acked, slipped, gone, faults>>

SettleOk(e) ==
  /\ pc[Worker] = "ok"
  /\ \/ Journalled(DoneRec(e)) /\ UNCHANGED slipped
     \/ NotJournalled(DoneRec(e)) /\ slipped' = slipped \union {e}
  /\ delivered' = AtMost(delivered + 1, CompactAfter)
  /\ UNCHANGED permanent

\* Mutant: a transient failure is taken for a delivery.
SettleTransientAsDone(e) ==
  /\ pc[Worker] = "transient"
  /\ Journalled(DoneRec(e))
  /\ UNCHANGED <<permanent, slipped, delivered>>

SettleTransient(e) ==
  /\ pc[Worker] = "transient"
  /\ permanent' = [permanent EXCEPT ![e] = 0]
  /\ slipped' = slipped \union {e}
  /\ UNCHANGED <<log, delivered, faults>>

\* The replay and the final pass count in a map of their own, which one
\* pass cannot bring to DeadAfter unless DeadAfter is 1.
SettlePermanent(e) ==
  /\ pc[Worker] = "permanent"
  /\ LET seen == (IF phase = "loop" THEN permanent[e] ELSE 0) + 1
         kept(n) == IF phase = "loop" THEN [permanent EXCEPT ![e] = n]
                                      ELSE permanent
     IN  \/ /\ seen < DeadAfter
            /\ permanent' = kept(seen)
            /\ UNCHANGED <<log, faults>>
         \/ /\ seen >= DeadAfter
            /\ Journalled(DeadRec(e))
            /\ permanent' = kept(0)
         \/ /\ seen >= DeadAfter
            /\ NotJournalled(DeadRec(e))
            /\ permanent' = kept(AtMost(seen, DeadAfter))
  /\ slipped' = slipped \union {e}
  /\ UNCHANGED delivered

Settle ==
  /\ todo # <<>>
  /\ SettleOk(Head(todo)) \/ SettleTransient(Head(todo)) \/ SettlePermanent(Head(todo))
  /\ todo' = Tail(todo)
  /\ Goto(Worker, "deliver")
  /\ UNCHANGED <<order, phase, since, google, proc, found, lockq, acked, gone>>

\* The end of a pass: the replay hands over to the loop, a pass of the loop
\* may compact, and after the final pass the process exits.
EndPass ==
  /\ pc[Worker] = "deliver" /\ todo = <<>>
  /\ Goto(Worker, "idle")
  /\ \/ /\ phase = "replay"
        /\ phase' = "loop" /\ since' = delivered
        /\ UNCHANGED <<log, proc, faults>>
     \/ /\ phase = "loop"
        /\ LET total == AtMost(since + delivered, CompactAfter) IN
             \/ total < CompactAfter /\ since' = total /\ UNCHANGED <<log, faults>>
             \/ /\ total >= CompactAfter
                /\ \/ log' = Compacted(log) /\ since' = 0 /\ UNCHANGED faults
                   \/ Fault("journal") /\ since' = total /\ UNCHANGED log
        /\ UNCHANGED <<phase, proc>>
     \/ /\ phase = "final"
        /\ proc' = "down"
        /\ UNCHANGED <<log, phase, since, faults>>
  /\ UNCHANGED <<order, todo, delivered, permanent, google, found, lockq, acked,
                 slipped, gone>>

-----------------------------------------------------------------------------
(***************************************************************************)
(* DELETE /v1/ingest/.../events/...: the same lock and lookup as a         *)
(* delivery, then Write, the deletion at Google.  Nothing is journalled.   *)
(***************************************************************************)
DeleteQueue(d) ==
  /\ proc = "up" /\ pc[d] = "new"
  /\ lockq' = [lockq EXCEPT ![KeyOf[d]] = Append(@, d)]
  /\ Goto(d, "queued")
  /\ UNCHANGED <<journal, worker, google, proc, found, acked, slipped, gone, faults>>

DeleteLookup(d) ==
  /\ pc[d] = "queued" /\ HoldsLock(d)
  /\ \/ /\ Matches(KeyOf[d]) # {}
        /\ \E id \in Matches(KeyOf[d]) : found' = [found EXCEPT ![d] = id]
        /\ Goto(d, "write")
        /\ UNCHANGED <<lockq, faults>>
     \/ /\ Matches(KeyOf[d]) = {}          \* 404
        /\ Goto(d, "answered")
        /\ Release(d)
        /\ UNCHANGED <<found, faults>>
     \/ /\ Fault("transient") \/ Fault("permanent")      \* 502
        /\ Goto(d, "answered")
        /\ Release(d)
        /\ UNCHANGED found
  /\ UNCHANGED <<journal, worker, google, proc, acked, slipped, gone>>

-----------------------------------------------------------------------------
(***************************************************************************)
(* The process.  The listener is up before the worker exists: a token has  *)
(* to be had from Google first.  A stop lets the requests in flight finish,*)
(* and has the worker, if there is one, drain once more.                   *)
(***************************************************************************)
Handlers == Entries \union Deletes
InFlight == {t \in Handlers : pc[t] \notin {"new", "answered", "dropped"}}

LeftBehind(reqs) ==
  /\ late' = late \union reqs
  /\ slipped' = slipped \union ({req.by : req \in reqs} \intersect Entries)

Authenticated ==
  /\ proc # "down" /\ phase = "auth"
  /\ phase' = "replay"
  /\ UNCHANGED <<journal, todo, delivered, since, permanent, google, proc, pc,
                 found, lockq, acked, slipped, gone, faults>>

Stop ==
  /\ proc = "up" /\ InFlight = {}
  /\ Fault("stop")
  /\ proc' = IF phase = "auth" THEN "down" ELSE "stopping"
  /\ UNCHANGED <<journal, worker, google, pc, found, lockq, acked, slipped, gone>>

\* The select! between ticks notices the shutdown.
LastPass ==
  /\ proc = "stopping" /\ phase = "loop" /\ pc[Worker] = "idle"
  /\ phase' = "final"
  /\ UNCHANGED <<journal, todo, delivered, since, permanent, google, proc, pc,
                 found, lockq, acked, slipped, gone, faults>>

\* kill -9, a power cut, the kit's shutdown budget running out, or the exit
\* over unusable credentials: whatever was in memory is gone, and a request
\* under way may still reach Google.
Crash ==
  /\ proc # "down"
  /\ Fault("crash")
  /\ proc' = "down"
  /\ \E ts \in SUBSET {t \in Tasks : pc[t] = "write"} :
       LeftBehind({Request(t) : t \in ts})
  /\ UNCHANGED <<journal, worker, events, nextId, applied, stray, pc, found,
                 lockq, acked, gone>>

\* Mutant: the key lock of a dropped handler stays locked.
CancelKeepsLock(t) ==
  /\ t \in InFlight
  /\ Fault("cancel")
  /\ Goto(t, "dropped")
  /\ LeftBehind({})
  /\ UNCHANGED <<journal, worker, events, nextId, applied, stray, proc, found,
                 lockq, acked, gone>>

\* A client that hangs up takes its handler with it, wherever it stands.
Cancel(t) ==
  /\ t \in InFlight
  /\ Fault("cancel")
  /\ Goto(t, "dropped")
  /\ lockq' = IF Key(t) = NoKey THEN lockq
              ELSE [lockq EXCEPT ![Key(t)] = Without(@, t)]
  /\ \/ LeftBehind({})
     \/ pc[t] = "write" /\ LeftBehind({Request(t)})
  /\ UNCHANGED <<journal, worker, events, nextId, applied, stray, proc, found,
                 acked, gone>>

\* Google runs a request nobody waits for any more.
LateArrival ==
  \E req \in late :
    /\ late' = late \ {req}
    /\ \/ Possible(req) /\ Ran(req) /\ Strayed(req.key)
       \/ ~Possible(req) /\ UNCHANGED <<events, nextId, applied, stray>>
    /\ UNCHANGED <<journal, worker, proc, pc, found, lockq, acked, slipped, gone,
                   faults>>

Start ==
  /\ proc = "down"
  /\ proc' = "up" /\ phase' = "auth"
  /\ pc' = [t \in Tasks |-> IF t = Worker THEN "idle"
                            ELSE IF t \in InFlight THEN "dropped" ELSE pc[t]]
  /\ todo' = <<>> /\ delivered' = 0 /\ since' = 0
  /\ permanent' = [e \in Entries |-> 0]
  /\ found' = [t \in Tasks |-> NoEvent]
  /\ lockq' = [k \in Keys |-> <<>>]
  /\ UNCHANGED <<journal, google, acked, slipped, gone, faults>>

-----------------------------------------------------------------------------
InBacklog(e) == \E i \in DOMAIN Backlog : Backlog[i] = e

Init ==
  /\ log = [i \in DOMAIN Backlog |-> EntryRec(Backlog[i])]
  /\ order = Backlog
  /\ proc = "up" /\ phase = "auth"
  /\ pc = [t \in Tasks |-> IF t = Worker THEN "idle"
                           ELSE IF t \in Entries /\ InBacklog(t) THEN "answered"
                           ELSE "new"]
  /\ todo = <<>> /\ delivered = 0 /\ since = 0
  /\ permanent = [e \in Entries |-> 0]
  /\ found = [t \in Tasks |-> NoEvent]
  /\ lockq = [k \in Keys |-> <<>>]
  /\ events = {} /\ nextId = 1
  /\ acked = {e \in Entries : InBacklog(e)}
  /\ applied = {} /\ late = {} /\ stray = [k \in Keys |-> 0] /\ slipped = {} /\ gone = {}
  /\ faults = 0

Running == proc # "down"

WorkerStep ==
  \/ BeginPass \/ SkipOrphan \/ Settle \/ EndPass \/ LastPass
  \/ Deliver(Worker) \/ Lookup(Worker) \/ Write(Worker)
HandlerStep(e) == Post(e) \/ Deliver(e) \/ Lookup(e) \/ Write(e) \/ SyncAnswer(e)
DeleteStep(d) == DeleteQueue(d) \/ DeleteLookup(d) \/ Write(d)

Next ==
  \/ Running /\ WorkerStep
  \/ \E e \in Entries : Running /\ HandlerStep(e)
  \/ \E d \in Deletes : Running /\ DeleteStep(d)
  \/ \E t \in Handlers : Running /\ Cancel(t)
  \/ Authenticated \/ Stop \/ Crash \/ Start \/ LateArrival

Spec == Init /\ [][Next]_vars

\* Every task the runtime polls makes progress, the supervisor restarts the
\* process (Restart=always), and Google's answer to the start-up token
\* request comes eventually.  Sources owe nothing: posts, deletes, stops and
\* everything that fails stay free to happen or not.
Fairness ==
  /\ WF_vars(Running /\ WorkerStep)
  /\ \A e \in Entries : WF_vars(Running /\ pc[e] # "new" /\ HandlerStep(e))
  /\ \A d \in Deletes : WF_vars(Running /\ pc[d] # "new" /\ DeleteStep(d))
  /\ WF_vars(Authenticated)
  /\ WF_vars(Start)
  /\ SF_vars(LastPass)

FairSpec == Spec /\ Fairness

-----------------------------------------------------------------------------
(***************************************************************************)
(* Properties.                                                             *)
(***************************************************************************)
Labels ==
  {"new", "idle", "deliver", "queued", "write", "ok", "transient", "permanent",
   "answered", "dropped"}

Event == [id : 1..MaxEvents, key : Keys \union {NoKey}, body : Entries]
RequestOf == [key : Keys \union {NoKey}, id : 0..MaxEvents, by : Entries \union Deletes]

\* Every variable keeps its shape; the journal never passes its cap.
TypeOK ==
  /\ log \in Seq(Record) /\ Len(log) <= MaxLines
  /\ order \in Seq(Entries)
  /\ proc \in {"up", "stopping", "down"}
  /\ phase \in {"auth", "replay", "loop", "final"}
  /\ pc \in [Tasks -> Labels]
  /\ todo \in Seq(Entries)
  /\ delivered \in 0..CompactAfter /\ since \in 0..CompactAfter
  /\ permanent \in [Entries -> 0..DeadAfter]
  /\ found \in [Tasks -> 0..MaxEvents]
  /\ lockq \in [Keys -> Seq(Tasks)]
  /\ events \subseteq Event
  /\ nextId \in 1..(MaxEvents + 1)
  /\ late \subseteq RequestOf
  /\ stray \in [Keys -> Nat]
  /\ acked \subseteq Entries /\ applied \subseteq Entries /\ slipped \subseteq Entries
  /\ gone \subseteq Keys
  /\ faults \in 0..MaxFaults

IsPending(e) == Holds(log, EntryRec(e)) /\ ~Marked(log, e)
IsDead(e) == Holds(log, EntryRec(e)) /\ Holds(log, DeadRec(e))

\* "Nothing is lost": an entry whose source was told it is journalled is
\* pending in the journal, or set aside in it, or Google has stored its
\* event, through crashes, failed markers, compactions and cancelled
\* handlers (ingest, drain_once_tracking, compact).
AckedNeverLost == \A e \in acked : IsPending(e) \/ IsDead(e) \/ e \in applied

\* What a lookup under the key lock returned is still so when the request
\* built on it goes out: search-then-write is not atomic at Google, and the
\* lock has to make up for that (delivery.rs, KeyLocks).  Requests that
\* Google ran twice or late are beyond the lock.
LookupStillTrue ==
  \A t \in Tasks :
    (pc[t] = "write" /\ Key(t) # NoKey /\ stray[Key(t)] = 0) =>
      IF found[t] = NoEvent THEN Matches(Key(t)) = {}
                            ELSE found[t] \in Matches(Key(t))

\* A key has one event, and one more at most for each request that Google
\* ran late or whose answer was lost: crashes, failed markers, redeliveries
\* and concurrent handlers alone never duplicate (deliver, K2/AR16).
DuplicatesOnlyFromStrays ==
  \A k \in Keys : Cardinality(Matches(k)) <= 1 + stray[k]

Before(a, b) ==
  \E i, j \in DOMAIN order : i < j /\ order[i] = a /\ order[j] = b

\* Among asynchronous posts, content that was accepted earlier replaces
\* content that was accepted later only if the earlier entry's delivery or
\* marker had failed: the worker delivers in acceptance order, and a crash
\* does not change that (pending, drain_once_tracking).
StaleOnlyAfterFailure ==
  [][\A old \in events, new \in events' :
       ( /\ old.id = new.id
         /\ Before(new.body, old.body)
         /\ {old.body, new.body} \intersect SyncPosts = {} )
       => new.body \in slipped]_vars

\* The journal, read as an inbox, keeps its promise.
InboxState ==
  [e \in Entries |->
     IF IsPending(e) THEN "held"
     ELSE IF IsDead(e) THEN "aside"
     ELSE IF \E i \in DOMAIN order : order[i] = e THEN "delivered" ELSE "unknown"]

Promise == INSTANCE Inbox WITH state <- InboxState, stored <- applied
KeepsPromise == Promise!Spec

\* An accepted entry of a source that still has its profile is eventually
\* delivered or set aside, if the faults come to an end.
AckedEventuallySettles ==
  \A e \in Entries \ Orphans : (e \in acked) ~> ~IsPending(e)

\* Every request under way is answered or dies with its process: no task
\* waits for a key lock for ever.
RequestsEnd ==
  \A t \in Handlers : (t \in InFlight) ~> (t \notin InFlight)

\* README, "Redelivery converges": "retrying never produces a duplicate".
NeverDuplicated == \A k \in Keys : Cardinality(Matches(k)) <= 1

\* ingest.rs, delete_event: the key lock is there "so a delete cannot
\* interleave with an upsert of the same event and leave a recreated copy
\* behind".  Once a delete answered 200 with every post of the key settled,
\* the event stays away until the next post.
DeletedStaysDeleted == \A k \in gone : Matches(k) = {}
=============================================================================
