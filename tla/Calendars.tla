----------------------------- MODULE Calendars ------------------------------
(***************************************************************************)
(* The Calendars page: making, sharing, listing and deleting whole         *)
(* calendars, the sources that write to them, and what Almanac remembers   *)
(* while Google's list of calendars lags behind (shell/dashboard.rs,       *)
(* AppState in shell/ingest.rs, shell/calendar_client.rs, shell/kit.rs).   *)
(*                                                                         *)
(* The list lags the way the repository measured it: a new calendar is not *)
(* listed yet and a deleted one still is, each for a while, and each       *)
(* catches up once.                                                        *)
(*                                                                         *)
(* A step is what runs between two awaits, or between two of the mutexes   *)
(* of AppState, which another thread may take in between.                  *)
(***************************************************************************)
EXTENDS Integers, Sequences, FiniteSets, SequencesExt

CONSTANTS
  Names,         \* names for calendars
  Creators,      \* POST /calendars requests
  NameOf,        \* the name each of them asks for
  Deleters,      \* POST /calendars/{calendar_id}/delete requests
  Pages,         \* GET /calendars requests; the listing at start-up is one too
  Sources,       \* sources that may be added
  MaxCalendars,  \* bound on the calendars ever made
  MaxFaults,     \* bound on the faults of a behaviour
  FaultKinds     \* which of AllFaults the environment may produce

Tasks == Creators \union Deleters \union Pages

AllFaults == {"failed", "lostanswer", "cancel", "crash"}

ASSUME TasksAssumption ==
  /\ Creators \intersect Deleters = {}
  /\ (Creators \union Deleters) \intersect Pages = {}
  /\ NameOf \in [Creators -> Names]
ASSUME NumbersAssumption ==
  /\ MaxCalendars \in Nat /\ MaxFaults \in Nat
  /\ FaultKinds \subseteq AllFaults

VARIABLES
  made,      \* the names of the calendars Google ever made; the index is the id
  exists,    \* the calendars there are
  lagging,   \* made, but not yet in Google's list
  listed,    \* in Google's list
  late,      \* requests of tasks that are gone, which Google may yet run
  created,   \* created_calendars: name to id
  deleted,   \* deleted_calendars
  target,    \* target_calendar_id of each source's profile
  lockq,     \* each name's lock: the head holds it
  pc,        \* what each request does next
  aim,       \* the calendar a request has made, or is to delete
  got,       \* the list a request is working on, then the page it rendered
  shown,     \* calendars ever on a page: the ids a form can name
  told,      \* history: calendars answered as made, no delete asked since
  buried,    \* history: calendars whose delete was answered
  known,     \* history: told and buried when the page's list was asked for
  early,     \* history: deleted before the request that made them ended
  muddled,   \* history: forgotten while a page or the list said otherwise
  loose,     \* history: made by a request that did not live to remember it
  raced,     \* history: sources added while their calendar was being deleted
  faults

google == <<made, exists, lagging, listed, late>>
memory == <<created, deleted>>
history == <<told, buried, known, early, muddled, loose, raced>>
vars == <<google, memory, target, lockq, pc, aim, got, shown, history, faults>>

-----------------------------------------------------------------------------
NoId == 0
Ids == DOMAIN made
Named(n) == {i \in exists : made[i] = n}

Goto(t, label) == pc' = [pc EXCEPT ![t] = label]

HoldsLock(c) == lockq[NameOf[c]] # <<>> /\ Head(lockq[NameOf[c]]) = c

\* Mutant: the guard outlives the answer.
AnswerHolding(t) == Goto(t, "answered") /\ UNCHANGED lockq

\* The answer goes out and the guard of the lock, if any, is dropped.
Answer(t) ==
  /\ Goto(t, "answered")
  /\ lockq' = IF t \in Creators THEN [lockq EXCEPT ![NameOf[t]] = Tail(@)] ELSE lockq

Fault(kind) ==
  /\ kind \in FaultKinds
  /\ faults < MaxFaults
  /\ faults' = faults + 1

-----------------------------------------------------------------------------
(***************************************************************************)
(* Google.                                                                 *)
(***************************************************************************)
Makes(n) ==
  /\ Len(made) < MaxCalendars
  /\ made' = Append(made, n)
  /\ exists' = exists \union {Len(made) + 1}
  /\ lagging' = lagging \union {Len(made) + 1}

ListCatchesUp(i) ==
  /\ \/ /\ i \in lagging
        /\ lagging' = lagging \ {i} /\ listed' = listed \union {i}
     \/ /\ i \in listed \ exists
        /\ listed' = listed \ {i} /\ UNCHANGED lagging
  /\ UNCHANGED <<made, exists, late, memory, target, lockq, pc, aim, got, shown,
                 history, faults>>

-----------------------------------------------------------------------------
(***************************************************************************)
(* POST /calendars: find or create, one request per name at a time.        *)
(***************************************************************************)
Create(c) ==
  /\ pc[c] = "new"
  /\ lockq' = [lockq EXCEPT ![NameOf[c]] = Append(@, c)]
  /\ Goto(c, "queued")
  /\ UNCHANGED <<google, memory, target, aim, got, shown, history, faults>>

\* remembered_calendar: what was just made is the answer.
Recall(c) ==
  /\ pc[c] = "queued" /\ HoldsLock(c)
  /\ \/ created[NameOf[c]] # NoId /\ Answer(c)
     \/ created[NameOf[c]] = NoId /\ Goto(c, "find") /\ UNCHANGED lockq
  /\ UNCHANGED <<google, memory, target, aim, got, shown, history, faults>>

\* find_calendar_by_summary looks in Google's list as it comes.
Find(c) ==
  /\ pc[c] = "find"
  /\ \/ /\ \E i \in listed : made[i] = NameOf[c]
        /\ Answer(c) /\ UNCHANGED faults
     \/ /\ \A i \in listed : made[i] # NameOf[c]
        /\ Goto(c, "make") /\ UNCHANGED <<lockq, faults>>
     \/ Fault("failed") /\ Goto(c, "list") /\ UNCHANGED lockq
  /\ UNCHANGED <<google, memory, target, aim, got, shown, history>>

\* The insert, resent without another look when its answer is lost.  One that
\* fails for good may have made a calendar all the same.
Make(c) ==
  /\ pc[c] = "make"
  /\ \/ /\ Makes(NameOf[c])
        /\ aim' = [aim EXCEPT ![c] = Len(made')]
        /\ Goto(c, "share")
        /\ UNCHANGED <<loose, faults>>
     \/ /\ Makes(NameOf[c]) /\ loose' = loose \union {Len(made')}
        /\ \/ Fault("lostanswer") /\ UNCHANGED pc
           \/ Fault("failed") /\ Goto(c, "list")
        /\ UNCHANGED aim
     \/ Fault("failed") /\ Goto(c, "list")
        /\ UNCHANGED <<made, exists, lagging, aim, loose>>
  /\ UNCHANGED <<listed, late, memory, target, lockq, got, shown, told, buried,
                 known, early, muddled, raced>>

\* share_calendar, refused when the calendar has gone meanwhile.
Share(c) ==
  /\ pc[c] = "share"
  /\ \/ /\ aim[c] \in exists
        /\ Goto(c, "remember")
        /\ UNCHANGED <<loose, faults>>
     \/ /\ \/ aim[c] \notin exists /\ UNCHANGED faults
           \/ Fault("failed")
        /\ loose' = loose \union {aim[c]}
        /\ Goto(c, "list")
  /\ UNCHANGED <<google, memory, target, lockq, aim, got, shown, told, buried,
                 known, early, muddled, raced>>

\* Mutant: only the answer tells what was made.
RememberNothing(c) ==
  /\ pc[c] = "remember"
  /\ told' = told \union {aim[c]}
  /\ Answer(c)
  /\ UNCHANGED <<google, memory, target, aim, got, shown, buried, known, early,
                 muddled, loose, raced, faults>>

\* remember_created_calendar: only what could be shared is remembered.
Remember(c) ==
  /\ pc[c] = "remember"
  /\ created' = [created EXCEPT ![NameOf[c]] = aim[c]]
  /\ told' = told \union {aim[c]}
  /\ Answer(c)
  /\ UNCHANGED <<google, deleted, target, aim, got, shown, buried, known, early,
                 muddled, loose, raced, faults>>

-----------------------------------------------------------------------------
(***************************************************************************)
(* POST /calendars/{calendar_id}/delete.                                   *)
(***************************************************************************)
Using(i) == {s \in Sources : target[s] = i}

\* Mutant: the endpoint trusts the page, which showed the button.
DeleteUnchecked(d) ==
  /\ pc[d] = "new"
  /\ \E i \in shown : aim' = [aim EXCEPT ![d] = i]
  /\ Goto(d, "delete")
  /\ UNCHANGED <<google, memory, target, lockq, got, shown, history, faults>>

\* A calendar that some source writes to is refused on arrival.
Delete(d) ==
  /\ pc[d] = "new"
  /\ \E i \in shown :
       /\ aim' = [aim EXCEPT ![d] = i]
       /\ Goto(d, IF Using(i) = {} THEN "delete" ELSE "list")
  /\ UNCHANGED <<google, memory, target, lockq, got, shown, history, faults>>

\* A calendar that is gone already is refused, and so is a request resent
\* because the answer to it was lost.
DeleteAtGoogle(d) ==
  /\ pc[d] = "delete"
  /\ \/ /\ aim[d] \in exists
        /\ exists' = exists \ {aim[d]}
        /\ \/ Goto(d, "bury") /\ UNCHANGED faults
           \/ Fault("lostanswer") /\ UNCHANGED pc
     \/ /\ aim[d] \notin exists
        /\ Goto(d, "list")
        /\ UNCHANGED <<exists, faults>>
     \/ /\ Fault("failed")
        /\ exists' \in {exists, exists \ {aim[d]}}
        /\ Goto(d, "list")
  /\ UNCHANGED <<made, lagging, listed, late, memory, target, lockq, aim, got,
                 shown, history>>

\* Mutant: the page is trusted to lose the calendar by itself.
BuryNothing(d) ==
  /\ pc[d] = "bury"
  /\ Goto(d, "forget")
  /\ UNCHANGED <<google, memory, target, lockq, aim, got, shown, history, faults>>

\* remember_deleted_calendar
Bury(d) ==
  /\ pc[d] = "bury"
  /\ deleted' = deleted \union {aim[d]}
  /\ Goto(d, "forget")
  /\ UNCHANGED <<google, created, target, lockq, aim, got, shown, history, faults>>

StillMaking(i) == \E c \in Creators : pc[c] = "remember" /\ aim[c] = i

Buried(d) ==
  /\ pc[d] = "forget"
  /\ Goto(d, "answered")
  /\ buried' = buried \union {aim[d]}
  /\ early' = IF StillMaking(aim[d]) THEN early \union {aim[d]} ELSE early
  /\ UNCHANGED <<google, deleted, target, lockq, aim, got, shown, told, known,
                 muddled, loose, raced, faults>>

\* Mutant: the memory of the calendar outlives it.
ForgetNothing(d) == Buried(d) /\ UNCHANGED created

\* forget_created_calendar, and the answer.
Forget(d) ==
  /\ Buried(d)
  /\ created' = [n \in Names |-> IF created[n] = aim[d] THEN NoId ELSE created[n]]

-----------------------------------------------------------------------------
(***************************************************************************)
(* render_calendars: a page, or the answer to a request that failed, which *)
(* for POST /calendars is rendered with the name's lock still held.        *)
(***************************************************************************)
Rendering(t) == pc[t] = "list" \/ (t \in Pages /\ pc[t] = "new")

\* The page says so when Google cannot be asked.
List(t) ==
  /\ Rendering(t)
  /\ \/ /\ got' = [got EXCEPT ![t] = listed]
        /\ known' = [known EXCEPT ![t] = [told |-> told, buried |-> buried]]
        /\ Goto(t, "add")
        /\ UNCHANGED <<lockq, faults>>
     \/ Fault("failed") /\ Answer(t) /\ UNCHANGED <<got, known>>
  /\ UNCHANGED <<google, memory, target, aim, shown, told, buried, early, muddled,
                 loose, raced>>

Remembered == {created[n] : n \in Names} \ {NoId}

Others(t) == {u \in Tasks \ {t} : pc[u] \in {"add", "drop"}}

\* Mutant: whatever was remembered is forgotten, listed or not.
AddForgetting(t) ==
  /\ pc[t] = "add"
  /\ got' = [got EXCEPT ![t] = @ \union Remembered]
  /\ created' = [n \in Names |-> NoId]
  /\ Goto(t, "drop")
  /\ UNCHANGED <<google, deleted, target, lockq, aim, shown, history, faults>>

\* with_created_calendars
Add(t) ==
  /\ pc[t] = "add"
  /\ got' = [got EXCEPT ![t] = @ \union Remembered]
  /\ created' = [n \in Names |-> IF created[n] \in got[t] THEN NoId ELSE created[n]]
  /\ muddled' = muddled \union
       {i \in Remembered \intersect got[t] : \E u \in Others(t) : i \notin got[u]}
  /\ Goto(t, "drop")
  /\ UNCHANGED <<google, deleted, target, lockq, aim, shown, told, buried, known,
                 early, loose, raced, faults>>

\* without_deleted_calendars and remember_calendars
Drop(t) ==
  /\ pc[t] = "drop"
  /\ got' = [got EXCEPT ![t] = @ \ deleted]
  /\ shown' = shown \union (got[t] \ deleted)
  /\ deleted' = deleted \intersect got[t]
  /\ muddled' = muddled \union
       {i \in deleted \ got[t] :
          i \in lagging \union listed \/ \E u \in Others(t) : i \in got[u]}
  /\ Answer(t)
  /\ UNCHANGED <<google, created, target, aim, told, buried, known, early, loose,
                 raced, faults>>

-----------------------------------------------------------------------------
(***************************************************************************)
(* The kit's hooks for sources, as far as calendars are concerned.         *)
(***************************************************************************)
Doomed(i) ==
  \/ i \notin exists
  \/ \E d \in Deleters : aim[d] = i /\ (pc[d] = "delete" \/ d \in late)

\* create_source takes any calendar id, and keeps a profile there is.
AddSource(s) ==
  /\ target[s] = NoId
  /\ \E i \in shown :
       /\ target' = [target EXCEPT ![s] = i]
       /\ raced' = IF Doomed(i) THEN raced \union {s} ELSE raced
  /\ UNCHANGED <<google, memory, lockq, pc, aim, got, shown, told, buried, known,
                 early, muddled, loose, faults>>

\* remove_source
RemoveSource(s) ==
  /\ target[s] # NoId
  /\ target' = [target EXCEPT ![s] = NoId]
  /\ raced' = raced \ {s}
  /\ UNCHANGED <<google, memory, lockq, pc, aim, got, shown, told, buried, known,
                 early, muddled, loose, faults>>

-----------------------------------------------------------------------------
(***************************************************************************)
(* Clients that hang up, crashes, and requests that outlive their task.    *)
(***************************************************************************)
InFlight == {t \in Tasks : pc[t] \notin {"new", "answered", "dropped"}}

\* What is left at Google when the tasks ts go: requests under way, and
\* calendars made that nobody will remember.
LeaveBehind(ts) ==
  /\ \E reqs \in SUBSET {t \in ts : pc[t] = IF t \in Creators THEN "make" ELSE "delete"} :
       late' = late \union reqs
  /\ pc' = [t \in Tasks |-> IF t \in ts THEN "dropped" ELSE pc[t]]
  /\ UNCHANGED <<made, exists, lagging, listed, target, aim, got, shown, known,
                 early, muddled, raced>>

Unremembered(ts) ==
  {aim[c] : c \in {t \in ts \intersect Creators : pc[t] \in {"share", "remember"}}}

LeavesLock(t) ==
  IF t \in Creators
  THEN LET n == NameOf[t] IN
       \E i \in DOMAIN lockq[n] :
         /\ lockq[n][i] = t
         /\ lockq' = [lockq EXCEPT ![n] = RemoveAt(@, i)]
  ELSE UNCHANGED lockq

Cancel(t) ==
  /\ t \in InFlight
  /\ Fault("cancel")
  /\ LeavesLock(t)
  /\ LeaveBehind({t})
  /\ loose' = loose \union Unremembered({t})
  /\ UNCHANGED <<memory, told, buried>>

\* The process dies and starts again: the memory dies with it, the profiles
\* are read back from their files.
Crash ==
  /\ Fault("crash")
  /\ LeaveBehind(InFlight)
  /\ lockq' = [n \in Names |-> <<>>]
  /\ created' = [n \in Names |-> NoId] /\ deleted' = {}
  /\ told' = {} /\ buried' = {}
  /\ loose' = loose \union Unremembered(InFlight) \union Remembered

\* Google runs a request nobody waits for any more.
LateArrival(t) ==
  /\ t \in late
  /\ late' = late \ {t}
  /\ \/ /\ t \in Creators /\ Makes(NameOf[t])
        /\ loose' = loose \union {Len(made')}
     \/ /\ t \in Deleters
        /\ exists' = exists \ {aim[t]}
        /\ UNCHANGED <<made, lagging, loose>>
  /\ UNCHANGED <<listed, memory, target, lockq, pc, aim, got, shown, told, buried,
                 known, early, muddled, raced, faults>>

-----------------------------------------------------------------------------
Init ==
  /\ made = <<>> /\ exists = {} /\ lagging = {} /\ listed = {} /\ late = {}
  /\ created = [n \in Names |-> NoId] /\ deleted = {}
  /\ target = [s \in Sources |-> NoId]
  /\ lockq = [n \in Names |-> <<>>]
  /\ pc = [t \in Tasks |-> "new"]
  /\ aim = [t \in Tasks |-> NoId]
  /\ got = [t \in Tasks |-> {}]
  /\ shown = {} /\ told = {} /\ buried = {}
  /\ known = [t \in Tasks |-> [told |-> {}, buried |-> {}]]
  /\ early = {} /\ muddled = {} /\ loose = {} /\ raced = {}
  /\ faults = 0

CreatorStep(c) ==
  Create(c) \/ Recall(c) \/ Find(c) \/ Make(c) \/ Share(c) \/ Remember(c)
DeleterStep(d) == Delete(d) \/ DeleteAtGoogle(d) \/ Bury(d) \/ Forget(d)
Render(t) == List(t) \/ Add(t) \/ Drop(t)

Next ==
  \/ \E c \in Creators : CreatorStep(c)
  \/ \E d \in Deleters : DeleterStep(d)
  \/ \E t \in Tasks : Render(t) \/ Cancel(t) \/ LateArrival(t)
  \/ \E s \in Sources : AddSource(s) \/ RemoveSource(s)
  \/ \E i \in Ids : ListCatchesUp(i)
  \/ Crash

Spec == Init /\ [][Next]_vars

-----------------------------------------------------------------------------
(***************************************************************************)
(* Properties.                                                             *)
(***************************************************************************)
Labels ==
  {"new", "queued", "find", "make", "share", "remember", "delete", "bury",
   "forget", "list", "add", "drop", "answered", "dropped"}

\* Every variable keeps its shape, and a name's lock is held or waited for by
\* the requests under way and by nobody else, however they ended (Answer,
\* LeavesLock).
TypeOK ==
  /\ made \in Seq(Names) /\ Len(made) <= MaxCalendars
  /\ exists \subseteq Ids /\ lagging \subseteq Ids /\ listed \subseteq Ids \ lagging
  /\ late \subseteq Creators \union Deleters
  /\ created \in [Names -> Ids \union {NoId}]
  /\ deleted \subseteq Ids
  /\ target \in [Sources -> Ids \union {NoId}]
  /\ lockq \in [Names -> Seq(Creators)]
  /\ \A c \in Creators :
       c \in InFlight <=> \E i \in DOMAIN lockq[NameOf[c]] : lockq[NameOf[c]][i] = c
  /\ pc \in [Tasks -> Labels]
  /\ aim \in [Tasks -> Ids \union {NoId}]
  /\ got \in [Tasks -> SUBSET Ids]
  /\ shown \subseteq Ids /\ told \subseteq Ids /\ buried \subseteq Ids
  /\ known \in [Tasks -> [told : SUBSET Ids, buried : SUBSET Ids]]
  /\ early \subseteq Ids /\ muddled \subseteq Ids /\ loose \subseteq Ids
  /\ raced \subseteq Sources
  /\ faults \in 0..MaxFaults

\* "A double submit, two tabs, or a retyped name must not produce a second
\* calendar": of the calendars of one name all but one were made by a request
\* that did not live to remember it, or remembered by a process that died
\* (create_calendar, remembered_calendar, with_created_calendars).
TwinsOnlyFromMishaps ==
  \A n \in Names : Cardinality(Named(n) \ loose) <= 1

\* POST /calendars never answers from memory with a calendar whose delete was
\* answered, but for one deleted before the request that made it had ended
\* (forget_created_calendar).
MemoryHoldsNoDeleted ==
  \A n \in Names : created[n] \in buried => created[n] \in early

\* A page asked for after a delete was answered does not show the calendar,
\* whatever Google still lists: but for the tombstones dropped too soon, and
\* calendars deleted before their making ended (without_deleted_calendars).
DeletedStaysHidden ==
  \A t \in Tasks :
    pc[t] = "answered" =>
      got[t] \intersect known[t].buried \subseteq early \union muddled

\* A page asked for after a calendar was made shows it, listed or not, unless
\* somebody asked for its delete or another page, with a newer list, made
\* Almanac forget it meanwhile (with_created_calendars).
MadeIsShown ==
  \A t \in Tasks :
    pc[t] = "answered" =>
      known[t].told \ got[t] \subseteq muddled \union {aim[d] : d \in Deleters}

\* No calendar goes while a source writes to it, unless the source was added
\* when the delete had passed its check already (delete_calendar,
\* create_source).
UsedStays ==
  \A s \in Sources :
    target[s] # NoId /\ target[s] \notin exists => s \in raced

\* FEATURES.md, K24: "A double submit, two tabs, or a retyped name must not
\* produce a second calendar."
NameMadeOnce == \A n \in Names : Cardinality(Named(n)) <= 1
=============================================================================
