--------------------------- MODULE CalendarsProofs --------------------------
(***************************************************************************)
(* UsedStays, MemoryHoldsNoDeleted and TwinsOnlyFromMishaps of module      *)
(* Calendars, for any number of requests, sources, names, calendars and    *)
(* faults.                                                                 *)
(*                                                                         *)
(* None is inductive.  A source that is not raced writes to a calendar     *)
(* no delete is on its way to (UsedSafe), and a request left at Google is  *)
(* one of a task that is gone (LateAreDropped).  A calendar whose delete   *)
(* was answered does not exist, so a request that shares one now shares    *)
(* one nobody has deleted (GoneForGood, BuriedIsGone), and a request about *)
(* to remember one deleted meanwhile is known as such (MakersKnown).       *)
(***************************************************************************)
EXTENDS Calendars, TLAPS, SequenceTheorems, FiniteSetTheorems

Shapes ==
  /\ made \in Seq(Names)
  /\ pc \in [Tasks -> Labels]
  /\ aim = [t \in Tasks |-> aim[t]]
  /\ target = [s \in Sources |-> target[s]]
  /\ created = [n \in Names |-> created[n]]
  /\ exists \subseteq Ids
  /\ buried \subseteq Ids

UsedSafe ==
  \A s \in Sources : target[s] # NoId /\ s \notin raced => ~Doomed(target[s])

GoneForGood ==
  \A d \in Deleters : pc[d] \in {"bury", "forget"} => aim[d] \in Ids \ exists

BuriedIsGone == \A i \in buried : i \notin exists

MakersKnown ==
  \A c \in Creators : pc[c] = "remember" /\ aim[c] \in buried => aim[c] \in early

LateAreDropped == late \subseteq Tasks /\ \A t \in late : pc[t] = "dropped"

IInv ==
  /\ Shapes /\ LateAreDropped
  /\ UsedSafe
  /\ GoneForGood /\ BuriedIsGone /\ MakersKnown /\ MemoryHoldsNoDeleted

-----------------------------------------------------------------------------
\* Ids count from one, so NoId is none.
LEMMA NoIdIsNoId == ASSUME made \in Seq(Names) PROVE Ids = 1..Len(made) /\ NoId \notin Ids
  BY DEF Ids, NoId

\* Making a calendar adds one id, a new one.
LEMMA MakesOne ==
  ASSUME NEW n \in Names, made \in Seq(Names), Makes(n)
  PROVE  /\ made' \in Seq(Names)
         /\ Len(made') = Len(made) + 1
         /\ Len(made') \notin Ids
         /\ Ids' = Ids \union {Len(made')}
         /\ exists' = exists \union {Len(made')}
  BY DEF Makes, Ids

\* Initially there are no calendars, no sources and no requests.
LEMMA InitIInv == ASSUME Init PROVE IInv
<1>1. Shapes
  BY EmptySeq DEF Init, Shapes, Labels
<1>2. LateAreDropped /\ UsedSafe /\ GoneForGood /\ BuriedIsGone /\ MakersKnown
  BY DEF Init, LateAreDropped, UsedSafe, GoneForGood, BuriedIsGone, MakersKnown, Tasks
<1>3. MemoryHoldsNoDeleted
  BY DEF Init, MemoryHoldsNoDeleted
<1> QED BY <1>1, <1>2, <1>3 DEF IInv

-----------------------------------------------------------------------------
\* Labels that no part of the invariant speaks of.
Plain == Labels \ {"delete", "bury", "forget", "remember"}

\* A step that only moves a request to such a label, or forgets something that
\* was made, keeps the invariant.
LEMMA QuietStep ==
  ASSUME IInv,
         UNCHANGED <<made, exists, late, aim, target, buried, early, raced>>,
         \/ UNCHANGED pc
         \/ \E t \in Tasks, l \in Plain : pc[t] # "dropped" /\ Goto(t, l),
         created' = [n \in Names |-> created'[n]],
         \A n \in Names : created'[n] \in {created[n], NoId}
  PROVE  IInv'
<1>1. /\ pc' \in [Tasks -> Labels]
      /\ \A t \in Tasks : pc'[t] = pc[t] \/ (pc[t] # "dropped" /\ pc'[t] \in Plain)
  BY DEF IInv, Shapes, Goto, Plain
<1>2. Shapes' /\ LateAreDropped'
  BY <1>1 DEF IInv, Shapes, Ids, LateAreDropped
<1>3. UsedSafe'
  <2>1. \A i : Doomed(i)' => Doomed(i)
    BY <1>1 DEF Doomed, Plain, Tasks
  <2> QED BY <2>1 DEF IInv, UsedSafe
<1>4. GoneForGood' /\ BuriedIsGone' /\ MakersKnown'
  BY <1>1 DEF IInv, GoneForGood, BuriedIsGone, MakersKnown, Ids, Plain, Tasks
<1>5. MemoryHoldsNoDeleted'
  BY NoIdIsNoId DEF IInv, Shapes, MemoryHoldsNoDeleted
<1> QED BY <1>2, <1>3, <1>4, <1>5 DEF IInv

\* Recall, Find, List, Add and Drop, and a request that joins the lock's queue.
LEMMA QuietSteps ==
  ASSUME IInv, NEW t \in Tasks,
         \/ t \in Creators /\ (Create(t) \/ Recall(t) \/ Find(t))
         \/ Render(t)
  PROVE  IInv'
<1>1. UNCHANGED <<made, exists, late, aim, target, buried, early, raced>>
  BY DEF Create, Recall, Find, Render, List, Add, Drop, google, history
<1>2. pc[t] # "dropped" /\ \E l \in Plain : Goto(t, l)
  BY DEF Create, Recall, Find, Render, List, Rendering, Add, Drop, Answer, Plain, Labels
<1>3. /\ created' = [n \in Names |-> created'[n]]
      /\ \A n \in Names : created'[n] \in {created[n], NoId}
  BY DEF Create, Recall, Find, Render, List, Add, Drop, memory, IInv, Shapes
<1> QED BY <1>1, <1>2, <1>3, QuietStep

\* Google's list is not part of the invariant.
LEMMA ListStep == ASSUME IInv, NEW i, ListCatchesUp(i) PROVE IInv'
  BY QuietStep DEF ListCatchesUp, memory, history, IInv, Shapes

\* A calendar that comes into being dooms nothing.
LEMMA NewCalendar ==
  ASSUME IInv, NEW n \in Names, Makes(n),
         UNCHANGED <<target, created, buried, early, raced>>,
         aim' = [t \in Tasks |-> aim'[t]],
         pc' \in [Tasks -> Labels],
         \A d \in Deleters : aim'[d] = aim[d] /\ pc'[d] = pc[d],
         \A c \in Creators : pc'[c] = "remember" => pc[c] = "remember" /\ aim'[c] = aim[c],
         \A t \in late' : t \in late /\ pc'[t] = pc[t]
  PROVE  IInv'
<1>1. /\ made' \in Seq(Names) /\ Len(made') \notin Ids
      /\ Ids' = Ids \union {Len(made')} /\ exists' = exists \union {Len(made')}
  BY MakesOne DEF IInv, Shapes
<1>2. Shapes' /\ LateAreDropped'
  BY <1>1 DEF IInv, Shapes, LateAreDropped
<1>3. UsedSafe'
  <2>1. \A i : Doomed(i)' => Doomed(i)
    BY <1>1 DEF Doomed
  <2> QED BY <2>1 DEF IInv, UsedSafe
<1>4. GoneForGood' /\ BuriedIsGone' /\ MakersKnown' /\ MemoryHoldsNoDeleted'
  BY <1>1 DEF IInv, Shapes, GoneForGood, BuriedIsGone, MakersKnown, MemoryHoldsNoDeleted
<1> QED BY <1>2, <1>3, <1>4 DEF IInv

-----------------------------------------------------------------------------
\* One creating request.
LEMMA MakeStep == ASSUME IInv, NEW c \in Creators, Make(c) PROVE IInv'
<1>1. /\ c \in Tasks /\ NameOf[c] \in Names /\ c \notin Deleters
  BY TasksAssumption DEF Tasks
<1>2. CASE Makes(NameOf[c])
  <2>1. /\ UNCHANGED <<target, created, buried, early, raced, late>>
        /\ \/ Goto(c, "share") /\ aim' = [aim EXCEPT ![c] = Len(made')]
           \/ (UNCHANGED pc \/ Goto(c, "list")) /\ UNCHANGED aim
    BY <1>2 DEF Make, Makes, memory
  <2>2. /\ aim' = [t \in Tasks |-> aim'[t]]
        /\ pc' \in [Tasks -> Labels]
        /\ \A d \in Deleters : aim'[d] = aim[d] /\ pc'[d] = pc[d]
        /\ \A b \in Creators :
             pc'[b] = "remember" => pc[b] = "remember" /\ aim'[b] = aim[b]
        /\ \A t \in late : pc'[t] = pc[t]
    BY <1>1, <2>1 DEF Make, IInv, Shapes, LateAreDropped, Goto, Labels, Tasks
  <2> QED BY <1>1, <1>2, <2>1, <2>2, NewCalendar
<1>3. CASE ~Makes(NameOf[c])
  <2>1. /\ Goto(c, "list")
        /\ UNCHANGED <<made, exists, late, aim, target, buried, early, raced, created>>
    BY <1>3 DEF Make, Makes, memory
  <2>2. pc[c] # "dropped"
    BY DEF Make
  <2> QED BY <1>1, <2>1, <2>2, QuietStep DEF Plain, Labels, IInv, Shapes
<1> QED BY <1>2, <1>3

\* What a request still shares nobody's delete has been answered for.
LEMMA ShareStep == ASSUME IInv, NEW c \in Creators, Share(c) PROVE IInv'
<1>1. c \in Tasks /\ c \notin Deleters /\ pc[c] = "share"
  BY TasksAssumption DEF Tasks, Share
<1>2. UNCHANGED <<made, exists, late, aim, target, buried, early, raced, created>>
  BY DEF Share, google, memory
<1>3. CASE Goto(c, "list")
  BY <1>1, <1>2, <1>3, QuietStep DEF Plain, Labels, IInv, Shapes
<1>4. CASE ~Goto(c, "list")
  <2>1. aim[c] \in exists /\ Goto(c, "remember")
    BY <1>4 DEF Share
  <2>2. /\ pc' \in [Tasks -> Labels] /\ pc'[c] = "remember"
        /\ \A t \in Tasks \ {c} : pc'[t] = pc[t]
    BY <1>1, <2>1 DEF Goto, IInv, Shapes, Labels
  <2>3. Shapes' /\ LateAreDropped'
    BY <1>1, <1>2, <2>2 DEF IInv, Shapes, Ids, LateAreDropped
  <2>4. UsedSafe'
    BY <1>1, <1>2, <2>2 DEF IInv, UsedSafe, Doomed, Tasks
  <2>5. GoneForGood' /\ BuriedIsGone' /\ MemoryHoldsNoDeleted'
    BY <1>1, <1>2, <2>2
       DEF IInv, GoneForGood, BuriedIsGone, MemoryHoldsNoDeleted, Ids, Tasks
  <2>6. MakersKnown'
    BY <1>2, <2>1, <2>2 DEF IInv, MakersKnown, BuriedIsGone, Tasks
  <2> QED BY <2>3, <2>4, <2>5, <2>6 DEF IInv
<1> QED BY <1>3, <1>4

\* What is remembered now was, if at all, deleted early.
LEMMA RememberStep == ASSUME IInv, NEW c \in Creators, Remember(c) PROVE IInv'
<1>1. c \in Tasks /\ c \notin Deleters /\ NameOf[c] \in Names
  BY TasksAssumption DEF Tasks
<1>2. /\ UNCHANGED <<made, exists, late, aim, target, buried, early, raced>>
      /\ created' = [created EXCEPT ![NameOf[c]] = aim[c]]
      /\ pc[c] = "remember" /\ Goto(c, "answered")
  BY DEF Remember, google, Answer
<1>3. /\ pc' \in [Tasks -> Labels] /\ pc'[c] = "answered"
      /\ \A t \in Tasks \ {c} : pc'[t] = pc[t]
  BY <1>1, <1>2 DEF Goto, IInv, Shapes, Labels
<1>4. Shapes' /\ LateAreDropped'
  BY <1>2, <1>3 DEF IInv, Shapes, Ids, LateAreDropped
<1>5. UsedSafe' /\ GoneForGood' /\ BuriedIsGone' /\ MakersKnown'
  BY <1>1, <1>2, <1>3
     DEF IInv, UsedSafe, Doomed, GoneForGood, BuriedIsGone, MakersKnown, Ids, Tasks
<1>6. MemoryHoldsNoDeleted'
  BY <1>1, <1>2 DEF IInv, Shapes, MemoryHoldsNoDeleted, MakersKnown
<1> QED BY <1>4, <1>5, <1>6 DEF IInv

-----------------------------------------------------------------------------
\* A delete sets out only for a calendar that no source writes to.
LEMMA DeleteStep == ASSUME IInv, NEW d \in Deleters, Delete(d) PROVE IInv'
<1>1. d \in Tasks /\ d \notin Creators
  BY TasksAssumption DEF Tasks
<1>2. PICK i \in shown :
        /\ aim' = [aim EXCEPT ![d] = i]
        /\ Goto(d, IF Using(i) = {} THEN "delete" ELSE "list")
        /\ UNCHANGED <<made, exists, late, target, buried, early, raced, created>>
        /\ pc[d] = "new"
  BY DEF Delete, google, memory, history
<1>3. /\ pc' \in [Tasks -> Labels] /\ pc'[d] \in {"delete", "list"}
      /\ pc'[d] = "delete" => Using(i) = {}
      /\ aim'[d] = i /\ aim' = [t \in Tasks |-> aim'[t]]
      /\ \A t \in Tasks \ {d} : pc'[t] = pc[t] /\ aim'[t] = aim[t]
  BY <1>1, <1>2 DEF Goto, IInv, Shapes, Labels
<1>4. Shapes' /\ LateAreDropped'
  BY <1>2, <1>3 DEF IInv, Shapes, Ids, LateAreDropped
<1>5. UsedSafe'
  <2> SUFFICES ASSUME NEW s \in Sources, target[s] # NoId, s \notin raced
               PROVE  ~Doomed(target[s])'
    BY <1>2 DEF UsedSafe
  <2>1. ~Doomed(target[s])
    BY DEF IInv, UsedSafe
  <2>2. target[s] = i => Using(i) # {}
    BY DEF Using
  <2>3. d \notin late'
    BY <1>2 DEF IInv, LateAreDropped
  <2> QED BY <1>2, <1>3, <2>1, <2>2, <2>3 DEF Doomed, Tasks
<1>6. GoneForGood' /\ BuriedIsGone' /\ MakersKnown' /\ MemoryHoldsNoDeleted'
  BY <1>1, <1>2, <1>3
     DEF IInv, GoneForGood, BuriedIsGone, MakersKnown, MemoryHoldsNoDeleted, Ids, Tasks
<1> QED BY <1>4, <1>5, <1>6 DEF IInv

\* A source that is not raced is safe from the deletes on their way.
LEMMA NotDoomed ==
  ASSUME IInv, NEW d \in Deleters, pc[d] = "delete" \/ d \in late,
         NEW s \in Sources, target[s] # NoId, s \notin raced
  PROVE  target[s] # aim[d]
  BY DEF IInv, UsedSafe, Doomed

\* Such a delete may do away with its calendar.
LEMMA CalendarGoes ==
  ASSUME IInv, NEW d \in Deleters, pc[d] = "delete" \/ d \in late,
         exists' \in {exists, exists \ {aim[d]}},
         UNCHANGED <<made, aim, target, created, buried, early, raced>>,
         late' \subseteq late,
         pc' \in [Tasks -> Labels],
         \A t \in Tasks \ {d} : pc'[t] = pc[t],
         \/ pc'[d] = pc[d]
         \/ d \notin late /\ pc'[d] = "list"
         \/ d \notin late /\ pc'[d] = "bury" /\ aim[d] \in exists /\ aim[d] \notin exists'
  PROVE  IInv'
<1>1. d \in Tasks /\ d \notin Creators
  BY TasksAssumption DEF Tasks
<1>2. Shapes' /\ LateAreDropped'
  BY DEF IInv, Shapes, LateAreDropped, Ids
<1>3. UsedSafe'
  <2> SUFFICES ASSUME NEW s \in Sources, target[s] # NoId, s \notin raced
               PROVE  ~Doomed(target[s])'
    BY DEF UsedSafe
  <2>1. ~Doomed(target[s]) /\ target[s] # aim[d]
    BY NotDoomed DEF IInv, UsedSafe
  <2> QED BY <1>1, <2>1 DEF Doomed, Tasks
<1>4. GoneForGood' /\ BuriedIsGone' /\ MakersKnown' /\ MemoryHoldsNoDeleted'
  BY <1>1
     DEF IInv, Shapes, GoneForGood, BuriedIsGone, MakersKnown, MemoryHoldsNoDeleted,
         Ids, Tasks
<1> QED BY <1>2, <1>3, <1>4 DEF IInv

\* A delete reaches Google for a calendar no unraced source writes to.
LEMMA DeleteAtGoogleStep ==
  ASSUME IInv, NEW d \in Deleters, DeleteAtGoogle(d) PROVE IInv'
<1>1. /\ d \in Tasks /\ pc[d] = "delete" /\ d \notin late
      /\ exists' \in {exists, exists \ {aim[d]}}
      /\ UNCHANGED <<made, late, aim, target, created, buried, early, raced>>
  BY DEF DeleteAtGoogle, memory, history, Tasks, IInv, LateAreDropped
<1>2. \/ UNCHANGED pc
      \/ Goto(d, "list")
      \/ Goto(d, "bury") /\ aim[d] \in exists /\ aim[d] \notin exists'
  BY DEF DeleteAtGoogle
<1>3. /\ pc' \in [Tasks -> Labels]
      /\ \A t \in Tasks \ {d} : pc'[t] = pc[t]
      /\ \/ pc'[d] = pc[d]
         \/ pc'[d] = "list"
         \/ pc'[d] = "bury" /\ aim[d] \in exists /\ aim[d] \notin exists'
  BY <1>1, <1>2 DEF Goto, Labels, IInv, Shapes
<1> QED BY <1>1, <1>3, CalendarGoes

\* The tombstone changes neither calendars nor their memory by name.
LEMMA BuryStep == ASSUME IInv, NEW d \in Deleters, Bury(d) PROVE IInv'
<1>1. d \in Tasks /\ d \notin Creators
  BY TasksAssumption DEF Tasks
<1>2. /\ UNCHANGED <<made, exists, late, aim, target, created, buried, early, raced>>
      /\ pc[d] = "bury" /\ Goto(d, "forget")
  BY DEF Bury, google, history
<1>3. /\ pc' \in [Tasks -> Labels] /\ pc'[d] = "forget"
      /\ \A t \in Tasks \ {d} : pc'[t] = pc[t]
  BY <1>1, <1>2 DEF Goto, Labels, IInv, Shapes
<1>4. Shapes' /\ LateAreDropped'
  BY <1>2, <1>3 DEF IInv, Shapes, Ids, LateAreDropped
<1>5. UsedSafe'
  BY <1>1, <1>2, <1>3 DEF IInv, UsedSafe, Doomed, Tasks
<1>6. GoneForGood' /\ BuriedIsGone' /\ MakersKnown' /\ MemoryHoldsNoDeleted'
  BY <1>1, <1>2, <1>3
     DEF IInv, GoneForGood, BuriedIsGone, MakersKnown, MemoryHoldsNoDeleted, Ids, Tasks
<1> QED BY <1>4, <1>5, <1>6 DEF IInv

\* What is buried now is forgotten now, or about to be remembered and known.
LEMMA ForgetStep == ASSUME IInv, NEW d \in Deleters, Forget(d) PROVE IInv'
<1>1. d \in Tasks /\ d \notin Creators
  BY TasksAssumption DEF Tasks
<1>2. /\ UNCHANGED <<made, exists, late, aim, target, raced>>
      /\ pc[d] = "forget" /\ Goto(d, "answered")
      /\ buried' = buried \union {aim[d]}
      /\ early \subseteq early' /\ (StillMaking(aim[d]) => aim[d] \in early')
      /\ created' = [n \in Names |-> IF created[n] = aim[d] THEN NoId ELSE created[n]]
  BY DEF Forget, Buried, google
<1>3. /\ pc' \in [Tasks -> Labels] /\ pc'[d] = "answered"
      /\ \A t \in Tasks \ {d} : pc'[t] = pc[t]
  BY <1>1, <1>2 DEF Goto, Labels, IInv, Shapes
<1>4. aim[d] \in Ids \ exists
  BY <1>2 DEF IInv, GoneForGood
<1>5. Shapes' /\ LateAreDropped'
  BY <1>2, <1>3, <1>4 DEF IInv, Shapes, Ids, LateAreDropped
<1>6. UsedSafe'
  BY <1>1, <1>2, <1>3 DEF IInv, UsedSafe, Doomed, Tasks
<1>7. GoneForGood' /\ BuriedIsGone'
  BY <1>2, <1>3, <1>4 DEF IInv, GoneForGood, BuriedIsGone, Ids, Tasks
<1>8. MakersKnown'
  BY <1>1, <1>2, <1>3 DEF IInv, MakersKnown, StillMaking, Tasks
<1>9. MemoryHoldsNoDeleted'
  BY <1>2, <1>4, NoIdIsNoId DEF IInv, Shapes, MemoryHoldsNoDeleted
<1> QED BY <1>5, <1>6, <1>7, <1>8, <1>9 DEF IInv

-----------------------------------------------------------------------------
\* A source added to a calendar that is going is raced; another is safe.
LEMMA SourceStep ==
  ASSUME IInv, NEW s \in Sources, AddSource(s) \/ RemoveSource(s)
  PROVE  IInv'
<1>1. /\ UNCHANGED <<made, exists, late, aim, pc, created, buried, early>>
      /\ \E i : target' = [target EXCEPT ![s] = i]
      /\ \A u \in Sources \ {s} : u \notin raced' => u \notin raced
      /\ \/ target'[s] = NoId
         \/ s \in raced'
         \/ ~Doomed(target'[s])
  BY DEF AddSource, RemoveSource, google, memory, IInv, Shapes
<1>2. Shapes' /\ LateAreDropped'
  BY <1>1 DEF IInv, Shapes, LateAreDropped, Ids
<1>3. UsedSafe'
  <2>1. \A i : Doomed(i)' <=> Doomed(i)
    BY <1>1 DEF Doomed
  <2> QED BY <1>1, <2>1 DEF IInv, UsedSafe, Shapes
<1>4. GoneForGood' /\ BuriedIsGone' /\ MakersKnown' /\ MemoryHoldsNoDeleted'
  BY <1>1 DEF IInv, GoneForGood, BuriedIsGone, MakersKnown, MemoryHoldsNoDeleted, Ids
<1> QED BY <1>2, <1>3, <1>4 DEF IInv

-----------------------------------------------------------------------------
\* Tasks that go leave only requests behind that were under way.
LEMMA LeaveFacts ==
  ASSUME IInv, NEW ts \in SUBSET Tasks, LeaveBehind(ts)
  PROVE  /\ UNCHANGED <<made, exists, target, aim, early, raced>>
         /\ pc' \in [Tasks -> Labels]
         /\ \A t \in Tasks : pc'[t] = pc[t] \/ pc'[t] = "dropped"
         /\ Shapes' <=> created' = [n \in Names |-> created'[n]] /\ buried' \subseteq Ids
         /\ LateAreDropped' /\ UsedSafe' /\ GoneForGood'
<1>1. /\ UNCHANGED <<made, exists, target, aim, early, raced>>
      /\ \A t \in late' :
           t \in late \/ (t \in ts /\ pc[t] = IF t \in Creators THEN "make" ELSE "delete")
      /\ pc' = [t \in Tasks |-> IF t \in ts THEN "dropped" ELSE pc[t]]
  BY DEF LeaveBehind
<1>2. /\ pc' \in [Tasks -> Labels]
      /\ \A t \in Tasks : pc'[t] = pc[t] \/ pc'[t] = "dropped"
  BY <1>1 DEF IInv, Shapes, Labels
<1>3. Shapes' <=> created' = [n \in Names |-> created'[n]] /\ buried' \subseteq Ids
  BY <1>1, <1>2 DEF IInv, Shapes, Ids
<1>4. LateAreDropped'
  BY <1>1 DEF IInv, LateAreDropped
<1>5. UsedSafe'
  <2>1. \A i : Doomed(i)' => Doomed(i)
    BY <1>1, <1>2, TasksAssumption DEF Doomed, Tasks
  <2> QED BY <1>1, <2>1 DEF IInv, UsedSafe
<1>6. GoneForGood'
  BY <1>1, <1>2 DEF IInv, GoneForGood, Ids, Tasks
<1> QED BY <1>1, <1>2, <1>3, <1>4, <1>5, <1>6

\* A client that hangs up leaves at most a request behind.
LEMMA CancelStep == ASSUME IInv, NEW t \in Tasks, Cancel(t) PROVE IInv'
<1>1. LeaveBehind({t}) /\ UNCHANGED <<created, buried>>
  BY DEF Cancel, memory
<1>2. BuriedIsGone' /\ MakersKnown' /\ MemoryHoldsNoDeleted'
  BY <1>1, LeaveFacts DEF IInv, BuriedIsGone, MakersKnown, MemoryHoldsNoDeleted, Tasks
<1> QED BY <1>1, <1>2, LeaveFacts DEF IInv, Shapes

\* A crash takes the memory, and with it whatever it answered for.
LEMMA CrashStep == ASSUME IInv, Crash PROVE IInv'
<1>1. /\ LeaveBehind(InFlight) /\ InFlight \in SUBSET Tasks
      /\ created' = [n \in Names |-> NoId] /\ buried' = {}
  BY DEF Crash, InFlight
<1>2. BuriedIsGone' /\ MakersKnown' /\ MemoryHoldsNoDeleted'
  BY <1>1 DEF BuriedIsGone, MakersKnown, MemoryHoldsNoDeleted
<1> QED BY <1>1, <1>2, LeaveFacts DEF IInv, Shapes

\* A late delete goes for a calendar that was doomed already.
LEMMA LateStep == ASSUME IInv, NEW t \in Tasks, LateArrival(t) PROVE IInv'
<1>1. /\ t \in late /\ late' = late \ {t}
      /\ UNCHANGED <<created, target, pc, aim, buried, early, raced>>
      /\ \/ t \in Creators /\ Makes(NameOf[t])
         \/ t \in Deleters /\ exists' = exists \ {aim[t]} /\ UNCHANGED made
  BY DEF LateArrival, memory
<1>2. CASE t \in Creators /\ Makes(NameOf[t])
  BY <1>1, <1>2, NewCalendar, TasksAssumption DEF IInv, Shapes
<1>3. CASE t \in Deleters /\ exists' = exists \ {aim[t]} /\ UNCHANGED made
  BY <1>1, <1>3, CalendarGoes DEF IInv, Shapes
<1> QED BY <1>1, <1>2, <1>3

-----------------------------------------------------------------------------
\* No step breaks the invariant.
LEMMA NextIInv == ASSUME IInv, [Next]_vars PROVE IInv'
<1>1. CASE UNCHANGED vars
  BY <1>1 DEF vars, google, memory, history, IInv, Shapes, LateAreDropped, UsedSafe,
              Doomed, GoneForGood, BuriedIsGone, MakersKnown, MemoryHoldsNoDeleted, Ids
<1>2. ASSUME NEW c \in Creators, CreatorStep(c) PROVE IInv'
  BY <1>2, QuietSteps, MakeStep, ShareStep, RememberStep DEF CreatorStep, Tasks
<1>3. ASSUME NEW d \in Deleters, DeleterStep(d) PROVE IInv'
  BY <1>3, DeleteStep, DeleteAtGoogleStep, BuryStep, ForgetStep DEF DeleterStep
<1>4. ASSUME NEW t \in Tasks, Render(t) \/ Cancel(t) \/ LateArrival(t) PROVE IInv'
  BY <1>4, QuietSteps, CancelStep, LateStep
<1> QED BY <1>1, <1>2, <1>3, <1>4, SourceStep, ListStep, CrashStep DEF Next

\* The invariant that the theorems below are read off.
THEOREM Invariant == Spec => []IInv
<1>1. Init => IInv
  BY InitIInv
<1>2. IInv /\ [Next]_vars => IInv'
  BY NextIInv
<1> QED BY <1>1, <1>2, PTL DEF Spec

\* No calendar goes while a source writes to it, unless the source was added
\* when the delete had passed its check already (delete_calendar,
\* create_source).
THEOREM UsedStaysAlways == Spec => []UsedStays
<1>1. IInv => UsedStays
  BY DEF IInv, UsedSafe, UsedStays, Doomed
<1> QED BY <1>1, Invariant, PTL

\* The memory of made calendars never holds one whose delete was answered,
\* but for one deleted before the request that made it had ended
\* (remember_created_calendar, forget_created_calendar).
THEOREM MemoryHoldsNoDeletedAlways == Spec => []MemoryHoldsNoDeleted
<1>1. IInv => MemoryHoldsNoDeleted
  BY DEF IInv
<1> QED BY <1>1, Invariant, PTL

-----------------------------------------------------------------------------
(***************************************************************************)
(* Call a calendar that exists and is not loose kept.  A name has at most  *)
(* one (OneKept), because a request about to make one has found that there *)
(* is none (NoneYet).  That follows from what it found in the memory and   *)
(* in Google's list, as every kept calendar is in one of them or in the    *)
(* hands of the request that made it (Accounted), and that request would   *)
(* hold the lock of the name (LockHeld).                                   *)
(***************************************************************************)
Critical == {"find", "make", "share", "remember", "list", "add", "drop"}
Making == {"share", "remember"}

Kept == exists \ loose

Lists ==
  /\ lockq \in [Names -> Seq(Creators)]
  /\ got = [t \in Tasks |-> got[t]]
  /\ loose \subseteq Ids /\ lagging \subseteq Ids /\ listed \subseteq Ids \ lagging
  /\ exists \subseteq lagging \union listed
  /\ \A t \in Tasks : pc[t] = "add" => got[t] \subseteq Ids \ lagging

LockHeld ==
  \A c \in Creators :
    pc[c] \in Critical => lockq[NameOf[c]] # <<>> /\ Head(lockq[NameOf[c]]) = c

MakersOwn ==
  \A c \in Creators :
    /\ pc[c] \in Making => aim[c] \in Ids /\ made[aim[c]] = NameOf[c]
    /\ pc[c] \in {"find", "make"} \union Making => created[NameOf[c]] = NoId

MemoryIsReal ==
  \A n \in Names :
    created[n] # NoId => created[n] \in Ids /\ made[created[n]] = n

HandledBy(i) == {c \in Creators : pc[c] \in Making /\ aim[c] = i}

Accounted ==
  \A i \in Kept : i \notin lagging \/ created[made[i]] = i \/ HandledBy(i) # {}

NoneYet ==
  \A c \in Creators : pc[c] = "make" => \A i \in Kept : made[i] # NameOf[c]

OneKept == \A i, j \in Kept : made[i] = made[j] => i = j

TInv ==
  /\ Lists
  /\ LockHeld /\ MakersOwn /\ MemoryIsReal
  /\ Accounted /\ NoneYet /\ OneKept

-----------------------------------------------------------------------------
\* Two requests for one name are never both past the lock.
LEMMA OneAtATime ==
  ASSUME LockHeld, NEW b \in Creators, NEW c \in Creators,
         pc[b] \in Critical, pc[c] \in Critical, NameOf[b] = NameOf[c]
  PROVE  b = c
  BY DEF LockHeld

\* Initially there are no calendars and no requests.
LEMMA InitTInv == ASSUME Init PROVE TInv
<1>2. Lists
  BY EmptySeq DEF Init, Lists
<1>3. LockHeld /\ MakersOwn /\ MemoryIsReal
  BY DEF Init, LockHeld, MakersOwn, MemoryIsReal, Tasks, Critical, Making
<1>4. Accounted /\ NoneYet /\ OneKept
  BY DEF Init, Accounted, NoneYet, OneKept, Kept
<1> QED BY <1>2, <1>3, <1>4 DEF TInv

-----------------------------------------------------------------------------
\* A request that answers lets go of the lock it holds, and of nobody else's.
LEMMA AnswerLock ==
  ASSUME IInv, TInv, NEW t \in Tasks, Answer(t),
         t \in Creators => HoldsLock(t)
  PROVE  /\ lockq' \in [Names -> Seq(Creators)]
         /\ LockHeld'
         /\ \A u \in Tasks \ {t} : pc'[u] = pc[u]
         /\ pc'[t] = "answered"
<1>1. pc'[t] = "answered" /\ \A u \in Tasks \ {t} : pc'[u] = pc[u]
  BY DEF Answer, Goto, IInv, Shapes
<1>2. lockq \in [Names -> Seq(Creators)]
  BY DEF TInv, Lists
<1>3. CASE t \in Creators
  <2>1. NameOf[t] \in Names /\ lockq[NameOf[t]] # <<>> /\ Head(lockq[NameOf[t]]) = t
    BY <1>3, TasksAssumption DEF HoldsLock
  <2>2. lockq' = [lockq EXCEPT ![NameOf[t]] = Tail(@)]
    BY <1>3 DEF Answer
  <2>3. lockq' \in [Names -> Seq(Creators)]
    BY <1>2, <2>1, <2>2
  <2>4. LockHeld'
    BY <1>1, <1>2, <2>1, <2>2, TasksAssumption DEF TInv, LockHeld, Critical, Tasks
  <2> QED BY <1>1, <2>3, <2>4
<1>4. CASE t \notin Creators
  BY <1>1, <1>2, <1>4 DEF Answer, TInv, LockHeld, Critical, Tasks
<1> QED BY <1>3, <1>4

\* Past the lock means holding it.
LEMMA CriticalHolds ==
  ASSUME TInv, NEW c \in Creators, pc[c] \in Critical PROVE HoldsLock(c)
  BY DEF TInv, LockHeld, HoldsLock

\* Steps that make no calendar, list none and move no creating request.
LEMMA Bystander ==
  ASSUME IInv, TInv,
         UNCHANGED <<made, lagging, listed, loose, lockq, got>>,
         exists' \subseteq exists,
         \A c \in Creators : aim'[c] = aim[c] /\ pc'[c] = pc[c],
         \A t \in Tasks : pc'[t] = "add" => pc[t] = "add",
         \A n \in Names :
           created'[n] = created[n] \/ (created'[n] = NoId /\ created[n] \notin Kept)
  PROVE  TInv'
<1>1. Kept' \subseteq Kept /\ Ids' = Ids
  BY DEF Kept, Ids
<1>2. Lists' /\ LockHeld'
  BY <1>1 DEF TInv, Lists, LockHeld, Tasks
<1>3. MakersOwn' /\ MemoryIsReal'
  BY <1>1, TasksAssumption DEF TInv, MakersOwn, MemoryIsReal
<1>4. Accounted'
  <2>1. \A i \in Kept : made[i] \in Names
    BY DEF Kept, IInv, Shapes, Ids
  <2>2. \A i : HandledBy(i)' = HandledBy(i)
    BY DEF HandledBy
  <2> QED BY <1>1, <2>1, <2>2 DEF TInv, Accounted
<1>5. NoneYet' /\ OneKept'
  BY <1>1 DEF TInv, NoneYet, OneKept
<1> QED BY <1>2, <1>3, <1>4, <1>5 DEF TInv

\* Deletes, late or not, and sources stand by.
LEMMA DeleterStands ==
  ASSUME IInv, TInv, NEW d \in Deleters, DeleterStep(d) PROVE TInv'
<1>1. d \in Tasks /\ d \notin Creators
  BY TasksAssumption DEF Tasks
<1>2. /\ UNCHANGED <<made, lagging, listed, loose, lockq, got>>
      /\ exists' \subseteq exists
      /\ \A c \in Creators : aim'[c] = aim[c]
  BY <1>1 DEF DeleterStep, Delete, DeleteAtGoogle, Bury, Forget, Buried, google, history,
              IInv, Shapes, Tasks
<1>3. /\ \A t \in Tasks \ {d} : pc'[t] = pc[t]
      /\ pc'[d] # "add" \/ pc'[d] = pc[d]
  BY <1>1 DEF DeleterStep, Delete, DeleteAtGoogle, Bury, Forget, Buried, Goto,
              IInv, Shapes
<1>4. \A n \in Names :
        created'[n] = created[n] \/ (created'[n] = NoId /\ created[n] \notin Kept)
  BY DEF DeleterStep, Delete, DeleteAtGoogle, Bury, Forget, Buried, memory,
         IInv, GoneForGood, Kept
<1> QED BY <1>1, <1>2, <1>3, <1>4, Bystander DEF Tasks

\* Adding and removing sources touches no calendar.
LEMMA SourceStands ==
  ASSUME IInv, TInv, NEW s \in Sources, AddSource(s) \/ RemoveSource(s) PROVE TInv'
  BY Bystander DEF AddSource, RemoveSource, google, memory

\* Google's list comes closer to the truth.
LEMMA ListCatchesUpT ==
  ASSUME IInv, TInv, NEW i, ListCatchesUp(i) PROVE TInv'
<1>1. /\ UNCHANGED <<made, exists, loose, lockq, got, pc, aim, created>>
      /\ lagging' \subseteq lagging
      /\ \/ i \in lagging /\ lagging' = lagging \ {i} /\ listed' = listed \union {i}
         \/ i \notin exists /\ listed' = listed \ {i} /\ lagging' = lagging
  BY DEF ListCatchesUp, memory, history
<1>2. Lists'
  BY <1>1 DEF TInv, Lists, Ids
<1>3. LockHeld' /\ MakersOwn' /\ MemoryIsReal'
  BY <1>1 DEF TInv, LockHeld, MakersOwn, MemoryIsReal, Ids
<1>4. Accounted' /\ NoneYet' /\ OneKept'
  BY <1>1 DEF TInv, Accounted, HandledBy, NoneYet, OneKept, Kept
<1> QED BY <1>2, <1>3, <1>4 DEF TInv

-----------------------------------------------------------------------------
\* A calendar that exists and is remembered is remembered under its name.
LEMMA KeptHaveNames ==
  ASSUME IInv, TInv, NEW i \in Kept
  PROVE  i \in Ids /\ i # NoId /\ made[i] \in Names
  BY NoIdIsNoId DEF Kept, IInv, Shapes

\* Joining a queue at its end leaves its head alone.
LEMMA AppendKeepsHead ==
  ASSUME NEW S, NEW q \in Seq(S), NEW x \in S
  PROVE  /\ Append(q, x) \in Seq(S)
         /\ q # <<>> => Append(q, x) # <<>> /\ Head(Append(q, x)) = Head(q)
<1>1. Append(q, x) \in Seq(S) /\ Len(Append(q, x)) = Len(q) + 1
  BY AppendProperties
<1>2. ASSUME q # <<>> PROVE Append(q, x) # <<>> /\ Head(Append(q, x)) = Head(q)
  BY <1>2, AppendProperties, EmptySeq, HeadTailProperties
<1> QED BY <1>1, <1>2

\* A request that joins the queue leaves its head alone.
LEMMA CreateT == ASSUME IInv, TInv, NEW c \in Creators, Create(c) PROVE TInv'
<1>1. c \in Tasks /\ NameOf[c] \in Names
  BY TasksAssumption DEF Tasks
<1>2. /\ UNCHANGED <<made, exists, lagging, listed, loose, got, aim, created>>
      /\ lockq' = [lockq EXCEPT ![NameOf[c]] = Append(@, c)]
      /\ Goto(c, "queued")
  BY DEF Create, google, memory, history
<1>3. pc'[c] = "queued" /\ \A t \in Tasks \ {c} : pc'[t] = pc[t]
  BY <1>1, <1>2 DEF Goto, IInv, Shapes
<1>4. /\ lockq' \in [Names -> Seq(Creators)]
      /\ \A n \in Names : lockq[n] # <<>> =>
           lockq'[n] # <<>> /\ Head(lockq'[n]) = Head(lockq[n])
  <2>1. lockq \in [Names -> Seq(Creators)] /\ lockq[NameOf[c]] \in Seq(Creators)
    BY <1>1 DEF TInv, Lists
  <2>2. /\ Append(lockq[NameOf[c]], c) \in Seq(Creators)
        /\ lockq[NameOf[c]] # <<>> =>
             /\ Append(lockq[NameOf[c]], c) # <<>>
             /\ Head(Append(lockq[NameOf[c]], c)) = Head(lockq[NameOf[c]])
    BY <2>1, AppendKeepsHead
  <2> QED BY <1>1, <1>2, <2>1, <2>2
<1>5. Lists'
  BY <1>1, <1>2, <1>3, <1>4 DEF TInv, Lists, Ids
<1>6. LockHeld'
  BY <1>1, <1>2, <1>3, <1>4, TasksAssumption DEF TInv, LockHeld, Critical, Tasks
<1>7. MakersOwn' /\ MemoryIsReal' /\ NoneYet' /\ OneKept'
  BY <1>2, <1>3
     DEF TInv, MakersOwn, MemoryIsReal, NoneYet, OneKept, Kept, Making, Ids, Tasks
<1>8. Accounted'
  <2>1. pc[c] = "new"
    BY DEF Create
  <2> QED BY <1>2, <1>3, <2>1 DEF TInv, Accounted, HandledBy, Kept, Making, Tasks
<1> QED BY <1>5, <1>6, <1>7, <1>8 DEF TInv

\* Past the lock with nothing remembered under the name.
LEMMA RecallT == ASSUME IInv, TInv, NEW c \in Creators, Recall(c) PROVE TInv'
<1>1. c \in Tasks /\ NameOf[c] \in Names
  BY TasksAssumption DEF Tasks
<1>2. /\ UNCHANGED <<made, exists, lagging, listed, loose, got, aim, created>>
      /\ pc[c] = "queued" /\ HoldsLock(c)
      /\ \/ Answer(c)
         \/ created[NameOf[c]] = NoId /\ Goto(c, "find") /\ UNCHANGED lockq
  BY DEF Recall, google, memory, history
<1>3. /\ \A t \in Tasks \ {c} : pc'[t] = pc[t]
      /\ pc'[c] \in {"answered", "find"}
      /\ pc'[c] = "find" => created[NameOf[c]] = NoId
      /\ lockq' \in [Names -> Seq(Creators)]
      /\ LockHeld'
  <2>1. CASE Answer(c)
    BY <1>1, <1>2, <2>1, AnswerLock
  <2>2. CASE created[NameOf[c]] = NoId /\ Goto(c, "find") /\ UNCHANGED lockq
    BY <1>1, <1>2, <2>2
       DEF Goto, IInv, Shapes, TInv, Lists, LockHeld, HoldsLock, Critical, Tasks
  <2> QED BY <1>2, <2>1, <2>2
<1>4. Lists'
  BY <1>2, <1>3 DEF TInv, Lists, Ids
<1>5. MakersOwn' /\ MemoryIsReal' /\ NoneYet' /\ OneKept'
  BY <1>2, <1>3
     DEF TInv, MakersOwn, MemoryIsReal, NoneYet, OneKept, Kept, Making, Ids, Tasks
<1>6. Accounted'
  BY <1>2, <1>3 DEF TInv, Accounted, HandledBy, Kept, Making, Tasks
<1> QED BY <1>3, <1>4, <1>5, <1>6 DEF TInv

\* Nothing of the name in Google's list and nothing in memory: there is none.
LEMMA NothingFound ==
  ASSUME IInv, TInv, NEW c \in Creators, pc[c] = "find",
         \A i \in listed : made[i] # NameOf[c]
  PROVE  \A i \in Kept : made[i] # NameOf[c]
<1> SUFFICES ASSUME NEW i \in Kept, made[i] = NameOf[c] PROVE FALSE
  OBVIOUS
<1>1. i \in lagging \/ i \in listed
  BY DEF TInv, Lists, Kept
<1>2. created[made[i]] # i
  BY KeptHaveNames DEF TInv, MakersOwn
<1>3. PICK b \in Creators : pc[b] \in Making /\ aim[b] = i
  BY <1>1, <1>2 DEF TInv, Accounted, HandledBy
<1>4. b = c
  BY <1>3, OneAtATime DEF TInv, MakersOwn, Critical, Making
<1> QED BY <1>3, <1>4 DEF Making

\* A request goes on to make a calendar only when there is none of the name.
LEMMA FindT == ASSUME IInv, TInv, NEW c \in Creators, Find(c) PROVE TInv'
<1>1. c \in Tasks /\ NameOf[c] \in Names /\ HoldsLock(c)
  BY TasksAssumption, CriticalHolds DEF Tasks, Find, Critical
<1>2. /\ UNCHANGED <<made, exists, lagging, listed, loose, got, aim, created>>
      /\ pc[c] = "find"
      /\ \/ Answer(c)
         \/ /\ \A i \in listed : made[i] # NameOf[c]
            /\ Goto(c, "make") /\ UNCHANGED lockq
         \/ Goto(c, "list") /\ UNCHANGED lockq
  BY DEF Find, google, memory, history
<1>3. /\ \A t \in Tasks \ {c} : pc'[t] = pc[t]
      /\ pc'[c] \in {"answered", "make", "list"}
      /\ pc'[c] = "make" => \A i \in listed : made[i] # NameOf[c]
      /\ lockq' \in [Names -> Seq(Creators)]
      /\ LockHeld'
  <2>1. CASE Answer(c)
    BY <1>1, <1>2, <2>1, AnswerLock
  <2>2. CASE ~Answer(c)
    BY <1>1, <1>2, <2>2
       DEF Goto, IInv, Shapes, TInv, Lists, LockHeld, Critical, Tasks
  <2> QED BY <2>1, <2>2
<1>4. Lists'
  BY <1>2, <1>3 DEF TInv, Lists, Ids
<1>5. MakersOwn' /\ MemoryIsReal' /\ OneKept'
  BY <1>2, <1>3 DEF TInv, MakersOwn, MemoryIsReal, OneKept, Kept, Making, Ids, Tasks
<1>6. Accounted'
  BY <1>2, <1>3 DEF TInv, Accounted, HandledBy, Kept, Making, Tasks
<1>7. NoneYet'
  BY <1>2, <1>3, NothingFound DEF TInv, NoneYet, Kept, Tasks
<1> QED BY <1>3, <1>4, <1>5, <1>6, <1>7 DEF TInv

-----------------------------------------------------------------------------
\* A new calendar that is loose, or that the only request for its name holds.
LEMMA NewCalendarT ==
  ASSUME IInv, TInv, NEW c \in Creators, Makes(NameOf[c]),
         UNCHANGED <<listed, lockq, got, created>>,
         \A b \in Creators \ {c} : pc'[b] = pc[b] /\ aim'[b] = aim[b],
         \A t \in Tasks : pc'[t] = "add" => pc[t] = "add",
         \/ /\ loose' = loose \union {Len(made')}
            /\ pc'[c] = pc[c] \/ (pc[c] = "make" /\ pc'[c] = "list")
            /\ aim'[c] = aim[c]
         \/ /\ loose' = loose
            /\ pc[c] = "make" /\ pc'[c] = "share" /\ aim'[c] = Len(made')
  PROVE  TInv'
<1> DEFINE new == Len(made')
<1>1. /\ made' = Append(made, NameOf[c]) /\ new \notin Ids
      /\ Ids' = Ids \union {new} /\ exists' = exists \union {new}
      /\ lagging' = lagging \union {new}
  BY MakesOne, TasksAssumption DEF IInv, Shapes, Makes
<1>2. made'[new] = NameOf[c] /\ \A i \in Ids : made'[i] = made[i]
  BY <1>1, AppendProperties, TasksAssumption, NoIdIsNoId DEF IInv, Shapes
<1>3. Lists'
  BY <1>1 DEF TInv, Lists
<1>4. LockHeld'
  BY DEF TInv, LockHeld, Critical
<1>5. MakersOwn' /\ MemoryIsReal'
  <2>1. MakersOwn'
    <3> SUFFICES ASSUME NEW b \in Creators
                 PROVE  /\ pc'[b] \in Making =>
                             aim'[b] \in Ids' /\ made'[aim'[b]] = NameOf[b]
                        /\ pc'[b] \in {"find", "make"} \union Making =>
                             created[NameOf[b]] = NoId
      BY DEF MakersOwn
    <3>1. CASE pc'[b] = pc[b] /\ aim'[b] = aim[b]
      BY <1>1, <1>2, <3>1 DEF TInv, MakersOwn
    <3>2. CASE b = c /\ pc[c] = "make" /\ pc'[c] = "list"
      BY <3>2 DEF Making
    <3>3. CASE b = c /\ pc[c] = "make" /\ pc'[c] = "share" /\ aim'[c] = new
      BY <1>1, <1>2, <3>3 DEF TInv, MakersOwn
    <3> QED BY <3>1, <3>2, <3>3
  <2>2. MemoryIsReal'
    BY <1>1, <1>2 DEF TInv, MemoryIsReal
  <2> QED BY <2>1, <2>2
<1>6. /\ Kept' \subseteq Kept \union {new}
      /\ new \in Kept' => pc[c] = "make" /\ pc'[c] = "share" /\ aim'[c] = new
  BY <1>1 DEF Kept
<1>7. Kept \subseteq Ids
  BY DEF Kept, IInv, Shapes
<1>8. Accounted'
  <2> SUFFICES ASSUME NEW i \in Kept', i \in lagging', created[made'[i]] # i
               PROVE  HandledBy(i)' # {}
    BY DEF Accounted
  <2>1. CASE i = new
    BY <1>6, <2>1 DEF HandledBy, Making
  <2>2. CASE i # new
    <3>1. i \in Kept /\ i \in lagging /\ created[made[i]] # i
      BY <1>1, <1>2, <1>6, <1>7, <2>2
    <3>2. PICK b \in Creators : pc[b] \in Making /\ aim[b] = i
      BY <3>1 DEF TInv, Accounted, HandledBy
    <3>3. pc'[b] \in Making /\ aim'[b] = i
      BY <3>2 DEF Making
    <3> QED BY <3>3 DEF HandledBy
  <2> QED BY <2>1, <2>2
<1>9. NoneYet'
  <2> SUFFICES ASSUME NEW b \in Creators, pc'[b] = "make", NEW i \in Kept'
               PROVE  made'[i] # NameOf[b]
    BY DEF NoneYet
  <2>1. pc[b] = "make"
    OBVIOUS
  <2>2. CASE i = new
    <3>1. pc[c] = "make" /\ b # c
      BY <1>6, <2>2
    <3> QED BY <1>2, <2>1, <2>2, <3>1, OneAtATime DEF TInv, Critical
  <2>3. CASE i # new
    BY <1>2, <1>6, <1>7, <2>1, <2>3 DEF TInv, NoneYet
  <2> QED BY <2>2, <2>3
<1>10. OneKept'
  <2>1. new \in Kept' => \A i \in Kept : made[i] # NameOf[c]
    BY <1>6 DEF TInv, NoneYet
  <2> QED BY <1>2, <1>6, <1>7, <2>1 DEF TInv, OneKept
<1> QED BY <1>3, <1>4, <1>5, <1>8, <1>9, <1>10 DEF TInv

\* A creating request that gives up, leaving what it has made loose.
LEMMA GivesUp ==
  ASSUME IInv, TInv, NEW c \in Creators, Goto(c, "list"), pc[c] \in Critical,
         UNCHANGED <<made, exists, lagging, listed, lockq, got, aim, created>>,
         \/ pc[c] \notin Making /\ loose' = loose
         \/ pc[c] \in Making /\ loose' = loose \union {aim[c]}
  PROVE  TInv'
<1>1. c \in Tasks /\ pc'[c] = "list" /\ \A t \in Tasks \ {c} : pc'[t] = pc[t]
  BY DEF Tasks, Goto, IInv, Shapes
<1>2. Kept' \subseteq Kept /\ Ids' = Ids
  BY DEF Kept, Ids
<1>3. Lists'
  <2>1. loose' \subseteq Ids
    BY DEF TInv, Lists, MakersOwn, Making
  <2> QED BY <1>1, <1>2, <2>1 DEF TInv, Lists
<1>4. LockHeld'
  BY <1>1 DEF TInv, LockHeld, Critical, Tasks
<1>5. MakersOwn' /\ MemoryIsReal' /\ NoneYet' /\ OneKept'
  BY <1>1, <1>2 DEF TInv, MakersOwn, MemoryIsReal, NoneYet, OneKept, Making, Tasks
<1>6. Accounted'
  BY <1>1, <1>2 DEF TInv, Accounted, HandledBy, Making, Kept, Tasks
<1> QED BY <1>3, <1>4, <1>5, <1>6 DEF TInv

\* The insert: the calendar is this request's, or loose.
LEMMA MakeT == ASSUME IInv, TInv, NEW c \in Creators, Make(c) PROVE TInv'
<1>1. c \in Tasks /\ pc[c] = "make" /\ UNCHANGED <<listed, lockq, got, created>>
  BY DEF Tasks, Make, memory
<1>2. CASE Makes(NameOf[c])
  <2>1. \/ /\ loose' = loose
           /\ Goto(c, "share") /\ aim' = [aim EXCEPT ![c] = Len(made')]
        \/ /\ loose' = loose \union {Len(made')}
           /\ UNCHANGED pc \/ Goto(c, "list")
           /\ UNCHANGED aim
    BY <1>2 DEF Make, Makes
  <2>2. /\ \A b \in Creators \ {c} : pc'[b] = pc[b] /\ aim'[b] = aim[b]
        /\ \A t \in Tasks : pc'[t] = "add" => pc[t] = "add"
        /\ \/ /\ loose' = loose \union {Len(made')}
              /\ pc'[c] = pc[c] \/ (pc[c] = "make" /\ pc'[c] = "list")
              /\ aim'[c] = aim[c]
           \/ /\ loose' = loose
              /\ pc[c] = "make" /\ pc'[c] = "share" /\ aim'[c] = Len(made')
    BY <1>1, <2>1 DEF Goto, IInv, Shapes, Tasks
  <2> QED BY <1>1, <1>2, <2>2, NewCalendarT
<1>3. CASE ~Makes(NameOf[c])
  <2>1. Goto(c, "list") /\ UNCHANGED <<made, exists, lagging, aim, loose>>
    BY <1>3 DEF Make, Makes
  <2> QED BY <1>1, <2>1, GivesUp DEF Critical, Making
<1> QED BY <1>2, <1>3

\* Sharing changes nothing here; a request that cannot share gives up.
LEMMA ShareT == ASSUME IInv, TInv, NEW c \in Creators, Share(c) PROVE TInv'
<1>1. /\ c \in Tasks /\ pc[c] = "share"
      /\ UNCHANGED <<made, exists, lagging, listed, lockq, got, aim, created>>
  BY DEF Tasks, Share, google, memory
<1>2. CASE Goto(c, "list") /\ loose' = loose \union {aim[c]}
  BY <1>1, <1>2, GivesUp DEF Critical, Making
<1>3. CASE Goto(c, "remember") /\ UNCHANGED loose
  <2>1. pc'[c] = "remember" /\ \A t \in Tasks \ {c} : pc'[t] = pc[t]
    BY <1>1, <1>3 DEF Goto, IInv, Shapes
  <2>2. Lists' /\ LockHeld'
    BY <1>1, <1>3, <2>1 DEF TInv, Lists, LockHeld, Critical, Ids, Tasks
  <2>3. MakersOwn' /\ MemoryIsReal' /\ NoneYet' /\ OneKept'
    BY <1>1, <1>3, <2>1
       DEF TInv, MakersOwn, MemoryIsReal, NoneYet, OneKept, Kept, Making, Ids, Tasks
  <2>4. Accounted'
    BY <1>1, <1>3, <2>1 DEF TInv, Accounted, HandledBy, Making, Kept, Tasks
  <2> QED BY <2>2, <2>3, <2>4 DEF TInv
<1> QED BY <1>2, <1>3 DEF Share

\* What the request held, the memory holds now.
LEMMA RememberT == ASSUME IInv, TInv, NEW c \in Creators, Remember(c) PROVE TInv'
<1>1. /\ c \in Tasks /\ NameOf[c] \in Names /\ pc[c] = "remember" /\ Answer(c)
      /\ UNCHANGED <<made, exists, lagging, listed, loose, got, aim>>
      /\ created' = [created EXCEPT ![NameOf[c]] = aim[c]]
  BY TasksAssumption DEF Tasks, Remember, google
<1>2. HoldsLock(c)
  BY <1>1, CriticalHolds DEF Critical
<1>3. /\ lockq' \in [Names -> Seq(Creators)] /\ LockHeld'
      /\ pc'[c] = "answered" /\ \A t \in Tasks \ {c} : pc'[t] = pc[t]
  BY <1>1, <1>2, AnswerLock
<1>4. Lists'
  BY <1>1, <1>3 DEF TInv, Lists, Ids
<1>5. created'[NameOf[c]] = aim[c] /\ \A n \in Names \ {NameOf[c]} : created'[n] = created[n]
  BY <1>1 DEF IInv, Shapes
<1>6. aim[c] \in Ids /\ made[aim[c]] = NameOf[c] /\ created[NameOf[c]] = NoId
  BY <1>1 DEF TInv, MakersOwn, Making
<1>7. MakersOwn'
  <2> SUFFICES ASSUME NEW b \in Creators, pc'[b] \in {"find", "make"} \union Making
               PROVE  created'[NameOf[b]] = NoId
    BY <1>1, <1>3 DEF TInv, MakersOwn, Making, Ids, Tasks
  <2>1. b # c /\ pc[b] = pc'[b]
    BY <1>3 DEF Making, Tasks
  <2>2. NameOf[b] # NameOf[c]
    BY <1>1, <2>1, OneAtATime DEF TInv, Critical, Making
  <2>3. NameOf[b] \in Names
    BY TasksAssumption
  <2> QED BY <1>5, <2>1, <2>2, <2>3 DEF TInv, MakersOwn
<1>8. MemoryIsReal'
  BY <1>1, <1>5, <1>6 DEF TInv, MemoryIsReal, Ids
<1>9. NoneYet' /\ OneKept'
  BY <1>1, <1>3 DEF TInv, NoneYet, OneKept, Kept, Tasks
<1>10. Accounted'
  <2> SUFFICES ASSUME NEW i \in Kept, i \in lagging, created'[made[i]] # i
               PROVE  HandledBy(i)' # {}
    BY <1>1 DEF Accounted, Kept
  <2>1. i # aim[c] /\ created[made[i]] # i
    BY <1>5, <1>6, KeptHaveNames
  <2>2. PICK b \in Creators : pc[b] \in Making /\ aim[b] = i
    BY <2>1 DEF TInv, Accounted, HandledBy
  <2>3. pc'[b] \in Making /\ aim'[b] = i
    BY <1>1, <1>3, <2>1, <2>2 DEF Tasks
  <2> QED BY <2>3 DEF HandledBy
<1> QED BY <1>3, <1>4, <1>7, <1>8, <1>9, <1>10 DEF TInv

-----------------------------------------------------------------------------
\* A rendering creating request holds its lock until the page is out.
LEMMA RendersLocked ==
  ASSUME TInv, NEW t \in Tasks, Render(t), t \in Creators
  PROVE  pc[t] \in {"list", "add", "drop"} /\ HoldsLock(t)
<1>1. pc[t] \in {"list", "add", "drop"}
  BY TasksAssumption DEF Render, List, Rendering, Add, Drop
<1> QED BY <1>1, CriticalHolds DEF Critical

\* A page forgets only what it saw in Google's list.
LEMMA RenderT == ASSUME IInv, TInv, NEW t \in Tasks, Render(t) PROVE TInv'
<1>1. UNCHANGED <<made, exists, lagging, listed, loose, aim>>
  BY DEF Render, List, Add, Drop, google, history
<1>2. t \in Creators => pc[t] \in {"list", "add", "drop"} /\ HoldsLock(t)
  BY RendersLocked
<1>3. /\ lockq' \in [Names -> Seq(Creators)] /\ LockHeld'
      /\ pc'[t] \in {"answered", "add", "drop"}
      /\ \A u \in Tasks \ {t} : pc'[u] = pc[u]
  <2>1. CASE Answer(t)
    BY <1>2, <2>1, AnswerLock
  <2>2. CASE ~Answer(t)
    <3>1. UNCHANGED lockq /\ (Goto(t, "add") \/ Goto(t, "drop"))
      BY <2>2 DEF Render, List, Add, Drop
    <3>2. pc'[t] \in {"add", "drop"} /\ \A u \in Tasks \ {t} : pc'[u] = pc[u]
      BY <3>1 DEF Goto, IInv, Shapes
    <3> QED BY <1>2, <3>1, <3>2 DEF TInv, Lists, LockHeld, Critical, Tasks
  <2> QED BY <2>1, <2>2
<1>4. /\ got' = [u \in Tasks |-> got'[u]]
      /\ \A u \in Tasks \ {t} : got'[u] = got[u]
      /\ pc'[t] = "add" => got'[t] = listed
  BY <1>3 DEF Render, List, Add, Drop, Answer, Goto, IInv, Shapes, TInv, Lists
<1>5. \A n \in Names :
        created'[n] = created[n] \/ (created'[n] = NoId /\ created[n] \notin lagging)
  BY DEF Render, List, Add, Drop, memory, TInv, Lists
<1>6. Lists'
  BY <1>1, <1>3, <1>4 DEF TInv, Lists, Ids
<1>7. /\ \A c \in Creators : pc'[c] \in {"find", "make"} \union Making => pc'[c] = pc[c]
      /\ \A c \in Creators : pc[c] \in Making => pc'[c] = pc[c]
  BY <1>2, <1>3 DEF Making, Tasks
<1>8. MakersOwn' /\ MemoryIsReal'
  BY <1>1, <1>5, <1>7, TasksAssumption DEF TInv, MakersOwn, MemoryIsReal, Ids
<1>9. NoneYet' /\ OneKept'
  BY <1>1, <1>7 DEF TInv, NoneYet, OneKept, Kept
<1>10. Accounted'
  BY <1>1, <1>5, <1>7, KeptHaveNames DEF TInv, Accounted, HandledBy, Kept
<1> QED BY <1>3, <1>6, <1>8, <1>9, <1>10 DEF TInv

-----------------------------------------------------------------------------
\* Leaving a queue from behind leaves its head alone.
LEMMA RemoveAtKeepsHead ==
  ASSUME NEW S, NEW q \in Seq(S), NEW i \in DOMAIN q
  PROVE  /\ RemoveAt(q, i) \in Seq(S)
         /\ i # 1 => RemoveAt(q, i) # <<>> /\ Head(RemoveAt(q, i)) = Head(q)
  BY DEF RemoveAt

\* What tasks that go leave behind is loose, and their lock is free.
LEMMA GoneT ==
  ASSUME IInv, TInv, NEW ts \in SUBSET Tasks, LeaveBehind(ts),
         lockq' \in [Names -> Seq(Creators)], LockHeld',
         loose' \subseteq Ids,
         loose \union Unremembered(ts) \subseteq loose',
         \A n \in Names :
           created'[n] = created[n] \/ (created'[n] = NoId /\ created[n] \notin Kept')
  PROVE  TInv'
<1>1. /\ UNCHANGED <<made, exists, lagging, listed, aim, got>>
      /\ \A t \in Tasks : pc'[t] = pc[t] \/ pc'[t] = "dropped"
      /\ \A t \in Tasks \ ts : pc'[t] = pc[t]
  BY DEF LeaveBehind
<1>2. Lists'
  BY <1>1 DEF TInv, Lists, Ids
<1>3. Kept' \subseteq Kept
  BY <1>1 DEF Kept
<1>4. MakersOwn' /\ MemoryIsReal'
  BY <1>1, TasksAssumption DEF TInv, MakersOwn, MemoryIsReal, Making, Ids, Tasks
<1>5. NoneYet' /\ OneKept'
  BY <1>1, <1>3 DEF TInv, NoneYet, OneKept, Tasks
<1>6. Accounted'
  <2> SUFFICES ASSUME NEW i \in Kept', i \in lagging, created'[made[i]] # i
               PROVE  HandledBy(i)' # {}
    BY <1>1 DEF Accounted
  <2>1. i \in Kept /\ created[made[i]] # i
    BY <1>3, KeptHaveNames
  <2>2. PICK b \in Creators : pc[b] \in Making /\ aim[b] = i
    BY <2>1 DEF TInv, Accounted, HandledBy
  <2>3. b \notin ts
    BY <2>2 DEF Unremembered, Making, Kept
  <2>4. pc'[b] \in Making /\ aim'[b] = i
    BY <1>1, <2>2, <2>3 DEF Tasks
  <2> QED BY <2>4 DEF HandledBy
<1> QED BY <1>2, <1>4, <1>5, <1>6 DEF TInv

\* What the requests in flight have made has an id.
LEMMA UnrememberedAreIds ==
  ASSUME TInv, NEW ts PROVE Unremembered(ts) \subseteq Ids
  BY DEF Unremembered, TInv, MakersOwn, Making

\* A client hangs up: its request leaves the queue of the lock.
LEMMA CancelT == ASSUME IInv, TInv, NEW t \in Tasks, Cancel(t) PROVE TInv'
<1>1. /\ t \in Tasks /\ LeavesLock(t) /\ LeaveBehind({t})
      /\ loose' = loose \union Unremembered({t}) /\ created' = created
  BY DEF Cancel, memory
<1>2. pc'[t] = "dropped" /\ \A u \in Tasks \ {t} : pc'[u] = pc[u]
  BY <1>1 DEF LeaveBehind
<1>3. loose' \subseteq Ids
  BY <1>1, UnrememberedAreIds DEF TInv, Lists
<1>4. lockq' \in [Names -> Seq(Creators)] /\ LockHeld'
  <2>1. CASE t \in Creators
    <3> DEFINE n == NameOf[t]
    <3>1. PICK i \in DOMAIN lockq[n] :
            lockq[n][i] = t /\ lockq' = [lockq EXCEPT ![n] = RemoveAt(@, i)]
      BY <1>1, <2>1 DEF LeavesLock
    <3>2. n \in Names /\ lockq \in [Names -> Seq(Creators)] /\ lockq[n] \in Seq(Creators)
      BY <2>1, TasksAssumption DEF TInv, Lists
    <3>3. /\ RemoveAt(lockq[n], i) \in Seq(Creators)
          /\ i # 1 => /\ RemoveAt(lockq[n], i) # <<>>
                      /\ Head(RemoveAt(lockq[n], i)) = Head(lockq[n])
      BY <3>2, RemoveAtKeepsHead
    <3>4. lockq' \in [Names -> Seq(Creators)]
      BY <3>1, <3>2, <3>3
    <3>5. ASSUME NEW b \in Creators, pc'[b] \in Critical
          PROVE  lockq'[NameOf[b]] # <<>> /\ Head(lockq'[NameOf[b]]) = b
      <4>1. b # t /\ pc[b] \in Critical /\ NameOf[b] \in Names
        BY <1>2, <3>5, TasksAssumption DEF Critical, Tasks
      <4>2. lockq[NameOf[b]] # <<>> /\ Head(lockq[NameOf[b]]) = b
        BY <4>1 DEF TInv, LockHeld
      <4>3. CASE NameOf[b] = n
        <5>1. i # 1
          BY <3>1, <3>2, <4>1, <4>2, <4>3
        <5> QED BY <3>1, <3>2, <3>3, <4>2, <4>3, <5>1
      <4>4. CASE NameOf[b] # n
        BY <3>1, <3>2, <4>1, <4>2, <4>4
      <4> QED BY <4>3, <4>4
    <3> QED BY <3>4, <3>5 DEF LockHeld
  <2>2. CASE t \notin Creators
    BY <1>1, <1>2, <2>2 DEF LeavesLock, TInv, Lists, LockHeld, Tasks
  <2> QED BY <2>1, <2>2
<1> QED BY <1>1, <1>3, <1>4, GoneT

\* The process dies: the locks and the memory die with it.
LEMMA CrashT == ASSUME IInv, TInv, Crash PROVE TInv'
<1>1. /\ LeaveBehind(InFlight)
      /\ lockq' = [n \in Names |-> <<>>] /\ created' = [n \in Names |-> NoId]
      /\ loose' = loose \union Unremembered(InFlight) \union Remembered
  BY DEF Crash
<1>2. InFlight \in SUBSET Tasks
  BY DEF InFlight
<1>3. loose' \subseteq Ids
  BY <1>1, UnrememberedAreIds DEF TInv, Lists, Remembered, MemoryIsReal
<1>4. lockq' \in [Names -> Seq(Creators)]
  BY <1>1, EmptySeq
<1>5. LockHeld'
  <2> SUFFICES ASSUME NEW c \in Creators, pc'[c] \in Critical PROVE FALSE
    BY DEF LockHeld
  <2>1. c \in Tasks /\ (c \in InFlight => pc'[c] = "dropped")
                    /\ (c \notin InFlight => pc'[c] = pc[c])
    BY <1>1 DEF LeaveBehind, Tasks
  <2> QED BY <2>1 DEF InFlight, Critical
<1>6. \A n \in Names : created'[n] = NoId /\ (created[n] = NoId \/ created[n] \in loose')
  BY <1>1 DEF Remembered
<1>7. \A n \in Names :
        created'[n] = created[n] \/ (created'[n] = NoId /\ created[n] \notin Kept')
  BY <1>6 DEF Kept
<1> QED BY <1>1, <1>2, <1>3, <1>4, <1>5, <1>7, GoneT

\* What Google does for a request that is gone is nobody's.
LEMMA LateT == ASSUME IInv, TInv, NEW t \in Tasks, LateArrival(t) PROVE TInv'
<1>1. UNCHANGED <<listed, lockq, pc, aim, got, created>>
  BY DEF LateArrival, memory
<1>2. CASE t \in Creators /\ Makes(NameOf[t]) /\ loose' = loose \union {Len(made')}
  BY <1>1, <1>2, NewCalendarT
<1>3. CASE exists' = exists \ {aim[t]} /\ UNCHANGED <<made, lagging, loose>>
  BY <1>1, <1>3, Bystander
<1> QED BY <1>2, <1>3 DEF LateArrival

-----------------------------------------------------------------------------
\* Every step keeps the invariant.
LEMMA NextTInv == ASSUME IInv, TInv, [Next]_vars PROVE TInv'
<1>1. ASSUME NEW c \in Creators, CreatorStep(c) PROVE TInv'
  BY <1>1, CreateT, RecallT, FindT, MakeT, ShareT, RememberT DEF CreatorStep
<1>2. ASSUME NEW d \in Deleters, DeleterStep(d) PROVE TInv'
  BY <1>2, DeleterStands
<1>3. ASSUME NEW t \in Tasks, Render(t) \/ Cancel(t) \/ LateArrival(t) PROVE TInv'
  BY <1>3, RenderT, CancelT, LateT
<1>4. ASSUME NEW s \in Sources, AddSource(s) \/ RemoveSource(s) PROVE TInv'
  BY <1>4, SourceStands
<1>5. ASSUME NEW i \in Ids, ListCatchesUp(i) PROVE TInv'
  BY <1>5, ListCatchesUpT
<1>6. CASE Crash
  BY <1>6, CrashT
<1>7. CASE UNCHANGED vars
  BY <1>7, Bystander DEF vars, google, memory, history
<1> QED BY <1>1, <1>2, <1>3, <1>4, <1>5, <1>6, <1>7 DEF Next

\* In every reachable state a name has at most one kept calendar, and a
\* request about to make one has the lock of a name that has none.
THEOREM TwinsInvariant == Spec => []TInv
<1>1. Init => TInv
  BY InitTInv
<1>2. IInv /\ IInv' /\ TInv /\ [Next]_vars => TInv'
  BY NextTInv
<1>3. Spec => []IInv
  BY Invariant
<1> QED BY <1>1, <1>2, <1>3, PTL DEF Spec

\* Of the calendars of one name all but one were left loose by a request or a
\* process that did not live to remember them.
THEOREM TwinsOnlyFromMishapsAlways == Spec => []TwinsOnlyFromMishaps
<1>1. TInv => TwinsOnlyFromMishaps
  <2> SUFFICES ASSUME TInv, NEW n \in Names
               PROVE  Cardinality(Named(n) \ loose) <= 1
    BY DEF TwinsOnlyFromMishaps
  <2>1. \A i, j \in Named(n) \ loose : i = j
    BY DEF TInv, OneKept, Kept, Named
  <2>2. CASE Named(n) \ loose = {}
    BY <2>2, FS_EmptySet
  <2>3. CASE Named(n) \ loose # {}
    <3>1. PICK i \in Named(n) \ loose : TRUE
      BY <2>3
    <3>2. Named(n) \ loose = {i}
      BY <2>1, <3>1
    <3>3. Cardinality({i}) = 1
      BY FS_Singleton
    <3> QED BY <3>2, <3>3
  <2> QED BY <2>2, <2>3
<1> QED BY <1>1, TwinsInvariant, PTL
=============================================================================
