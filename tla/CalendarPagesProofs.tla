------------------------- MODULE CalendarPagesProofs ------------------------
(***************************************************************************)
(* TypeOK, DeletedStaysHidden and MadeIsShown of module Calendars, for any *)
(* number of requests, pages, names, calendars and faults.                 *)
(*                                                                         *)
(* TypeOK says who waits for the locks.  A request leaves a queue once, so *)
(* it has to be in it only once (QueuesOK).                                *)
(*                                                                         *)
(* What a page hides: a calendar whose delete is answered, or about to be, *)
(* is under a tombstone, or gone from Google's list, or muddled            *)
(* (BuriedHidden).  A page that is being made has read the list after the  *)
(* deletes it knows of (Reads), and what it got of them is early, muddled, *)
(* or still under its tombstone (PageHides): the memory adds nothing else  *)
(* (MemoryHoldsNoDeleted).                                                 *)
(*                                                                         *)
(* What a page shows: a calendar somebody was told of is listed,           *)
(* remembered, muddled or aimed at by a delete (ToldShown), as every       *)
(* calendar that is gone has been aimed at (DeletesAimed).  So a page      *)
(* being made has it already or gets it from the memory (PageShows).       *)
(***************************************************************************)
EXTENDS CalendarsProofs

-----------------------------------------------------------------------------
(***************************************************************************)
(* The queues of the locks.                                                *)
(***************************************************************************)
\* Who waits in a queue; whether anybody waits in it twice.
Waits(c, queue) == \E i \in DOMAIN queue : queue[i] = c
Once(queue) == \A i, j \in DOMAIN queue : queue[i] = queue[j] => i = j

\* A request is under way exactly as long as it waits for, or holds, its lock.
QueuesOK ==
  /\ \A n \in Names : Once(lockq[n])
  /\ \A c \in Creators : c \in InFlight <=> Waits(c, lockq[NameOf[c]])

\* Joining, leaving from the head and leaving from anywhere.
LEMMA JoinOnce ==
  ASSUME NEW S, NEW q \in Seq(S), NEW x \in S, Once(q), ~Waits(x, q)
  PROVE  /\ Once(Append(q, x))
         /\ \A y : Waits(y, Append(q, x)) <=> Waits(y, q) \/ y = x
<1>1. /\ DOMAIN q = 1 .. Len(q) /\ Len(q) \in Nat
      /\ DOMAIN Append(q, x) = 1 .. Len(q) + 1
      /\ \A i \in 1 .. Len(q) : Append(q, x)[i] = q[i]
      /\ Append(q, x)[Len(q) + 1] = x
  BY AppendProperties, LenProperties
<1>2. \A i \in DOMAIN Append(q, x) : i \in DOMAIN q \/ i = Len(q) + 1
  BY <1>1
<1>3. Len(q) + 1 \in DOMAIN Append(q, x) /\ DOMAIN q \subseteq DOMAIN Append(q, x)
  BY <1>1
<1>4. Once(Append(q, x))
  BY <1>1, <1>2 DEF Once, Waits
<1>5. ASSUME NEW y PROVE Waits(y, Append(q, x)) <=> Waits(y, q) \/ y = x
  BY <1>1, <1>2, <1>3 DEF Waits
<1> QED
  BY <1>4, <1>5

\* The queue p is q but for its k-th.
Without(p, q, k) ==
  /\ k \in DOMAIN q
  /\ Len(p) = Len(q) - 1
  /\ \A i \in 1 .. k - 1 : p[i] = q[i]
  /\ \A i \in k .. Len(q) - 1 : p[i] = q[i + 1]

\* Taking the k-th out of a queue takes out nobody else.
LEMMA PartOnce ==
  ASSUME NEW S, NEW q \in Seq(S), NEW p \in Seq(S), NEW k, Once(q), Without(p, q, k)
  PROVE  /\ Once(p)
         /\ \A y : Waits(y, p) <=> Waits(y, q) /\ y # q[k]
<1>1. /\ DOMAIN q = 1 .. Len(q) /\ Len(q) \in Nat /\ k \in 1 .. Len(q)
      /\ DOMAIN p = 1 .. Len(q) - 1
      /\ \A i \in 1 .. k - 1 : p[i] = q[i]
      /\ \A i \in k .. Len(q) - 1 : p[i] = q[i + 1]
  BY LenProperties DEF Without
<1>2. ASSUME NEW i \in DOMAIN p
      PROVE  \E j \in DOMAIN q : /\ p[i] = q[j] /\ j # k
                                 /\ i = IF j < k THEN j ELSE j - 1
  <2>1. CASE i < k
    <3>1. i \in 1 .. k - 1 /\ i \in DOMAIN q
      BY <1>1, <2>1
    <3> QED
      BY <1>1, <2>1, <3>1
  <2>2. CASE ~(i < k)
    <3>1. p[i] = q[i + 1] /\ i + 1 \in DOMAIN q /\ i + 1 # k /\ ~(i + 1 < k)
      BY <1>1, <2>2
    <3>2. i = i + 1 - 1
      BY <1>1
    <3> QED
      BY <3>1, <3>2
  <2> QED
    BY <2>1, <2>2
<1>3. ASSUME NEW j \in DOMAIN q, j # k
      PROVE  \E i \in DOMAIN p : p[i] = q[j]
  <2>1. CASE j < k
    BY <1>1, <2>1
  <2>2. CASE ~(j < k)
    <3>1. j - 1 \in DOMAIN p /\ ~(j - 1 < k) /\ j - 1 + 1 = j
      BY <1>1, <1>3, <2>2
    <3>2. p[j - 1] = q[j]
      BY <1>1, <3>1
    <3> QED
      BY <3>1, <3>2
  <2> QED
    BY <2>1, <2>2
<1>4. Once(p)
  <2> SUFFICES ASSUME NEW i \in DOMAIN p, NEW j \in DOMAIN p, p[i] = p[j]
               PROVE  i = j
    BY DEF Once
  <2>1. PICK a \in DOMAIN q : p[i] = q[a] /\ i = IF a < k THEN a ELSE a - 1
    BY <1>2
  <2>2. PICK b \in DOMAIN q : p[j] = q[b] /\ j = IF b < k THEN b ELSE b - 1
    BY <1>2
  <2>3. a = b
    BY <2>1, <2>2 DEF Once
  <2> QED
    BY <2>1, <2>2, <2>3
<1>5. ASSUME NEW y PROVE Waits(y, p) <=> Waits(y, q) /\ y # q[k]
  <2>1. ASSUME Waits(y, p) PROVE Waits(y, q) /\ y # q[k]
    <3>1. PICK i \in DOMAIN p : p[i] = y
      BY <2>1 DEF Waits
    <3>2. PICK j \in DOMAIN q : p[i] = q[j] /\ j # k
      BY <1>2
    <3> QED
      BY <1>1, <3>1, <3>2 DEF Waits, Once
  <2>2. ASSUME Waits(y, q), y # q[k] PROVE Waits(y, p)
    <3>1. PICK j \in DOMAIN q : q[j] = y
      BY <2>2 DEF Waits
    <3>2. j # k
      BY <2>2, <3>1
    <3>3. PICK i \in DOMAIN p : p[i] = q[j]
      BY <1>3, <3>2
    <3> QED
      BY <3>1, <3>3 DEF Waits
  <2> QED
    BY <2>1, <2>2
<1> QED
  BY <1>4, <1>5

\* RemoveAt takes one out from anywhere.
LEMMA LeaveOnce ==
  ASSUME NEW S, NEW q \in Seq(S), Once(q), NEW k \in DOMAIN q
  PROVE  /\ Once(RemoveAt(q, k))
         /\ \A y : Waits(y, RemoveAt(q, k)) <=> Waits(y, q) /\ y # q[k]
<1>1. DOMAIN q = 1 .. Len(q) /\ Len(q) \in Nat /\ k \in 1 .. Len(q)
  BY LenProperties
<1> DEFINE a == SubSeq(q, 1, k - 1)
           b == SubSeq(q, k + 1, Len(q))
<1>2. /\ a \in Seq(S) /\ Len(a) = k - 1
      /\ \A i \in 1 .. k - 1 : a[i] = q[i]
  BY <1>1, SubSeqProperties
<1>3. /\ b \in Seq(S) /\ Len(b) = Len(q) - k
      /\ \A i \in 1 .. Len(q) - k : b[i] = q[k + i]
  BY <1>1, SubSeqProperties
<1>4. /\ a \o b \in Seq(S) /\ Len(a \o b) = Len(q) - 1
  <2> HIDE DEF a, b
  <2>1. a \o b \in Seq(S) /\ Len(a \o b) = Len(a) + Len(b)
    BY <1>2, <1>3, ConcatProperties
  <2>2. (k - 1) + (Len(q) - k) = Len(q) - 1
    BY <1>1
  <2> QED
    BY <1>2, <1>3, <2>1, <2>2
<1>5. ASSUME NEW i \in 1 .. Len(q) - 1
      PROVE  (a \o b)[i] = IF i <= k - 1 THEN a[i] ELSE b[i - (k - 1)]
  <2> HIDE DEF a, b
  <2>1. i \in 1 .. Len(a) + Len(b)
    BY <1>1, <1>2, <1>3
  <2>2. (a \o b)[i] = IF i <= Len(a) THEN a[i] ELSE b[i - Len(a)]
    BY <1>2, <1>3, <2>1, ConcatProperties
  <2> QED
    BY <1>2, <2>2
<1>6. ASSUME NEW i \in 1 .. k - 1 PROVE (a \o b)[i] = q[i]
  <2> HIDE DEF a, b
  <2>1. i \in 1 .. Len(q) - 1 /\ i <= k - 1
    BY <1>1
  <2> QED
    BY <1>2, <1>5, <2>1
<1>7. ASSUME NEW i \in k .. Len(q) - 1 PROVE (a \o b)[i] = q[i + 1]
  <2> HIDE DEF a, b
  <2>1. /\ i \in 1 .. Len(q) - 1 /\ ~(i <= k - 1)
        /\ i - (k - 1) \in 1 .. Len(q) - k /\ k + (i - (k - 1)) = i + 1
    BY <1>1
  <2> QED
    BY <1>3, <1>5, <2>1
<1> DEFINE r == RemoveAt(q, k)
<1>8. r \in Seq(S) /\ Without(r, q, k)
  <2>1. r = a \o b
    BY DEF RemoveAt
  <2> HIDE DEF a, b, r
  <2> QED
    BY <1>4, <1>6, <1>7, <2>1 DEF Without
<1> HIDE DEF r
<1>9. Once(r) /\ \A y : Waits(y, r) <=> Waits(y, q) /\ y # q[k]
  BY <1>8, PartOnce
<1> QED
  BY <1>9 DEF r

\* Tail takes out the head.
LEMMA ServedOnce ==
  ASSUME NEW S, NEW q \in Seq(S), Once(q), q # <<>>
  PROVE  /\ Once(Tail(q))
         /\ \A y : Waits(y, Tail(q)) <=> Waits(y, q) /\ y # Head(q)
<1>1. DOMAIN q = 1 .. Len(q) /\ Len(q) \in Nat /\ 1 \in DOMAIN q /\ Head(q) = q[1]
  BY LenProperties, EmptySeq
<1>2. /\ Tail(q) \in Seq(S) /\ Len(Tail(q)) = Len(q) - 1
      /\ \A i \in 1 .. Len(q) - 1 : Tail(q)[i] = q[i + 1]
  BY HeadTailProperties
<1> DEFINE r == Tail(q)  k == 1
<1>3. r \in Seq(S) /\ Without(r, q, k)
  BY <1>1, <1>2 DEF Without
<1> HIDE DEF r, k
<1>4. Once(r) /\ \A y : Waits(y, r) <=> Waits(y, q) /\ y # q[k]
  BY <1>3, PartOnce
<1> QED
  BY <1>1, <1>4 DEF r, k

-----------------------------------------------------------------------------
\* Labels of requests that are not under way.
Idle == {"new", "answered", "dropped"}

\* At first nobody waits.
LEMMA InitQueues == ASSUME Init PROVE QueuesOK
<1>1. \A n \in Names : lockq[n] = <<>>
  BY DEF Init
<1>2. \A c \in Creators : c \notin InFlight
  BY DEF Init, InFlight, Tasks
<1>3. \A n \in Names : DOMAIN lockq[n] = {}
  BY <1>1, EmptySeq
<1> QED
  BY <1>2, <1>3, TasksAssumption DEF QueuesOK, Once, Waits

\* Nobody comes and nobody goes.
LEMMA QueuesStay ==
  ASSUME QueuesOK, lockq' = lockq,
         \A c \in Creators : pc'[c] = pc[c] \/ (pc[c] \notin Idle /\ pc'[c] \notin Idle)
  PROVE  QueuesOK'
<1>1. \A c \in Creators : c \in InFlight' <=> c \in InFlight
  BY DEF InFlight, Idle, Tasks
<1> QED
  BY <1>1 DEF QueuesOK

\* The queue of one name changes, and with it whether one request is under way.
LEMMA QueueMoves ==
  ASSUME TInv, QueuesOK, NEW c \in Creators, NEW q \in Seq(Creators),
         lockq' = [lockq EXCEPT ![NameOf[c]] = q],
         \A b \in Creators \ {c} : pc'[b] = pc[b],
         Once(q),
         \A b \in Creators \ {c} : Waits(b, q) <=> Waits(b, lockq[NameOf[c]]),
         c \in InFlight' <=> Waits(c, q)
  PROVE  QueuesOK'
<1>1. /\ NameOf[c] \in Names /\ lockq'[NameOf[c]] = q
      /\ \A n \in Names \ {NameOf[c]} : lockq'[n] = lockq[n]
  BY TasksAssumption DEF TInv, Lists
<1>2. ASSUME NEW n \in Names PROVE Once(lockq'[n])
  <2>1. CASE n = NameOf[c]
    BY <1>1, <2>1
  <2>2. CASE n # NameOf[c]
    BY <1>1, <2>2 DEF QueuesOK
  <2> QED
    BY <2>1, <2>2
<1>3. ASSUME NEW b \in Creators
      PROVE  b \in InFlight' <=> Waits(b, lockq'[NameOf[b]])
  <2>1. NameOf[b] \in Names
    BY TasksAssumption
  <2>2. CASE b = c
    BY <1>1, <2>2
  <2>3. CASE b # c
    <3>1. b \in InFlight' <=> b \in InFlight
      BY <2>3 DEF InFlight, Tasks
    <3>2. b \in InFlight <=> Waits(b, lockq[NameOf[b]])
      BY DEF QueuesOK
    <3>3. CASE NameOf[b] = NameOf[c]
      BY <1>1, <2>3, <3>1, <3>2, <3>3
    <3>4. CASE NameOf[b] # NameOf[c]
      BY <1>1, <2>1, <3>1, <3>2, <3>4
    <3> QED
      BY <3>3, <3>4
  <2> QED
    BY <2>2, <2>3
<1> QED
  BY <1>2, <1>3 DEF QueuesOK

\* A request that is new waits nowhere yet, and joins at the end.
LEMMA QueuesCreate ==
  ASSUME IInv, TInv, QueuesOK, NEW c \in Creators, Create(c) PROVE QueuesOK'
<1> DEFINE old == lockq[NameOf[c]]
           q == Append(old, c)
<1>1. /\ c \in Tasks /\ NameOf[c] \in Names /\ pc[c] = "new"
      /\ lockq' = [lockq EXCEPT ![NameOf[c]] = q]
      /\ Goto(c, "queued")
  BY TasksAssumption DEF Create, Tasks
<1>2. pc'[c] = "queued" /\ \A b \in Creators \ {c} : pc'[b] = pc[b]
  BY <1>1 DEF Goto, IInv, Shapes, Tasks
<1>3. /\ old \in Seq(Creators) /\ Once(old) /\ ~Waits(c, old)
      /\ c \in InFlight'
  BY <1>1, <1>2 DEF TInv, Lists, QueuesOK, InFlight
<1> HIDE DEF old
<1>4. /\ q \in Seq(Creators) /\ Once(q)
      /\ \A y : Waits(y, q) <=> Waits(y, old) \/ y = c
  BY <1>3, JoinOnce, AppendProperties
<1>5. \A b \in Creators \ {c} : Waits(b, q) <=> Waits(b, lockq[NameOf[c]])
  BY <1>4 DEF old
<1> HIDE DEF q
<1> QED
  BY <1>1, <1>2, <1>3, <1>4, <1>5, QueueMoves

\* A request that answers was at the head, and is under way no more.
LEMMA QueuesAnswer ==
  ASSUME IInv, TInv, QueuesOK, NEW t \in Tasks, Answer(t),
         t \in Creators => HoldsLock(t)
  PROVE  QueuesOK'
<1>1. pc'[t] = "answered" /\ \A u \in Tasks \ {t} : pc'[u] = pc[u]
  BY DEF Answer, Goto, IInv, Shapes
<1>2. CASE t \notin Creators
  BY <1>1, <1>2, QueuesStay DEF Answer, Tasks
<1>3. CASE t \in Creators
  <2> DEFINE old == lockq[NameOf[t]]
             q == Tail(old)
  <2>1. /\ lockq' = [lockq EXCEPT ![NameOf[t]] = q]
        /\ old # <<>> /\ Head(old) = t
    BY <1>3 DEF Answer, HoldsLock
  <2>2. /\ old \in Seq(Creators) /\ Once(old) /\ t \notin InFlight'
    BY <1>1, <1>3, TasksAssumption DEF TInv, Lists, QueuesOK, InFlight
  <2> HIDE DEF old
  <2>3. /\ q \in Seq(Creators) /\ Once(q)
        /\ \A y : Waits(y, q) <=> Waits(y, old) /\ y # t
    BY <2>1, <2>2, ServedOnce, HeadTailProperties
  <2>4. \A b \in Creators \ {t} : Waits(b, q) <=> Waits(b, lockq[NameOf[t]])
    BY <2>3 DEF old
  <2>5. ~Waits(t, q) /\ \A b \in Creators \ {t} : pc'[b] = pc[b]
    BY <1>1, <2>3 DEF Tasks
  <2> HIDE DEF q
  <2> QED
    BY <1>3, <2>1, <2>2, <2>3, <2>4, <2>5, QueueMoves
<1> QED
  BY <1>2, <1>3

\* A request whose client hangs up leaves the queue from anywhere.
LEMMA QueuesCancel ==
  ASSUME IInv, TInv, QueuesOK, NEW t \in Tasks, Cancel(t) PROVE QueuesOK'
<1>1. LeavesLock(t) /\ LeaveBehind({t})
  BY DEF Cancel
<1>2. pc'[t] = "dropped" /\ \A u \in Tasks \ {t} : pc'[u] = pc[u]
  BY <1>1 DEF LeaveBehind
<1>3. CASE t \notin Creators
  BY <1>1, <1>2, <1>3, QueuesStay DEF LeavesLock, Tasks
<1>4. CASE t \in Creators
  <2> DEFINE old == lockq[NameOf[t]]
  <2>1. PICK i \in DOMAIN old :
          old[i] = t /\ lockq' = [lockq EXCEPT ![NameOf[t]] = RemoveAt(@, i)]
    BY <1>1, <1>4 DEF LeavesLock
  <2> DEFINE q == RemoveAt(old, i)
  <2>2. lockq' = [lockq EXCEPT ![NameOf[t]] = q]
    BY <2>1
  <2>3. old \in Seq(Creators) /\ Once(old) /\ t \notin InFlight'
    BY <1>2, <1>4, TasksAssumption DEF TInv, Lists, QueuesOK, InFlight
  <2> HIDE DEF old
  <2>4. /\ q \in Seq(Creators) /\ Once(q)
        /\ \A y : Waits(y, q) <=> Waits(y, old) /\ y # t
    BY <2>1, <2>3, LeaveOnce, RemoveAtKeepsHead
  <2>5. \A b \in Creators \ {t} : Waits(b, q) <=> Waits(b, lockq[NameOf[t]])
    BY <2>4 DEF old
  <2>6. ~Waits(t, q) /\ \A b \in Creators \ {t} : pc'[b] = pc[b]
    BY <1>2, <2>4 DEF Tasks
  <2> HIDE DEF q
  <2> QED
    BY <1>4, <2>2, <2>3, <2>4, <2>5, <2>6, QueueMoves
<1> QED
  BY <1>3, <1>4

\* A crash leaves no queue and no request.
LEMMA QueuesCrash == ASSUME Crash PROVE QueuesOK'
<1>1. \A n \in Names : lockq'[n] = <<>>
  BY DEF Crash
<1>2. \A c \in Creators : c \notin InFlight'
  BY DEF Crash, LeaveBehind, InFlight, Tasks
<1>3. \A n \in Names : DOMAIN lockq'[n] = {}
  BY <1>1, EmptySeq
<1> QED
  BY <1>2, <1>3, TasksAssumption DEF QueuesOK, Once, Waits

\* A creating request joins, goes on holding the lock, or answers.
LEMMA QueuesCreator ==
  ASSUME IInv, TInv, QueuesOK, NEW c \in Creators, CreatorStep(c) PROVE QueuesOK'
<1>1. c \in Tasks
  BY DEF Tasks
<1>2. CASE Create(c)
  BY <1>2, QueuesCreate
<1>3. ASSUME Answer(c), HoldsLock(c) PROVE QueuesOK'
  BY <1>1, <1>3, QueuesAnswer
<1>4. ASSUME lockq' = lockq, pc[c] \notin Idle,
             UNCHANGED pc \/ \E l \in Labels \ Idle : Goto(c, l)
      PROVE  QueuesOK'
  <2>1. \A b \in Creators : pc'[b] = pc[b] \/ (pc[b] \notin Idle /\ pc'[b] \notin Idle)
    BY <1>1, <1>4 DEF Goto, IInv, Shapes, Tasks
  <2> QED
    BY <1>4, <2>1, QueuesStay
<1>5. pc[c] \in Critical => HoldsLock(c)
  BY CriticalHolds
<1>6. CASE Recall(c)
  BY <1>3, <1>4, <1>6 DEF Recall, Labels, Idle
<1>7. CASE Find(c)
  BY <1>3, <1>4, <1>5, <1>7 DEF Find, Labels, Idle, Critical
<1>8. CASE Make(c)
  BY <1>4, <1>8 DEF Make, Labels, Idle
<1>9. CASE Share(c)
  BY <1>4, <1>9 DEF Share, Labels, Idle
<1>10. CASE Remember(c)
  BY <1>3, <1>5, <1>10 DEF Remember, Critical
<1> QED
  BY <1>2, <1>6, <1>7, <1>8, <1>9, <1>10 DEF CreatorStep

\* So does the page that a creating request ends with.
LEMMA QueuesRender ==
  ASSUME IInv, TInv, QueuesOK, NEW t \in Tasks, Render(t) PROVE QueuesOK'
<1>1. t \in Creators => pc[t] \in {"list", "add", "drop"} /\ HoldsLock(t)
  BY RendersLocked
<1>2. CASE Answer(t)
  BY <1>1, <1>2, QueuesAnswer
<1>3. CASE ~Answer(t)
  <2>1. lockq' = lockq /\ (Goto(t, "add") \/ Goto(t, "drop"))
    BY <1>3 DEF Render, List, Add, Drop
  <2>2. \A b \in Creators : pc'[b] = pc[b] \/ (pc[b] \notin Idle /\ pc'[b] \notin Idle)
    BY <1>1, <2>1 DEF Goto, IInv, Shapes, Tasks, Idle
  <2> QED
    BY <2>1, <2>2, QueuesStay
<1> QED
  BY <1>2, <1>3

\* Deletes have no lock.
LEMMA QueuesDeleter ==
  ASSUME IInv, QueuesOK, NEW d \in Deleters, DeleterStep(d) PROVE QueuesOK'
<1>1. d \in Tasks /\ d \notin Creators
  BY TasksAssumption DEF Tasks
<1>2. lockq' = lockq /\ (UNCHANGED pc \/ \E l \in Labels : Goto(d, l))
  BY DEF DeleterStep, Delete, DeleteAtGoogle, Bury, Forget, Buried, Labels
<1>3. \A c \in Creators : pc'[c] = pc[c]
  BY <1>1, <1>2 DEF Goto, IInv, Shapes, Tasks
<1> QED
  BY <1>2, <1>3, QueuesStay

\* Every step keeps the queues.
LEMMA NextQueues ==
  ASSUME IInv, TInv, QueuesOK, [Next]_vars PROVE QueuesOK'
<1>1. ASSUME NEW t \in Tasks, LateArrival(t) PROVE QueuesOK'
  BY <1>1, QueuesStay DEF LateArrival
<1>2. ASSUME NEW s \in Sources, AddSource(s) \/ RemoveSource(s) PROVE QueuesOK'
  BY <1>2, QueuesStay DEF AddSource, RemoveSource
<1>3. ASSUME NEW i \in Ids, ListCatchesUp(i) PROVE QueuesOK'
  BY <1>3, QueuesStay DEF ListCatchesUp
<1>4. CASE UNCHANGED vars
  BY <1>4, QueuesStay DEF vars
<1> QED
  BY <1>1, <1>2, <1>3, <1>4, QueuesCreator, QueuesDeleter, QueuesRender,
     QueuesCancel, QueuesCrash DEF Next

-----------------------------------------------------------------------------
(***************************************************************************)
(* The type invariant.                                                     *)
(***************************************************************************)
Numbers == Len(made) <= MaxCalendars /\ faults \in 0 .. MaxFaults

Sets ==
  /\ late \subseteq Creators \union Deleters
  /\ deleted \subseteq Ids
  /\ shown \subseteq Ids /\ told \subseteq Ids
  /\ early \subseteq Ids /\ muddled \subseteq Ids
  /\ raced \subseteq Sources

Maps ==
  /\ target \in [Sources -> Ids \union {NoId}]
  /\ aim \in [Tasks -> Ids \union {NoId}]
  /\ got \in [Tasks -> SUBSET Ids]
  /\ known \in [Tasks -> [told : SUBSET Ids, buried : SUBSET Ids]]

\* What TypeOK says beyond IInv, TInv and QueuesOK.
Rest == Numbers /\ Sets /\ Maps

\* At first there is nothing.
LEMMA InitRest == ASSUME Init PROVE Rest
<1>1. Numbers
  BY EmptySeq, NumbersAssumption DEF Init, Numbers
<1>2. Sets
  BY DEF Init, Sets
<1>3. Maps
  BY DEF Init, Maps
<1> QED
  BY <1>1, <1>2, <1>3 DEF Rest

\* A fault is counted, up to the bound.
LEMMA FaultsCount ==
  ASSUME Rest, UNCHANGED faults \/ \E kind : Fault(kind)
  PROVE  faults' \in 0 .. MaxFaults
  BY NumbersAssumption DEF Rest, Numbers, Fault

\* Ids are never given back, and there are at most MaxCalendars.
LEMMA IdsGrow ==
  ASSUME IInv, UNCHANGED made \/ \E n \in Names : Makes(n)
  PROVE  /\ Ids \subseteq Ids'
         /\ Len(made) <= MaxCalendars => Len(made') <= MaxCalendars
<1>1. CASE UNCHANGED made
  BY <1>1 DEF Ids
<1>2. CASE \E n \in Names : Makes(n)
  <2>1. PICK n \in Names : Makes(n)
    BY <1>2
  <2>2. Len(made') = Len(made) + 1 /\ Len(made) < MaxCalendars /\ Len(made) \in Nat
    BY <2>1, MakesOne, LenProperties DEF Makes, IInv, Shapes
  <2> QED
    BY <2>1, <2>2, MakesOne, NumbersAssumption DEF IInv, Shapes
<1> QED
  BY <1>1, <1>2

\* A step that touches no part of it but the faults.
LEMMA RestQuiet ==
  ASSUME Rest,
         UNCHANGED <<made, late, deleted, shown, told, early, muddled, raced,
                     target, aim, got, known>>,
         UNCHANGED faults \/ \E kind : Fault(kind)
  PROVE  Rest'
<1>1. faults' \in 0 .. MaxFaults
  BY FaultsCount
<1> QED
  BY <1>1 DEF Rest, Numbers, Sets, Maps, Ids

\* What a creating request made, and told of, has an id.
LEMMA RestCreator ==
  ASSUME IInv, TInv, Rest, NEW c \in Creators, CreatorStep(c) PROVE Rest'
<1>1. c \in Tasks /\ NameOf[c] \in Names
  BY TasksAssumption DEF Tasks
<1>2. CASE Create(c) \/ Recall(c) \/ Find(c) \/ Share(c)
  BY <1>2, RestQuiet DEF Create, Recall, Find, Share, google, memory, history
<1>3. CASE Make(c)
  <2>1. /\ UNCHANGED made \/ Makes(NameOf[c])
        /\ UNCHANGED faults \/ \E kind : Fault(kind)
        /\ aim' = aim \/ (Makes(NameOf[c]) /\ aim' = [aim EXCEPT ![c] = Len(made')])
        /\ UNCHANGED <<late, deleted, shown, told, early, muddled, raced,
                       target, got, known>>
    BY <1>3 DEF Make, memory
  <2>2. Ids \subseteq Ids' /\ Numbers'
    BY <1>1, <2>1, IdsGrow, FaultsCount DEF Numbers, Rest
  <2>3. Makes(NameOf[c]) => Len(made') \in Ids'
    BY <1>1, MakesOne DEF IInv, Shapes
  <2>4. Sets'
    BY <2>1, <2>2 DEF Rest, Sets
  <2>5. Maps'
    BY <1>1, <2>1, <2>2, <2>3 DEF Rest, Maps
  <2> QED
    BY <2>2, <2>4, <2>5 DEF Rest
<1>4. CASE Remember(c)
  <2>1. /\ told' = told \union {aim[c]} /\ pc[c] = "remember"
        /\ UNCHANGED <<made, late, deleted, shown, early, muddled, raced,
                       target, aim, got, known, faults>>
    BY <1>4 DEF Remember, google
  <2>2. aim[c] \in Ids
    BY <2>1 DEF TInv, MakersOwn, Making
  <2> QED
    BY <2>1, <2>2 DEF Rest, Numbers, Sets, Maps, Ids
<1> QED
  BY <1>2, <1>3, <1>4 DEF CreatorStep

\* A delete aims at what a page showed, and buries only what there was.
LEMMA RestDeleter ==
  ASSUME IInv, Rest, NEW d \in Deleters, DeleterStep(d) PROVE Rest'
<1>1. d \in Tasks
  BY DEF Tasks
<1>2. CASE Delete(d)
  <2>1. PICK i \in shown : aim' = [aim EXCEPT ![d] = i]
    BY <1>2 DEF Delete
  <2>2. UNCHANGED <<made, late, deleted, shown, told, early, muddled, raced,
                    target, got, known, faults>>
    BY <1>2 DEF Delete, google, memory, history
  <2> QED
    BY <1>1, <2>1, <2>2 DEF Rest, Numbers, Sets, Maps, Ids
<1>3. CASE DeleteAtGoogle(d)
  BY <1>3, RestQuiet DEF DeleteAtGoogle, memory, history
<1>4. pc[d] \in {"bury", "forget"} => aim[d] \in Ids
  BY DEF IInv, GoneForGood
<1>5. CASE Bury(d)
  <2>1. /\ deleted' = deleted \union {aim[d]} /\ pc[d] = "bury"
        /\ UNCHANGED <<made, late, shown, told, early, muddled, raced,
                       target, aim, got, known, faults>>
    BY <1>5 DEF Bury, google, history
  <2> QED
    BY <1>4, <2>1 DEF Rest, Numbers, Sets, Maps, Ids
<1>6. CASE Forget(d)
  <2>1. /\ early' \in {early, early \union {aim[d]}} /\ pc[d] = "forget"
        /\ UNCHANGED <<made, late, deleted, shown, told, muddled, raced,
                       target, aim, got, known, faults>>
    BY <1>6 DEF Forget, Buried, google
  <2> QED
    BY <1>4, <2>1 DEF Rest, Numbers, Sets, Maps, Ids
<1> QED
  BY <1>2, <1>3, <1>5, <1>6 DEF DeleterStep

\* What a page shows came from the list or from the memory.
LEMMA RestRender ==
  ASSUME IInv, TInv, Rest, NEW t \in Tasks, Render(t) PROVE Rest'
<1>1. Remembered \subseteq Ids
  BY DEF Remembered, TInv, MemoryIsReal
<1>2. /\ UNCHANGED <<made, late, told, early, raced, target, aim>>
      /\ UNCHANGED faults \/ \E kind : Fault(kind)
  BY DEF Render, List, Add, Drop, google, memory
<1>3. Numbers'
  BY <1>2, FaultsCount DEF Rest, Numbers
<1>4. listed \subseteq Ids /\ buried \subseteq Ids /\ got[t] \subseteq Ids
  BY DEF TInv, Lists, IInv, Shapes, Rest, Maps
<1>5. Sets'
  <2>1. /\ deleted' \subseteq deleted
        /\ shown' \subseteq shown \union got[t]
        /\ muddled' \subseteq muddled \union Remembered \union deleted
    BY DEF Render, List, Add, Drop, memory
  <2> QED
    BY <1>1, <1>2, <1>4, <2>1 DEF Rest, Sets, Ids
<1>6. Maps'
  <2>1. /\ got' = got \/ \E s \in SUBSET Ids : got' = [got EXCEPT ![t] = s]
        /\ \/ known' = known
           \/ known' = [known EXCEPT ![t] = [told |-> told, buried |-> buried]]
    <3>1. CASE List(t)
      BY <1>4, <3>1 DEF List
    <3>2. CASE Add(t)
      <4>1. got' = [got EXCEPT ![t] = got[t] \union Remembered] /\ known' = known
        BY <3>2 DEF Add
      <4> QED
        BY <1>1, <1>4, <4>1
    <3>3. CASE Drop(t)
      <4>1. got' = [got EXCEPT ![t] = got[t] \ deleted] /\ known' = known
        BY <3>3 DEF Drop
      <4> QED
        BY <1>4, <4>1
    <3> QED
      BY <3>1, <3>2, <3>3 DEF Render
  <2>2. told \subseteq Ids /\ buried \subseteq Ids
    BY <1>4 DEF Rest, Sets
  <2>3. Ids' = Ids /\ target' = target /\ aim' = aim
    BY <1>2 DEF Ids
  <2>4. got' \in [Tasks -> SUBSET Ids]
    BY <2>1 DEF Rest, Maps
  <2>5. known' \in [Tasks -> [told : SUBSET Ids, buried : SUBSET Ids]]
    BY <2>1, <2>2 DEF Rest, Maps
  <2> QED
    BY <2>3, <2>4, <2>5 DEF Rest, Maps
<1> QED
  BY <1>3, <1>5, <1>6 DEF Rest

\* A source takes a calendar that a page showed.
LEMMA RestSource ==
  ASSUME Rest, NEW s \in Sources, AddSource(s) \/ RemoveSource(s) PROVE Rest'
<1>1. UNCHANGED <<made, late, deleted, shown, told, early, muddled, aim, got,
                  known, faults>>
  BY DEF AddSource, RemoveSource, google, memory
<1>2. raced' \subseteq raced \union {s}
  BY DEF AddSource, RemoveSource
<1>3. \E i \in shown \union {NoId} : target' = [target EXCEPT ![s] = i]
  BY DEF AddSource, RemoveSource
<1> QED
  BY <1>1, <1>2, <1>3 DEF Rest, Numbers, Sets, Maps, Ids

\* Only deletes delete.
Roles == \A t \in Tasks : pc[t] = "delete" => t \in Deleters

\* At first nobody deletes.
LEMMA InitRoles == ASSUME Init PROVE Roles
  BY DEF Init, Roles

\* Nothing but a delete comes to delete.
LEMMA NextRoles ==
  ASSUME IInv, Roles, [Next]_vars PROVE Roles'
<1>1. ASSUME NEW t \in Tasks, NEW l \in Labels \ {"delete"}, Goto(t, l) PROVE Roles'
  BY <1>1 DEF Roles, Goto, IInv, Shapes
<1>2. ASSUME UNCHANGED pc PROVE Roles'
  BY <1>2 DEF Roles
<1>3. ASSUME NEW c \in Creators, CreatorStep(c) PROVE Roles'
  <2>1. c \in Tasks
    BY DEF Tasks
  <2>2. \/ UNCHANGED pc
        \/ \E l \in Labels \ {"delete"} : Goto(c, l)
    BY <1>3 DEF CreatorStep, Create, Recall, Find, Make, Share, Remember, Answer, Labels
  <2> QED
    BY <1>1, <1>2, <2>1, <2>2
<1>4. ASSUME NEW d \in Deleters, DeleterStep(d) PROVE Roles'
  <2>1. \A t \in Tasks \ {d} : pc'[t] = pc[t]
    BY <1>4 DEF DeleterStep, Delete, DeleteAtGoogle, Bury, Forget, Buried, Goto,
                IInv, Shapes, Tasks
  <2> QED
    BY <2>1 DEF Roles
<1>5. ASSUME NEW t \in Tasks, Render(t) PROVE Roles'
  <2>1. \E l \in Labels \ {"delete"} : Goto(t, l)
    BY <1>5 DEF Render, List, Add, Drop, Answer, Labels
  <2> QED
    BY <1>1, <2>1
<1>6. ASSUME NEW t \in Tasks, Cancel(t) PROVE Roles'
  BY <1>6 DEF Cancel, LeaveBehind, Roles
<1>7. CASE Crash
  BY <1>7 DEF Crash, LeaveBehind, Roles
<1>8. ASSUME NEW t \in Tasks, LateArrival(t) PROVE Roles'
  BY <1>2, <1>8 DEF LateArrival
<1>9. ASSUME NEW s \in Sources, AddSource(s) \/ RemoveSource(s) PROVE Roles'
  BY <1>2, <1>9 DEF AddSource, RemoveSource
<1>10. ASSUME NEW i \in Ids, ListCatchesUp(i) PROVE Roles'
  BY <1>2, <1>10 DEF ListCatchesUp
<1>11. CASE UNCHANGED vars
  BY <1>2, <1>11 DEF vars
<1> QED
  BY <1>3, <1>4, <1>5, <1>6, <1>7, <1>8, <1>9, <1>10, <1>11 DEF Next

\* What is left at Google is left by requests that make or delete.
LEMMA RestLeave ==
  ASSUME IInv, Rest, Roles, NEW ts \in SUBSET Tasks, LeaveBehind(ts),
         \E kind : Fault(kind), deleted' \subseteq deleted, told' \subseteq told
  PROVE  Rest'
<1>1. late' \subseteq Creators \union Deleters
  <2>1. PICK reqs \in SUBSET
               {t \in ts : pc[t] = IF t \in Creators THEN "make" ELSE "delete"} :
          late' = late \union reqs
    BY DEF LeaveBehind
  <2> QED
    BY <2>1 DEF Rest, Sets, Roles
<1>2. UNCHANGED <<made, target, aim, got, shown, known, early, muddled, raced>>
  BY DEF LeaveBehind
<1>3. faults' \in 0 .. MaxFaults
  BY FaultsCount
<1> QED
  BY <1>1, <1>2, <1>3 DEF Rest, Numbers, Sets, Maps, Ids

\* A late request may make a calendar, or do away with one.
LEMMA RestLate ==
  ASSUME IInv, Rest, NEW t \in Tasks, LateArrival(t) PROVE Rest'
<1>1. /\ late' \subseteq late
      /\ UNCHANGED made \/ (NameOf[t] \in Names /\ Makes(NameOf[t]))
      /\ UNCHANGED <<deleted, shown, told, early, muddled, raced, target, aim,
                     got, known, faults>>
  BY TasksAssumption DEF LateArrival, memory
<1>2. Ids \subseteq Ids' /\ Numbers'
  BY <1>1, IdsGrow DEF Rest, Numbers
<1> QED
  BY <1>1, <1>2 DEF Rest, Sets, Maps

\* Every step keeps the rest.
LEMMA NextRest ==
  ASSUME IInv, TInv, Rest, Roles, [Next]_vars PROVE Rest'
<1>1. ASSUME NEW t \in Tasks, Cancel(t) PROVE Rest'
  BY <1>1, RestLeave DEF Cancel, memory
<1>2. CASE Crash
  <2>1. InFlight \in SUBSET Tasks
    BY DEF InFlight
  <2> QED
    BY <1>2, <2>1, RestLeave DEF Crash
<1>3. ASSUME NEW i \in Ids, ListCatchesUp(i) PROVE Rest'
  BY <1>3, RestQuiet DEF ListCatchesUp, memory, history
<1>4. CASE UNCHANGED vars
  BY <1>4, RestQuiet DEF vars, google, memory, history
<1> QED
  BY <1>1, <1>2, <1>3, <1>4, RestCreator, RestDeleter, RestRender, RestSource,
     RestLate DEF Next

\* The parts make up the type invariant.
LEMMA AllTyped == ASSUME IInv, TInv, QueuesOK, Rest PROVE TypeOK
<1>1. created \in [Names -> Ids \union {NoId}]
  BY DEF TInv, MemoryIsReal, IInv, Shapes
<1>2. /\ exists \subseteq Ids /\ lagging \subseteq Ids /\ listed \subseteq Ids \ lagging
      /\ lockq \in [Names -> Seq(Creators)]
      /\ loose \subseteq Ids /\ buried \subseteq Ids
      /\ made \in Seq(Names) /\ pc \in [Tasks -> Labels]
  BY DEF TInv, Lists, IInv, Shapes
<1>3. \A c \in Creators :
        c \in InFlight <=> \E i \in DOMAIN lockq[NameOf[c]] : lockq[NameOf[c]][i] = c
  BY DEF QueuesOK, Waits
<1> QED
  BY <1>1, <1>2, <1>3 DEF TypeOK, Rest, Numbers, Sets, Maps

\* Every variable keeps its shape, and the queues of the locks hold the requests
\* under way and nobody else.
THEOREM CalendarsTyped == Spec => []TypeOK
<1>1. Init => QueuesOK /\ Rest /\ Roles
  BY InitQueues, InitRest, InitRoles
<1>2. QueuesOK /\ Rest /\ Roles /\ IInv /\ TInv /\ [Next]_vars
        => QueuesOK' /\ Rest' /\ Roles'
  BY NextQueues, NextRest, NextRoles
<1>3. QueuesOK /\ Rest /\ IInv /\ TInv => TypeOK
  BY AllTyped
<1>4. Spec => []IInv /\ []TInv
  BY Invariant, TwinsInvariant
<1> QED
  BY <1>1, <1>2, <1>3, <1>4, PTL DEF Spec

-----------------------------------------------------------------------------
(***************************************************************************)
(* What a page hides.                                                      *)
(***************************************************************************)
Reading == {"add", "drop"}
Unknown == [told |-> {}, buried |-> {}]
\* Calendars whose delete is about to be answered.
Leaving == {aim[d] : d \in {e \in Deleters : pc[e] = "forget"}}

\* What a page knows was so when it read the list, and those without one know
\* nothing.
Reads ==
  \A t \in Tasks :
    /\ pc[t] \in Reading => known[t].buried \subseteq buried
    /\ pc[t] \notin Reading \union {"answered", "dropped"} => known[t] = Unknown

\* What is buried is under its tombstone, or was muddled, or is listed no more.
BuriedHidden ==
  \A i \in buried \union Leaving :
    i \in muddled \union deleted \/ i \notin lagging \union listed

\* What a page under way will have to hide is excused, or under a tombstone.
PageHides ==
  \A t \in Tasks : pc[t] \in Reading =>
    got[t] \intersect known[t].buried \subseteq early \union muddled \union deleted

HInv == Reads /\ BuriedHidden /\ PageHides /\ DeletedStaysHidden

\* At first there is nothing to hide.
LEMMA InitHides == ASSUME Init PROVE HInv
<1>1. Reads /\ PageHides /\ DeletedStaysHidden
  BY DEF Init, Reads, PageHides, DeletedStaysHidden, Reading, Unknown
<1>2. BuriedHidden
  BY DEF Init, BuriedHidden
<1> QED
  BY <1>1, <1>2 DEF HInv

\* A task moves, but neither onto a page's way nor off it, unless it is dropped.
OffPage(t) ==
  \/ pc'[t] = pc[t]
  \/ pc'[t] = "dropped"
  \/ /\ pc[t] \notin Reading \union {"answered", "dropped"}
     /\ pc'[t] \notin Reading \union {"new"}

\* A step that moves no page and buries nothing that can still be seen.
LEMMA HidesStay ==
  ASSUME HInv, \A t \in Tasks : OffPage(t),
         UNCHANGED <<got, known>>,
         early \subseteq early', muddled \subseteq muddled',
         deleted \subseteq deleted', buried \subseteq buried',
         \A i \in buried' \union Leaving' :
           \/ i \in deleted'
           \/ /\ i \in buried \union Leaving
              /\ i \in lagging' \union listed' => i \in lagging \union listed
           \/ i \notin lagging' \union listed'
  PROVE  HInv'
<1>1. Reads'
  BY DEF HInv, Reads, OffPage, Reading
<1>2. BuriedHidden'
  BY DEF HInv, BuriedHidden
<1>3. PageHides'
  BY DEF HInv, PageHides, OffPage, Reading
<1>4. DeletedStaysHidden'
  BY DEF HInv, Reads, DeletedStaysHidden, OffPage, Reading, Unknown
<1> QED
  BY <1>1, <1>2, <1>3, <1>4 DEF HInv

\* As long as no delete moves, nothing more is to be hidden.
LEMMA HidesWhileNoDelete ==
  ASSUME HInv, \A t \in Tasks : OffPage(t),
         UNCHANGED <<got, known, early, deleted, buried>>,
         muddled \subseteq muddled',
         \A d \in Deleters : pc'[d] # pc[d] => pc'[d] # "forget",
         \A d \in Deleters : aim'[d] = aim[d],
         \A i \in buried \union Leaving :
           i \in lagging' \union listed' => i \in lagging \union listed
  PROVE  HInv'
<1>1. Leaving' \subseteq Leaving
  BY DEF Leaving
<1> QED
  BY <1>1, HidesStay

\* A creating request deletes nothing; what it makes has a new id.
LEMMA HidesCreator ==
  ASSUME IInv, HInv, NEW c \in Creators, CreatorStep(c) PROVE HInv'
<1>1. c \in Tasks /\ c \notin Deleters /\ NameOf[c] \in Names
  BY TasksAssumption DEF Tasks
<1>2. /\ \A t \in Tasks \ {c} : pc'[t] = pc[t]
      /\ OffPage(c)
  <2>1. /\ pc[c] \notin Reading \union {"answered", "dropped"}
        /\ UNCHANGED pc \/ \E l \in Labels \ (Reading \union {"new"}) : Goto(c, l)
    BY DEF CreatorStep, Create, Recall, Find, Make, Share, Remember, Answer, Labels, Reading
  <2> QED
    BY <1>1, <2>1 DEF Goto, IInv, Shapes, OffPage
<1>3. \A t \in Tasks : OffPage(t)
  BY <1>2 DEF OffPage
<1>4. UNCHANGED <<got, known, early, deleted, buried, muddled, listed>>
  BY DEF CreatorStep, Create, Recall, Find, Make, Share, Remember, google, memory, history
<1>5. \A d \in Deleters : aim'[d] = aim[d] /\ pc'[d] = pc[d]
  <2>1. aim' = aim \/ aim' = [aim EXCEPT ![c] = Len(made')]
    BY DEF CreatorStep, Create, Recall, Find, Make, Share, Remember
  <2> QED
    BY <1>1, <1>2, <2>1 DEF IInv, Shapes, Tasks
<1>6. buried \union Leaving \subseteq Ids
  BY DEF Leaving, IInv, Shapes, GoneForGood
<1>7. \A i \in Ids : i \in lagging' => i \in lagging
  <2>1. lagging' = lagging \/ Makes(NameOf[c])
    BY DEF CreatorStep, Create, Recall, Find, Make, Share, Remember, google
  <2>2. CASE Makes(NameOf[c])
    BY <1>1, <2>2, MakesOne DEF Makes, IInv, Shapes
  <2> QED
    BY <2>1, <2>2
<1> QED
  BY <1>4, <1>5, <1>6, <1>7, <1>3, HidesWhileNoDelete

\* A delete buries before it answers, so what it buries is hidden.
LEMMA HidesDeleter ==
  ASSUME IInv, HInv, NEW d \in Deleters, DeleterStep(d) PROVE HInv'
<1>1. d \in Tasks /\ d \notin Creators
  BY TasksAssumption DEF Tasks
<1>2. /\ \A t \in Tasks \ {d} : pc'[t] = pc[t]
      /\ OffPage(d)
  <2>1. /\ pc[d] \notin Reading \union {"answered", "dropped"}
        /\ UNCHANGED pc \/ \E l \in Labels \ (Reading \union {"new"}) : Goto(d, l)
    BY DEF DeleterStep, Delete, DeleteAtGoogle, Bury, Forget, Buried, Labels, Reading
  <2> QED
    BY <1>1, <2>1 DEF Goto, IInv, Shapes, OffPage
<1>3. \A t \in Tasks : OffPage(t)
  BY <1>2 DEF OffPage
<1>4. UNCHANGED <<got, known, muddled, lagging, listed>>
  BY DEF DeleterStep, Delete, DeleteAtGoogle, Bury, Forget, Buried, google, history
<1>5. CASE Delete(d) \/ DeleteAtGoogle(d)
  <2>1. UNCHANGED <<early, deleted, buried>>
    BY <1>5 DEF Delete, DeleteAtGoogle, memory, history
  <2>2. pc'[d] # "forget" /\ pc[d] # "forget"
    BY <1>1, <1>5 DEF Delete, DeleteAtGoogle, Goto, IInv, Shapes
  <2>3. \A e \in Deleters \ {d} : aim'[e] = aim[e]
    BY <1>1, <1>5 DEF Delete, DeleteAtGoogle, IInv, Shapes, Tasks
  <2>4. Leaving' \subseteq Leaving
    BY <1>2, <2>2, <2>3 DEF Leaving, Tasks
  <2> QED
    BY <1>4, <1>3, <2>1, <2>4, HidesStay
<1>6. CASE Bury(d)
  <2>1. /\ UNCHANGED <<early, buried, aim>>
        /\ deleted' = deleted \union {aim[d]}
    BY <1>6 DEF Bury, history
  <2>2. Leaving' \subseteq Leaving \union {aim[d]}
    BY <1>2, <2>1 DEF Leaving, Tasks
  <2> QED
    BY <1>4, <1>3, <2>1, <2>2, HidesStay
<1>7. CASE Forget(d)
  <2>1. /\ UNCHANGED <<deleted, aim>> /\ pc[d] = "forget"
        /\ pc'[d] = "answered"
        /\ buried' = buried \union {aim[d]} /\ early \subseteq early'
    BY <1>1, <1>7 DEF Forget, Buried, Goto, IInv, Shapes
  <2>2. Leaving' \subseteq Leaving /\ aim[d] \in Leaving
    BY <1>2, <2>1 DEF Leaving, Tasks
  <2> QED
    BY <1>4, <1>3, <2>1, <2>2, HidesStay
<1> QED
  BY <1>5, <1>6, <1>7 DEF DeleterStep

\* A page drops what is buried, and forgets what it did not see.
LEMMA HidesRender ==
  ASSUME IInv, TInv, Rest, HInv, NEW t \in Tasks, Render(t) PROVE HInv'
<1>1. UNCHANGED <<early, buried, lagging, listed, aim>> /\ muddled \subseteq muddled'
  BY DEF Render, List, Add, Drop, google
<1>2. Leaving' \subseteq Leaving /\ \A u \in Tasks \ {t} : pc'[u] = pc[u]
  <2>1. pc[t] # "forget" /\ \E l \in Labels \ {"forget"} : Goto(t, l)
    BY DEF Render, List, Rendering, Add, Drop, Answer, Labels
  <2>2. pc'[t] # "forget" /\ \A u \in Tasks \ {t} : pc'[u] = pc[u]
    BY <2>1 DEF Goto, IInv, Shapes
  <2> QED
    BY <1>1, <2>2 DEF Leaving, Tasks
<1>3. CASE List(t) /\ ~Answer(t)
  <2>1. /\ got' = [got EXCEPT ![t] = listed]
        /\ known' = [known EXCEPT ![t] = [told |-> told, buried |-> buried]]
        /\ Goto(t, "add") /\ UNCHANGED <<deleted, muddled>>
    BY <1>3 DEF List, memory
  <2>2. /\ got'[t] = listed /\ known'[t].buried = buried /\ pc'[t] = "add"
        /\ \A u \in Tasks \ {t} : got'[u] = got[u] /\ known'[u] = known[u]
    BY <2>1 DEF Goto, IInv, Shapes, Rest, Maps
  <2>3. Reads'
    BY <1>1, <1>2, <2>2 DEF HInv, Reads, Reading
  <2>4. BuriedHidden'
    BY <1>1, <1>2, <2>1 DEF HInv, BuriedHidden
  <2>5. PageHides'
    BY <1>1, <1>2, <2>1, <2>2 DEF HInv, PageHides, BuriedHidden, Reading
  <2>6. DeletedStaysHidden'
    BY <1>1, <1>2, <2>2 DEF HInv, DeletedStaysHidden
  <2> QED
    BY <2>3, <2>4, <2>5, <2>6 DEF HInv
<1>4. CASE List(t) /\ Answer(t)
  <2>1. UNCHANGED <<got, known, deleted, muddled>> /\ pc'[t] = "answered"
    BY <1>4 DEF List, Answer, Goto, memory, IInv, Shapes
  <2>2. pc[t] \notin Reading \union {"answered", "dropped"}
    BY <1>4 DEF List, Rendering, Reading
  <2>3. \A u \in Tasks : OffPage(u)
    BY <1>2, <2>1, <2>2 DEF OffPage, Reading
  <2> QED
    BY <1>1, <1>2, <2>1, <2>3, HidesStay
<1>5. CASE Add(t)
  <2>1. /\ got' = [got EXCEPT ![t] = got[t] \union Remembered]
        /\ Goto(t, "drop") /\ UNCHANGED <<deleted, known>> /\ pc[t] = "add"
    BY <1>5 DEF Add
  <2>2. /\ got'[t] = got[t] \union Remembered /\ pc'[t] = "drop"
        /\ \A u \in Tasks \ {t} : got'[u] = got[u]
    BY <2>1 DEF Goto, IInv, Shapes, Rest, Maps
  <2>3. Reads'
    BY <1>1, <1>2, <2>1, <2>2 DEF HInv, Reads, Reading
  <2>4. BuriedHidden'
    BY <1>1, <1>2, <2>1 DEF HInv, BuriedHidden
  <2>5. PageHides'
    <3>1. known[t].buried \subseteq buried
      BY <2>1 DEF HInv, Reads, Reading
    <3>2. Remembered \intersect buried \subseteq early
      BY DEF Remembered, IInv, MemoryHoldsNoDeleted
    <3>3. got[t] \intersect known[t].buried \subseteq early \union muddled \union deleted
      BY <2>1 DEF HInv, PageHides, Reading
    <3>4. got'[t] \intersect known[t].buried \subseteq early \union muddled \union deleted
      BY <2>2, <3>1, <3>2, <3>3
    <3> QED
      BY <1>1, <1>2, <2>1, <2>2, <3>4 DEF HInv, PageHides
  <2>6. DeletedStaysHidden'
    BY <1>1, <1>2, <2>1, <2>2 DEF HInv, DeletedStaysHidden
  <2> QED
    BY <2>3, <2>4, <2>5, <2>6 DEF HInv
<1>6. CASE Drop(t)
  <2>1. /\ got' = [got EXCEPT ![t] = got[t] \ deleted]
        /\ deleted' = deleted \intersect got[t]
        /\ muddled' = muddled \union
             {i \in deleted \ got[t] :
                i \in lagging \union listed \/ \E u \in Others(t) : i \in got[u]}
        /\ Goto(t, "answered") /\ UNCHANGED known /\ pc[t] = "drop"
    BY <1>6 DEF Drop, Answer
  <2>2. /\ got'[t] = got[t] \ deleted /\ pc'[t] = "answered"
        /\ \A u \in Tasks \ {t} : got'[u] = got[u]
    BY <2>1 DEF Goto, IInv, Shapes, Rest, Maps
  <2>3. Reads'
    BY <1>1, <1>2, <2>1, <2>2 DEF HInv, Reads, Reading
  <2>4. BuriedHidden'
    BY <1>1, <1>2, <2>1 DEF HInv, BuriedHidden
  <2>5. PageHides'
    <3> SUFFICES ASSUME NEW u \in Tasks, pc'[u] \in Reading,
                        NEW i \in got'[u] \intersect known'[u].buried
                 PROVE  i \in early' \union muddled' \union deleted'
      BY DEF PageHides
    <3>1. u # t /\ pc[u] \in Reading /\ i \in got[u] /\ i \in known[u].buried
      BY <1>2, <2>1, <2>2 DEF Reading
    <3>2. i \in early \union muddled \union deleted
      BY <3>1 DEF HInv, PageHides
    <3>3. u \in Others(t)
      BY <3>1 DEF Others, Reading
    <3> QED
      BY <1>1, <2>1, <3>1, <3>2, <3>3
  <2>6. DeletedStaysHidden'
    <3>1. got[t] \intersect known[t].buried \subseteq early \union muddled \union deleted
      BY <2>1 DEF HInv, PageHides, Reading
    <3> QED
      BY <1>1, <1>2, <2>1, <2>2, <3>1 DEF HInv, DeletedStaysHidden
  <2> QED
    BY <2>3, <2>4, <2>5, <2>6 DEF HInv
<1> QED
  BY <1>3, <1>4, <1>5, <1>6 DEF Render

\* Nothing else lists anything again.
LEMMA HidesOthers ==
  ASSUME IInv, TInv, HInv,
         \/ \E t \in Tasks : Cancel(t) \/ LateArrival(t)
         \/ \E s \in Sources : AddSource(s) \/ RemoveSource(s)
         \/ \E i \in Ids : ListCatchesUp(i)
         \/ UNCHANGED vars
  PROVE  HInv'
<1>1. ASSUME NEW t \in Tasks, Cancel(t) PROVE HInv'
  <2>1. UNCHANGED <<got, known, early, deleted, buried, muddled, lagging, listed, aim>>
    BY <1>1 DEF Cancel, LeaveBehind, memory
  <2>2. \A u \in Tasks : pc'[u] = IF u = t THEN "dropped" ELSE pc[u]
    BY <1>1 DEF Cancel, LeaveBehind
  <2>3. /\ \A u \in Tasks : OffPage(u)
        /\ \A d \in Deleters : pc'[d] # pc[d] => pc'[d] # "forget"
    BY <2>2 DEF OffPage, Tasks
  <2> QED
    BY <2>1, <2>3, HidesWhileNoDelete
<1>2. ASSUME NEW t \in Tasks, LateArrival(t) PROVE HInv'
  <2>1. /\ UNCHANGED <<got, known, early, deleted, buried, muddled, listed, aim, pc>>
        /\ lagging' = lagging \/ (NameOf[t] \in Names /\ Makes(NameOf[t]))
    BY <1>2, TasksAssumption DEF LateArrival, memory
  <2>2. buried \union Leaving \subseteq Ids
    BY DEF Leaving, IInv, Shapes, GoneForGood
  <2>3. \A i \in Ids : i \in lagging' => i \in lagging
    BY <2>1, MakesOne DEF Makes, IInv, Shapes
  <2>4. \A u \in Tasks : OffPage(u)
    BY <2>1 DEF OffPage
  <2> QED
    BY <2>1, <2>2, <2>3, <2>4, HidesWhileNoDelete
<1>3. ASSUME UNCHANGED <<got, known, early, deleted, buried, muddled, aim, pc>>,
             lagging' \union listed' \subseteq lagging \union listed
      PROVE  HInv'
  <2>1. \A u \in Tasks : OffPage(u)
    BY <1>3 DEF OffPage
  <2> QED
    BY <1>3, <2>1, HidesWhileNoDelete
<1>4. ASSUME NEW s \in Sources, AddSource(s) \/ RemoveSource(s) PROVE HInv'
  BY <1>3, <1>4 DEF AddSource, RemoveSource, google, memory
<1>5. ASSUME NEW i \in Ids, ListCatchesUp(i) PROVE HInv'
  BY <1>3, <1>5 DEF ListCatchesUp, memory, history
<1>6. CASE UNCHANGED vars
  BY <1>3, <1>6 DEF vars, google, memory, history
<1> QED
  BY <1>1, <1>2, <1>4, <1>5, <1>6

\* A crash forgets the tombstones, and takes the pages under way with it.
LEMMA HidesCrash == ASSUME IInv, HInv, Crash PROVE HInv'
<1>1. /\ UNCHANGED <<got, known, early, muddled>> /\ buried' = {}
      /\ \A t \in Tasks : pc'[t] = IF t \in InFlight THEN "dropped" ELSE pc[t]
  BY DEF Crash, LeaveBehind
<1>2. \A t \in Tasks : pc'[t] \in {"new", "answered", "dropped"}
  BY <1>1 DEF InFlight
<1>3. \A t \in Tasks : pc'[t] # "dropped" => pc'[t] = pc[t]
  BY <1>1
<1>4. Reads'
  BY <1>1, <1>2, <1>3 DEF HInv, Reads, Reading
<1>5. BuriedHidden'
  BY <1>1, <1>2 DEF BuriedHidden, Leaving, Tasks
<1>6. PageHides' /\ DeletedStaysHidden'
  BY <1>1, <1>2, <1>3 DEF HInv, PageHides, DeletedStaysHidden, Reading
<1> QED
  BY <1>4, <1>5, <1>6 DEF HInv

\* Every step keeps what is hidden hidden.
LEMMA NextHides ==
  ASSUME IInv, TInv, Rest, HInv, [Next]_vars PROVE HInv'
  BY HidesCreator, HidesDeleter, HidesRender, HidesOthers, HidesCrash DEF Next

\* In every reachable state, what is buried is hidden from the pages under way.
THEOREM HiddenInvariant == Spec => [](Rest /\ HInv)
<1>1. Init => Rest /\ Roles /\ HInv
  BY InitRest, InitRoles, InitHides
<1>2. IInv /\ TInv /\ Rest /\ Roles /\ HInv /\ [Next]_vars => Rest' /\ Roles' /\ HInv'
  BY NextRest, NextRoles, NextHides
<1>3. Spec => []IInv /\ []TInv
  BY Invariant, TwinsInvariant
<1> QED
  BY <1>1, <1>2, <1>3, PTL DEF Spec

\* A page asked for after a delete was answered does not show the calendar, but
\* for tombstones dropped too soon and calendars deleted before they were made.
THEOREM DeletedStaysHiddenAlways == Spec => []DeletedStaysHidden
<1>1. HInv => DeletedStaysHidden
  BY DEF HInv
<1> QED
  BY <1>1, HiddenInvariant, PTL

-----------------------------------------------------------------------------
(***************************************************************************)
(* What a page shows.                                                      *)
(***************************************************************************)
\* Calendars somebody asked to delete.
Aims == {aim[d] : d \in Deleters} \ {NoId}
Excused == muddled \union Aims

\* Whatever is gone, or under a tombstone, was aimed at; so was whatever a page
\* got from a list that has lost it.
DeletesAimed ==
  /\ \A d \in Deleters : pc[d] = "new" => aim[d] = NoId
  /\ Ids \subseteq exists \union Aims
  /\ deleted \subseteq Aims
  /\ \A t \in Tasks : pc[t] = "add" => got[t] \subseteq listed \union Aims

\* A calendar somebody was told of can be found, or is excused.
ToldShown == told \subseteq listed \union Remembered \union Excused

\* A page has what it is to show, or will take it from the memory.
PageShows ==
  \A t \in Tasks :
    /\ pc[t] = "add" => known[t].told \subseteq got[t] \union Remembered \union Excused
    /\ pc[t] \in {"drop", "answered"} => known[t].told \subseteq got[t] \union Excused

SInv == DeletesAimed /\ ToldShown /\ PageShows

\* At first there is nothing to show.
LEMMA InitShows == ASSUME Init PROVE SInv
<1>1. Ids = {}
  BY EmptySeq DEF Init, Ids
<1>2. DeletesAimed
  BY <1>1 DEF Init, DeletesAimed, Tasks
<1>3. ToldShown /\ PageShows
  BY DEF Init, ToldShown, PageShows
<1> QED
  BY <1>2, <1>3 DEF SInv

\* A delete that has an aim keeps it.
LEMMA AimsKept ==
  ASSUME \A d \in Deleters : aim'[d] = aim[d] \/ aim[d] = NoId
  PROVE  Aims \subseteq Aims'
  BY DEF Aims

\* A step that reads no list, and forgets only what is aimed at.
LEMMA ShowsStay ==
  ASSUME SInv, HInv, \A t \in Tasks : OffPage(t),
         UNCHANGED <<got, known>>,
         \A d \in Deleters : aim'[d] = aim[d] \/ (aim[d] = NoId /\ pc'[d] # "new"),
         Aims \subseteq Aims',
         Ids' \subseteq Ids \union exists',
         exists \subseteq exists' \union Aims',
         deleted' \subseteq deleted \union Aims',
         muddled \subseteq muddled',
         listed \subseteq listed' \union Aims',
         Remembered \subseteq Remembered' \union Aims',
         told' \subseteq told \union Remembered'
  PROVE  SInv'
<1>1. DeletesAimed'
  <2>1. ASSUME NEW d \in Deleters, pc'[d] = "new" PROVE aim'[d] = NoId
    BY <2>1 DEF SInv, DeletesAimed, OffPage, Tasks
  <2>2. Ids' \subseteq exists' \union Aims'
    BY DEF SInv, DeletesAimed
  <2>3. deleted' \subseteq Aims'
    BY DEF SInv, DeletesAimed
  <2>4. ASSUME NEW t \in Tasks, pc'[t] = "add" PROVE got'[t] \subseteq listed' \union Aims'
    <3>1. pc[t] = "add"
      BY <2>4 DEF OffPage, Reading
    <3> QED
      BY <3>1 DEF SInv, DeletesAimed
  <2> QED
    BY <2>1, <2>2, <2>3, <2>4 DEF DeletesAimed
<1>2. Excused \subseteq Excused'
  BY DEF Excused
<1>3. Aims' \subseteq Excused'
  BY DEF Excused
<1>4. ToldShown'
  BY <1>2, <1>3 DEF SInv, ToldShown
<1>5. PageShows'
  <2> SUFFICES ASSUME NEW t \in Tasks
               PROVE  /\ pc'[t] = "add" =>
                           known[t].told \subseteq got[t] \union Remembered' \union Excused'
                      /\ pc'[t] \in {"drop", "answered"} =>
                           known[t].told \subseteq got[t] \union Excused'
    BY DEF PageShows
  <2>1. CASE pc'[t] = pc[t]
    BY <1>2, <1>3, <2>1 DEF SInv, PageShows
  <2>2. CASE pc'[t] = "dropped"
    BY <2>2
  <2>3. CASE /\ pc[t] \notin Reading \union {"answered", "dropped"}
             /\ pc'[t] \notin Reading \union {"new"}
    BY <2>3 DEF HInv, Reads, Reading, Unknown
  <2> QED
    BY <2>1, <2>2, <2>3 DEF OffPage
<1> QED
  BY <1>1, <1>4, <1>5 DEF SInv

\* What a creating request tells of it remembers first.
LEMMA ShowsCreator ==
  ASSUME IInv, TInv, Rest, HInv, SInv, NEW c \in Creators, CreatorStep(c) PROVE SInv'
<1>1. c \in Tasks /\ c \notin Deleters /\ NameOf[c] \in Names
  BY TasksAssumption DEF Tasks
<1>2. \A t \in Tasks : OffPage(t)
  <2>1. /\ pc[c] \notin Reading \union {"answered", "dropped"}
        /\ UNCHANGED pc \/ \E l \in Labels \ (Reading \union {"new"}) : Goto(c, l)
    BY DEF CreatorStep, Create, Recall, Find, Make, Share, Remember, Answer, Labels, Reading
  <2> QED
    BY <1>1, <2>1 DEF Goto, IInv, Shapes, OffPage
<1>3. UNCHANGED <<got, known, deleted, muddled, listed>>
  BY DEF CreatorStep, Create, Recall, Find, Make, Share, Remember, google, memory, history
<1>4. \A d \in Deleters : aim'[d] = aim[d]
  <2>1. aim' = aim \/ aim' = [aim EXCEPT ![c] = Len(made')]
    BY DEF CreatorStep, Create, Recall, Find, Make, Share, Remember
  <2> QED
    BY <1>1, <2>1 DEF IInv, Shapes, Tasks
<1>5. Aims' = Aims
  BY <1>4 DEF Aims
<1>6. Ids' \subseteq Ids \union exists' /\ exists \subseteq exists'
  <2>1. UNCHANGED <<made, exists>> \/ Makes(NameOf[c])
    BY DEF CreatorStep, Create, Recall, Find, Make, Share, Remember, google
  <2>2. CASE Makes(NameOf[c])
    BY <1>1, <2>2, MakesOne DEF IInv, Shapes
  <2> QED
    BY <2>1, <2>2 DEF Ids
<1>7. Remembered \subseteq Remembered' /\ told' \subseteq told \union Remembered'
  <2>1. CASE Remember(c)
    <3>1. /\ created' = [created EXCEPT ![NameOf[c]] = aim[c]]
          /\ told' = told \union {aim[c]} /\ pc[c] = "remember"
      BY <2>1 DEF Remember
    <3>2. aim[c] \in Ids /\ created[NameOf[c]] = NoId
      BY <3>1 DEF TInv, MakersOwn, Making
    <3>3. aim[c] # NoId
      BY <3>2, NoIdIsNoId DEF IInv, Shapes
    <3>4. /\ created'[NameOf[c]] = aim[c]
          /\ \A n \in Names \ {NameOf[c]} : created'[n] = created[n]
      BY <1>1, <3>1 DEF IInv, Shapes
    <3> QED
      BY <1>1, <3>1, <3>2, <3>3, <3>4 DEF Remembered
  <2>2. CASE ~Remember(c)
    BY <2>2 DEF CreatorStep, Create, Recall, Find, Make, Share, memory, history, Remembered
  <2> QED
    BY <2>1, <2>2
<1> QED
  BY <1>2, <1>3, <1>4, <1>5, <1>6, <1>7, ShowsStay

\* A delete forgets only what it aims at.
LEMMA ShowsDeleter ==
  ASSUME IInv, TInv, Rest, HInv, SInv, NEW d \in Deleters, DeleterStep(d) PROVE SInv'
<1>1. d \in Tasks /\ d \notin Creators
  BY TasksAssumption DEF Tasks
<1>2. \A t \in Tasks : OffPage(t)
  <2>1. /\ pc[d] \notin Reading \union {"answered", "dropped"}
        /\ UNCHANGED pc \/ \E l \in Labels \ (Reading \union {"new"}) : Goto(d, l)
    BY DEF DeleterStep, Delete, DeleteAtGoogle, Bury, Forget, Buried, Labels, Reading
  <2> QED
    BY <1>1, <2>1 DEF Goto, IInv, Shapes, OffPage
<1>3. UNCHANGED <<got, known, muddled, listed, made, told>>
  BY DEF DeleterStep, Delete, DeleteAtGoogle, Bury, Forget, Buried, google, history
<1>4. \A e \in Deleters : aim'[e] = aim[e] \/ (aim[e] = NoId /\ pc'[e] # "new")
  <2>1. aim' = aim \/ Delete(d)
    BY DEF DeleterStep, DeleteAtGoogle, Bury, Forget, Buried
  <2>2. CASE Delete(d)
    <3>1. /\ pc[d] = "new" /\ pc'[d] # "new"
          /\ \A e \in Tasks \ {d} : aim'[e] = aim[e]
      BY <1>1, <2>2 DEF Delete, Goto, IInv, Shapes
    <3> QED
      BY <3>1 DEF SInv, DeletesAimed, Tasks
  <2> QED
    BY <2>1, <2>2
<1>5. Aims \subseteq Aims'
  BY <1>4, AimsKept
<1>6. Ids' = Ids
  BY <1>3 DEF Ids
<1>7. exists \subseteq exists' \union Aims'
  <2>1. exists' = exists \/ (exists' \in {exists, exists \ {aim[d]}} /\ aim' = aim)
    BY DEF DeleterStep, Delete, DeleteAtGoogle, Bury, Forget, Buried, google
  <2>2. NoId \notin exists
    BY NoIdIsNoId DEF IInv, Shapes
  <2> QED
    BY <2>1, <2>2 DEF Aims
<1>8. deleted' \subseteq deleted \union Aims'
  <2>1. \/ deleted' = deleted
        \/ deleted' = deleted \union {aim[d]} /\ pc[d] = "bury" /\ aim' = aim
    BY DEF DeleterStep, Delete, DeleteAtGoogle, Bury, Forget, Buried, memory
  <2>2. pc[d] = "bury" => aim[d] # NoId
    BY NoIdIsNoId DEF IInv, Shapes, GoneForGood
  <2> QED
    BY <2>1, <2>2 DEF Aims
<1>9. Remembered \subseteq Remembered' \union Aims'
  <2>1. \/ created' = created
        \/ /\ created' = [n \in Names |-> IF created[n] = aim[d] THEN NoId ELSE created[n]]
           /\ aim' = aim
    BY DEF DeleterStep, Delete, DeleteAtGoogle, Bury, Forget, Buried, memory
  <2> QED
    BY <2>1 DEF Remembered, Aims
<1> QED
  BY <1>2, <1>3, <1>4, <1>5, <1>6, <1>7, <1>8, <1>9, ShowsStay

\* A page forgets what it has seen itself.
LEMMA ShowsRender ==
  ASSUME IInv, TInv, Rest, HInv, SInv, NEW t \in Tasks, Render(t) PROVE SInv'
<1>1. UNCHANGED <<told, made, exists, listed, aim>> /\ muddled \subseteq muddled'
  BY DEF Render, List, Add, Drop, google
<1>2. Aims' = Aims /\ Ids' = Ids /\ Excused \subseteq Excused'
  BY <1>1 DEF Aims, Ids, Excused
<1>3. /\ \A u \in Tasks \ {t} : pc'[u] = pc[u]
      /\ pc'[t] \in {"add", "drop", "answered"}
      /\ deleted' \subseteq deleted
  <2>1. \E l \in {"add", "drop", "answered"} : Goto(t, l)
    BY DEF Render, List, Add, Drop, Answer
  <2>2. deleted' \subseteq deleted
    BY DEF Render, List, Add, Drop, memory
  <2> QED
    BY <2>1, <2>2 DEF Goto, IInv, Shapes
<1>4. ASSUME \A u \in Tasks : pc'[u] = "add" => got'[u] \subseteq listed \union Aims
      PROVE  DeletesAimed'
  <2>1. \A d \in Deleters : pc'[d] = "new" => aim'[d] = NoId
    BY <1>1, <1>3 DEF SInv, DeletesAimed, Tasks
  <2> QED
    BY <1>1, <1>2, <1>3, <1>4, <2>1 DEF SInv, DeletesAimed
<1>5. CASE List(t) /\ ~Answer(t)
  <2>1. /\ got' = [got EXCEPT ![t] = listed]
        /\ known' = [known EXCEPT ![t] = [told |-> told, buried |-> buried]]
        /\ Goto(t, "add") /\ UNCHANGED created
    BY <1>5 DEF List, memory
  <2>2. /\ got'[t] = listed /\ known'[t].told = told /\ pc'[t] = "add"
        /\ \A u \in Tasks \ {t} : got'[u] = got[u] /\ known'[u] = known[u]
        /\ Remembered' = Remembered
    BY <2>1 DEF Goto, IInv, Shapes, Rest, Maps, Remembered
  <2>3. DeletesAimed'
    BY <1>3, <1>4, <2>2 DEF SInv, DeletesAimed
  <2>4. ToldShown'
    BY <1>1, <1>2, <2>2 DEF SInv, ToldShown
  <2>5. PageShows'
    BY <1>2, <1>3, <2>2 DEF SInv, PageShows, ToldShown
  <2> QED
    BY <2>3, <2>4, <2>5 DEF SInv
<1>6. CASE List(t) /\ Answer(t)
  <2>1. UNCHANGED <<got, known, created>> /\ pc'[t] = "answered"
    BY <1>6 DEF List, Answer, Goto, memory, IInv, Shapes
  <2>2. pc[t] \notin Reading \union {"answered", "dropped"}
    BY <1>6 DEF List, Rendering, Reading
  <2>3. \A u \in Tasks : OffPage(u)
    BY <1>3, <2>1, <2>2 DEF OffPage, Reading
  <2>4. Remembered' = Remembered
    BY <2>1 DEF Remembered
  <2> QED
    BY <1>1, <1>2, <1>3, <2>1, <2>3, <2>4, ShowsStay DEF SInv, DeletesAimed
<1>7. CASE Add(t)
  <2>1. /\ got' = [got EXCEPT ![t] = got[t] \union Remembered]
        /\ created' = [n \in Names |-> IF created[n] \in got[t] THEN NoId ELSE created[n]]
        /\ muddled' = muddled \union
             {i \in Remembered \intersect got[t] : \E u \in Others(t) : i \notin got[u]}
        /\ Goto(t, "drop") /\ UNCHANGED known /\ pc[t] = "add"
    BY <1>7 DEF Add
  <2>2. /\ got'[t] = got[t] \union Remembered /\ pc'[t] = "drop"
        /\ \A u \in Tasks \ {t} : got'[u] = got[u]
    BY <2>1 DEF Goto, IInv, Shapes, Rest, Maps
  <2>3. Remembered \subseteq Remembered' \union got[t]
    BY <2>1 DEF Remembered
  <2>4. got[t] \subseteq listed \union Aims
    BY <2>1 DEF SInv, DeletesAimed
  <2>5. DeletesAimed'
    BY <1>3, <1>4, <2>2 DEF SInv, DeletesAimed
  <2>6. ToldShown'
    BY <1>1, <1>2, <2>3, <2>4 DEF SInv, ToldShown, Excused
  <2>7. PageShows'
    <3>1. known[t].told \subseteq got'[t] \union Excused'
      BY <1>2, <2>1, <2>2 DEF SInv, PageShows
    <3>2. ASSUME NEW u \in Tasks \ {t}, pc'[u] = "add"
          PROVE  known[u].told \subseteq got[u] \union Remembered' \union Excused'
      <4>1. pc[u] = "add" /\ u \in Others(t)
        BY <1>3, <3>2 DEF Others
      <4>2. known[u].told \subseteq got[u] \union Remembered \union Excused
        BY <4>1 DEF SInv, PageShows
      <4>3. (Remembered \intersect got[t]) \ got[u] \subseteq muddled'
        BY <2>1, <4>1
      <4>4. muddled' \subseteq Excused'
        BY DEF Excused
      <4> QED
        BY <1>2, <2>3, <4>2, <4>3, <4>4
    <3>3. ASSUME NEW u \in Tasks \ {t}, pc'[u] \in {"drop", "answered"}
          PROVE  known[u].told \subseteq got[u] \union Excused'
      BY <1>2, <1>3, <3>3 DEF SInv, PageShows
    <3> QED
      BY <2>1, <2>2, <3>1, <3>2, <3>3 DEF PageShows
  <2> QED
    BY <2>5, <2>6, <2>7 DEF SInv
<1>8. CASE Drop(t)
  <2>1. /\ got' = [got EXCEPT ![t] = got[t] \ deleted]
        /\ Goto(t, "answered") /\ UNCHANGED <<known, created>> /\ pc[t] = "drop"
    BY <1>8 DEF Drop, Answer
  <2>2. /\ got'[t] = got[t] \ deleted /\ pc'[t] = "answered"
        /\ \A u \in Tasks \ {t} : got'[u] = got[u]
        /\ Remembered' = Remembered
    BY <2>1 DEF Goto, IInv, Shapes, Rest, Maps, Remembered
  <2>3. DeletesAimed'
    BY <1>3, <1>4, <2>2 DEF SInv, DeletesAimed
  <2>4. ToldShown'
    BY <1>1, <1>2, <2>2 DEF SInv, ToldShown
  <2>5. PageShows'
    <3>1. deleted \subseteq Excused
      BY DEF SInv, DeletesAimed, Excused
    <3>2. known[t].told \subseteq got'[t] \union Excused'
      BY <1>2, <2>1, <2>2, <3>1 DEF SInv, PageShows
    <3> QED
      BY <1>2, <1>3, <2>1, <2>2, <3>2 DEF SInv, PageShows
  <2> QED
    BY <2>3, <2>4, <2>5 DEF SInv
<1> QED
  BY <1>5, <1>6, <1>7, <1>8 DEF Render

\* The list loses only what is gone, and what is gone was aimed at.
LEMMA ShowsOthers ==
  ASSUME IInv, TInv, Rest, HInv, SInv,
         \/ \E t \in Tasks : Cancel(t) \/ LateArrival(t)
         \/ \E s \in Sources : AddSource(s) \/ RemoveSource(s)
         \/ \E i \in Ids : ListCatchesUp(i)
         \/ UNCHANGED vars
  PROVE  SInv'
<1>1. ASSUME UNCHANGED <<got, known, deleted, muddled, aim, created, told>>,
             \A t \in Tasks : OffPage(t),
             Ids' \subseteq Ids \union exists',
             exists \subseteq exists' \union Aims,
             listed \subseteq listed' \union Aims
      PROVE  SInv'
  <2>1. Aims' = Aims /\ Remembered' = Remembered
    BY <1>1 DEF Aims, Remembered
  <2> QED
    BY <1>1, <2>1, ShowsStay
<1>2. ASSUME NEW t \in Tasks, Cancel(t) PROVE SInv'
  <2>1. UNCHANGED <<got, known, deleted, muddled, aim, created, told, made, exists, listed>>
    BY <1>2 DEF Cancel, LeaveBehind, memory
  <2>2. \A u \in Tasks : OffPage(u)
    BY <1>2 DEF Cancel, LeaveBehind, OffPage
  <2> QED
    BY <1>1, <2>1, <2>2 DEF Ids
<1>3. ASSUME NEW t \in Tasks, LateArrival(t) PROVE SInv'
  <2>1. /\ UNCHANGED <<got, known, deleted, muddled, aim, created, told, listed, pc>>
        /\ \/ NameOf[t] \in Names /\ Makes(NameOf[t])
           \/ t \in Deleters /\ exists' = exists \ {aim[t]} /\ UNCHANGED made
    BY <1>3, TasksAssumption DEF LateArrival, memory
  <2>2. \A u \in Tasks : OffPage(u)
    BY <2>1 DEF OffPage
  <2>3. CASE NameOf[t] \in Names /\ Makes(NameOf[t])
    <3>1. Ids' \subseteq Ids \union exists' /\ exists \subseteq exists'
      BY <2>3, MakesOne DEF IInv, Shapes
    <3> QED
      BY <1>1, <2>1, <2>2, <3>1
  <2>4. CASE t \in Deleters /\ exists' = exists \ {aim[t]} /\ UNCHANGED made
    <3>1. exists \subseteq exists' \union Aims
      BY <2>4, NoIdIsNoId DEF Aims, IInv, Shapes
    <3> QED
      BY <1>1, <2>1, <2>2, <2>4, <3>1 DEF Ids
  <2> QED
    BY <2>1, <2>3, <2>4
<1>4. ASSUME NEW s \in Sources, AddSource(s) \/ RemoveSource(s) PROVE SInv'
  <2>1. UNCHANGED <<got, known, deleted, muddled, aim, created, told, made, exists,
                    listed, pc>>
    BY <1>4 DEF AddSource, RemoveSource, google, memory
  <2> QED
    BY <1>1, <2>1 DEF Ids, OffPage
<1>5. ASSUME NEW i \in Ids, ListCatchesUp(i) PROVE SInv'
  <2>1. /\ UNCHANGED <<got, known, deleted, muddled, aim, created, told, made, exists, pc>>
        /\ \/ listed \subseteq listed'
           \/ i \notin exists /\ listed' = listed \ {i}
    BY <1>5 DEF ListCatchesUp, memory, history
  <2>2. i \in exists \union Aims
    BY DEF SInv, DeletesAimed
  <2> QED
    BY <1>1, <2>1, <2>2 DEF Ids, OffPage
<1>6. CASE UNCHANGED vars
  <2>1. UNCHANGED <<got, known, deleted, muddled, aim, created, told, made, exists,
                    listed, pc>>
    BY <1>6 DEF vars, google, memory, history
  <2> QED
    BY <1>1, <2>1 DEF Ids, OffPage
<1> QED
  BY <1>2, <1>3, <1>4, <1>5, <1>6

\* A crash forgets what was told, and takes the pages under way with it.
LEMMA ShowsCrash == ASSUME IInv, HInv, SInv, Crash PROVE SInv'
<1>1. /\ UNCHANGED <<got, known, muddled, made, exists, listed, aim>>
      /\ told' = {} /\ deleted' = {}
      /\ \A t \in Tasks : pc'[t] = IF t \in InFlight THEN "dropped" ELSE pc[t]
  BY DEF Crash, LeaveBehind
<1>2. \A t \in Tasks : pc'[t] \in {"new", "answered", "dropped"}
  BY <1>1 DEF InFlight
<1>3. \A t \in Tasks : pc'[t] # "dropped" => pc'[t] = pc[t]
  BY <1>1
<1>4. Aims' = Aims /\ Ids' = Ids /\ Excused' = Excused
  BY <1>1 DEF Aims, Ids, Excused
<1>5. DeletesAimed'
  BY <1>1, <1>2, <1>3, <1>4 DEF SInv, DeletesAimed, Tasks
<1>6. ToldShown'
  BY <1>1 DEF ToldShown
<1>7. PageShows'
  BY <1>1, <1>2, <1>3, <1>4 DEF SInv, PageShows
<1> QED
  BY <1>5, <1>6, <1>7 DEF SInv

\* Every step keeps what is shown shown.
LEMMA NextShows ==
  ASSUME IInv, TInv, Rest, HInv, SInv, [Next]_vars PROVE SInv'
  BY ShowsCreator, ShowsDeleter, ShowsRender, ShowsOthers, ShowsCrash DEF Next

\* A page asked for after a calendar was made shows it, but for those somebody
\* asked to delete and those forgotten on the word of a newer list.
THEOREM MadeIsShownAlways == Spec => []MadeIsShown
<1>1. Init => SInv
  BY InitShows
<1>2. IInv /\ TInv /\ Rest /\ HInv /\ SInv /\ [Next]_vars => SInv'
  BY NextShows
<1>3. SInv => MadeIsShown
  <2> SUFFICES ASSUME SInv, NEW t \in Tasks, pc[t] = "answered"
               PROVE  known[t].told \ got[t] \subseteq
                        muddled \union {aim[d] : d \in Deleters}
    BY DEF MadeIsShown
  <2>1. known[t].told \subseteq got[t] \union Excused
    BY DEF SInv, PageShows
  <2>2. Excused \subseteq muddled \union {aim[d] : d \in Deleters}
    BY DEF Excused, Aims
  <2> QED
    BY <2>1, <2>2
<1>4. Spec => []IInv /\ []TInv /\ [](Rest /\ HInv)
  BY Invariant, TwinsInvariant, HiddenInvariant
<1> QED
  BY <1>1, <1>2, <1>3, <1>4, PTL DEF Spec
=============================================================================
