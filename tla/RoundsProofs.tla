---------------------------- MODULE RoundsProofs ----------------------------
(***************************************************************************)
(* The promises of Rounds for any number of entries and handlers and any   *)
(* margin, ladder and limits: tokens are fetched one at a time and only    *)
(* when they run out, nothing Google would take is set aside without       *)
(* cause or before the ladder's first rungs are waited out, the worker's   *)
(* pace and its alarm are those of the outage, and what it marked done is  *)
(* compacted.                                                              *)
(***************************************************************************)
EXTENDS Rounds, FiniteSetTheorems, TLAPS

-----------------------------------------------------------------------------
\* The token and its lock

Once(q) == \A i, j \in DOMAIN q : q[i] = q[j] => i = j
Among(q, c) == \E i \in DOMAIN q : q[i] = c

\* Who leaves the queue leaves the others in it, in their order.
LEMMA Leaving ==
  ASSUME queue \in Seq(Callers), Once(queue), NEW c
  PROVE  /\ Leave(c) \in Seq(Callers)
         /\ Once(Leave(c))
         /\ \A d : Among(Leave(c), d) <=> d # c /\ Among(queue, d)
         /\ \A d : d # c /\ HoldsLock(d) => Leave(c) # <<>> /\ Head(Leave(c)) = d
<1>1. CASE ~Among(queue, c)
  <2>1. Leave(c) = queue
    BY <1>1 DEF Leave, Among
  <2> QED
    BY <1>1, <2>1 DEF HoldsLock, Among
<1>2. CASE Among(queue, c)
  <2> DEFINE at == {i \in DOMAIN queue : queue[i] = c}
             k == CHOOSE i \in at : TRUE
             n == Len(queue)
             Old(i) == IF i < k THEN i ELSE i + 1
             New(i) == IF i < k THEN i ELSE i - 1
  <2>1. at # {}
    BY <1>2 DEF Among
  <2>2. k \in at
    BY <2>1
  <2>3. n \in Nat /\ DOMAIN queue = 1 .. n /\ \A i \in 1 .. n : queue[i] \in Callers
    BY SMT
  <2>4. k \in 1 .. n /\ queue[k] = c
    BY <2>2, <2>3
  <2>5. \A i \in 1 .. n : queue[i] = c => i = k
    BY <2>3, <2>4 DEF Once
  <2>6. Leave(c) = [i \in 1 .. n - 1 |-> queue[Old(i)]]
    BY <2>1 DEF Leave
  <2> HIDE DEF at, k
  <2>7. \A i \in 1 .. n - 1 : Old(i) \in 1 .. n /\ Old(i) # k
    BY <2>3, <2>4
  <2>8. n - 1 \in Nat
    BY <2>3, <2>4
  <2>9. Leave(c) \in Seq(Callers) /\ DOMAIN Leave(c) = 1 .. n - 1 /\ Len(Leave(c)) = n - 1
    BY <2>3, <2>6, <2>7, <2>8
  <2>10. \A i \in 1 .. n - 1 : Leave(c)[i] = queue[Old(i)]
    BY <2>6
  <2> HIDE DEF n
  <2>11. Once(Leave(c))
    <3> SUFFICES ASSUME NEW i \in 1 .. n - 1, NEW j \in 1 .. n - 1,
                        Leave(c)[i] = Leave(c)[j]
                 PROVE  i = j
      BY <2>9 DEF Once
    <3>1. Old(i) = Old(j)
      BY <2>3, <2>7, <2>10 DEF Once
    <3> QED
      BY <2>3, <2>4, <3>1
  <2>12. ASSUME NEW d
         PROVE  Among(Leave(c), d) <=> d # c /\ Among(queue, d)
    <3>1. ASSUME NEW i \in 1 .. n - 1, Leave(c)[i] = d
          PROVE  d # c /\ Among(queue, d)
      <4>1. queue[Old(i)] = d /\ Old(i) \in 1 .. n /\ Old(i) # k
        BY <2>7, <2>10, <3>1
      <4> QED
        BY <2>3, <2>5, <4>1 DEF Among
    <3>2. ASSUME d # c, NEW i \in 1 .. n, queue[i] = d
          PROVE  Among(Leave(c), d)
      <4>1. i # k
        BY <2>4, <3>2
      <4>2. New(i) \in 1 .. n - 1 /\ Old(New(i)) = i
        BY <2>3, <2>4, <4>1
      <4>3. Leave(c)[New(i)] = d
        BY <2>10, <3>2, <4>2
      <4> QED
        BY <2>9, <4>2, <4>3 DEF Among
    <3> QED
      BY <2>3, <2>9, <3>1, <3>2 DEF Among
  <2>13. ASSUME NEW d, d # c, HoldsLock(d)
         PROVE  Leave(c) # <<>> /\ Head(Leave(c)) = d
    <3>1. n >= 1 /\ queue[1] = d
      BY <2>3, <2>4, <2>13 DEF HoldsLock, n
    <3>2. k # 1
      BY <2>4, <2>13, <3>1
    <3>3. 1 \in 1 .. n - 1 /\ Old(1) = 1
      BY <2>3, <2>4, <3>2
    <3>4. Leave(c)[1] = d
      BY <2>10, <3>1, <3>3
    <3> QED
      BY <2>9, <3>3, <3>4
  <2> QED
    BY <2>9, <2>11, <2>12, <2>13
<1> QED
  BY <1>1, <1>2

\* Who is in the lock's queue, and what the token, the requests and the start-up
\* loop are to each other: the token runs out for Almanac before it does for
\* Google, a request goes out with more than the margin to go, and a token is
\* fetched only when there is none that good.
QueueOK ==
  /\ Once(queue)
  /\ \A c \in Callers : call[c].pc \in {"queued", "fetching"} <=> Among(queue, c)
  /\ \A c \in Callers : call[c].pc = "fetching" => HoldsLock(c)

RequestsOK ==
  /\ token # NoToken => token.left <= token.lasts
  /\ \A c \in Callers : call[c].pc = "fetching" => ~Fresh
  /\ \A c \in Callers : call[c].pc = "calling" => call[c].lasts + call[c].sent > Margin
  /\ call[Starter].pc \in {"idle", "queued", "fetching"}
  /\ call[Starter].pc # "idle" => boot.pc = "wait"

TokenInv == TokenTypeOK /\ QueueOK /\ RequestsOK

TokenNext ==
  \/ \E c \in Callers \ {Starter} : Ask(c) /\ UNCHANGED <<token, boot, account>>
  \/ \E c \in Callers :
       \/ Reuse(c) \/ Refresh(c) \/ (\E life \in Lives : Fetched(c, life))
       \/ Answered(c) \/ Pause(c) \/ Resume(c) \/ GiveUp(c) \/ Rejected(c)
  \/ \E h \in Handlers : HangUp(h)
  \/ BootAsks \/ BootSleeps \/ BootWakes \/ Boot \/ Die \/ AccountChanges
  \/ TokenTick

\* A caller that is not yet in the queue joins it behind the others.
LEMMA Joining ==
  ASSUME TokenTypeOK, QueueOK, NEW c \in Callers, ~Among(queue, c)
  PROVE  /\ Append(queue, c) \in Seq(Callers)
         /\ Once(Append(queue, c))
         /\ \A d : Among(Append(queue, c), d) <=> d = c \/ Among(queue, d)
         /\ \A d : HoldsLock(d) => Head(Append(queue, c)) = d
<1> DEFINE q == Append(queue, c)
           n == Len(queue)
<1>1. queue \in Seq(Callers) /\ n \in Nat /\ DOMAIN queue = 1 .. n
  BY DEF TokenTypeOK
<1>2. q \in Seq(Callers) /\ DOMAIN q = 1 .. n + 1 /\ q[n + 1] = c
  BY <1>1
<1>3. \A i \in 1 .. n : q[i] = queue[i]
  BY <1>1
<1> HIDE DEF q, n
<1>4. Once(q)
  BY <1>1, <1>2, <1>3 DEF Once, Among, QueueOK
<1>5. ASSUME NEW d
      PROVE  Among(q, d) <=> d = c \/ Among(queue, d)
  <2>1. n + 1 \in 1 .. n + 1 /\ 1 .. n \subseteq 1 .. n + 1
    BY <1>1
  <2>2. \A i \in 1 .. n + 1 : i \in 1 .. n \/ i = n + 1
    BY <1>1
  <2> QED
    BY <1>1, <1>2, <1>3, <2>1, <2>2 DEF Among
<1>6. ASSUME NEW d, HoldsLock(d)
      PROVE  Head(q) = d
  <2>1. 1 \in 1 .. n /\ queue[1] = d
    BY <1>1, <1>6 DEF HoldsLock, n
  <2> QED
    BY <1>2, <1>3, <2>1
<1> QED
  BY <1>2, <1>4, <1>5, <1>6 DEF q

\* A step in which c joins the queue.
LEMMA JoinKeeps ==
  ASSUME TokenInv, NEW c \in Callers,
         call[c].pc \in {"idle", "pausing"},
         queue' = Append(queue, c),
         NEW r, r \in CallRecs, r.pc = "queued",
         call' = [call EXCEPT ![c] = r],
         UNCHANGED <<token, account>>,
         c # Starter => UNCHANGED boot,
         c = Starter => boot' = [boot EXCEPT !.pc = "wait"]
  PROVE  TokenInv'
<1>1. ~Among(queue, c)
  BY DEF TokenInv, QueueOK
<1>2. TokenTypeOK'
  BY <1>1, Joining DEF TokenInv, TokenTypeOK
<1>3. \A d \in Callers : call'[d] = IF d = c THEN r ELSE call[d]
  BY DEF TokenInv, TokenTypeOK
<1>4. QueueOK'
  <2>1. Append(queue, c) # <<>>
    BY DEF TokenInv, TokenTypeOK
  <2> QED
    BY <1>1, <1>3, <2>1, Joining DEF TokenInv, QueueOK, HoldsLock
<1>5. RequestsOK'
  BY <1>3 DEF TokenInv, TokenTypeOK, RequestsOK, Fresh, Callers
<1> QED
  BY <1>2, <1>4, <1>5 DEF TokenInv

\* A step in which c leaves the queue, if it is in it, for something else.
LEMMA LeaveKeepsQueue ==
  ASSUME TokenInv, NEW c \in Callers,
         queue' = Leave(c),
         NEW r, r \in CallRecs, r.pc \in {"idle", "pausing", "calling"},
         call' = [call EXCEPT ![c] = r]
  PROVE  /\ queue' \in Seq(Callers)
         /\ call' \in [Callers -> CallRecs]
         /\ QueueOK'
         /\ \A d \in Callers : call'[d] = IF d = c THEN r ELSE call[d]
<1>1. queue \in Seq(Callers) /\ Once(queue)
  BY DEF TokenInv, TokenTypeOK, QueueOK
<1>2. call' \in [Callers -> CallRecs]
  BY DEF TokenInv, TokenTypeOK
<1>3. \A d \in Callers : call'[d] = IF d = c THEN r ELSE call[d]
  BY DEF TokenInv, TokenTypeOK
<1>4. Once(queue') /\ \A d \in Callers : Among(queue', d) <=> d # c /\ Among(queue, d)
  BY <1>1, Leaving
<1>5. \A d \in Callers : d # c /\ HoldsLock(d) => HoldsLock(d)'
  BY <1>1, Leaving DEF HoldsLock
<1>6. QueueOK'
  BY <1>3, <1>4, <1>5 DEF TokenInv, QueueOK
<1> QED
  BY <1>1, <1>2, <1>3, <1>6, Leaving

\* The way an attempt ends, other than with a token.
LEMMA EndKeeps ==
  ASSUME TokenInv, NEW c \in Callers, c # Starter,
         NEW r, r \in CallRecs, r.pc \in {"idle", "pausing"},
         Ended(c, r), UNCHANGED <<token, boot, account>>
  PROVE  TokenInv'
<1>1. queue' = Leave(c) /\ call' = [call EXCEPT ![c] = r]
  BY DEF Ended
<1>2. /\ queue' \in Seq(Callers) /\ call' \in [Callers -> CallRecs] /\ QueueOK'
      /\ \A d \in Callers : call'[d] = IF d = c THEN r ELSE call[d]
  BY <1>1, LeaveKeepsQueue
<1>3. TokenTypeOK'
  BY <1>2 DEF TokenInv, TokenTypeOK
<1>4. RequestsOK'
  BY <1>2 DEF TokenInv, RequestsOK, Fresh, Callers
<1> QED
  BY <1>2, <1>3, <1>4 DEF TokenInv

\* A caller's record stays one as it joins the queue,
LEMMA QueuedForm ==
  ASSUME NEW x \in CallRecs
  PROVE  [x EXCEPT !.pc = "queued"] \in CallRecs /\ [x EXCEPT !.pc = "queued"].pc = "queued"
<1> DEFINE P == {"idle", "queued", "fetching", "calling", "pausing"}
           A == 0 .. InCall + 1
           S == 0 .. MaxCall
<1>1. x \in [pc : P, age : A, sent : S, lasts : Nat] /\ "queued" \in P
  BY TimesAssumption DEF CallRecs
<1>2. CallRecs = [pc : P, age : A, sent : S, lasts : Nat]
  BY DEF CallRecs
<1> HIDE DEF P, A, S
<1> QED
  BY <1>1, <1>2

\* as it asks for another token,
LEMMA FetchingForm ==
  ASSUME NEW x \in CallRecs
  PROVE  /\ [x EXCEPT !.pc = "fetching", !.sent = 0] \in CallRecs
         /\ [x EXCEPT !.pc = "fetching", !.sent = 0].pc = "fetching"
<1> DEFINE P == {"idle", "queued", "fetching", "calling", "pausing"}
           A == 0 .. InCall + 1
           S == 0 .. MaxCall
<1>1. x \in [pc : P, age : A, sent : S, lasts : Nat] /\ "fetching" \in P /\ 0 \in S
  BY TimesAssumption DEF CallRecs
<1>2. CallRecs = [pc : P, age : A, sent : S, lasts : Nat]
  BY DEF CallRecs
<1> HIDE DEF P, A, S
<1> QED
  BY <1>1, <1>2

\* as it pauses before another attempt,
LEMMA PausingForm ==
  ASSUME NEW x \in CallRecs, NEW a \in 0 .. InCall + 1
  PROVE  /\ [x EXCEPT !.pc = "pausing", !.age = a] \in CallRecs
         /\ [x EXCEPT !.pc = "pausing", !.age = a].pc = "pausing"
<1> DEFINE P == {"idle", "queued", "fetching", "calling", "pausing"}
           A == 0 .. InCall + 1
           S == 0 .. MaxCall
<1>1. x \in [pc : P, age : A, sent : S, lasts : Nat] /\ "pausing" \in P /\ a \in A
  BY TimesAssumption DEF CallRecs
<1>2. CallRecs = [pc : P, age : A, sent : S, lasts : Nat]
  BY DEF CallRecs
<1> HIDE DEF P, A, S
<1> QED
  BY <1>1, <1>2

\* and as it sends its request.
LEMMA CallingForm ==
  ASSUME NEW x \in CallRecs, NEW l \in Nat
  PROVE  /\ [x EXCEPT !.pc = "calling", !.sent = 0, !.lasts = l] \in CallRecs
         /\ [x EXCEPT !.pc = "calling", !.sent = 0, !.lasts = l].pc = "calling"
         /\ [x EXCEPT !.pc = "calling", !.sent = 0, !.lasts = l].sent = 0
         /\ [x EXCEPT !.pc = "calling", !.sent = 0, !.lasts = l].lasts = l
<1> DEFINE P == {"idle", "queued", "fetching", "calling", "pausing"}
           A == 0 .. InCall + 1
           S == 0 .. MaxCall
<1>1. x \in [pc : P, age : A, sent : S, lasts : Nat] /\ "calling" \in P /\ 0 \in S
  BY TimesAssumption DEF CallRecs
<1>2. CallRecs = [pc : P, age : A, sent : S, lasts : Nat]
  BY DEF CallRecs
<1> HIDE DEF P, A, S
<1> QED
  BY <1>1, <1>2

\* A caller is given a token that outlasts the margin.
LEMMA GrantKeeps ==
  ASSUME TokenInv, NEW c \in Callers, NEW lasts \in Nat, lasts > Margin,
         Granted(c, lasts), UNCHANGED account,
         token' = token \/ HoldsLock(c),
         token' \in [left : Nat, lasts : Nat], token'.left <= token'.lasts
  PROVE  TokenInv'
<1> DEFINE r == IF c = Starter THEN Idle
                ELSE [call[c] EXCEPT !.pc = "calling", !.sent = 0, !.lasts = lasts]
<1>1. call[c] \in CallRecs
  BY DEF TokenInv, TokenTypeOK
<1>2. /\ r \in CallRecs
      /\ r.pc = IF c = Starter THEN "idle" ELSE "calling"
      /\ c # Starter => r.lasts = lasts /\ r.sent = 0
  <2>1. CASE c = Starter
    BY <2>1, TimesAssumption DEF CallRecs, Idle
  <2>2. CASE c # Starter
    <3> DEFINE s == [call[c] EXCEPT !.pc = "calling", !.sent = 0, !.lasts = lasts]
    <3>1. r = s
      BY <2>2
    <3>3. s \in CallRecs /\ s.pc = "calling" /\ s.lasts = lasts /\ s.sent = 0
      BY ZenonT(30), <1>1, CallingForm
    <3> QED
      BY <2>2, <3>1, <3>3
  <2> QED
    BY <2>1, <2>2
<1>3. r.pc = "calling" => r.lasts + r.sent > Margin
  BY <1>2, TimesAssumption
<1>4. call' = [call EXCEPT ![c] = r] /\ queue' = Leave(c)
  BY DEF Granted
<1> HIDE DEF r
<1>5. /\ queue' \in Seq(Callers) /\ call' \in [Callers -> CallRecs] /\ QueueOK'
      /\ \A d \in Callers : call'[d] = IF d = c THEN r ELSE call[d]
  BY <1>2, <1>4, LeaveKeepsQueue
<1>6. TokenTypeOK'
  BY <1>5 DEF TokenInv, TokenTypeOK, Granted
<1>7. \A d \in Callers : call'[d].pc = "fetching" => ~Fresh'
  <2> SUFFICES ASSUME NEW d \in Callers, call'[d].pc = "fetching"
               PROVE  ~Fresh'
    OBVIOUS
  <2>1. d # c /\ call[d].pc = "fetching"
    BY <1>2, <1>5
  <2>2. HoldsLock(d) /\ ~Fresh
    BY <2>1 DEF TokenInv, QueueOK, RequestsOK
  <2>3. token' = token
    BY <2>1, <2>2 DEF HoldsLock
  <2> QED
    BY <2>2, <2>3 DEF Fresh
<1>8. RequestsOK'
  BY <1>2, <1>3, <1>5, <1>7 DEF TokenInv, RequestsOK, Granted, Callers
<1> QED
  BY <1>5, <1>6, <1>8 DEF TokenInv

\* Time passes for the token and every request under way.
LEMMA TickKeeps ==
  ASSUME TokenInv, TokenTick
  PROVE  TokenInv'
<1>1. \A c \in Callers : call[c] \in CallRecs
  BY DEF TokenInv, TokenTypeOK
<1>2. ASSUME NEW c \in Callers
      PROVE  /\ Older(call[c]) \in CallRecs
             /\ Older(call[c]).pc = call[c].pc
             /\ call[c].pc = "calling" =>
                  Older(call[c]).lasts + Older(call[c]).sent > Margin
  <2>1. call[c].pc \in {"fetching", "calling"} => call[c].sent < MaxCall
    BY DEF TokenTick, Still, Attempting
  <2>2. CASE call[c].pc = "idle"
    BY <1>1, <2>2 DEF Older
  <2>3. CASE call[c].pc # "idle"
    <3> DEFINE x == call[c]
               y == Older(x)
    <3>1. /\ y.pc = x.pc
          /\ y.age = AtMost(x.age + 1, InCall + 1)
          /\ y.sent = IF x.pc \in {"fetching", "calling"} THEN x.sent + 1 ELSE x.sent
          /\ y.lasts = Less(x.lasts)
          /\ y = [pc |-> y.pc, age |-> y.age, sent |-> y.sent, lasts |-> y.lasts]
      BY <1>1, <2>3 DEF Older, CallRecs
    <3>2. /\ x.pc \in {"idle", "queued", "fetching", "calling", "pausing"}
          /\ x.age \in 0 .. InCall + 1 /\ x.sent \in 0 .. MaxCall /\ x.lasts \in Nat
      BY <1>1 DEF CallRecs
    <3> HIDE DEF x, y
    <3> DEFINE older == x.age + 1
               bound == InCall + 1
    <3>a. older \in Nat /\ bound \in Nat
      BY <3>2, TimesAssumption
    <3>b. y.age = IF older < bound THEN older ELSE bound
      BY <3>1 DEF AtMost
    <3> HIDE DEF older, bound
    <3>c. y.age \in 0 .. bound
      BY <3>a, <3>b
    <3>d. y.lasts \in Nat
      BY <3>1, <3>2 DEF Less
    <3>3. y.age \in 0 .. InCall + 1 /\ y.lasts \in Nat
      BY <3>c, <3>d DEF bound
    <3>4. y.sent \in 0 .. MaxCall
      BY SMTT(30), <2>1, <3>1, <3>2, TimesAssumption DEF x
    <3>5. y \in CallRecs
      BY <3>1, <3>2, <3>3, <3>4 DEF CallRecs
    <3>6. x.pc = "calling" => y.lasts + y.sent >= x.lasts + x.sent
      BY <3>1, <3>2, TimesAssumption DEF Less
    <3>7. x.pc = "calling" => x.lasts + x.sent > Margin
      BY DEF x, TokenInv, RequestsOK
    <3>8. x.pc = "calling" => y.lasts + y.sent > Margin
      BY <3>2, <3>3, <3>4, <3>6, <3>7, TimesAssumption
    <3> QED
      BY <3>1, <3>5, <3>8 DEF x, y
  <2> QED
    BY <2>2, <2>3
<1>3. \A c \in Callers : call'[c] = Older(call[c])
  BY DEF TokenTick
<1>4. call' \in [Callers -> CallRecs]
  BY <1>2 DEF TokenTick
<1>5. /\ token' = NoToken \/ token' \in [left : Nat, lasts : Nat]
      /\ token' # NoToken => token'.left <= token'.lasts
      /\ ~Fresh => ~Fresh'
  <2>1. CASE token = NoToken
    BY <2>1 DEF TokenTick, Fresh
  <2>2. CASE token # NoToken
    BY <2>2, TimesAssumption DEF TokenInv, TokenTypeOK, RequestsOK, TokenTick, Fresh, Less
  <2> QED
    BY <2>1, <2>2
<1>6. boot' \in [pc : {"off", "ask", "wait", "sleep", "done"},
                 tries : 0 .. Len(StartWaits), left : Nat] /\ boot'.pc = boot.pc
  <2> DEFINE S == {"off", "ask", "wait", "sleep", "done"}
             T == 0 .. Len(StartWaits)
  <2>1. boot \in [pc : S, tries : T, left : Nat]
    BY DEF TokenInv, TokenTypeOK
  <2>2. boot' = [boot EXCEPT !.left = Less(boot.left)]
    BY DEF TokenTick
  <2> HIDE DEF S, T
  <2>3. Less(boot.left) \in Nat
    BY <2>1 DEF Less
  <2>4. boot' \in [pc : S, tries : T, left : Nat] /\ boot'.pc = boot.pc
    BY <2>1, <2>2, <2>3
  <2> QED
    BY <2>4 DEF S, T
<1>7. TokenTypeOK'
  BY <1>4, <1>5, <1>6 DEF TokenInv, TokenTypeOK, TokenTick
<1>8. QueueOK'
  BY <1>2, <1>3 DEF TokenInv, QueueOK, TokenTick, HoldsLock
<1>9. RequestsOK'
  BY <1>2, <1>3, <1>5, <1>6 DEF TokenInv, RequestsOK, Callers
<1> QED
  BY <1>7, <1>8, <1>9 DEF TokenInv

\* Every step of the token's side keeps its invariant.
LEMMA TokenNextKeeps ==
  ASSUME TokenInv, TokenNext
  PROVE  TokenInv'
<1>0. /\ Idle \in CallRecs /\ Idle.pc = "idle"
      /\ \A c \in Callers : call[c] \in CallRecs
      /\ Starter \in Callers /\ Handlers \subseteq Callers /\ Starter \notin Handlers
  BY TimesAssumption, CallersAssumption
  DEF TokenInv, TokenTypeOK, Idle, CallRecs, Callers
<1>1. ASSUME NEW c \in Callers \ {Starter}, Ask(c), UNCHANGED <<token, boot, account>>
      PROVE  TokenInv'
  <2> DEFINE r == [Idle EXCEPT !.pc = "queued"]
  <2>1. r \in CallRecs /\ r.pc = "queued"
    BY <1>0 DEF CallRecs, Idle
  <2> QED
    BY <1>1, <2>1, JoinKeeps DEF Ask
<1>2. ASSUME NEW c \in Callers, Reuse(c)
      PROVE  TokenInv'
  <2>1. /\ token \in [left : Nat, lasts : Nat] /\ token.left <= token.lasts
        /\ token.lasts > Margin
    BY <1>2, TimesAssumption DEF Reuse, Fresh, TokenInv, TokenTypeOK, RequestsOK
  <2>2. token.lasts \in Nat
    BY <2>1
  <2> QED
    BY <1>2, <2>1, <2>2, GrantKeeps DEF Reuse
<1>3. ASSUME NEW c \in Callers, Refresh(c)
      PROVE  TokenInv'
  <2> DEFINE r == [call[c] EXCEPT !.pc = "fetching", !.sent = 0]
  <2>1. r \in CallRecs /\ r.pc = "fetching"
    BY <1>0, FetchingForm
  <2>2. call' = [call EXCEPT ![c] = r]
    BY <1>3 DEF Refresh
  <2> HIDE DEF r
  <2>3. \A d \in Callers : call'[d] = IF d = c THEN r ELSE call[d]
    BY <2>2 DEF TokenInv, TokenTypeOK
  <2>4. TokenTypeOK'
    BY <1>3, <2>1, <2>2 DEF TokenInv, TokenTypeOK, Refresh
  <2>5. QueueOK'
    BY <1>3, <2>1, <2>3 DEF TokenInv, QueueOK, Refresh, HoldsLock
  <2>6. RequestsOK'
    BY <1>3, <2>1, <2>3 DEF TokenInv, RequestsOK, Refresh, Fresh, Callers
  <2> QED
    BY <2>4, <2>5, <2>6 DEF TokenInv
<1>4. ASSUME NEW c \in Callers, NEW life \in Lives, Fetched(c, life)
      PROVE  TokenInv'
  <2> DEFINE lasts == life - call[c].sent
  <2>1. call[c].sent \in 0 .. MaxCall
    BY <1>0 DEF CallRecs
  <2>2. lasts \in Nat /\ lasts > Margin
    BY <2>1, LivesAssumption, TimesAssumption
  <2>3. token' = [left |-> lasts, lasts |-> lasts]
    BY <1>4 DEF Fetched
  <2>4. HoldsLock(c) /\ Granted(c, lasts) /\ UNCHANGED account
    BY <1>4 DEF Fetched, TokenInv, QueueOK
  <2> HIDE DEF lasts
  <2> QED
    BY <2>2, <2>3, <2>4, GrantKeeps
<1>5. ASSUME NEW c \in Callers, Answered(c)
      PROVE  TokenInv'
  <2>1. c # Starter
    BY <1>5 DEF Answered, TokenInv, RequestsOK
  <2> QED
    BY <1>0, <1>5, <2>1, EndKeeps DEF Answered
<1>6. ASSUME NEW c \in Callers, Pause(c)
      PROVE  TokenInv'
  <2>1. call[c].age \in 0 .. InCall + 1
    BY <1>0 DEF CallRecs
  <2> DEFINE r == [Idle EXCEPT !.pc = "pausing", !.age = call[c].age]
  <2>2. r \in CallRecs /\ r.pc = "pausing"
    BY <1>0, <2>1, PausingForm
  <2> QED
    BY <1>6, <2>2, EndKeeps DEF Pause
<1>7. ASSUME NEW c \in Callers, Resume(c)
      PROVE  TokenInv'
  <2> DEFINE r == [call[c] EXCEPT !.pc = "queued"]
  <2>1. r \in CallRecs /\ r.pc = "queued"
    BY <1>0, QueuedForm
  <2>2. c # Starter
    BY <1>7 DEF Resume, TokenInv, RequestsOK
  <2>3. call' = [call EXCEPT ![c] = r]
    BY <1>7 DEF Resume
  <2> HIDE DEF r
  <2> QED
    BY <1>7, <2>1, <2>2, <2>3, JoinKeeps DEF Resume
<1>8. ASSUME NEW c \in Callers, GiveUp(c) \/ Rejected(c)
      PROVE  TokenInv'
  BY <1>0, <1>8, EndKeeps DEF GiveUp, Rejected
<1>9. ASSUME NEW h \in Handlers, HangUp(h)
      PROVE  TokenInv'
  BY <1>0, <1>9, EndKeeps DEF HangUp
<1>10. CASE BootAsks
  <2> DEFINE r == [Idle EXCEPT !.pc = "queued"]
  <2>1. r \in CallRecs /\ r.pc = "queued"
    BY <1>0 DEF CallRecs, Idle
  <2> QED
    BY <1>0, <1>10, <2>1, JoinKeeps DEF BootAsks, Ask
<1>11. CASE BootSleeps
  <2>1. queue' = Leave(Starter) /\ call' = [call EXCEPT ![Starter] = Idle]
    BY <1>11 DEF BootSleeps, Ended
  <2>2. /\ queue' \in Seq(Callers) /\ call' \in [Callers -> CallRecs] /\ QueueOK'
        /\ \A d \in Callers : call'[d] = IF d = Starter THEN Idle ELSE call[d]
    BY <1>0, <2>1, LeaveKeepsQueue
  <2>3. boot' \in [pc : {"off", "ask", "wait", "sleep", "done"},
                   tries : 0 .. Len(StartWaits), left : Nat]
    <3> DEFINE n == Len(StartWaits)
               k == AtMost(boot.tries + 1, n)
    <3>1. n \in Nat /\ n > 0
      BY TimesAssumption
    <3>2. boot.tries \in 0 .. n
      BY DEF TokenInv, TokenTypeOK
    <3>3. k \in 1 .. n
      BY <3>1, <3>2 DEF AtMost
    <3>4. StartWaits[k] \in Nat
      BY <3>3, TimesAssumption
    <3> HIDE DEF k
    <3>5. boot' = [pc |-> "sleep", tries |-> k, left |-> StartWaits[k]]
      BY <1>11 DEF BootSleeps, k
    <3>6. k \in 0 .. n
      BY <3>1, <3>3
    <3> QED
      BY <3>4, <3>5, <3>6
  <2>4. TokenTypeOK'
    BY <1>11, <2>2, <2>3 DEF TokenInv, TokenTypeOK, BootSleeps
  <2>5. RequestsOK'
    BY <1>0, <1>11, <2>2 DEF TokenInv, RequestsOK, BootSleeps, Fresh
  <2> QED
    BY <2>2, <2>4, <2>5 DEF TokenInv
<1>12. CASE BootWakes \/ Boot
  <2>1. /\ UNCHANGED <<token, queue, call, account>>
        /\ boot' = [boot EXCEPT !.pc = "ask"] /\ boot.pc # "wait"
    BY <1>12 DEF BootWakes, Boot
  <2>2. TokenTypeOK'
    BY <2>1 DEF TokenInv, TokenTypeOK
  <2>3. QueueOK'
    BY <2>1 DEF TokenInv, QueueOK, HoldsLock
  <2>4. RequestsOK'
    BY <2>1 DEF TokenInv, RequestsOK, Fresh
  <2> QED
    BY <2>2, <2>3, <2>4 DEF TokenInv
<1>13. CASE Die
  <2>1. /\ token' = NoToken /\ queue' = <<>> /\ UNCHANGED account
        /\ \A c \in Callers : call'[c] = Idle
        /\ call' \in [Callers -> CallRecs]
        /\ boot' = [pc |-> "off", tries |-> 0, left |-> 0]
    BY <1>0, <1>13 DEF Die
  <2>2. TokenTypeOK'
    BY <2>1 DEF TokenInv, TokenTypeOK
  <2>3. QueueOK'
    BY <1>0, <2>1 DEF QueueOK, Once, Among
  <2>4. RequestsOK'
    BY <1>0, <2>1 DEF RequestsOK
  <2> QED
    BY <2>2, <2>3, <2>4 DEF TokenInv
<1>14. CASE AccountChanges
  <2>1. UNCHANGED <<token, queue, call, boot>> /\ account' \in BOOLEAN
    BY <1>14 DEF AccountChanges
  <2>2. TokenTypeOK'
    BY <2>1 DEF TokenInv, TokenTypeOK
  <2>3. QueueOK' /\ RequestsOK'
    BY <2>1 DEF TokenInv, QueueOK, RequestsOK, HoldsLock, Fresh
  <2> QED
    BY <2>2, <2>3 DEF TokenInv
<1>15. CASE TokenTick
  BY <1>15, TickKeeps
<1> QED
  BY <1>1, <1>2, <1>3, <1>4, <1>5, <1>6, <1>7, <1>8, <1>9, <1>10, <1>11, <1>12,
     <1>13, <1>14, <1>15 DEF TokenNext

-----------------------------------------------------------------------------
\* The worker's rounds

PassRecs ==
  [todo : SUBSET Entries, job : Entries \union {NoEntry}, delivered : Nat, failing : BOOLEAN]

RoundsTypes ==
  /\ entry \in [Entries -> {"new", "pending", "done", "gone", "dead"}]
  /\ run \in {"off", "replay", "pass", "tidy", "wait"}
  /\ pass \in PassRecs
  /\ ticker \in [period : Nat, left : Int]
  /\ pace \in [fails : 0 .. Len(Ladder), reported : BOOLEAN]
  /\ perm \in [Entries -> 0 .. PermanentLimit]
  /\ since \in 0 .. CompactAfter
  /\ trail \in Trails

\* The worker is at a call exactly while it is at an entry, in a pass, and there
\* is no worker before the start-up loop has its token.
JobOK ==
  /\ (call[Worker].pc # "idle") <=> (pass.job # NoEntry)
  /\ pass.job # NoEntry => Passing
  /\ pass.job \notin Orphans
  /\ run # "off" => boot.pc = "done"

CauseOK ==
  /\ trail.unfair = {}
  /\ \A e \in Orphans : entry[e] # "dead"

PaceOK ==
  /\ pace.fails = trail.streak
  /\ run \in {"off", "replay"} => trail.streak = 0
  /\ ticker.period = IF trail.streak = 0 THEN Poll ELSE Ladder[trail.streak]
  /\ ticker.left <= ticker.period

\* The done entries that a compaction does not owe to somebody else.
Own == In("done") \ trail.extra

DoneOK ==
  /\ since < CompactAfter => Cardinality(Own) <= since + pass.delivered
  /\ run \in {"off", "replay"} => since = 0
  /\ ~Passing => pass.delivered = 0
  /\ run = "wait" /\ since = CompactAfter => trail.untidy

AlarmOK ==
  /\ trail.alarmed => pace.reported
  /\ pace.reported /\ ~trail.alarmed => pass.delivered > 0
  /\ run \in {"off", "replay"} => ~pace.reported

\* The entries the pass has still to do with.
AtHand == pass.todo \union {pass.job}

\* An entry counts no more refusals than the outage has passes, but for those a
\* pass that delivered left it with; the pass under way counts once it is over
\* with the entry.
StrikesOK ==
  /\ pass.job \notin pass.todo
  /\ \A e \in Entries \intersect AtHand : entry[e] # "dead"
  /\ \A e \in Entries \ trail.mixed :
       perm[e] <= IF run = "pass" /\ e \notin AtHand THEN trail.streak + 1 ELSE trail.streak

\* The outage is as old as the rungs it has climbed; with the time to the next
\* tick, as old as that tick will find it.
AgeOK ==
  \/ trail.age >= Spread
  \/ /\ trail.streak < PermanentLimit
     /\ run = "pass" => trail.age >= Climb[trail.streak + 1]
     /\ run \in {"tidy", "wait"} /\ trail.streak > 0
          => trail.age + ticker.left >= Climb[trail.streak + 1]

IInv ==
  /\ TokenInv /\ RoundsTypes /\ JobOK /\ CauseOK /\ PaceOK /\ DoneOK /\ AlarmOK
  /\ StrikesOK /\ AgeOK

LEMMA SpreadNat == Spread \in Nat
BY LimitsAssumption, ClimbAssumption DEF Spread

\* The invariant holds before the first process.
LEMMA InitInv == Init => IInv
<1> SUFFICES ASSUME Init PROVE IInv
  OBVIOUS
<1>0. Idle \in CallRecs /\ Idle.pc = "idle" /\ Worker \in Callers /\ Starter \in Callers
  BY TimesAssumption DEF Idle, CallRecs, Callers
<1>1. TokenTypeOK
  BY <1>0, TimesAssumption DEF Init, TokenInit, TokenTypeOK
<1>2. QueueOK /\ RequestsOK
  BY <1>0 DEF Init, TokenInit, QueueOK, RequestsOK, Once, Among
<1>3. RoundsTypes
  BY PaceAssumption, LimitsAssumption, SpreadNat
  DEF Init, RoundsTypes, PassRecs, NoPass, Ticker, NoPace, NoStrikes, Trails
<1>4. JobOK
  BY <1>0, EntriesAssumption DEF Init, TokenInit, JobOK, NoPass
<1>5. CauseOK
  BY EntriesAssumption DEF Init, CauseOK
<1>6. PaceOK
  BY PaceAssumption DEF Init, PaceOK, NoPace, Ticker
<1>7. DoneOK
  <2>1. Own = {}
    BY DEF Init, Own, In
  <2> QED
    BY <2>1, FS_EmptySet, LimitsAssumption DEF Init, DoneOK, NoPass, Passing
<1>8. AlarmOK
  BY DEF Init, AlarmOK, NoPace
<1>9. StrikesOK
  BY EntriesAssumption DEF Init, StrikesOK, AtHand, NoPass, NoStrikes
<1>10. AgeOK
  BY LimitsAssumption DEF Init, AgeOK
<1> QED
  BY <1>1, <1>2, <1>3, <1>4, <1>5, <1>6, <1>7, <1>8, <1>9, <1>10 DEF IInv, TokenInv

\* Every step is one of the token's side or leaves the token's side alone.
LEMMA NextIsTokens ==
  ASSUME [Next]_vars
  PROVE  TokenNext \/ UNCHANGED tokenVars
<1>0. Worker \in Callers \ {Starter} /\ Handlers \subseteq Callers \ {Starter}
  BY CallersAssumption DEF Callers
<1>1. CASE UNCHANGED vars
  BY <1>1 DEF vars
<1>2. CASE TokenStep
  BY <1>2 DEF TokenStep, TokenNext
<1>3. ASSUME NEW e \in Entries, Post(e)
      PROVE  TokenNext \/ UNCHANGED tokenVars
  BY <1>0, <1>3 DEF Post, TokenNext
<1>4. ASSUME NEW h \in Handlers, SyncEnds(h)
      PROVE  TokenNext \/ UNCHANGED tokenVars
  BY <1>0, <1>4 DEF SyncEnds, TokenNext
<1>5. CASE WorkerStep
  <2>1. CASE BeginReplay \/ EndReplay \/ Tick \/ EndPass \/ Tidy
    BY <2>1 DEF BeginReplay, EndReplay, Tick, EndPass, Tidy
  <2>2. ASSUME NEW e \in Entries, SkipOrphan(e) \/ Take(e)
        PROVE  TokenNext \/ UNCHANGED tokenVars
    BY <1>0, <2>2 DEF SkipOrphan, Take, TokenNext
  <2>3. CASE Delivered \/ Failed \/ FailedForGood
    BY <1>0, <2>3 DEF Delivered, Failed, FailedForGood, Refused, TokenNext
  <2> QED
    BY <1>5, <2>1, <2>2, <2>3 DEF WorkerStep
<1>6. CASE Crash
  BY <1>6 DEF Crash, TokenNext
<1>7. CASE Pass
  BY <1>7 DEF Pass, TokenNext
<1> QED
  BY <1>1, <1>2, <1>3, <1>4, <1>5, <1>6, <1>7 DEF Next

\* No step of the worker, the handlers or the account disturbs the token.
LEMMA TokenInvKept ==
  ASSUME TokenInv, [Next]_vars
  PROVE  TokenInv'
<1>1. CASE TokenNext
  BY <1>1, TokenNextKeeps
<1>2. CASE UNCHANGED tokenVars
  BY <1>2 DEF tokenVars, TokenInv, TokenTypeOK, QueueOK, RequestsOK, Fresh, HoldsLock
<1> QED
  BY <1>1, <1>2, NextIsTokens

\* How far the counters go.
LEMMA CountersTyped ==
  ASSUME RoundsTypes
  PROVE  /\ AtMost(pace.fails + 1, Len(Ladder)) \in 1 .. Len(Ladder)
         /\ AtMost(trail.streak + 1, Len(Ladder)) \in 1 .. Len(Ladder)
         /\ AtMost(trail.age + 1, Spread) \in 0 .. Spread
         /\ AtMost(pass.delivered, CompactAfter) \in 0 .. CompactAfter
         /\ AtMost(since + pass.delivered, CompactAfter) \in 0 .. CompactAfter
         /\ \A e \in Entries : Strikes(e) \in 0 .. PermanentLimit
         /\ Rung \in Nat /\ Wanted \in Nat
<1>1. Len(Ladder) \in Nat /\ Len(Ladder) > 0 /\ \A i \in 1 .. Len(Ladder) : Ladder[i] \in Nat
  BY PaceAssumption
<1>2. /\ pace.fails \in 0 .. Len(Ladder) /\ trail.streak \in 0 .. Len(Ladder)
      /\ trail.age \in 0 .. Spread /\ pass.delivered \in Nat /\ since \in 0 .. CompactAfter
      /\ \A e \in Entries : perm[e] \in 0 .. PermanentLimit
  BY DEF RoundsTypes, Trails, PassRecs
<1>3. AtMost(pace.fails + 1, Len(Ladder)) \in 1 .. Len(Ladder)
  BY <1>1, <1>2 DEF AtMost
<1>4. Rung \in Nat /\ Wanted \in Nat
  BY <1>1, <1>3, PaceAssumption DEF Rung, Wanted
<1>5. AtMost(trail.streak + 1, Len(Ladder)) \in 1 .. Len(Ladder)
  BY <1>1, <1>2 DEF AtMost
<1>6. AtMost(trail.age + 1, Spread) \in 0 .. Spread
  BY <1>2, SpreadNat DEF AtMost
<1>7. /\ AtMost(pass.delivered, CompactAfter) \in 0 .. CompactAfter
      /\ AtMost(since + pass.delivered, CompactAfter) \in 0 .. CompactAfter
  BY <1>2, LimitsAssumption DEF AtMost
<1>8. \A e \in Entries : Strikes(e) \in 0 .. PermanentLimit
  BY <1>2, LimitsAssumption DEF AtMost, Strikes
<1> QED
  BY <1>3, <1>4, <1>5, <1>6, <1>7, <1>8

\* A settled entry has a status like any other.
LEMMA MarkedTyped ==
  ASSUME RoundsTypes, NEW e, NEW status \in {"done", "dead"}, Marked(e, status)
  PROVE  entry' \in [Entries -> {"new", "pending", "done", "gone", "dead"}]
BY DEF RoundsTypes, Marked

\* Every step of the rounds keeps the types.
LEMMA TypesKept ==
  ASSUME RoundsTypes, JobOK, [Next]_vars
  PROVE  RoundsTypes'
<1>0. NoPass \in PassRecs /\ NoPace \in [fails : 0 .. Len(Ladder), reported : BOOLEAN]
  BY PaceAssumption DEF NoPass, NoPace, PassRecs
<1>1. CASE UNCHANGED <<entry, workerVars, trail>>
  BY <1>1 DEF workerVars, RoundsTypes
<1>2. ASSUME NEW e \in Entries, Post(e)
      PROVE  RoundsTypes'
  BY <1>2 DEF Post, workerVars, RoundsTypes
<1>3. ASSUME NEW h \in Handlers, SyncEnds(h)
      PROVE  RoundsTypes'
  <2>1. CASE UNCHANGED <<entry, workerVars, trail>>
    BY <1>1, <2>1
  <2>2. CASE Answered(h) /\ Marked(h, "done") /\ ~UNCHANGED <<entry, workerVars, trail>>
    <3>1. h \in Entries
      BY EntriesAssumption
    <3>2. UNCHANGED workerVars
      BY <1>3, <2>2 DEF SyncEnds
    <3>3. entry' \in [Entries -> {"new", "pending", "done", "gone", "dead"}]
      BY <2>2, MarkedTyped
    <3>4. trail' \in Trails
      BY <1>3, <2>2, <3>1 DEF SyncEnds, RoundsTypes, Trails
    <3> QED
      BY <3>2, <3>3, <3>4 DEF workerVars, RoundsTypes
  <2> QED
    BY <1>3, <2>1, <2>2 DEF SyncEnds
<1>4. CASE BeginReplay \/ Tick
  <2>1. pass' \in PassRecs
    <3>1. \A todo \in SUBSET Entries : [NoPass EXCEPT !.todo = todo] \in PassRecs
      BY DEF NoPass, PassRecs
    <3>2. [NoPass EXCEPT !.failing = TRUE] \in PassRecs
      BY DEF NoPass, PassRecs
    <3>3. In("pending") \in SUBSET Entries
      BY DEF In
    <3>4. Drain
      BY <1>4 DEF BeginReplay, Tick
    <3> QED
      BY <3>1, <3>2, <3>3, <3>4 DEF Drain
  <2>2. ticker' \in [period : Nat, left : Int]
    BY <1>4 DEF BeginReplay, Tick, RoundsTypes
  <2> QED
    BY <1>4, <2>1, <2>2 DEF BeginReplay, Tick, RoundsTypes
<1>5. CASE EndReplay
  <2>1. since' \in 0 .. CompactAfter
    BY <1>5, CountersTyped DEF EndReplay
  <2>2. ticker' \in [period : Nat, left : Int]
    BY <1>5, PaceAssumption DEF EndReplay, Ticker
  <2>3. trail' \in Trails
    <3> DEFINE b == pass.delivered >= CompactAfter
    <3>1. b \in BOOLEAN
      OBVIOUS
    <3>2. trail' = [trail EXCEPT !.untidy = b]
      BY <1>5 DEF EndReplay
    <3> HIDE DEF b
    <3> QED
      BY <3>1, <3>2 DEF RoundsTypes, Trails
  <2> QED
    BY <1>0, <1>5, <2>1, <2>2, <2>3 DEF EndReplay, RoundsTypes
<1>6. ASSUME NEW e \in Entries, SkipOrphan(e) \/ Take(e)
      PROVE  RoundsTypes'
  <2>1. pass' \in PassRecs
    <3>1. pass.todo \ {e} \in SUBSET Entries
      BY DEF RoundsTypes, PassRecs
    <3>2. CASE SkipOrphan(e)
      BY <3>1, <3>2 DEF SkipOrphan, RoundsTypes, PassRecs
    <3>3. CASE Take(e)
      BY <3>1, <3>3 DEF Take, RoundsTypes, PassRecs
    <3> QED
      BY <1>6, <3>2, <3>3
  <2> QED
    BY <1>6, <2>1 DEF SkipOrphan, Take, RoundsTypes
<1>7. CASE Delivered
  <2>1. pass' \in PassRecs /\ trail' \in Trails
    <3>1. pass' \in PassRecs
      <4> DEFINE n == pass.delivered + 1
      <4>1. n \in Nat
        BY DEF RoundsTypes, PassRecs
      <4>2. pass' = [pass EXCEPT !.job = NoEntry, !.delivered = n]
        BY <1>7 DEF Delivered
      <4> HIDE DEF n
      <4> QED
        BY <4>1, <4>2 DEF RoundsTypes, PassRecs
    <3>2. trail' \in Trails
      BY <1>7 DEF Delivered, RoundsTypes, Trails
    <3> QED
      BY <3>1, <3>2
  <2>2. entry' \in [Entries -> {"new", "pending", "done", "gone", "dead"}]
    BY <1>7, MarkedTyped DEF Delivered
  <2> QED
    BY <1>7, <2>1, <2>2 DEF Delivered, RoundsTypes
<1>8. CASE Failed
  <2>1. pass' \in PassRecs
    BY <1>8 DEF Failed, RoundsTypes, PassRecs
  <2>2. perm' \in [Entries -> 0 .. PermanentLimit] /\ trail' \in Trails
    <3>1. CASE run = "pass"
      <4>1. perm' \in [Entries -> 0 .. PermanentLimit]
        <5>1. perm \in [Entries -> 0 .. PermanentLimit]
          BY DEF RoundsTypes
        <5>2. 0 \in 0 .. PermanentLimit
          BY LimitsAssumption
        <5>3. perm' = [perm EXCEPT ![pass.job] = 0]
          BY <1>8, <3>1 DEF Failed
        <5> QED
          BY <5>1, <5>2, <5>3
      <4>2. trail' \in Trails
        <5> DEFINE m == trail.mixed \ {pass.job}
        <5>1. m \in SUBSET Entries
          BY DEF RoundsTypes, Trails
        <5>2. trail' = [trail EXCEPT !.mixed = m]
          BY <1>8, <3>1 DEF Failed
        <5> HIDE DEF m
        <5> QED
          BY <5>1, <5>2 DEF RoundsTypes, Trails
      <4> QED
        BY <4>1, <4>2
    <3>2. CASE run # "pass"
      BY <1>8, <3>2 DEF Failed, RoundsTypes
    <3> QED
      BY <3>1, <3>2
  <2> QED
    BY <1>8, <2>1, <2>2 DEF Failed, RoundsTypes
<1>9. CASE FailedForGood
  <2>1. pass.job \in Entries
    <3>1. Worker \in Callers
      BY DEF Callers
    <3>2. call[Worker].pc # "idle"
      BY <1>9 DEF FailedForGood, Refused, Rejected, Answered
    <3> QED
      BY <3>2 DEF JobOK, RoundsTypes, PassRecs
  <2>2. pass' \in PassRecs
    BY <1>9 DEF FailedForGood, RoundsTypes, PassRecs
  <2>3. entry' \in [Entries -> {"new", "pending", "done", "gone", "dead"}]
    BY <1>9, MarkedTyped DEF FailedForGood, RoundsTypes
  <2>4. perm' \in [Entries -> 0 .. PermanentLimit]
    <3>1. perm \in [Entries -> 0 .. PermanentLimit]
      BY DEF RoundsTypes
    <3>2. /\ Strikes(pass.job) \in 0 .. PermanentLimit /\ 0 \in 0 .. PermanentLimit
          /\ PermanentLimit \in 0 .. PermanentLimit
      BY <2>1, LimitsAssumption, CountersTyped
    <3>3. \/ perm' = perm \/ perm' = [perm EXCEPT ![pass.job] = 0]
          \/ perm' = [perm EXCEPT ![pass.job] = Strikes(pass.job)]
          \/ perm' = [perm EXCEPT ![pass.job] = PermanentLimit]
      BY <1>9 DEF FailedForGood
    <3> QED
      BY <3>1, <3>2, <3>3
  <2>5. trail' \in Trails
    BY <1>9, <2>1 DEF FailedForGood, RoundsTypes, Trails
  <2> QED
    BY <1>9, <2>2, <2>3, <2>4, <2>5 DEF FailedForGood, RoundsTypes
<1>10. CASE EndPass
  <2>1. since' \in 0 .. CompactAfter
    BY <1>10, CountersTyped DEF EndPass
  <2>2. pace' \in [fails : 0 .. Len(Ladder), reported : BOOLEAN]
    <3>1. pace.fails \in 0 .. Len(Ladder) /\ pace.reported \in BOOLEAN
      BY DEF RoundsTypes
    <3>2. AtMost(pace.fails + 1, Len(Ladder)) \in 0 .. Len(Ladder)
      BY CountersTyped, PaceAssumption
    <3>3. (pace.reported \/ Reports) \in BOOLEAN
      OBVIOUS
    <3> QED
      BY <1>0, <1>10, <3>2, <3>3 DEF EndPass, After
  <2>3. ticker' \in [period : Nat, left : Int]
    BY <1>10, CountersTyped DEF EndPass, NextTicker, Ticker, RoundsTypes
  <2>4. trail' \in Trails
    <3>1. AtMost(trail.streak + 1, Len(Ladder)) \in 0 .. Len(Ladder)
      BY CountersTyped, PaceAssumption
    <3>2. (trail.alarmed \/ Reports) \in BOOLEAN
      OBVIOUS
    <3>3. CASE Stalled
      BY <1>10, <3>1, <3>2, <3>3 DEF EndPass, Outage, RoundsTypes, Trails
    <3>4. CASE ~Stalled
      <4> DEFINE m == {e \in Entries : perm[e] > 0}
      <4>1. m \in SUBSET Entries /\ 0 \in 0 .. Len(Ladder) /\ 0 \in 0 .. Spread
        BY PaceAssumption, SpreadNat
      <4>2. trail' = [trail EXCEPT !.streak = 0, !.age = 0, !.alarmed = FALSE, !.mixed = m]
        BY <1>10, <3>4 DEF EndPass, Outage
      <4> HIDE DEF m
      <4> QED
        BY <4>1, <4>2 DEF RoundsTypes, Trails
    <3> QED
      BY <3>3, <3>4
  <2> QED
    BY <1>0, <1>10, <2>1, <2>2, <2>3, <2>4 DEF EndPass, RoundsTypes
<1>11. CASE Tidy
  <2>1. entry' \in [Entries -> {"new", "pending", "done", "gone", "dead"}]
    BY <1>11 DEF Tidy, RoundsTypes
  <2>2. since' \in 0 .. CompactAfter
    BY <1>11, LimitsAssumption DEF Tidy, RoundsTypes
  <2>3. trail' \in Trails
    BY <1>11 DEF Tidy, RoundsTypes, Trails
  <2> QED
    BY <1>11, <2>1, <2>2, <2>3 DEF Tidy, RoundsTypes
<1>12. CASE Crash
  <2>1. trail' \in Trails
    <3> DEFINE x == trail.extra \union In("done")
    <3>1. x \in SUBSET Entries /\ 0 \in 0 .. Len(Ladder) /\ 0 \in 0 .. Spread
      BY PaceAssumption, SpreadNat DEF RoundsTypes, Trails, In
    <3>2. trail' = [trail EXCEPT !.extra = x, !.mixed = {}, !.streak = 0, !.age = 0,
                                 !.alarmed = FALSE, !.untidy = FALSE]
      BY <1>12 DEF Crash
    <3> HIDE DEF x
    <3> QED
      BY <3>1, <3>2 DEF RoundsTypes, Trails
  <2>2. ticker' \in [period : Nat, left : Int] /\ perm' \in [Entries -> 0 .. PermanentLimit]
    BY <1>12, PaceAssumption, LimitsAssumption DEF Crash, Ticker, NoStrikes
  <2>3. since' \in 0 .. CompactAfter
    BY <1>12, LimitsAssumption DEF Crash
  <2> QED
    BY <1>0, <1>12, <2>1, <2>2, <2>3 DEF Crash, RoundsTypes
<1>13. CASE Pass
  <2>1. ticker' \in [period : Nat, left : Int]
    BY <1>13 DEF Pass, RoundsTypes
  <2>2. trail' \in Trails
    <3>1. AtMost(trail.age + 1, Spread) \in 0 .. Spread
      BY CountersTyped
    <3> QED
      BY <1>13, <3>1 DEF Pass, RoundsTypes, Trails
  <2> QED
    BY <1>13, <2>1, <2>2 DEF Pass, RoundsTypes
<1> QED
  BY <1>1, <1>2, <1>3, <1>4, <1>5, <1>6, <1>7, <1>8, <1>9, <1>10, <1>11, <1>12, <1>13
  DEF Next, TokenStep, WorkerStep, vars

\* What a step of the token's side does for a caller is not felt by the others.
LEMMA CallOfOthers ==
  ASSUME TokenInv, NEW c \in Callers, NEW d \in Callers, c # d, NEW r,
         call' = [call EXCEPT ![c] = r]
  PROVE  call'[d] = call[d]
BY DEF TokenInv, TokenTypeOK

\* A call that has ended is idle.
LEMMA EndedIdle ==
  ASSUME TokenInv, NEW c \in Callers, Ended(c, Idle)
  PROVE  call'[c].pc = "idle"
BY DEF TokenInv, TokenTypeOK, Ended, Idle

\* The worker stays at a call exactly while it is at an entry.
LEMMA JobKept ==
  ASSUME TokenInv, RoundsTypes, JobOK, [Next]_vars
  PROVE  JobOK'
<1>0. /\ Worker \in Callers /\ Starter \in Callers /\ Worker # Starter
      /\ Handlers \subseteq Callers /\ Worker \notin Handlers
      /\ NoEntry \notin Orphans /\ NoEntry \notin Entries
      /\ Orphans \subseteq Entries
  BY CallersAssumption, EntriesAssumption DEF Callers
<1>1. ASSUME UNCHANGED <<run, pass>>,
             call'[Worker].pc = "idle" <=> call[Worker].pc = "idle",
             run # "off" => boot'.pc = "done"
      PROVE  JobOK'
  BY <1>1 DEF JobOK, Passing
<1>2. CASE UNCHANGED vars
  BY <1>1, <1>2 DEF vars, tokenVars, workerVars, JobOK
<1>3. CASE TokenStep
  <2>1. UNCHANGED <<run, pass>>
    BY <1>3 DEF TokenStep, workerVars
  <2>2. ASSUME NEW c \in Callers,
               \/ Reuse(c) \/ Refresh(c) \/ Pause(c) \/ Resume(c)
               \/ \E life \in Lives : Fetched(c, life)
        PROVE  JobOK'
    <3>1. call[c].pc # "idle"
      BY <2>2 DEF Reuse, Refresh, Pause, Resume, Fetched, Attempting
    <3>2. call'[Worker].pc # "idle" <=> call[Worker].pc # "idle"
      <4>1. CASE c = Worker
        <5>1. call[Worker] \in CallRecs /\ Idle \in CallRecs
          BY <1>0, TimesAssumption DEF TokenInv, TokenTypeOK, Idle, CallRecs
        <5>2. ASSUME NEW r, r.pc # "idle", call' = [call EXCEPT ![Worker] = r]
              PROVE  call'[Worker].pc # "idle"
          BY <1>0, <5>2 DEF TokenInv, TokenTypeOK
        <5>3. ASSUME NEW l \in Nat, Granted(c, l)
              PROVE  call'[Worker].pc # "idle"
          BY <1>0, <4>1, <5>1, <5>2, <5>3, CallingForm DEF Granted
        <5>4. CASE Reuse(c)
          <6>1. token.lasts \in Nat /\ Granted(c, token.lasts)
            BY <5>4 DEF Reuse, Fresh, TokenInv, TokenTypeOK
          <6> QED
            BY <3>1, <4>1, <5>3, <6>1
        <5>5. CASE Refresh(c)
          BY <3>1, <4>1, <5>1, <5>2, <5>5, FetchingForm DEF Refresh
        <5>6. CASE Pause(c)
          <6>1. call[Worker].age \in 0 .. InCall + 1
            BY <5>1 DEF CallRecs
          <6> DEFINE r == [Idle EXCEPT !.pc = "pausing", !.age = call[Worker].age]
          <6>2. r.pc = "pausing"
            BY <5>1, <6>1, PausingForm
          <6>3. call' = [call EXCEPT ![Worker] = r]
            BY <4>1, <5>6 DEF Pause, Ended
          <6> HIDE DEF r
          <6> QED
            BY <3>1, <4>1, <5>2, <6>2, <6>3
        <5>7. CASE Resume(c)
          BY <3>1, <4>1, <5>1, <5>2, <5>7, QueuedForm DEF Resume
        <5>8. ASSUME NEW life \in Lives, Fetched(c, life)
              PROVE  call'[Worker].pc # "idle"
          <6>1. life - call[c].sent \in Nat
            BY <4>1, <5>1, LivesAssumption, TimesAssumption DEF CallRecs
          <6> QED
            BY <5>3, <5>8, <6>1 DEF Fetched
        <5> QED
          BY <2>2, <3>1, <4>1, <5>4, <5>5, <5>6, <5>7, <5>8
      <4>2. CASE c # Worker
        <5>1. \E r : call' = [call EXCEPT ![c] = r]
          BY <2>2 DEF Reuse, Refresh, Pause, Resume, Fetched, Granted, Ended
        <5> QED
          BY <1>0, <4>2, <5>1, CallOfOthers
      <4> QED
        BY <4>1, <4>2
    <3>3. run # "off" => boot'.pc = "done"
      <4>1. boot' = boot \/ boot' = [boot EXCEPT !.pc = "done"]
        BY <2>2 DEF Reuse, Refresh, Pause, Resume, Fetched, Granted
      <4> QED
        BY <4>1 DEF JobOK, TokenInv, TokenTypeOK
    <3> QED
      BY <1>1, <2>1, <3>2, <3>3
  <2>3. CASE BootAsks \/ BootSleeps
    <3>1. boot.pc # "done"
      BY <2>3 DEF BootAsks, BootSleeps, TokenInv, RequestsOK
    <3>2. \E r : call' = [call EXCEPT ![Starter] = r]
      BY <2>3 DEF BootAsks, BootSleeps, Ask, Ended
    <3>3. call'[Worker] = call[Worker]
      BY <1>0, <3>2, CallOfOthers
    <3> QED
      BY <1>1, <2>1, <3>1, <3>3 DEF JobOK
  <2>4. CASE BootWakes \/ Boot \/ AccountChanges
    BY <1>1, <2>1, <2>4 DEF BootWakes, Boot, AccountChanges, JobOK
  <2> QED
    BY <1>3, <2>2, <2>3, <2>4 DEF TokenStep
<1>4. ASSUME NEW e \in Entries, Post(e)
      PROVE  JobOK'
  <2>1. UNCHANGED <<run, pass, boot>>
    BY <1>4 DEF Post, workerVars, tokenVars
  <2>2. call'[Worker] = call[Worker]
    <3>1. CASE e \in Handlers
      <4>1. e \in Callers /\ e # Worker /\ \E r : call' = [call EXCEPT ![e] = r]
        BY <1>0, <1>4, <3>1 DEF Post, Ask
      <4> QED
        BY <1>0, <4>1, CallOfOthers
    <3>2. CASE e \notin Handlers
      BY <1>4, <3>2 DEF Post, tokenVars
    <3> QED
      BY <3>1, <3>2
  <2> QED
    BY <1>1, <2>1, <2>2 DEF JobOK
<1>5. ASSUME NEW h \in Handlers, SyncEnds(h)
      PROVE  JobOK'
  <2>1. UNCHANGED <<run, pass, boot>>
    BY <1>5 DEF SyncEnds, workerVars, Answered, GiveUp, Rejected, HangUp
  <2>2. h \in Callers /\ h # Worker /\ \E r : call' = [call EXCEPT ![h] = r]
    BY <1>0, <1>5 DEF SyncEnds, Answered, GiveUp, Rejected, HangUp, Ended
  <2>3. call'[Worker] = call[Worker]
    BY <1>0, <2>2, CallOfOthers
  <2> QED
    BY <1>1, <2>1, <2>3 DEF JobOK
<1>6. CASE BeginReplay \/ EndReplay \/ Tick \/ EndPass \/ Tidy
  <2>1. UNCHANGED tokenVars /\ pass.job = NoEntry /\ run' # "off" /\ boot.pc = "done"
    BY <1>6
    DEF BeginReplay, EndReplay, Tick, EndPass, Tidy, PassOver, Passing, JobOK
  <2>2. pass'.job = NoEntry
    BY <1>6, <2>1 DEF BeginReplay, EndReplay, Tick, EndPass, Tidy, Drain, NoPass
  <2> QED
    BY <1>0, <2>1, <2>2 DEF JobOK, tokenVars
<1>7. ASSUME NEW e \in Entries, SkipOrphan(e)
      PROVE  JobOK'
  <2>1. UNCHANGED tokenVars /\ UNCHANGED run /\ pass'.job = pass.job
    BY <1>7 DEF SkipOrphan, RoundsTypes, PassRecs
  <2> QED
    BY <2>1 DEF JobOK, tokenVars, Passing
<1>8. ASSUME NEW e \in Entries, Take(e)
      PROVE  JobOK'
  <2>1. UNCHANGED <<run, boot>> /\ Passing /\ e \notin Orphans
    BY <1>8 DEF Take
  <2>2. pass'.job = e
    BY <1>8 DEF Take, RoundsTypes, PassRecs
  <2>3. call'[Worker].pc = "queued"
    BY <1>0, <1>8 DEF Take, Ask, Idle, TokenInv, TokenTypeOK
  <2> QED
    BY <1>0, <2>1, <2>2, <2>3 DEF JobOK, Passing
<1>9. CASE Delivered \/ Failed \/ FailedForGood
  <2>1. UNCHANGED <<run, boot>>
    BY <1>9 DEF Delivered, Failed, FailedForGood, Refused, Answered, GiveUp, Rejected
  <2>2. pass'.job = NoEntry
    BY <1>9 DEF Delivered, Failed, FailedForGood, RoundsTypes, PassRecs
  <2>3. call'[Worker].pc = "idle"
    <3>1. Ended(Worker, Idle)
      BY <1>9 DEF Delivered, Failed, FailedForGood, Refused, Answered, GiveUp, Rejected
    <3> QED
      BY <1>0, <3>1, EndedIdle
  <2> QED
    BY <1>0, <2>1, <2>2, <2>3 DEF JobOK
<1>10. CASE Crash
  <2>1. run' = "off" /\ pass'.job = NoEntry
    BY <1>10 DEF Crash, NoPass
  <2>2. call'[Worker].pc = "idle"
    BY <1>0, <1>10 DEF Crash, Die, Idle
  <2> QED
    BY <1>0, <2>1, <2>2 DEF JobOK
<1>11. CASE Pass
  <2>1. UNCHANGED <<run, pass>>
    BY <1>11 DEF Pass
  <2>2. call'[Worker].pc = call[Worker].pc
    <3>1. call'[Worker] = Older(call[Worker]) /\ call[Worker] \in CallRecs
      BY <1>0, <1>11 DEF Pass, TokenTick, TokenInv, TokenTypeOK
    <3> QED
      BY <3>1 DEF Older, CallRecs
  <2>3. boot'.pc = boot.pc
    BY <1>11 DEF Pass, TokenTick, TokenInv, TokenTypeOK
  <2> QED
    BY <1>1, <2>1, <2>2, <2>3 DEF JobOK
<1> QED
  BY <1>2, <1>3, <1>4, <1>5, <1>6, <1>7, <1>8, <1>9, <1>10, <1>11 DEF Next, WorkerStep

\* A refused call with time to go was not refused for its token.
LEMMA CauseKept ==
  ASSUME TokenInv, RoundsTypes, JobOK, CauseOK, [Next]_vars
  PROVE  CauseOK'
<1>0. /\ Worker \in Callers /\ Orphans \subseteq Entries
      /\ Handlers \subseteq Entries /\ Orphans \intersect Handlers = {}
  BY EntriesAssumption DEF Callers
<1>1. ASSUME trail'.unfair = trail.unfair,
             \A e \in Orphans : entry'[e] = "dead" => entry[e] = "dead"
      PROVE  CauseOK'
  BY <1>1 DEF CauseOK
<1>2. ASSUME NEW e, NEW status, Marked(e, status), e \notin Orphans
      PROVE  \A d \in Orphans : entry'[d] = entry[d]
  BY <1>0, <1>2 DEF Marked, RoundsTypes
<1>3. CASE UNCHANGED <<entry, trail>>
  BY <1>1, <1>3
<1>4. ASSUME NEW e \in Entries, Post(e)
      PROVE  CauseOK'
  BY <1>0, <1>1, <1>4 DEF Post, RoundsTypes
<1>5. ASSUME NEW h \in Handlers, SyncEnds(h)
      PROVE  CauseOK'
  <2>1. CASE Marked(h, "done") /\ ~UNCHANGED <<entry, trail>>
    <3>1. trail'.unfair = trail.unfair
      BY <1>5, <2>1 DEF SyncEnds, RoundsTypes, Trails
    <3> QED
      BY <1>0, <1>1, <1>2, <2>1, <3>1
  <2> QED
    BY <1>3, <1>5, <2>1 DEF SyncEnds
<1>6. CASE BeginReplay \/ EndReplay \/ Tick \/ EndPass \/ Failed
  <2>1. UNCHANGED entry
    BY <1>6 DEF BeginReplay, EndReplay, Tick, EndPass, Failed
  <2>2. trail'.unfair = trail.unfair
    BY <1>6 DEF BeginReplay, EndReplay, Tick, EndPass, Failed, Outage, RoundsTypes, Trails
  <2> QED
    BY <1>1, <2>1, <2>2
<1>7. ASSUME NEW e \in Entries, SkipOrphan(e) \/ Take(e)
      PROVE  CauseOK'
  BY <1>3, <1>7 DEF SkipOrphan, Take
<1>8. CASE Delivered
  <2>1. trail'.unfair = trail.unfair
    BY <1>8 DEF Delivered, RoundsTypes, Trails
  <2> QED
    BY <1>1, <1>2, <1>8, <2>1 DEF Delivered, JobOK
<1>9. CASE FailedForGood
  <2>1. \A d \in Orphans : entry'[d] = entry[d]
    BY <1>2, <1>9 DEF FailedForGood, JobOK
  <2>2. pass.job \in Bad \/ Excused(Worker)
    <3>1. CASE Rejected(Worker)
      <4>1. CASE account /\ call[Worker].pc = "calling" /\ call[Worker].lasts = 0
        <5>1. call[Worker].lasts + call[Worker].sent > Margin
          BY <1>0, <4>1 DEF TokenInv, RequestsOK
        <5>2. call[Worker].sent \in Nat
          BY <1>0, TimesAssumption DEF TokenInv, TokenTypeOK, CallRecs
        <5> QED
          BY <4>1, <5>1, <5>2 DEF Excused
      <4> QED
        BY <3>1, <4>1 DEF Rejected, Excused
    <3> QED
      BY <1>9, <3>1 DEF FailedForGood, Refused
  <2>3. trail'.unfair = trail.unfair
    BY <1>9, <2>2 DEF FailedForGood, RoundsTypes, Trails
  <2> QED
    BY <1>1, <2>1, <2>3
<1>10. CASE Tidy
  <2>1. trail'.unfair = trail.unfair
    BY <1>10 DEF Tidy, RoundsTypes, Trails
  <2>2. \A e \in Orphans : entry'[e] = "dead" => entry[e] = "dead"
    BY <1>0, <1>10 DEF Tidy, RoundsTypes
  <2> QED
    BY <1>1, <2>1, <2>2
<1>11. CASE Crash \/ Pass
  <2>1. trail'.unfair = trail.unfair
    BY <1>11 DEF Crash, Pass, RoundsTypes, Trails
  <2>2. UNCHANGED entry
    BY <1>11 DEF Crash, Pass
  <2> QED
    BY <1>1, <2>1, <2>2
<1> QED
  BY <1>3, <1>4, <1>5, <1>6, <1>7, <1>8, <1>9, <1>10, <1>11
  DEF Next, TokenStep, WorkerStep, vars

\* The ladder is climbed with the failures of the outage.
LEMMA PaceKept ==
  ASSUME RoundsTypes, PaceOK, [Next]_vars
  PROVE  PaceOK'
<1>0. /\ ticker \in [period : Nat, left : Int]
      /\ trail.streak \in 0 .. Len(Ladder) /\ pace.fails \in 0 .. Len(Ladder)
      /\ Len(Ladder) \in Nat /\ Poll \in Nat
  BY PaceAssumption DEF RoundsTypes, Trails
<1>1. ASSUME UNCHANGED <<pace, ticker>>, trail'.streak = trail.streak,
             run' \in {"off", "replay"} => run \in {"off", "replay"}
      PROVE  PaceOK'
  BY <1>1 DEF PaceOK
<1>2. CASE UNCHANGED <<pace, ticker, run, trail>>
  BY <1>1, <1>2
<1>3. ASSUME NEW e \in Entries, Post(e) \/ SkipOrphan(e) \/ Take(e)
      PROVE  PaceOK'
  BY <1>2, <1>3 DEF Post, SkipOrphan, Take, workerVars
<1>4. ASSUME NEW h \in Handlers, SyncEnds(h)
      PROVE  PaceOK'
  <2>1. trail'.streak = trail.streak
    BY <1>4 DEF SyncEnds, RoundsTypes, Trails
  <2> QED
    BY <1>1, <1>4, <2>1 DEF SyncEnds, workerVars
<1>5. CASE Delivered \/ Failed \/ FailedForGood
  <2>1. trail'.streak = trail.streak
    BY <1>5 DEF Delivered, Failed, FailedForGood, RoundsTypes, Trails
  <2> QED
    BY <1>1, <1>5, <2>1 DEF Delivered, Failed, FailedForGood
<1>6. CASE BeginReplay \/ Tidy
  <2>1. trail'.streak = trail.streak
    BY <1>6 DEF BeginReplay, Tidy, RoundsTypes, Trails
  <2> QED
    BY <1>1, <1>6, <2>1 DEF BeginReplay, Tidy
<1>7. CASE EndReplay
  <2>1. trail'.streak = trail.streak /\ trail.streak = 0
    BY <1>7 DEF EndReplay, PaceOK, RoundsTypes, Trails
  <2> QED
    BY <1>0, <1>7, <2>1 DEF EndReplay, PaceOK, Ticker
<1>8. CASE Tick
  <2>1. ticker'.period = ticker.period /\ ticker'.left = ticker.left + ticker.period
    BY <1>0, <1>8 DEF Tick
  <2>2. ticker.left <= 0 /\ UNCHANGED <<pace, trail>> /\ run' = "pass"
    BY <1>8 DEF Tick
  <2> QED
    BY <1>0, <2>1, <2>2 DEF PaceOK
<1>9. CASE EndPass
  <2>1. /\ pace'.fails = trail'.streak
        /\ Wanted = IF trail'.streak = 0 THEN Poll ELSE Ladder[trail'.streak]
    <3>1. CASE Stalled
      <4> DEFINE n == AtMost(pace.fails + 1, Len(Ladder))
      <4>1. n \in 1 .. Len(Ladder)
        BY CountersTyped
      <4>2. pace'.fails = n
        BY <1>9, <3>1 DEF EndPass, After
      <4>3. trail'.streak = AtMost(trail.streak + 1, Len(Ladder))
        BY <1>9, <3>1 DEF EndPass, Outage, RoundsTypes, Trails
      <4>4. trail'.streak = n
        BY <4>3 DEF PaceOK
      <4>5. Wanted = Ladder[n]
        BY <3>1 DEF Wanted, Rung
      <4> HIDE DEF n
      <4> QED
        BY <4>1, <4>2, <4>4, <4>5
    <3>2. CASE ~Stalled
      <4>1. trail'.streak = 0
        BY <1>9, <3>2 DEF EndPass, Outage, RoundsTypes, Trails
      <4> QED
        BY <1>9, <3>2, <4>1 DEF EndPass, After, NoPace, Wanted
    <3> QED
      BY <3>1, <3>2
  <2>2. ticker'.period = Wanted /\ ticker'.left <= ticker'.period
    BY <1>0, <1>9, CountersTyped DEF EndPass, NextTicker, Ticker, PaceOK
  <2>3. run' = "tidy"
    BY <1>9 DEF EndPass
  <2> QED
    BY <2>1, <2>2, <2>3 DEF PaceOK
<1>10. CASE Crash
  <2>1. trail'.streak = 0
    BY <1>10 DEF Crash, RoundsTypes, Trails
  <2> QED
    BY <1>0, <1>10, <2>1 DEF Crash, PaceOK, Ticker, NoPace
<1>11. CASE Pass
  <2>1. trail'.streak = trail.streak
    BY <1>11 DEF Pass, RoundsTypes, Trails
  <2>2. ticker'.period = ticker.period /\ ticker'.left <= ticker.left
    BY <1>0, <1>11 DEF Pass
  <2>3. ticker'.left \in Int
    BY <1>0, <1>11 DEF Pass
  <2> QED
    BY <1>0, <1>11, <2>1, <2>2, <2>3 DEF PaceOK, Pass
<1> QED
  BY <1>2, <1>3, <1>4, <1>5, <1>6, <1>7, <1>8, <1>9, <1>10, <1>11
  DEF Next, TokenStep, WorkerStep, vars, workerVars

\* An alarm belongs to the outage it was raised in.
LEMMA AlarmKept ==
  ASSUME RoundsTypes, DoneOK, AlarmOK, [Next]_vars
  PROVE  AlarmOK'
<1>0. pass.delivered \in Nat
  BY DEF RoundsTypes, PassRecs
<1>1. ASSUME UNCHANGED pace, trail'.alarmed = trail.alarmed,
             pass'.delivered = pass.delivered,
             run' \in {"off", "replay"} => run \in {"off", "replay"}
      PROVE  AlarmOK'
  BY <1>1 DEF AlarmOK
<1>2. CASE UNCHANGED <<pace, pass, run, trail>>
  BY <1>1, <1>2
<1>3. ASSUME NEW e \in Entries, Post(e)
      PROVE  AlarmOK'
  BY <1>2, <1>3 DEF Post, workerVars
<1>4. ASSUME NEW h \in Handlers, SyncEnds(h)
      PROVE  AlarmOK'
  <2>1. trail'.alarmed = trail.alarmed
    BY <1>4 DEF SyncEnds, RoundsTypes, Trails
  <2> QED
    BY <1>1, <1>4, <2>1 DEF SyncEnds, workerVars
<1>5. ASSUME NEW e \in Entries, SkipOrphan(e) \/ Take(e)
      PROVE  AlarmOK'
  <2>1. pass'.delivered = pass.delivered
    BY <1>5 DEF SkipOrphan, Take, RoundsTypes, PassRecs
  <2> QED
    BY <1>1, <1>5, <2>1 DEF SkipOrphan, Take
<1>6. CASE BeginReplay \/ Tick
  <2>1. pass.delivered = 0
    BY <1>6 DEF BeginReplay, Tick, DoneOK, Passing
  <2>2. pass'.delivered = 0
    BY <1>6 DEF BeginReplay, Tick, Drain, NoPass
  <2> QED
    BY <1>1, <1>6, <2>1, <2>2 DEF BeginReplay, Tick
<1>7. CASE EndReplay
  <2>1. trail'.alarmed = trail.alarmed
    BY <1>7 DEF EndReplay, RoundsTypes, Trails
  <2> QED
    BY <1>7, <2>1 DEF EndReplay, AlarmOK
<1>8. CASE Delivered
  <2>1. trail'.alarmed = FALSE
    BY <1>8 DEF Delivered, RoundsTypes, Trails
  <2>2. pass'.delivered = pass.delivered + 1
    BY <1>8 DEF Delivered, RoundsTypes, PassRecs
  <2> QED
    BY <1>0, <1>8, <2>1, <2>2 DEF Delivered, AlarmOK
<1>9. CASE Failed \/ FailedForGood
  <2>1. trail'.alarmed = trail.alarmed
    BY <1>9 DEF Failed, FailedForGood, RoundsTypes, Trails
  <2>2. pass'.delivered = pass.delivered
    BY <1>9 DEF Failed, FailedForGood, RoundsTypes, PassRecs
  <2> QED
    BY <1>1, <1>9, <2>1, <2>2 DEF Failed, FailedForGood
<1>10. CASE EndPass
  <2>1. CASE Stalled
    <3>1. pass.delivered = 0
      BY <2>1 DEF Stalled
    <3>2. trail'.alarmed <=> trail.alarmed \/ Reports
      BY <1>10, <2>1 DEF EndPass, Outage, RoundsTypes, Trails
    <3>3. pace'.reported <=> pace.reported \/ Reports
      BY <1>10, <2>1 DEF EndPass, After
    <3>4. pace.reported <=> trail.alarmed
      BY <3>1 DEF AlarmOK
    <3>5. run' = "tidy"
      BY <1>10 DEF EndPass
    <3> QED
      BY <3>2, <3>3, <3>4, <3>5 DEF AlarmOK
  <2>2. CASE ~Stalled
    <3>1. trail'.alarmed = FALSE
      BY <1>10, <2>2 DEF EndPass, Outage, RoundsTypes, Trails
    <3>2. pace'.reported = FALSE
      BY <1>10, <2>2 DEF EndPass, After, NoPace
    <3> QED
      BY <3>1, <3>2 DEF AlarmOK
  <2> QED
    BY <2>1, <2>2
<1>11. CASE Tidy
  <2>1. trail'.alarmed = trail.alarmed
    BY <1>11 DEF Tidy, RoundsTypes, Trails
  <2> QED
    BY <1>1, <1>11, <2>1 DEF Tidy
<1>12. CASE Crash
  <2>1. trail'.alarmed = FALSE
    BY <1>12 DEF Crash, RoundsTypes, Trails
  <2> QED
    BY <1>12, <2>1 DEF Crash, NoPace, AlarmOK
<1>13. CASE Pass
  <2>1. trail'.alarmed = trail.alarmed
    BY <1>13 DEF Pass, RoundsTypes, Trails
  <2> QED
    BY <1>1, <1>13, <2>1 DEF Pass
<1> QED
  BY <1>2, <1>3, <1>4, <1>5, <1>6, <1>7, <1>8, <1>9, <1>10, <1>11, <1>12, <1>13
  DEF Next, TokenStep, WorkerStep, vars, workerVars

\* The worker's done entries, when none or one is added.
LEMMA OwnCounted ==
  ASSUME RoundsTypes
  PROVE  /\ IsFiniteSet(Own) /\ Cardinality(Own) \in Nat
         /\ Own' \subseteq Own => Cardinality(Own') <= Cardinality(Own)
         /\ \A e : Own' \subseteq Own \union {e} => Cardinality(Own') <= Cardinality(Own) + 1
<1>1. Own \subseteq Entries
  BY DEF Own, In
<1>2. IsFiniteSet(Own) /\ Cardinality(Own) \in Nat
  BY <1>1, EntriesAssumption, FS_Subset, FS_CardinalityType
<1>3. ASSUME Own' \subseteq Own
      PROVE  Cardinality(Own') <= Cardinality(Own)
  BY <1>2, <1>3, FS_Subset
<1>4. ASSUME NEW e, Own' \subseteq Own \union {e}
      PROVE  Cardinality(Own') <= Cardinality(Own) + 1
  <2>1. /\ IsFiniteSet(Own \union {e})
        /\ Cardinality(Own \union {e}) = IF e \in Own THEN Cardinality(Own)
                                         ELSE Cardinality(Own) + 1
    BY <1>2, FS_AddElement
  <2>2. /\ IsFiniteSet(Own') /\ Cardinality(Own') <= Cardinality(Own \union {e})
        /\ Cardinality(Own') \in Nat
    BY <1>4, <2>1, FS_Subset, FS_CardinalityType
  <2> QED
    BY <1>2, <2>1, <2>2
<1> QED
  BY <1>2, <1>3, <1>4

\* Each delivery of the worker is counted before the compaction that clears it.
LEMMA DoneKept ==
  ASSUME RoundsTypes, JobOK, DoneOK, [Next]_vars
  PROVE  DoneOK'
<1>0. /\ pass.delivered \in Nat /\ since \in 0 .. CompactAfter /\ Cardinality(Own) \in Nat
      /\ CompactAfter \in Nat /\ CompactAfter > 0
      /\ entry \in [Entries -> {"new", "pending", "done", "gone", "dead"}]
      /\ trail.extra \subseteq Entries
  BY OwnCounted, LimitsAssumption DEF RoundsTypes, PassRecs, Trails
<1>1. ASSUME UNCHANGED <<since, run>>, pass'.delivered = pass.delivered,
             trail'.untidy = trail.untidy, Own' \subseteq Own
      PROVE  DoneOK'
  <2>1. Cardinality(Own') <= Cardinality(Own) /\ Cardinality(Own') \in Int
    <3>1. IsFiniteSet(Own')
      BY <1>1, OwnCounted, FS_Subset
    <3> QED
      BY <1>1, <3>1, OwnCounted, FS_CardinalityType
  <2>2. since < CompactAfter => Cardinality(Own') <= since + pass.delivered
    BY <1>0, <2>1 DEF DoneOK
  <2> QED
    BY <1>1, <2>2 DEF DoneOK, Passing
<1>2. CASE UNCHANGED <<entry, since, run, pass, trail>>
  BY <1>1, <1>2 DEF Own, In
<1>3. ASSUME NEW e \in Entries, Post(e)
      PROVE  DoneOK'
  <2>1. Own' \subseteq Own
    BY <1>0, <1>3 DEF Post, Own, In
  <2> QED
    BY <1>1, <1>3, <2>1 DEF Post, workerVars
<1>4. ASSUME NEW h \in Handlers, SyncEnds(h)
      PROVE  DoneOK'
  <2>1. trail'.untidy = trail.untidy
    BY <1>4 DEF SyncEnds, RoundsTypes, Trails
  <2>2. Own' \subseteq Own
    <3>1. CASE UNCHANGED <<entry, trail>>
      BY <3>1 DEF Own, In
    <3>2. CASE Marked(h, "done") /\ ~UNCHANGED <<entry, trail>>
      <4>1. trail'.extra = IF entry'[h] = "done" THEN trail.extra \union {h} ELSE trail.extra
        BY <1>4, <3>2 DEF SyncEnds, RoundsTypes, Trails
      <4>2. In("done")' \subseteq In("done") \union {h}
        BY <1>0, <3>2 DEF Marked, In
      <4>3. h \in In("done")' => entry'[h] = "done"
        BY DEF In
      <4> QED
        BY <4>1, <4>2, <4>3 DEF Own
    <3> QED
      BY <1>4, <3>1, <3>2 DEF SyncEnds
  <2> QED
    BY <1>1, <1>4, <2>1, <2>2 DEF SyncEnds, workerVars
<1>5. CASE BeginReplay \/ Tick
  <2>1. pass.delivered = 0 /\ pass'.delivered = 0
    BY <1>5 DEF BeginReplay, Tick, DoneOK, Passing, Drain, NoPass
  <2>2. UNCHANGED <<since, trail>> /\ Own' = Own /\ Passing' /\ run' # "wait"
    BY <1>5 DEF BeginReplay, Tick, Own, In, Passing
  <2>3. run' = "replay" => run = "off"
    BY <1>5 DEF BeginReplay, Tick
  <2>4. run' # "off"
    BY <1>5 DEF BeginReplay, Tick
  <2> QED
    BY <2>1, <2>2, <2>3, <2>4 DEF DoneOK
<1>6. CASE EndReplay
  <2>1. since = 0
    BY <1>6 DEF EndReplay, DoneOK
  <2>2. Own' = Own
    <3>1. trail'.extra = trail.extra
      BY <1>6 DEF EndReplay, RoundsTypes, Trails
    <3> QED
      BY <1>6, <3>1 DEF EndReplay, Own, In
  <2>3. since' = AtMost(pass.delivered, CompactAfter) /\ run' = "wait" /\ pass'.delivered = 0
    BY <1>6 DEF EndReplay, NoPass
  <2>4. trail'.untidy <=> pass.delivered >= CompactAfter
    BY <1>6 DEF EndReplay, RoundsTypes, Trails
  <2> QED
    BY <1>0, <2>1, <2>2, <2>3, <2>4 DEF DoneOK, AtMost
<1>7. ASSUME NEW e \in Entries, SkipOrphan(e) \/ Take(e)
      PROVE  DoneOK'
  <2>1. pass'.delivered = pass.delivered
    BY <1>7 DEF SkipOrphan, Take, RoundsTypes, PassRecs
  <2> QED
    BY <1>1, <1>7, <2>1 DEF SkipOrphan, Take, Own, In
<1>8. CASE Delivered
  <2>1. Own' \subseteq Own \union {pass.job}
    <3>1. trail'.extra = trail.extra
      BY <1>8 DEF Delivered, RoundsTypes, Trails
    <3>2. In("done")' \subseteq In("done") \union {pass.job}
      BY <1>0, <1>8 DEF Delivered, Marked, In
    <3> QED
      BY <3>1, <3>2 DEF Own
  <2>2. Cardinality(Own') <= Cardinality(Own) + 1 /\ Cardinality(Own') \in Int
    <3>1. IsFiniteSet(Own \union {pass.job})
      BY OwnCounted, FS_AddElement
    <3>2. IsFiniteSet(Own')
      BY <2>1, <3>1, FS_Subset
    <3> QED
      BY <2>1, <3>2, OwnCounted, FS_CardinalityType
  <2>3. pass'.delivered = pass.delivered + 1
    BY <1>8 DEF Delivered, RoundsTypes, PassRecs
  <2>4. UNCHANGED <<since, run>> /\ Passing
    <3>1. call[Worker].pc # "idle"
      BY <1>8 DEF Delivered, Answered
    <3> QED
      BY <1>8, <3>1 DEF Delivered, JobOK
  <2> QED
    BY <1>0, <2>2, <2>3, <2>4 DEF DoneOK, Passing
<1>9. CASE Failed \/ FailedForGood
  <2>1. /\ trail'.untidy = trail.untidy /\ trail'.extra = trail.extra
        /\ pass'.delivered = pass.delivered
    BY <1>9 DEF Failed, FailedForGood, RoundsTypes, PassRecs, Trails
  <2>2. Own' \subseteq Own
    <3>1. In("done")' \subseteq In("done")
      BY <1>0, <1>9 DEF Failed, FailedForGood, Marked, In
    <3> QED
      BY <2>1, <3>1 DEF Own
  <2> QED
    BY <1>1, <1>9, <2>1, <2>2 DEF Failed, FailedForGood
<1>10. CASE EndPass
  <2>1. trail'.extra = trail.extra
    BY <1>10 DEF EndPass, Outage, RoundsTypes, Trails
  <2>2. Own' = Own
    BY <1>10, <2>1 DEF EndPass, Own, In
  <2>3. /\ since' = AtMost(since + pass.delivered, CompactAfter) /\ run' = "tidy"
        /\ pass'.delivered = 0
    BY <1>10 DEF EndPass, NoPass
  <2> QED
    BY <1>0, <2>2, <2>3 DEF DoneOK, AtMost
<1>11. CASE Tidy
  <2>0. run = "tidy" /\ run' = "wait" /\ pass' = pass /\ pass.delivered = 0
    BY <1>11 DEF Tidy, DoneOK, Passing
  <2>1. CASE since < CompactAfter /\ UNCHANGED <<entry, since, trail>>
    <3>1. Own' = Own
      BY <2>1 DEF Own, In
    <3> QED
      BY <1>0, <2>0, <2>1, <3>1 DEF DoneOK
  <2>2. CASE since' = 0 /\ entry' = [e \in Entries |-> IF entry[e] = "done" THEN "gone"
                                                       ELSE entry[e]]
    <3>1. Own' = {}
      BY <1>0, <2>2 DEF Own, In
    <3>2. Cardinality(Own') = 0
      BY <3>1, FS_EmptySet
    <3> QED
      BY <1>0, <2>0, <2>2, <3>2 DEF DoneOK
  <2>3. CASE since >= CompactAfter /\ UNCHANGED since /\ trail' = [trail EXCEPT !.untidy = TRUE]
    <3>1. trail'.untidy
      BY <2>3 DEF RoundsTypes, Trails
    <3> QED
      BY <1>0, <2>0, <2>3, <3>1 DEF DoneOK
  <2> QED
    BY <1>11, <2>1, <2>2, <2>3 DEF Tidy
<1>12. CASE Crash
  <2>1. trail'.extra = trail.extra \union In("done")
    BY <1>12 DEF Crash, RoundsTypes, Trails
  <2>2. Own' = {}
    BY <1>12, <2>1 DEF Crash, Own, In
  <2>3. Cardinality(Own') = 0
    BY <2>2, FS_EmptySet
  <2> QED
    BY <1>0, <1>12, <2>3 DEF Crash, DoneOK, NoPass
<1>13. CASE Pass
  <2>1. trail'.untidy = trail.untidy /\ trail'.extra = trail.extra
    BY <1>13 DEF Pass, RoundsTypes, Trails
  <2>2. Own' = Own
    BY <1>13, <2>1 DEF Pass, Own, In
  <2> QED
    BY <1>1, <1>13, <2>1, <2>2 DEF Pass
<1> QED
  BY <1>2, <1>3, <1>4, <1>5, <1>6, <1>7, <1>8, <1>9, <1>10, <1>11, <1>12, <1>13
  DEF Next, TokenStep, WorkerStep, vars, workerVars

\* Only a job of the worker's is set aside, after its last strike.
LEMMA OnlyJobDies ==
  ASSUME RoundsTypes, JobOK, [Next]_vars, NEW e \in Entries,
         entry[e] # "dead", entry'[e] = "dead"
  PROVE  /\ FailedForGood /\ run = "pass" /\ e = pass.job
         /\ Strikes(e) >= PermanentLimit
<1>0. entry \in [Entries -> {"new", "pending", "done", "gone", "dead"}]
  BY DEF RoundsTypes
<1>1. ASSUME NEW d, Marked(d, "done")
      PROVE  FALSE
  BY <1>0, <1>1 DEF Marked
<1>2. ~UNCHANGED entry
  OBVIOUS
<1>3. ~\E d \in Entries : Post(d)
  BY <1>0 DEF Post
<1>4. ~\E h \in Handlers : SyncEnds(h)
  BY <1>1, <1>2 DEF SyncEnds
<1>5. ~Delivered
  BY <1>1 DEF Delivered
<1>6. ~Tidy
  BY <1>0, <1>2 DEF Tidy
<1>7. FailedForGood
  BY <1>2, <1>3, <1>4, <1>5, <1>6
  DEF Next, TokenStep, WorkerStep, vars, BeginReplay, EndReplay, Tick, SkipOrphan, Take,
      Failed, EndPass, Crash, Pass
<1>8. Marked(pass.job, "dead") /\ run = "pass" /\ Strikes(pass.job) >= PermanentLimit
  BY <1>2, <1>7 DEF FailedForGood
<1>9. e = pass.job
  BY <1>0, <1>8 DEF Marked
<1> QED
  BY <1>7, <1>8, <1>9

\* Refusals are counted pass by pass.
LEMMA StrikesKept ==
  ASSUME RoundsTypes, JobOK, PaceOK, StrikesOK, [Next]_vars
  PROVE  StrikesOK'
<1>0. /\ entry \in [Entries -> {"new", "pending", "done", "gone", "dead"}]
      /\ perm \in [Entries -> 0 .. PermanentLimit] /\ PermanentLimit \in Nat
      /\ PermanentLimit <= Len(Ladder) /\ Len(Ladder) \in Nat
      /\ trail.streak \in 0 .. Len(Ladder) /\ NoEntry \notin Entries
      /\ pass.todo \subseteq Entries
  BY PaceAssumption, LimitsAssumption, EntriesAssumption DEF RoundsTypes, Trails, PassRecs
<1>1. ASSUME UNCHANGED <<run, perm>>, pass'.todo = pass.todo, pass'.job = pass.job,
             trail'.mixed = trail.mixed, trail'.streak = trail.streak,
             \A e \in Entries : entry'[e] = "dead" => entry[e] = "dead"
      PROVE  StrikesOK'
  BY <1>1 DEF StrikesOK, AtHand
<1>2. CASE UNCHANGED <<entry, run, perm, pass, trail>>
  BY <1>1, <1>2
<1>3. ASSUME NEW e \in Entries, Post(e)
      PROVE  StrikesOK'
  <2>1. \A d \in Entries : entry'[d] = "dead" => entry[d] = "dead"
    BY <1>0, <1>3 DEF Post
  <2> QED
    BY <1>1, <1>3, <2>1 DEF Post, workerVars
<1>4. ASSUME NEW h \in Handlers, SyncEnds(h)
      PROVE  StrikesOK'
  <2>1. trail'.mixed = trail.mixed /\ trail'.streak = trail.streak
    BY <1>4 DEF SyncEnds, RoundsTypes, Trails
  <2>2. \A d \in Entries : entry'[d] = "dead" => entry[d] = "dead"
    BY <1>0, <1>4 DEF SyncEnds, Marked
  <2> QED
    BY <1>1, <1>4, <2>1, <2>2 DEF SyncEnds, workerVars
<1>5. CASE BeginReplay \/ Tick
  <2>1. /\ pass'.job = NoEntry /\ pass'.todo \in {{}, In("pending")}
        /\ UNCHANGED <<entry, perm, trail>>
    BY <1>5 DEF BeginReplay, Tick, Drain, NoPass
  <2>2. \A e \in Entries \ trail.mixed : perm[e] <= trail.streak
    BY <1>5 DEF BeginReplay, Tick, StrikesOK
  <2>3. \A e \in Entries \intersect AtHand' : entry[e] = "pending"
    BY <1>0, <2>1 DEF AtHand, In
  <2>4. pass'.job \notin pass'.todo
    BY <1>0, <2>1 DEF In
  <2> QED
    BY <1>0, <2>1, <2>2, <2>3, <2>4 DEF StrikesOK
<1>6. CASE EndReplay
  <2>1. trail'.mixed = trail.mixed /\ trail'.streak = trail.streak
    BY <1>6 DEF EndReplay, RoundsTypes, Trails
  <2>2. \A e \in Entries \ trail.mixed : perm[e] <= trail.streak
    BY <1>6 DEF EndReplay, StrikesOK
  <2>3. UNCHANGED perm /\ run' = "wait" /\ pass'.job = NoEntry /\ pass'.todo = {}
    BY <1>6 DEF EndReplay, NoPass
  <2> QED
    BY <1>0, <2>1, <2>2, <2>3 DEF StrikesOK, AtHand
<1>7. ASSUME NEW e \in Entries, SkipOrphan(e) \/ Take(e)
      PROVE  StrikesOK'
  <2>1. /\ pass'.todo = pass.todo \ {e} /\ pass'.job \in {NoEntry, e}
        /\ e \in pass.todo /\ pass.job = NoEntry
    BY <1>7 DEF SkipOrphan, Take, RoundsTypes, PassRecs
  <2>2. UNCHANGED <<entry, run, perm, trail>>
    BY <1>7 DEF SkipOrphan, Take
  <2>3. AtHand' \subseteq AtHand \union {NoEntry} /\ AtHand' \intersect Entries \subseteq AtHand
    BY <1>0, <2>1 DEF AtHand
  <2>4. pass'.job \notin pass'.todo
    BY <1>0, <2>1
  <2>5. \A d \in Entries \ trail.mixed :
          perm[d] <= IF run = "pass" /\ d \notin AtHand' THEN trail.streak + 1 ELSE trail.streak
    BY <1>0, <2>3 DEF StrikesOK
  <2> QED
    BY <2>2, <2>3, <2>4, <2>5 DEF StrikesOK
<1>8. CASE Delivered \/ Failed \/ FailedForGood
  <2> DEFINE j == pass.job
  <2>1. j \in Entries /\ j \notin pass.todo /\ entry[j] # "dead"
    <3>1. call[Worker].pc # "idle"
      BY <1>8 DEF Delivered, Failed, FailedForGood, Refused, Rejected, Answered, GiveUp,
             Attempting
    <3> QED
      BY <1>0, <3>1 DEF JobOK, StrikesOK, AtHand, RoundsTypes, PassRecs
  <2>2. pass'.todo = pass.todo /\ pass'.job = NoEntry /\ UNCHANGED run
    BY <1>8 DEF Delivered, Failed, FailedForGood, RoundsTypes, PassRecs
  <2>3. trail'.streak = trail.streak
    BY <1>8 DEF Delivered, Failed, FailedForGood, RoundsTypes, Trails
  <2>4. \A e \in Entries : entry'[e] = "dead" => entry[e] = "dead" \/ e = j
    BY <1>0, <1>8, <2>1 DEF Delivered, Failed, FailedForGood, Marked
  <2>5. \A e \in Entries \ {j} : /\ perm'[e] = perm[e]
                                 /\ e \in trail.mixed => e \in trail'.mixed
    <3>1. \/ perm' = perm \/ \E n : perm' = [perm EXCEPT ![j] = n]
      BY <1>8 DEF Delivered, Failed, FailedForGood
    <3>2. \/ trail'.mixed = trail.mixed \/ trail'.mixed = trail.mixed \ {j}
      BY <1>8 DEF Delivered, Failed, FailedForGood, RoundsTypes, Trails
    <3> QED
      BY <1>0, <3>1, <3>2
  <2>6. AtHand' \intersect Entries = AtHand \intersect (Entries \ {j})
    BY <1>0, <2>1, <2>2 DEF AtHand
  <2>7. j \in trail'.mixed
        \/ perm'[j] <= IF run = "pass" THEN trail.streak + 1 ELSE trail.streak
    <3>1. j \notin trail.mixed => perm[j] <= trail.streak
      BY <2>1 DEF StrikesOK, AtHand
    <3>2. CASE Delivered
      <4>1. trail'.mixed = trail.mixed /\ perm' = perm
        BY <3>2 DEF Delivered, RoundsTypes, Trails
      <4> QED
        BY <1>0, <2>1, <3>1, <4>1
    <3>3. CASE Failed
      <4>1. run # "pass" => trail' = trail /\ perm' = perm
        BY <3>3 DEF Failed
      <4>2. run = "pass" => perm'[j] = 0
        BY <1>0, <2>1, <3>3 DEF Failed
      <4> QED
        BY <1>0, <2>1, <3>1, <4>1, <4>2
    <3>4. CASE FailedForGood
      <4>1. entry'[j] = "dead" => run = "pass" /\ perm'[j] = 0
        BY <1>0, <2>1, <3>4 DEF FailedForGood
      <4>2. entry'[j] # "dead" => trail'.mixed = trail.mixed
        BY <3>4 DEF FailedForGood, RoundsTypes, Trails
      <4>3. \/ UNCHANGED perm
            \/ run = "pass" /\ perm'[j] <= perm[j] + 1
        BY <1>0, <2>1, <3>4 DEF FailedForGood, Strikes, AtMost
      <4>4. trail.streak \in Nat /\ perm[j] \in Nat /\ perm'[j] \in Int
        <5>1. perm[j] \in Nat /\ trail.streak \in Nat
          BY <1>0, <2>1
        <5> QED
          BY <1>0, <2>1, <3>4, <5>1 DEF FailedForGood, Strikes, AtMost
      <4>5. CASE entry'[j] = "dead"
        BY <4>1, <4>4, <4>5
      <4>6. CASE entry'[j] # "dead" /\ j \notin trail.mixed
        <5>1. CASE perm' = perm
          BY <3>1, <4>4, <4>6, <5>1
        <5>2. CASE run = "pass" /\ perm'[j] <= perm[j] + 1
          BY <3>1, <4>4, <4>6, <5>2
        <5> QED
          BY <4>3, <5>1, <5>2
      <4> QED
        BY <4>2, <4>5, <4>6
    <3> QED
      BY <1>8, <3>2, <3>3, <3>4
  <2>8. \A e \in Entries \ trail'.mixed :
          perm'[e] <= IF run = "pass" /\ e \notin AtHand' THEN trail.streak + 1 ELSE trail.streak
    <3> SUFFICES ASSUME NEW e \in Entries \ trail'.mixed
                 PROVE  perm'[e] <= IF run = "pass" /\ e \notin AtHand'
                                    THEN trail.streak + 1 ELSE trail.streak
      OBVIOUS
    <3>1. CASE e = j
      BY <2>6, <2>7, <3>1
    <3>2. CASE e # j
      <4>1. e \notin trail.mixed /\ perm'[e] = perm[e] /\ (e \in AtHand' <=> e \in AtHand)
        BY <2>5, <2>6, <3>2
      <4> QED
        BY <4>1 DEF StrikesOK
    <3> QED
      BY <3>1, <3>2
  <2>9. \A e \in Entries \intersect AtHand' : entry'[e] # "dead"
    BY <2>4, <2>6 DEF StrikesOK
  <2>10. pass'.job \notin pass'.todo
    BY <1>0, <2>2
  <2> QED
    BY <2>2, <2>3, <2>8, <2>9, <2>10 DEF StrikesOK
<1>9. CASE EndPass
  <2>1. pass'.job = NoEntry /\ pass'.todo = {} /\ run' = "tidy" /\ UNCHANGED perm
    BY <1>9 DEF EndPass, NoPass
  <2>2. \A e \in Entries \ trail'.mixed : perm[e] <= trail'.streak
    <3>1. CASE Stalled
      <4>1. /\ trail'.streak = AtMost(trail.streak + 1, Len(Ladder))
            /\ trail'.mixed = trail.mixed
        BY <1>9, <3>1 DEF EndPass, Outage, RoundsTypes, Trails
      <4>2. \A e \in Entries \ trail.mixed : perm[e] <= trail.streak + 1
        BY <1>0 DEF StrikesOK
      <4>3. \A e \in Entries : perm[e] <= Len(Ladder) /\ perm[e] \in Nat
        BY <1>0
      <4> QED
        BY <1>0, <4>1, <4>2, <4>3 DEF AtMost
    <3>2. CASE ~Stalled
      <4> DEFINE m == {e \in Entries : perm[e] > 0}
      <4>1. trail'.streak = 0 /\ trail'.mixed = m
        BY <1>9, <3>2 DEF EndPass, Outage, RoundsTypes, Trails
      <4> QED
        BY <1>0, <4>1
    <3> QED
      BY <3>1, <3>2
  <2>3. trail'.streak \in Int
    <3>1. \/ trail'.streak = 0 \/ trail'.streak = AtMost(trail.streak + 1, Len(Ladder))
      BY <1>9 DEF EndPass, Outage, RoundsTypes, Trails
    <3> QED
      BY <1>0, <3>1 DEF AtMost
  <2> QED
    BY <1>0, <2>1, <2>2, <2>3 DEF StrikesOK, AtHand
<1>10. CASE Tidy
  <2>1. trail'.mixed = trail.mixed /\ trail'.streak = trail.streak
    BY <1>10 DEF Tidy, RoundsTypes, Trails
  <2>2. \A e \in Entries : entry'[e] = "dead" => entry[e] = "dead"
    BY <1>0, <1>10 DEF Tidy
  <2>3. \A e \in Entries \ trail.mixed : perm[e] <= trail.streak
    BY <1>10 DEF Tidy, StrikesOK
  <2>4. UNCHANGED <<pass, perm>> /\ run' = "wait"
    BY <1>10 DEF Tidy
  <2> QED
    BY <1>0, <2>1, <2>2, <2>3, <2>4 DEF StrikesOK, AtHand
<1>11. CASE Crash
  <2>1. trail'.streak = 0
    BY <1>11 DEF Crash, RoundsTypes, Trails
  <2>2. /\ pass'.job = NoEntry /\ pass'.todo = {} /\ run' = "off"
        /\ \A e \in Entries : perm'[e] = 0
    BY <1>11 DEF Crash, NoPass, NoStrikes
  <2> QED
    BY <1>0, <2>1, <2>2 DEF StrikesOK, AtHand
<1>12. CASE Pass
  <2>1. trail'.mixed = trail.mixed /\ trail'.streak = trail.streak
    BY <1>12 DEF Pass, RoundsTypes, Trails
  <2> QED
    BY <1>1, <1>12, <2>1 DEF Pass
<1> QED
  BY <1>2, <1>3, <1>4, <1>5, <1>6, <1>7, <1>8, <1>9, <1>10, <1>11, <1>12
  DEF Next, TokenStep, WorkerStep, vars, workerVars

\* Each rung is waited out before the next pass.
LEMMA AgeKept ==
  ASSUME RoundsTypes, PaceOK, AgeOK, [Next]_vars
  PROVE  AgeOK'
<1>0. /\ ticker \in [period : Nat, left : Int]
      /\ trail.streak \in 0 .. Len(Ladder) /\ trail.age \in 0 .. Spread
      /\ Spread \in Nat /\ Len(Ladder) \in Nat
      /\ \A n \in 1 .. Len(Ladder) : Ladder[n] \in Nat
      /\ PermanentLimit \in Nat \ {0} /\ PermanentLimit <= Len(Ladder)
      /\ \A n \in 1 .. PermanentLimit : Climb[n] \in Nat
  <2>1. \A n \in 1 .. PermanentLimit : Climb[n] \in Nat
    BY LimitsAssumption, ClimbAssumption
  <2>2. Len(Ladder) \in Nat /\ \A n \in 1 .. Len(Ladder) : Ladder[n] \in Nat
    BY PaceAssumption
  <2>3. ticker \in [period : Nat, left : Int] /\ trail \in Trails
    BY DEF RoundsTypes
  <2> QED
    BY <2>1, <2>2, <2>3, SpreadNat, LimitsAssumption DEF Trails
<1>1. ASSUME UNCHANGED <<run, ticker>>, trail'.streak = trail.streak, trail'.age = trail.age
      PROVE  AgeOK'
  BY <1>1 DEF AgeOK
<1>2. CASE UNCHANGED <<run, ticker, trail>>
  BY <1>1, <1>2
<1>3. ASSUME trail'.streak = 0
      PROVE  run' # "pass" => AgeOK'
  BY <1>0, <1>3 DEF AgeOK
<1>4. ASSUME NEW e \in Entries, Post(e) \/ SkipOrphan(e) \/ Take(e)
      PROVE  AgeOK'
  BY <1>2, <1>4 DEF Post, SkipOrphan, Take, workerVars
<1>5. ASSUME NEW h \in Handlers, SyncEnds(h)
      PROVE  AgeOK'
  <2>1. trail'.streak = trail.streak /\ trail'.age = trail.age
    BY <1>5 DEF SyncEnds, RoundsTypes, Trails
  <2> QED
    BY <1>1, <1>5, <2>1 DEF SyncEnds, workerVars
<1>6. CASE Delivered \/ Failed \/ FailedForGood
  <2>1. trail'.streak = trail.streak /\ trail'.age = trail.age
    BY <1>6 DEF Delivered, Failed, FailedForGood, RoundsTypes, Trails
  <2> QED
    BY <1>1, <1>6, <2>1 DEF Delivered, Failed, FailedForGood
<1>7. CASE BeginReplay \/ EndReplay \/ Crash
  <2>1. trail'.streak = 0
    BY <1>7 DEF BeginReplay, EndReplay, Crash, PaceOK, RoundsTypes, Trails
  <2>2. run' # "pass"
    BY <1>7 DEF BeginReplay, EndReplay, Crash
  <2> QED
    BY <1>3, <2>1, <2>2
<1>8. CASE Tick
  <2>1. UNCHANGED trail /\ run = "wait" /\ run' = "pass" /\ ticker.left <= 0
    BY <1>8 DEF Tick
  <2>2. CASE trail.age >= Spread
    BY <2>1, <2>2 DEF AgeOK
  <2>3. CASE trail.streak < PermanentLimit /\ trail.streak > 0 /\ ~(trail.age >= Spread)
    <3>1. trail.age + ticker.left >= Climb[trail.streak + 1]
      BY <2>1, <2>3 DEF AgeOK
    <3>2. Climb[trail.streak + 1] \in Nat
      BY <1>0, <2>3
    <3> QED
      BY <1>0, <2>1, <2>3, <3>1, <3>2 DEF AgeOK
  <2>4. CASE trail.streak = 0
    <3>1. Climb[trail.streak + 1] = 0
      BY <2>4, ClimbAssumption
    <3> QED
      BY <1>0, <2>1, <2>4, <3>1 DEF AgeOK
  <2> QED
    BY <1>0, <2>2, <2>3, <2>4 DEF AgeOK
<1>9. CASE EndPass
  <2>1. run = "pass" /\ run' = "tidy" /\ ticker' = NextTicker
    BY <1>9 DEF EndPass
  <2>2. CASE ~Stalled
    <3>1. trail'.streak = 0
      BY <1>9, <2>2 DEF EndPass, Outage, RoundsTypes, Trails
    <3> QED
      BY <1>3, <2>1, <3>1
  <2>3. CASE Stalled
    <3> DEFINE s == trail.streak
    <3>1. trail'.streak = AtMost(s + 1, Len(Ladder)) /\ trail'.age = trail.age
      BY <1>9, <2>3 DEF EndPass, Outage, RoundsTypes, Trails
    <3>2. CASE trail.age >= Spread
      BY <3>1, <3>2 DEF AgeOK
    <3>3. CASE ~(trail.age >= Spread)
      <4>1. s < PermanentLimit /\ trail.age >= Climb[s + 1]
        BY <2>1, <3>3 DEF AgeOK
      <4>2. s + 1 < PermanentLimit
        <5>1. s + 1 # PermanentLimit
          BY <1>0, <3>3, <4>1 DEF Spread
        <5> QED
          BY <1>0, <4>1, <5>1
      <4>3. trail'.streak = s + 1
        BY <1>0, <3>1, <4>2 DEF AtMost
      <4>4. Wanted = Ladder[s + 1]
        BY <1>0, <2>3, <4>2 DEF Wanted, Rung, PaceOK, AtMost
      <4>5. ticker.period # Ladder[s + 1]
        <5>1. CASE s = 0
          BY <5>1, PaceAssumption DEF PaceOK
        <5>2. CASE s # 0
          <6>1. s \in DOMAIN Ladder /\ s + 1 \in DOMAIN Ladder /\ s < s + 1
            <7>1. DOMAIN Ladder = 1 .. Len(Ladder)
              BY PaceAssumption
            <7> QED
              BY <1>0, <4>2, <5>2, <7>1
          <6>2. Ladder[s] < Ladder[s + 1]
            BY <6>1, PaceAssumption
          <6>3. ticker.period = Ladder[s]
            BY <5>2 DEF PaceOK
          <6> QED
            BY <1>0, <4>2, <5>2, <6>2, <6>3
        <5> QED
          BY <5>1, <5>2
      <4>6. ticker'.left = Ladder[s + 1]
        BY <2>1, <4>4, <4>5 DEF NextTicker, Ticker
      <4>7. Climb[s + 2] = Climb[s + 1] + Ladder[s + 1]
        <5>1. s + 2 \in 2 .. PermanentLimit /\ (s + 2) - 1 = s + 1
          BY <1>0, <4>2
        <5> QED
          BY <5>1, ClimbAssumption
      <4>8. trail'.age + ticker'.left >= Climb[s + 2]
        <5>1. Climb[s + 1] \in Nat /\ Ladder[s + 1] \in Nat
          BY <1>0, <4>2
        <5> QED
          BY <1>0, <3>1, <4>1, <4>6, <4>7, <5>1
      <4>9. (s + 1) + 1 = s + 2
        BY <1>0
      <4> QED
        BY <2>1, <4>2, <4>3, <4>8, <4>9 DEF AgeOK
    <3> QED
      BY <3>2, <3>3
  <2> QED
    BY <2>2, <2>3
<1>10. CASE Tidy
  <2>1. trail'.streak = trail.streak /\ trail'.age = trail.age
    BY <1>10 DEF Tidy, RoundsTypes, Trails
  <2>2. run = "tidy" /\ run' = "wait" /\ UNCHANGED ticker
    BY <1>10 DEF Tidy
  <2> QED
    BY <2>1, <2>2 DEF AgeOK
<1>11. CASE Pass
  <2>1. trail'.streak = trail.streak /\ UNCHANGED run
    BY <1>11 DEF Pass, RoundsTypes, Trails
  <2>2. run \in {"pass", "wait"} => ticker'.left = ticker.left - 1
    BY <1>0, <1>11 DEF Pass
  <2>3. trail'.age = IF trail.streak > 0 THEN AtMost(trail.age + 1, Spread) ELSE trail.age
    BY <1>11 DEF Pass, RoundsTypes, Trails
  <2>4. run # "tidy"
    BY <1>11 DEF Pass
  <2>5. CASE trail.age >= Spread
    BY <1>0, <2>3, <2>5 DEF AgeOK, AtMost
  <2>6. CASE trail'.age >= Spread
    BY <2>6 DEF AgeOK
  <2>7. CASE ~(trail.age >= Spread) /\ ~(trail'.age >= Spread)
    <3>1. trail'.age = IF trail.streak > 0 THEN trail.age + 1 ELSE trail.age
      BY <1>0, <2>3, <2>7 DEF AtMost
    <3>2. trail.streak < PermanentLimit /\ Climb[trail.streak + 1] \in Nat
      BY <1>0, <2>7 DEF AgeOK
    <3>3. run = "pass" => trail'.age >= Climb[trail.streak + 1]
      BY <1>0, <2>7, <3>1, <3>2 DEF AgeOK
    <3>4. run = "wait" /\ trail.streak > 0
          => trail'.age + ticker'.left >= Climb[trail.streak + 1]
      BY <1>0, <2>2, <2>7, <3>1, <3>2 DEF AgeOK
    <3> QED
      BY <2>1, <2>4, <3>2, <3>3, <3>4 DEF AgeOK
  <2> QED
    BY <2>5, <2>6, <2>7
<1> QED
  BY <1>2, <1>4, <1>5, <1>6, <1>7, <1>8, <1>9, <1>10, <1>11
  DEF Next, TokenStep, WorkerStep, vars, workerVars

\* The invariant, whole.
LEMMA Invariant == Spec => []IInv
<1>1. Init => IInv
  BY InitInv
<1>2. IInv /\ [Next]_vars => IInv'
  BY TokenInvKept, TypesKept, JobKept, CauseKept, PaceKept, DoneKept, AlarmKept,
     StrikesKept, AgeKept DEF IInv
<1> QED
  BY <1>1, <1>2, PTL DEF Spec

-----------------------------------------------------------------------------
\* TypeOK of Rounds: the shape of the state, with those in the token's lock
\* exactly those who want it and the worker at a call exactly when at an entry.
THEOREM RoundsTyped == Spec => []TypeOK
<1>1. IInv => TypeOK
  BY DEF IInv, TokenInv, QueueOK, Among, RoundsTypes, PassRecs, JobOK, TypeOK
<1> QED
  BY <1>1, Invariant, PTL

\* SetAsideForCause: an entry Google would take is never set aside because a
\* token ran out on the way, nor one whose source has no profile.
THEOREM SetAsideOnlyForCause == Spec => []SetAsideForCause
<1>1. IInv => SetAsideForCause
  BY EntriesAssumption DEF IInv, CauseOK, SetAsideForCause
<1> QED
  BY <1>1, Invariant, PTL

\* OutagePaced: the worker waits the rung of the ladder its outage is on.
THEOREM PacedByOutage == Spec => []OutagePaced
<1>1. IInv => OutagePaced
  BY DEF IInv, PaceOK, OutagePaced
<1> QED
  BY <1>1, Invariant, PTL

\* DoneIsCompacted: what the worker marked done waits for a compaction no longer
\* than the threshold says, unless the last one failed.
THEOREM CompactedInTime == Spec => []DoneIsCompacted
<1>1. IInv => DoneIsCompacted
  <2> SUFFICES ASSUME IInv, run = "wait"
               PROVE  \/ trail.untidy /\ since = CompactAfter
                      \/ since < CompactAfter /\ Cardinality(Own) <= since
    BY DEF DoneIsCompacted, Own
  <2>1. pass.delivered = 0 /\ since \in 0 .. CompactAfter /\ DoneOK
    BY DEF IInv, DoneOK, Passing, RoundsTypes
  <2> QED
    BY <2>1, LimitsAssumption DEF DoneOK
<1> QED
  BY <1>1, Invariant, PTL

\* RefreshesApart: a token is replaced only when it is about to run out, so of
\* the callers that find it old at once only the first fetches.
THEOREM FetchedOneAtATime == Spec => RefreshesApart
<1> DEFINE Apart == token # NoToken /\ token' # NoToken /\ token'.left > token.left
                    => token.left <= Margin
<1>1. IInv /\ [Next]_vars => [Apart]_vars
  <2> SUFFICES ASSUME IInv, [Next]_vars, token # NoToken, token' # NoToken,
                      token'.left > token.left
               PROVE  token.left <= Margin
    OBVIOUS
  <2>0. token \in [left : Nat, lasts : Nat] /\ Margin \in Nat
    BY TimesAssumption DEF IInv, TokenInv, TokenTypeOK
  <2>1. UNCHANGED token => FALSE
    BY <2>0
  <2>2. TokenNext
    BY <2>1, NextIsTokens DEF tokenVars
  <2>3. CASE TokenTick
    BY <2>0, <2>3 DEF TokenTick, Less
  <2>4. ASSUME NEW c \in Callers, NEW life \in Lives, Fetched(c, life)
        PROVE  token.left <= Margin
    <3>1. ~Fresh
      BY <2>4 DEF Fetched, IInv, TokenInv, RequestsOK
    <3> QED
      BY <2>0, <3>1 DEF Fresh
  <2>5. \/ TokenTick \/ token' = NoToken \/ UNCHANGED token
        \/ \E c \in Callers, life \in Lives : Fetched(c, life)
    BY <2>2
    DEF TokenNext, Ask, Reuse, Refresh, Answered, Pause, Resume, GiveUp, Rejected, HangUp,
        BootAsks, BootSleeps, BootWakes, Boot, Die, AccountChanges
  <2> QED
    BY <2>1, <2>3, <2>4, <2>5
<1> QED
  BY <1>1, Invariant, PTL DEF Spec, RefreshesApart

\* AlarmOncePerOutage: the filling journal is reported by the first pass of an
\* outage that finds it so and by no other, and every outage is reported anew.
THEOREM AlarmedOnce == Spec => AlarmOncePerOutage
<1> DEFINE Reported == run = "pass" /\ run' = "tidy" =>
                      /\ Reports => ~trail.alarmed
                      /\ Stalled /\ Lines >= WarnLines => trail'.alarmed
<1>1. IInv /\ [Next]_vars => [Reported]_vars
  <2> SUFFICES ASSUME IInv, [Next]_vars, run = "pass", run' = "tidy"
               PROVE  /\ Reports => ~trail.alarmed
                      /\ Stalled /\ Lines >= WarnLines => trail'.alarmed
    OBVIOUS
  <2>1. EndPass
    BY DEF Next, TokenStep, WorkerStep, vars, workerVars, Post, SyncEnds, BeginReplay,
           EndReplay, Tick, SkipOrphan, Take, Delivered, Failed, FailedForGood, Tidy, Crash,
           Pass
  <2>2. Reports => ~trail.alarmed
    BY DEF IInv, AlarmOK, Reports
  <2>3. ASSUME Stalled, Lines >= WarnLines
        PROVE  trail'.alarmed
    <3>1. trail'.alarmed <=> trail.alarmed \/ Reports
      BY <2>1, <2>3 DEF EndPass, Outage, IInv, RoundsTypes, Trails
    <3>2. pass.delivered = 0
      BY <2>3 DEF Stalled
    <3>3. pace.reported <=> trail.alarmed
      BY <3>2 DEF IInv, AlarmOK
    <3> QED
      BY <2>3, <3>1, <3>3 DEF Reports
  <2> QED
    BY <2>2, <2>3
<1> QED
  BY <1>1, Invariant, PTL DEF Spec, AlarmOncePerOutage

\* SetAsideSlowly: an entry refused in pass after pass of one outage is set aside
\* only when the waits between those passes, the first rungs of the ladder, are
\* over.
THEOREM SetAsideOverTheLadder == Spec => SetAsideSlowly
<1> DEFINE Slowly == \A e \in Entries :
                       entry[e] # "dead" /\ entry'[e] = "dead"
                       => e \in trail.mixed \/ trail.age >= Spread
<1>1. IInv /\ [Next]_vars => [Slowly]_vars
  <2> SUFFICES ASSUME IInv, [Next]_vars, NEW e \in Entries,
                      entry[e] # "dead", entry'[e] = "dead", e \notin trail.mixed
               PROVE  trail.age >= Spread
    OBVIOUS
  <2>1. run = "pass" /\ e = pass.job /\ Strikes(e) >= PermanentLimit
    BY OnlyJobDies DEF IInv
  <2>2. perm[e] <= trail.streak
    BY <2>1 DEF IInv, StrikesOK, AtHand
  <2>3. /\ perm[e] \in Nat /\ trail.streak \in Nat /\ PermanentLimit \in Nat
        /\ trail.age \in Nat
    BY LimitsAssumption, PaceAssumption, SpreadNat DEF IInv, RoundsTypes, Trails
  <2>4. trail.streak + 1 >= PermanentLimit
    BY <2>1, <2>2, <2>3 DEF Strikes, AtMost
  <2>5. CASE trail.streak < PermanentLimit /\ trail.age >= Climb[trail.streak + 1]
    <3>1. trail.streak + 1 = PermanentLimit
      BY <2>3, <2>4, <2>5
    <3> QED
      BY <2>5, <3>1 DEF Spread
  <2> QED
    BY <2>1, <2>5 DEF IInv, AgeOK
<1> QED
  BY <1>1, Invariant, PTL DEF Spec, SetAsideSlowly
=============================================================================
