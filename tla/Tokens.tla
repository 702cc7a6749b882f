------------------------------- MODULE Tokens -------------------------------
(***************************************************************************)
(* Google's access token and those who need it: the token manager with its *)
(* lock (shell/auth.rs), the retries inside one call to Google             *)
(* (send_with_retry in shell/calendar_client.rs) and the start-up loop     *)
(* that waits for the first token (main.rs).                               *)
(*                                                                         *)
(* Time passes in Tick, and only requests and pauses take any: what a task *)
(* does between two awaits takes none.  Timers count down and ages count   *)
(* up, so that no clock has to be bounded.  Module Rounds adds the worker. *)
(***************************************************************************)
EXTENDS Integers, Sequences

CONSTANTS
  Starter,     \* the task of main's start-up loop
  Worker,      \* the delivery worker
  Handlers,    \* synchronous posts
  NoToken,     \* nothing cached
  Margin,      \* REFRESH_MARGIN_SECS
  Lives,       \* the lifetimes Google gives its tokens
  InCall,      \* in_call_backoff's max_elapsed_time
  StartWaits,  \* STARTUP_RETRY_WAITS
  MaxCall      \* bound on how long Google lets one request wait

Callers == {Starter, Worker} \union Handlers

ASSUME CallersAssumption ==
  Starter # Worker /\ Handlers \intersect {Starter, Worker} = {}
ASSUME TimesAssumption ==
  /\ Margin \in Nat /\ InCall \in Nat /\ MaxCall \in Nat
  /\ StartWaits \in Seq(Nat) /\ StartWaits # <<>>
ASSUME LivesAssumption ==  \* an hour, against minutes
  Lives \subseteq Nat /\ \A life \in Lives : life > Margin + MaxCall
ASSUME NoTokenAssumption == NoToken \notin [left : Nat, lasts : Nat]

VARIABLES
  token,    \* TokenManager.state: how long the token is good for by our
            \* reckoning, and by Google's
  queue,    \* the lock of TokenManager.state; the head holds it
  call,     \* where each caller is
  boot,     \* main's start-up loop; "off" when there is no process
  account   \* whether Google lets the service account in

tokenVars == <<token, queue, call, boot, account>>

-----------------------------------------------------------------------------
AtMost(n, bound) == IF n < bound THEN n ELSE bound
Less(n) == IF n > 0 THEN n - 1 ELSE 0

Idle == [pc |-> "idle", age |-> 0, sent |-> 0, lasts |-> 0]

TokenInit ==
  /\ token = NoToken
  /\ queue = <<>>
  /\ call = [c \in Callers |-> Idle]
  /\ boot = [pc |-> "off", tries |-> 0, left |-> 0]
  /\ account \in BOOLEAN

\* A task runs its call, or waits for a token at start.
Ask(c) ==
  /\ call[c].pc = "idle"
  /\ queue' = Append(queue, c)
  /\ call' = [call EXCEPT ![c] = [Idle EXCEPT !.pc = "queued"]]

Fresh == token # NoToken /\ token.left > Margin

\* Mutant: a token is looked at and fetched without the lock.
HoldsNoLock(c) == \E i \in DOMAIN queue : queue[i] = c

HoldsLock(c) == queue # <<>> /\ Head(queue) = c

\* The queue without c, who is in it once.
Leave(c) ==
  LET at == {i \in DOMAIN queue : queue[i] = c} IN
  IF at = {} THEN queue
  ELSE LET k == CHOOSE i \in at : TRUE
       IN [i \in 1 .. Len(queue) - 1 |-> queue[IF i < k THEN i ELSE i + 1]]

\* token() has answered.  The start-up loop wanted nothing more; the others
\* send their request.
Granted(c, lasts) ==
  /\ queue' = Leave(c)
  /\ call' = [call EXCEPT ![c] =
       IF c = Starter THEN Idle
       ELSE [@ EXCEPT !.pc = "calling", !.sent = 0, !.lasts = lasts]]
  /\ boot' = IF c = Starter THEN [boot EXCEPT !.pc = "done"] ELSE boot

Reuse(c) ==
  /\ HoldsLock(c) /\ call[c].pc = "queued"
  /\ Fresh
  /\ Granted(c, token.lasts)
  /\ UNCHANGED <<token, account>>

Refresh(c) ==
  /\ HoldsLock(c) /\ call[c].pc = "queued"
  /\ ~Fresh
  /\ call' = [call EXCEPT ![c].pc = "fetching", ![c].sent = 0]
  /\ UNCHANGED <<token, queue, boot, account>>

\* Mutant: the lifetime is counted from the answer.
FetchedFromAnswer(c, life) ==
  /\ call[c].pc = "fetching" /\ account
  /\ token' = [left |-> life, lasts |-> life - call[c].sent]
  /\ Granted(c, life - call[c].sent)
  /\ UNCHANGED account

\* fetch_token counts the lifetime from before its request; Google counts from
\* some moment between the request and the answer, at worst the first.
Fetched(c, life) ==
  /\ call[c].pc = "fetching" /\ account
  /\ token' = [left |-> life - call[c].sent, lasts |-> life - call[c].sent]
  /\ Granted(c, life - call[c].sent)
  /\ UNCHANGED account

-----------------------------------------------------------------------------
\* How an attempt ends.  Each of these releases the lock if c had it.

Ended(c, next) ==
  /\ queue' = Leave(c)
  /\ call' = [call EXCEPT ![c] = next]

Attempting(c) == call[c].pc \in {"fetching", "calling"}

Answered(c) ==
  /\ call[c].pc = "calling"
  /\ Ended(c, Idle)
  /\ UNCHANGED <<token, boot, account>>

\* A transient failure, of the token endpoint or of the calendar: the call
\* pauses and starts over with token(), as long as its time lasts.
Pause(c) ==
  /\ Attempting(c) /\ c # Starter
  /\ call[c].age <= InCall
  /\ Ended(c, [Idle EXCEPT !.pc = "pausing", !.age = call[c].age])
  /\ UNCHANGED <<token, boot, account>>

Resume(c) ==
  /\ call[c].pc = "pausing"
  /\ queue' = Append(queue, c)
  /\ call' = [call EXCEPT ![c].pc = "queued"]
  /\ UNCHANGED <<token, boot, account>>

GiveUp(c) ==
  /\ Attempting(c) /\ c # Starter
  /\ call[c].age >= InCall
  /\ Ended(c, Idle)
  /\ UNCHANGED <<token, boot, account>>

\* Google's answer to a token that has run out, or to an account it does not
\* let in, is not one is_transient lets pass.  The cached token stays.
Rejected(c) ==
  /\ c # Starter
  /\ \/ call[c].pc = "calling" /\ (call[c].lasts = 0 \/ ~account)
     \/ call[c].pc = "fetching" /\ ~account
  /\ Ended(c, Idle)
  /\ UNCHANGED <<token, boot, account>>

\* Mutant: a handler that is dropped stays in the queue.
HangUpInQueue(h) ==
  /\ call[h].pc # "idle"
  /\ call' = [call EXCEPT ![h] = Idle]
  /\ UNCHANGED <<token, queue, boot, account>>

\* A client that hangs up takes its handler with it, wherever it is.
HangUp(h) ==
  /\ call[h].pc # "idle"
  /\ Ended(h, Idle)
  /\ UNCHANGED <<token, boot, account>>

-----------------------------------------------------------------------------
\* The start-up loop of main's on_start

BootAsks ==
  /\ boot.pc = "ask"
  /\ Ask(Starter)
  /\ boot' = [boot EXCEPT !.pc = "wait"]
  /\ UNCHANGED <<token, account>>

BootSleeps ==
  /\ call[Starter].pc = "fetching"
  /\ Ended(Starter, Idle)
  /\ boot' = [pc    |-> "sleep",
              tries |-> AtMost(boot.tries + 1, Len(StartWaits)),
              left  |-> StartWaits[AtMost(boot.tries + 1, Len(StartWaits))]]
  /\ UNCHANGED <<token, account>>

BootWakes ==
  /\ boot.pc = "sleep" /\ boot.left = 0
  /\ boot' = [boot EXCEPT !.pc = "ask"]
  /\ UNCHANGED <<token, queue, call, account>>

\* A new process, and the end of one: a crash, a stop, or exit(1) when the
\* token endpoint refuses the credentials at start.
Boot ==
  /\ boot.pc = "off"
  /\ boot' = [boot EXCEPT !.pc = "ask"]
  /\ UNCHANGED <<token, queue, call, account>>

Die ==
  /\ boot.pc # "off"
  /\ token' = NoToken
  /\ queue' = <<>>
  /\ call' = [c \in Callers |-> Idle]
  /\ boot' = [pc |-> "off", tries |-> 0, left |-> 0]
  /\ UNCHANGED account

\* The key is revoked, or permission given back.
AccountChanges ==
  /\ account' = ~account
  /\ UNCHANGED <<token, queue, call, boot>>

-----------------------------------------------------------------------------
\* Nothing is to be done before time can pass.
Still ==
  /\ boot.pc # "ask"
  /\ ~(boot.pc = "sleep" /\ boot.left = 0)
  /\ \A c \in Callers :
       /\ ~(HoldsLock(c) /\ call[c].pc = "queued")
       /\ Attempting(c) => call[c].sent < MaxCall
       /\ call[c].pc = "pausing" => call[c].age < InCall

Older(r) ==
  IF r.pc = "idle" THEN r
  ELSE [r EXCEPT
          !.age   = AtMost(@ + 1, InCall + 1),
          !.sent  = IF r.pc \in {"fetching", "calling"} THEN @ + 1 ELSE @,
          !.lasts = Less(@)]

TokenTick ==
  /\ Still
  /\ token' = IF token = NoToken THEN NoToken
              ELSE [left |-> Less(token.left), lasts |-> Less(token.lasts)]
  /\ call' = [c \in Callers |-> Older(call[c])]
  /\ boot' = [boot EXCEPT !.left = Less(@)]
  /\ UNCHANGED <<queue, account>>

-----------------------------------------------------------------------------
CallRecs ==
  [pc : {"idle", "queued", "fetching", "calling", "pausing"},
   age : 0 .. InCall + 1, sent : 0 .. MaxCall, lasts : Nat]

TokenTypeOK ==
  /\ token = NoToken \/ token \in [left : Nat, lasts : Nat]
  /\ queue \in Seq(Callers)
  /\ call \in [Callers -> CallRecs]
  /\ boot \in [pc : {"off", "ask", "wait", "sleep", "done"},
               tries : 0 .. Len(StartWaits), left : Nat]
  /\ account \in BOOLEAN
=============================================================================
