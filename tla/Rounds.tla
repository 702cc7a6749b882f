------------------------------- MODULE Rounds -------------------------------
(***************************************************************************)
(* The rounds of the delivery worker in time: its passes over the pending  *)
(* entries, the pace it falls into when nothing gets through, the alarm    *)
(* about a filling journal, the entries it sets aside and the compactions  *)
(* it owes, with synchronous posts delivering beside it on the same token  *)
(* (shell/worker.rs, core/pacing.rs).                                      *)
(*                                                                         *)
(* A delivery is one call to Google here; its lookup, write and key lock,  *)
(* and the order of entries, are module Hub's subject.                     *)
(***************************************************************************)
EXTENDS Tokens, FiniteSets

CONSTANTS
  Entries,         \* what is posted; a handler is the entry it posted
  Bad,             \* entries Google refuses whatever the token
  Orphans,         \* entries whose source has no profile any more
  NoEntry,         \* the worker is not at an entry
  Poll,            \* POLL_INTERVAL_SECS
  Ladder,          \* FAILURE_BACKOFF_SECS
  PermanentLimit,  \* PERMANENT_FAILURES_BEFORE_DEAD
  CompactAfter,    \* COMPACT_AFTER_DELIVERIES
  Climb,           \* the waits between the first n refusals in a row, at n
  WarnLines,       \* JOURNAL_WARN_FRACTION of the cap, in lines
  MaxDebt          \* bound on how far a pass overruns the ticker

ASSUME EntriesAssumption ==
  /\ IsFiniteSet(Entries) /\ NoEntry \notin Entries
  /\ Handlers \subseteq Entries
  /\ Bad \subseteq Entries \ Handlers /\ Orphans \subseteq Entries \ Handlers
ASSUME PaceAssumption ==
  /\ Poll \in Nat \ {0} /\ MaxDebt \in Nat
  /\ Ladder \in Seq(Nat) /\ Ladder # <<>> /\ Ladder[1] > Poll
  /\ \A i, j \in DOMAIN Ladder : i < j => Ladder[i] < Ladder[j]
ASSUME LimitsAssumption ==
  /\ PermanentLimit \in Nat \ {0} /\ PermanentLimit <= Len(Ladder)
  /\ CompactAfter \in Nat \ {0} /\ WarnLines \in Nat
ASSUME ClimbAssumption ==
  /\ Climb \in Seq(Nat) /\ Len(Climb) = PermanentLimit
  /\ Climb[1] = 0
  /\ \A n \in 2 .. PermanentLimit : Climb[n] = Climb[n - 1] + Ladder[n - 1]

\* The waits of the rungs before an entry is set aside.
Spread == Climb[PermanentLimit]

VARIABLES
  entry,   \* what the journal says of each entry
  run,     \* where worker::run is
  pass,    \* the pass under way: snapshot, entry at hand, DrainOutcome
  ticker,  \* the interval: its period and the time to the next tick
  pace,    \* pacing::Worker
  perm,    \* PermanentFailures
  since,   \* since_compaction, counted up to CompactAfter
  trail    \* what happened, for the properties

workerVars == <<run, pass, ticker, pace, perm, since>>
vars == <<tokenVars, entry, workerVars, trail>>

-----------------------------------------------------------------------------
NoPass == [todo |-> {}, job |-> NoEntry, delivered |-> 0, failing |-> FALSE]
NoPace == [fails |-> 0, reported |-> FALSE]
NoStrikes == [e \in Entries |-> 0]
Ticker(period, left) == [period |-> period, left |-> left]

In(status) == {e \in Entries : entry[e] = status}

\* The journal's lines: entries, and a marker for each that is settled.
Lines ==
  Cardinality(In("pending")) + 2 * Cardinality(In("done") \union In("dead"))

Init ==
  /\ TokenInit
  /\ entry = [e \in Entries |-> "new"]
  /\ run = "off"
  /\ pass = NoPass /\ ticker = Ticker(Poll, 0)
  /\ pace = NoPace /\ perm = NoStrikes /\ since = 0
  /\ trail = [extra |-> {}, mixed |-> {}, streak |-> 0, age |-> 0, alarmed |-> FALSE,
              untidy |-> FALSE, unfair |-> {}]

-----------------------------------------------------------------------------
\* Posts.  An asynchronous one ends in the journal, a synchronous one goes on
\* to deliver its entry itself; whatever fails leaves it to the worker.

Post(e) ==
  /\ boot.pc # "off"
  /\ entry[e] = "new"
  /\ entry' = [entry EXCEPT ![e] = "pending"]
  /\ IF e \in Handlers THEN Ask(e) /\ UNCHANGED <<token, boot, account>>
     ELSE UNCHANGED tokenVars
  /\ UNCHANGED <<workerVars, trail>>

\* mark_done or mark_dead writes its line, or fails.
Marked(e, status) ==
  \/ UNCHANGED entry
  \/ /\ entry[e] = "pending"
     /\ entry' = [entry EXCEPT ![e] = status]

\* The refusal of a token that is nobody's mistake: Google lets the account in
\* no more, or the request was under way for longer than the margin.
Excused(c) == ~account \/ call[c].sent > Margin

SyncEnds(h) ==
  \/ /\ Answered(h)
     /\ Marked(h, "done")
     /\ trail' = [trail EXCEPT !.extra = IF entry'[h] = "done" THEN @ \union {h} ELSE @]
     /\ UNCHANGED workerVars
  \/ (GiveUp(h) \/ Rejected(h) \/ HangUp(h)) /\ UNCHANGED <<entry, workerVars, trail>>

-----------------------------------------------------------------------------
\* drain_once_tracking

\* The pending entries; a journal that cannot be read is a failure.
Drain ==
  \/ pass' = [NoPass EXCEPT !.todo = In("pending")]
  \/ pass' = [NoPass EXCEPT !.failing = TRUE]

Passing == run \in {"replay", "pass"}

SkipOrphan(e) ==
  /\ Passing /\ pass.job = NoEntry
  /\ e \in pass.todo \intersect Orphans
  /\ pass' = [pass EXCEPT !.todo = @ \ {e}, !.failing = TRUE]
  /\ UNCHANGED <<tokenVars, entry, run, ticker, pace, perm, since, trail>>

Take(e) ==
  /\ Passing /\ pass.job = NoEntry
  /\ e \in pass.todo \ Orphans
  /\ pass' = [pass EXCEPT !.todo = @ \ {e}, !.job = e]
  /\ Ask(Worker)
  /\ UNCHANGED <<token, boot, account, entry, run, ticker, pace, perm, since, trail>>

Delivered ==
  /\ pass.job \notin Bad
  /\ Answered(Worker)
  /\ Marked(pass.job, "done")
  /\ pass' = [pass EXCEPT !.job = NoEntry, !.delivered = @ + 1]
  /\ trail' = [trail EXCEPT !.alarmed = FALSE]
  /\ UNCHANGED <<run, ticker, pace, perm, since>>

Failed ==
  /\ GiveUp(Worker)
  /\ pass' = [pass EXCEPT !.job = NoEntry, !.failing = TRUE]
  /\ IF run = "pass"
     THEN /\ perm' = [perm EXCEPT ![pass.job] = 0]
          /\ trail' = [trail EXCEPT !.mixed = @ \ {pass.job}]
     ELSE UNCHANGED <<perm, trail>>
  /\ UNCHANGED <<entry, run, ticker, pace, since>>

\* Mutant: the count starts at one.
StrikesTooMany(e) == perm[e] + 2

Strikes(e) == AtMost(perm[e] + 1, PermanentLimit)

\* The refusal of an event, or of the token it came with.
Refused ==
  \/ Rejected(Worker)
  \/ /\ pass.job \in Bad
     /\ Answered(Worker)

\* A permanent failure.  The replay counts in a map it throws away.
FailedForGood ==
  /\ Refused
  /\ LET e == pass.job IN
     \/ /\ run = "replay"
        /\ UNCHANGED <<entry, perm>>
     \/ /\ run = "pass" /\ Strikes(e) < PermanentLimit
        /\ perm' = [perm EXCEPT ![e] = Strikes(e)]
        /\ UNCHANGED entry
     \/ /\ run = "pass" /\ Strikes(e) >= PermanentLimit
        /\ \/ /\ Marked(e, "dead")
              /\ perm' = [perm EXCEPT ![e] = 0]
           \/ /\ perm' = [perm EXCEPT ![e] = PermanentLimit]
              /\ UNCHANGED entry
  /\ pass' = [pass EXCEPT !.job = NoEntry, !.failing = TRUE]
  /\ trail' = [trail EXCEPT
       !.unfair = IF pass.job \in Bad \/ Excused(Worker) THEN @
                  ELSE @ \union {pass.job},
       !.mixed = IF entry'[pass.job] = "dead" THEN @ \ {pass.job} ELSE @]
  /\ UNCHANGED <<run, ticker, pace, since>>

PassOver == Passing /\ pass.job = NoEntry /\ pass.todo = {}

-----------------------------------------------------------------------------
\* worker::run

\* Spawned once the start-up loop has a token.
BeginReplay ==
  /\ boot.pc = "done" /\ run = "off"
  /\ run' = "replay"
  /\ Drain
  /\ UNCHANGED <<tokenVars, entry, ticker, pace, perm, since, trail>>

\* The interval's first tick fires at once.
EndReplay ==
  /\ run = "replay" /\ PassOver
  /\ run' = "wait"
  /\ since' = AtMost(pass.delivered, CompactAfter)
  /\ pass' = NoPass
  /\ ticker' = Ticker(Poll, 0)
  /\ trail' = [trail EXCEPT !.untidy = pass.delivered >= CompactAfter]
  /\ UNCHANGED <<tokenVars, entry, pace, perm>>

\* A tick is due a period after the one before was due, late or not.
Tick ==
  /\ run = "wait" /\ ticker.left <= 0
  /\ run' = "pass"
  /\ ticker' = [ticker EXCEPT !.left = @ + ticker.period]
  /\ Drain
  /\ UNCHANGED <<tokenVars, entry, pace, perm, since, trail>>

Stalled == pass.failing /\ pass.delivered = 0

Rung == Ladder[AtMost(pace.fails + 1, Len(Ladder))]
Wanted == IF Stalled THEN Rung ELSE Poll

\* Mutant: the report is made once and for all.
AfterReporting(reports) ==
  IF Stalled
  THEN [fails    |-> AtMost(pace.fails + 1, Len(Ladder)),
        reported |-> pace.reported \/ reports]
  ELSE [pace EXCEPT !.fails = 0]

\* pacing::Worker::after.  Failures count up to where the ladder ends.
After(reports) ==
  IF Stalled
  THEN [fails    |-> AtMost(pace.fails + 1, Len(Ladder)),
        reported |-> pace.reported \/ reports]
  ELSE NoPace

\* Mutant: the interval in use is kept.
SameTicker == ticker

\* Another period starts another interval, whose first tick is used up.
NextTicker ==
  IF ticker.period = Wanted THEN ticker ELSE Ticker(Wanted, Wanted)

\* An outage, to the properties, is a run of passes that got nothing through.
Outage(reports) ==
  IF Stalled
  THEN [trail EXCEPT !.streak = AtMost(@ + 1, Len(Ladder)),
                     !.alarmed = @ \/ reports]
  ELSE [trail EXCEPT !.streak = 0, !.age = 0, !.alarmed = FALSE,
                     !.mixed = {e \in Entries : perm[e] > 0}]

\* The backlog is reported: deliveries stand still, the journal is filling and
\* this outage has not been reported yet.
Reports == Stalled /\ Lines >= WarnLines /\ ~pace.reported

EndPass ==
  /\ run = "pass" /\ PassOver
  /\ run' = "tidy"
  /\ since' = AtMost(since + pass.delivered, CompactAfter)
  /\ pace' = After(Reports)
  /\ ticker' = NextTicker
  /\ pass' = NoPass
  /\ trail' = Outage(Reports)
  /\ UNCHANGED <<tokenVars, entry, perm>>

\* Mutant: the count starts again whether or not the compaction worked.
TidyForgetful ==
  /\ run = "tidy"
  /\ run' = "wait"
  /\ since' = IF since < CompactAfter THEN since ELSE 0
  /\ \/ since < CompactAfter /\ UNCHANGED <<entry, trail>>
     \/ /\ since >= CompactAfter
        /\ entry' = [e \in Entries |-> IF entry[e] = "done" THEN "gone" ELSE entry[e]]
        /\ trail' = [trail EXCEPT !.extra = {}, !.untidy = FALSE]
     \/ /\ since >= CompactAfter
        /\ trail' = [trail EXCEPT !.untidy = TRUE]
        /\ UNCHANGED entry
  /\ UNCHANGED <<tokenVars, pass, ticker, pace, perm>>

\* The compaction that is due drops what is done; one that fails is due again
\* after the next pass.
Tidy ==
  /\ run = "tidy"
  /\ run' = "wait"
  /\ \/ since < CompactAfter /\ UNCHANGED <<entry, since, trail>>
     \/ /\ since >= CompactAfter
        /\ entry' = [e \in Entries |-> IF entry[e] = "done" THEN "gone" ELSE entry[e]]
        /\ since' = 0
        /\ trail' = [trail EXCEPT !.extra = {}, !.untidy = FALSE]
     \/ /\ since >= CompactAfter
        /\ trail' = [trail EXCEPT !.untidy = TRUE]
        /\ UNCHANGED <<entry, since>>
  /\ UNCHANGED <<tokenVars, pass, ticker, pace, perm>>

\* The process ends, by exit(1) or in a crash; the next one starts from the
\* journal alone.
Crash ==
  /\ Die
  /\ run' = "off" /\ pass' = NoPass /\ ticker' = Ticker(Poll, 0)
  /\ pace' = NoPace /\ perm' = NoStrikes /\ since' = 0
  /\ trail' = [trail EXCEPT !.extra = @ \union In("done"), !.mixed = {}, !.streak = 0, !.age = 0,
                            !.alarmed = FALSE, !.untidy = FALSE]
  /\ UNCHANGED entry

\* Time passes when the worker, too, has nothing to do before.
Pass ==
  /\ TokenTick
  /\ ~(run = "off" /\ boot.pc = "done")
  /\ run # "tidy"
  /\ Passing => pass.job # NoEntry
  /\ run = "wait" => ticker.left > 0
  /\ ticker.left > -MaxDebt
  /\ ticker' = IF run \in {"pass", "wait"} THEN [ticker EXCEPT !.left = @ - 1]
               ELSE ticker
  /\ trail' = IF trail.streak > 0
              THEN [trail EXCEPT !.age = AtMost(@ + 1, Spread)] ELSE trail
  /\ UNCHANGED <<entry, run, pass, pace, perm, since>>

-----------------------------------------------------------------------------
TokenStep ==
  /\ \/ \E c \in Callers :
          \/ Reuse(c) \/ Refresh(c) \/ Pause(c) \/ Resume(c)
          \/ \E life \in Lives : Fetched(c, life)
     \/ BootAsks \/ BootSleeps \/ BootWakes \/ Boot \/ AccountChanges
  /\ UNCHANGED <<entry, workerVars, trail>>

WorkerStep ==
  \/ BeginReplay \/ EndReplay \/ Tick
  \/ \E e \in Entries : SkipOrphan(e) \/ Take(e)
  \/ Delivered \/ Failed \/ FailedForGood
  \/ EndPass \/ Tidy

Next ==
  \/ TokenStep
  \/ WorkerStep
  \/ \E e \in Entries : Post(e)
  \/ \E h \in Handlers : SyncEnds(h)
  \/ Crash
  \/ Pass

Spec == Init /\ [][Next]_vars
-----------------------------------------------------------------------------
\* Properties

Trails ==
  [extra : SUBSET Entries, mixed : SUBSET Entries, streak : 0 .. Len(Ladder), age : 0 .. Spread,
   alarmed : BOOLEAN, untidy : BOOLEAN, unfair : SUBSET Entries]

\* The shape of the state; in particular the worker is at a call exactly when it
\* is at an entry, those in the token's lock are those who want it, and no pass
\* outlives its process.
TypeOK ==
  /\ TokenTypeOK
  /\ entry \in [Entries -> {"new", "pending", "done", "gone", "dead"}]
  /\ run \in {"off", "replay", "pass", "tidy", "wait"}
  /\ pass \in [todo : SUBSET Entries, job : Entries \union {NoEntry},
               delivered : Nat, failing : BOOLEAN]
  /\ ticker \in [period : Nat, left : Int]
  /\ pace \in [fails : 0 .. Len(Ladder), reported : BOOLEAN]
  /\ perm \in [Entries -> 0 .. PermanentLimit]
  /\ since \in 0 .. CompactAfter
  /\ trail \in Trails
  /\ (call[Worker].pc # "idle") <=> (pass.job # NoEntry)
  /\ \A c \in Callers :
       (call[c].pc \in {"queued", "fetching"}) <=> (\E i \in DOMAIN queue : queue[i] = c)
  /\ pass.job # NoEntry => Passing
  /\ run # "off" => boot.pc = "done"

\* AR18: however many callers find the token old, one of them fetches the next
\* one; a token is replaced only when it is about to run out.
RefreshesApart ==
  [][token # NoToken /\ token' # NoToken /\ token'.left > token.left
     => token.left <= Margin]_vars

\* An entry that Google would take is set aside only for refusals that came
\* while the account was shut out, or to requests that had been under way for
\* longer than the margin which is there so that "a request in flight never
\* races the token dying"; an entry without a profile never is.
SetAsideForCause ==
  \A e \in Entries \ Bad :
    entry[e] = "dead" => e \notin trail.unfair \union Orphans

\* "Three passes spread over the backoff ladder": an entry refused in pass after
\* pass of one outage is not set aside before the waits of the first rungs are
\* over.  The promise is for outages only: after a refusal in a pass that got
\* something else through, the next pass is one Poll away.
SetAsideSlowly ==
  [][\A e \in Entries :
       entry[e] # "dead" /\ entry'[e] = "dead"
       => e \in trail.mixed \/ trail.age >= Spread]_vars

\* The pace is that of the outage: the worker polls after a pass that delivered
\* or had nothing to do, and waits one rung longer after each pass in a row
\* that got nothing through; the next tick is never further off than that.
OutagePaced ==
  run = "wait" =>
    /\ ticker.period = IF trail.streak = 0 THEN Poll ELSE Ladder[trail.streak]
    /\ ticker.left <= ticker.period

\* "It reports a backlog once per outage": in the first pass of an outage that
\* finds the journal filling, and not again before something got through.
AlarmOncePerOutage ==
  [][run = "pass" /\ run' = "tidy" =>
       /\ Reports => ~trail.alarmed
       /\ Stalled /\ Lines >= WarnLines => trail'.alarmed]_vars

\* Between passes the file holds fewer done entries than make a compaction due,
\* unless the last compaction failed or the replay alone delivered that many and
\* its first pass is to come; those that synchronous posts or an
\* earlier process marked do not count, and can be any number.
DoneIsCompacted ==
  run = "wait" =>
    \/ trail.untidy /\ since = CompactAfter
    \/ /\ since < CompactAfter
       /\ Cardinality(In("done") \ trail.extra) <= since
=============================================================================
