# Almanac, specified

TLA+ models of Almanac (`src/`, Rust): a hub that takes JSON posts from
sources, journals them, and keeps one event per thing on Google calendars.
Everything here is translated from the code; line numbers in `PROJECT.json`
(`map`) say which lines each definition stands for.

## 1. Inventory

Paths are below `src/src/`.

| Component | State | Operations | Correct means |
|---|---|---|---|
| Journal records (`core/journal.rs`) | none | `pending`, `dead` | what is neither done nor dead is replayed, in acceptance order |
| Journal on disk (`shell/journal.rs`, `shell/durability.rs`) | the file, its directory entry, `write_lock` | `accept`, `mark_done`, `mark_dead`, `pending`, `dead`, `compact` | nothing acknowledged is lost, nothing settled comes back, whatever crashes |
| Delivery (`shell/delivery.rs`, `core/upsert.rs`, `core/retry.rs`) | one lock per upsert key | `deliver` | one event per key; failures classified |
| Calendar client (`shell/calendar_client.rs`) | none | event and calendar calls, each retried for up to a minute | a retry repeats a request, never changes it |
| Ingest handlers (`shell/ingest.rs`) | `AppState`: profiles, locks, calendar memory | `ingest`, `ingest_sync`, `delete_event` | answered "accepted" only when journalled |
| Worker (`shell/worker.rs`) | failures counted per entry, deliveries since the last compaction | `drain_once_tracking`, `run` | everything accepted is delivered or set aside |
| Process (`main.rs`) | up, stopping, down; the worker's handle | start, token retries, stop, flush | every stop or crash is followed by a replay |
| Pacing (`core/pacing.rs`) | failures in a row, backlog reported | `after` | ladder while stalled, one report per outage |
| Access tokens (`shell/auth.rs`) | token and expiry under one async lock | `token` | one refresh at a time, never a token about to expire |
| 3.x store (`shell/token_store.rs`) | an encrypted file, read once by the import | `list`, `reveal` | imported once, never again |
| Sources (`shell/kit.rs`, `shell/profiles.rs`) | profile files, loaded profiles, the kit's clients | create, remove, reload, clean up | a source is whole or absent, memory is what the directory says |
| Data directory lock (`shell/datadir.rs`) | an `flock` | taken at start, for life | one process at the journal |
| Calendars (`shell/dashboard.rs`, `AppState`) | tombstones, created calendars, Google's list | create, ensure, delete, list | no second calendar of a name, none offered that is gone |
| Mapping (`core/request.rs`, `core/profile.rs`, `core/calendar.rs`, `core/colors.rs`) | none | profile file to profile, payload to event and marker | what was accepted stays mappable, Google shows what is sent, markers of two sources differ |
| Reporting (heartbeat, metrics, history, notifier, admin pages) | counters, a ring | read-only | nothing that delivers depends on it |
| `chassis` (external) | HTTP server, client store, update loop | | used as `main.rs` and `shell/kit.rs` use it |

How they interact: a handler calls `Journal::accept`, and for a synchronous
post `deliver` and `mark_done`; the worker polls `Journal::pending`, calls
`deliver` for each entry, and `mark_done` or `mark_dead`; `deliver` and
`delete_event` meet in the key locks, and everyone meets at Google. Profiles
are swapped under the handlers by the Sources page. The journal's readers take
no lock; its writers queue for `write_lock`. Everyone who calls Google gets the
token from one `TokenManager`, under one lock, and the worker does not start
before the start-up loop has got the first.

What is hard: the worker and any number of handlers run concurrently and
settle the same entry; a request at Google may be executed and its answer lost;
a handler disappears at any await when its client hangs up; power cuts, fsyncs
that fail, and a directory that is a separate durability domain; the journal's
cap; stops and restarts at every point; dashboard requests that change the
directory, the map and the kit's store one after the other on threads of their
own; a token that dies under a request; and timers that run on while a pass does
not end. `PROJECT.json` lists each as a hazard at
its line.

## 2. Modules

| Module | Models |
|---|---|
| `JournalRecords` | records, `pending`, `dead`, and what a compaction writes; pure operators, no recursion |
| `Journal` | the file below its callers' granularity: write, fsync, rename, directory fsync, crash, restart |
| `Inbox` | abstract: an entry is unknown, held, delivered or set aside, and never forgotten |
| `Hub` | handlers, worker, delete, locks, Google, stops and crashes over one journal; implements `Inbox` |
| `Calendars` | the Calendars page, its memory, and Google's lagging list |
| `Payload` | profile files, requests, the event and its marker; pure operators, no recursion |
| `Sources` | the directory of profiles, the map of them, the kit's clients, the door, the worker's view, starts; over `Payload` |
| `Tokens` | the access token, its lock, the retries of a call and the start-up loop, in time; state and actions for a module above it |
| `Rounds` | the worker's passes, interval, strikes, alarm and compactions in time, with synchronous posts beside it; over `Tokens` |
| `MCJournal`, `MCHub`, `MCCalendars`, `MCSources`, `MCRounds` | instances for TLC |
| `JournalRecordsProofs`, `JournalProofs`, `CalendarsProofs`, `CalendarPagesProofs`, `PayloadProofs`, `SourcesProofs`, `RoundsProofs`, `HubProofs` | theorems |

### Journal

`lines` are the newline-terminated lines and `tail` what follows the last
newline. A line remembers the record that was meant and whether it parses;
an append behind a non-empty tail produces one line that does not (`Lands`).
`durable` counts the lines an fsync covered. `replaced` is the set of files
the journal's *name* may stand for after a power cut: a rename adds the file it
replaced, an fsync of the directory empties the set, and a new installation
starts with `NoFile` in it, because `append` never fsyncs the directory of the
file it creates. `Crash` picks one of these files, any number of lines from its
durable ones up, and any leftover of the next line.

Each action is one side effect under `write_lock`: `Write`, `Sync` (after which
the caller has its `Ok`), or their failures; `CompactRename` and
`CompactDirSync`. `Restart` is `main.rs` reading the journal before it binds;
`RestartDies` when it cannot. The history variables `acked`, `doneAcked`,
`deadAcked`, `doneWritten`, `exposed`, `tears` feed the properties and no
guard. Callers may only mark what they know (`known`: accepted by them, or
read as pending); both markers may come for one entry, since a sync handler and
the worker can hold it at once.

Abstractions: the cap is counted in lines; an append that fails before writing
anything changes nothing and is not a step, and the same goes for a compaction
that fails before its rename; a reader that overtakes a write sees the
unfinished line skipped, which is a read before the write.

### Hub

A task is the worker, a posted entry's handler or a delete request; `pc` says
which await it stands at. `log` is the journal as records; an append succeeds,
or fails with or without the record in the file. `lockq[k]` is the fair queue
of the key's tokio mutex. `events` is the calendar. A request that Google
executes without its sender knowing is either the first try of a retry
(`Write`, "lostanswer": the same request goes out again) or one left behind by
a dropped handler or a crash (`late`, `LateArrival`). A successful answer that
cannot be parsed is a lost answer followed by a permanent failure. `phase` is where
`worker::run` is; the worker does not exist before the first token (`auth`).
`Cancel` is axum dropping the handler of a client that hung up: its guard's
`Drop` releases the key lock.

History: `order`, `acked`, `applied`, `stray`, `slipped`, `gone`. No guard reads
them.

Abstractions: one calendar; a lookup sees every event Google has stored (the
code assumes this too); a payload is a body with or without a key; how long
anything takes. Refusals at the door (authentication, a payload without an id
or that cannot be mapped) change nothing; entries without a key come from a
backlog older than the check at the door, and "permanent" in `Deliver` is such an
old payload that cannot be mapped, or Google's own refusal. (A payload the door
did check stays mappable: `AcceptedStaysMappable` of `Sources`.)

### Calendars

A task is one request: POST /calendars (`Creators`), POST
/calendars/{id}/delete (`Deleters`), GET /calendars (`Pages`; the listing at
start-up in `main.rs` behaves like one). A request that fails ends by
rendering the page too (`List`, `Add`, `Drop`), for a creating request with the
name's lock still held, as in the code. `created` and `deleted` are
`AppState`'s two collections; `shown` is what any page ever offered, which is
where the ids in a form come from, also after a restart. `Add` and `Drop` are
separate steps because they are separate mutexes.

Google makes a calendar at once (`made`, `exists`); its list follows later:
`lagging` until listed, and `listed` for a while after the delete. Each catches
up once and does not go back; the doc comments in `ingest.rs` and `dashboard.rs`
describe this lag, and nothing in the code deals with a list that goes back.

History variables name what the properties except, and feed no guard. `loose`:
made by a request that did not live to remember it, or remembered by a process
that died. `early`: deleted between the share and the remembering. `muddled`:
forgotten by one page while another page in flight, or the list, still said
otherwise. `raced`: a source added to a calendar whose delete had passed its
check. Each was put in because TLC showed a behaviour that needs it.

Abstractions: a name is what is left after `trim`; an empty one, and a missing
owner, only render a page; a crash and the restart are one step; the journal's
part in `remove_source` is left out (refusing is doing nothing).

### Payload

Pure: `Usable` is what `load_all` makes of a profile file, `Verdict` what
`map_payload` makes of a request under a profile ("event", "refused", or "panic"
where chrono's addition leaves its range), `Event` and `UpsertKey` what comes
out, `Admits` the two checks of the door. The checks stand in the code's order,
since the first that fails decides between a refusal and a panic. Ids and titles
are sequences of characters, so that trimming and the ":" of the marker mean
something; instants and lengths are minutes, days are numbered, an offset moves
a timestamp to another day. `GoogleShows` is not translated from the code: it is
Google's side as Google documents it, and only properties use it.

### Sources

A dashboard request is a click; clicks run on threads of their own. `pc` is the
next operation: `create_source` is `check` (save_new's look at the directory),
`create`, `write`, `rename` (write_atomically), `load` (load_map's scan), `set`
(set_profiles) and `issue` (the kit stores the client once the hook agreed);
`remove_source` is the check against the journal, `unlink`, `load`, `set`,
`forget`; reload and `delete_unusable` are parts of these. `tmp` is the
`<id>.toml.tmp` that two creators of one id share, and `fd` says which file a
writer's descriptor is by now: the other one's rename moves it under the
profile's name. `served` is `AppState.profiles`, `preload` what a starting
process read before it had the data directory's lock (`LockHeld`, `TakeLock`:
during an update's handover the other process is still changing the directory).
`wprof` is the map a worker's pass goes by, read once at its start.
A delivery is one step here.

History, kept in `trail`: which ids and contents were edited or placed by hand; which sources were
made by two clicks at once (`twins`); which posts were let in while their source was being removed
(`crossed`), or which sources' halves two clicks, or a removal that stopped, may have
left apart (`unpaired`); whether the map is one from before another's change
(`lagging`, `handover`) or a hand edit is not read yet (`unread`). Each is an
exception TLC showed to be needed, and each is a weakness of the code that the
properties bound:

- two requests making one source at a time can put a half-written or mixed
  file in place, or fail each other's rename;
- a reload or a removal that scanned before another's change stores its stale map
  last, until the next change or restart;
- a post that passed the door before the removal's check is journalled after it
  and has no profile from then on;
- a removal that fails at the kit's store leaves a client without a profile;
- a default length written into a profile by hand, large enough, panics the
  worker's task at the first accepted entry it applies to. The process stays up
  and accepts, and nothing is delivered until a restart (which panics again).
  At the door the same overflow, by `duration_minutes` or `days`, panics
  the handler, against the comment at `ingest.rs:409` that such a payload is
  answered with 422; nothing is accepted then.

Abstractions: one scan of the directory is one step; a power cut loses nothing
that was written (the rename of a profile is not made durable by an fsync of its
directory, which the journal's module shows the effect of); a profile of its own file name is found
by content but removed by name, as in the code.

### Tokens and Rounds

The unit of time is a poll interval. `Pass` (with `TokenTick`) lets one go by,
and only when no task has anything to do before (`Still`), which is what makes
timers and requests race and keeps everything else from taking time. Timers
count down and ages count up. `token.left` is the expiry as the code reckons it,
from before its request; `token.lasts` is Google's own, at worst the same. A
caller is queued for the lock, fetching (with the lock), calling, pausing in
`send_with_retry`'s back-off, or idle; `sent` is how long its request has been
under way, `age` how long its call has. `HangUp` is a handler dropped anywhere.
`boot` is `on_start`'s start-up loop, which is the first to ask for a token.
`account` says whether Google lets the service account in.

`Rounds` adds `worker::run`: `pass` is the pass under way with its
`DrainOutcome`, `ticker` the interval (period and time to the next tick, negative
when the pass has overrun it: tokio's default is to make up for missed ticks),
`pace` is `pacing::Worker`, `perm` the strikes, `since` the deliveries since the
last compaction. `NextTicker` rebuilds the interval only when the wait changes,
as in the code, and uses up the new one's first tick.

History: `streak` and `age` (passes in a row that got nothing through, and time
since the first), `alarmed`, `untidy` (the last compaction failed, or the
replay's deliveries are due), `extra` (done entries the count does not know: those of
synchronous posts and of earlier processes), `mixed` (entries with a strike from
before this outage), `unfair` (entries Google would take that were refused
without cause).

Two documents say more than the code does; the properties state what holds.

- AR18 (`docs/ARCHITECTURE_DECISIONS.md:46`): "The lock therefore spans refresh +
  its backoff retries; waiters share the final outcome". `token()` drops the lock
  with the error of a refresh, and the retries are each caller's own in
  `send_with_retry`; every waiter then fetches in turn. What is true is
  `RefreshesApart`: a token that is good is never replaced.
- `worker.rs:28`: "three passes spread over the backoff ladder". After a pass that
  delivered something else, the wait is the poll interval, so three strikes may
  come three polls apart. `SetAsideSlowly` states it for outages, with strikes
  from before the outage excepted.

Also seen, and part of the models: one entry without a profile keeps
every pass that delivers nothing else a stalled one, so the ladder and the alarm
go by it; a permanent refusal of the account, while running, sets aside every
entry after three passes, the token staying cached; the replay's deliveries are
compacted after the first pass only; a compaction that failed is tried again after
each pass; a success does not reset an entry's strikes when its `mark_done`
fails.

Abstractions: a delivery is one call; the shutdown's last drain is in `Hub`; clocks do
not jump; Google answers in the forms it documents; `MaxCall` bounds a request, since the HTTP client has no timeout.

## 3. Runs

| Run | Question | Instance | Result |
|---|---|---|---|
| `journal` | is anything acknowledged lost, or anything settled replayed? | 2 entries, 4 lines, 3 faults of all kinds; entries symmetric | holds |
| `journal_torn` | can the journal always be read? | the same, 1 crash | **no** |
| `journal_new` | is what was acknowledged in the file after a power cut? | the same, 1 crash | **no** |
| `hub` | is anything lost, doubled, or settled wrongly? | async post, sync post and delete of one key, 4 lines, 4 events, 2 faults of all kinds | holds |
| `hub_order` | does older content replace newer? | 2 posts of a key and an unkeyed backlog entry, 3 faults | only after that entry's own failure |
| `hub_live` | is everything accepted settled in the end? | an orphan entry heading the backlog, a sync post, a delete, 2 faults of all kinds | holds |
| `hub_dup` | can redelivery duplicate? | 1 post, 1 lost answer | **yes** |
| `hub_delete` | does a deleted event stay away? | 1 sync post, 1 delete, no fault | **no** |
| `calendars` | does the memory make up for the lag? | 2 creates of one name, 1 delete, 2 pages, 1 source, 3 calendars, 1 fault of any kind | holds, but for the exceptions above |
| `calendars_twice` | does a double click make one calendar? | 2 creates of one name, 1 page, 1 hang-up | **no** |
| `sources` | do directory, map, clients and journal agree; does what was accepted stay deliverable? | 2 clicks, 1 post with 10 payloads, 2 ids, 2 files, 3 contents placed by hand, 2 starts, 1 failure or hand edit | holds, but for the exceptions above |
| `rounds` | are tokens, pace, alarm, strikes and compactions those of the outage? | a synchronous post, an entry Google refuses and one without a profile; token life 3, margin 0, requests up to 1, passes up to 1 poll late | holds |

Why the bounds suffice. Two entries are the least with which a marker of one can
follow the other's line, a compaction can keep one and drop one, and two
bodies compete for a key. Four lines fit an entry, its markers and a second
entry, so the cap is met both by entries and by markers. Three faults allow a
short write, a directory fsync that fails and the crash that exploits them. In
`Hub` different keys share only the journal, so one key shows all interference;
two faults allow a lost answer in one task and a crash or hang-up in another.
`DeadAfter` is 2 and `CompactAfter` 1 so that both thresholds are crossed; no
property depends on their values. `MaxEvents` bounds creations: at the bound a
create cannot run, and the bounds are set so high that it takes more lost answers
than the run allows to meet it in a run that checks liveness.

In `Calendars` names share neither locks nor memory, so one name shows all
interference; two pages are one that ran before the delete or runs along with it and one that
must not show the calendar, and every request that fails renders a page too. Three calendars
cover two requests and a resent insert. Requests and pages are symmetric, and only invariants are
checked under the symmetry. Requests end, so the run does not check deadlock; that
these locks are let go is `TypeOK`'s last part here, and liveness of the same
`KeyLocks` is checked in `Hub`.

In `Sources` two clicks let two creators of one source meet, and a removal or a reload
meet a creator; one source the dashboard can make and one id only a hand-placed file can
name are enough for two markers to collide. The proofs lift the bounds on clicks, starts
and mishaps. The payloads are picked by what the door must tell apart, one wrong
thing at a time; `MCSources` also evaluates the mapping over thousands of requests and
profiles as assumptions. Clicks are symmetric; `FilesKept` is a property of
single steps, which the symmetry does not disturb. Requests, starts and posts end, so
deadlock is not checked.

In `Rounds` a token of three units dies several times in an outage, and with no margin a
request of one unit can outlast it; a ladder of two rungs and
two strikes reach the ladder's end and the setting aside in one outage; every counter
is counted up to where the code last looks at it, and the state space is finite without
a bound on time. Deadlock is checked. `MaxDebt` bounds by how much a pass
overruns the ticker. The proofs lift all of these.

Fairness (`FairSpec` of `Hub`; the others have no liveness property). Weak on each task the runtime polls, because tokio polls
woken tasks; weak on `Authenticated`, because the start-up loop retries for
ever; weak on `Start`, because the unit is restarted (`deploy/`, Restart=always);
strong on `LastPass`, because `select!` picks among ready branches at random. New posts,
deletes, stops and every fault have none; faults are finite by `MaxFaults`, so the
liveness properties say "once the faults end".

The five violations are findings, with the sentences they contradict, in
`PROJECT.json`.

- `journal_torn`: a crash leaves a torn tail; the restart skips it; the next append
  joins it and ends it with a newline. It is no torn tail any more but a line that
  does not parse, and the file is unreadable. `OneTearOneLine` bounds the damage:
  one line per tear.
- `journal_new`: `append` creates and fsyncs the file, not the directory.
  `AckedKept`, `DeadKept` and `MarkedStaysSettled` hold for everything
  acknowledged outside such windows (`exposed`); the other window is a
  compaction's directory fsync that failed.
- `hub_dup`: `DuplicatesOnlyFromStrays` is the strongest form that holds: one
  event more at most for each request executed late or twice.
- `hub_delete`: the worker's snapshot outlives the sync handler's marker and the
  delete; the key lock cannot help, since the worker's lookup is honest and finds
  nothing.

- `calendars_twice`: the first click's request has made the calendar when the
  browser drops its connection for the second one. The lock is released, nothing was
  remembered, and the list does not show the calendar yet.
  `TwinsOnlyFromMishaps` is the strongest form that holds.

Synchronous posts may overtake asynchronous ones of the same key and be
overwritten by them. No document promises otherwise, so `StaleOnlyAfterFailure`
is about asynchronous posts.

## 4. Proofs

`JournalRecordsProofs`: what `pending`, `dead` and a compaction return, for every
log. `Pending` is written by rank (`AtPositions`) and not by recursion, so the
facts follow from the theorems on finite sets: ranks are increasing, hence
distinct, hence reach every position once. `CompactedReplaysAlike` shows where the
parts of a compacted log stand (`LaidOut`) and that there is one way only to list
their positions in order; `CompactedIsNoLonger` gives every dead entry a marker of its own.

`JournalProofs`, for every set of entries, cap and number of faults:

1. `TypeCorrect`: `Spec => []TypeOK`.
2. `InvHolds`: `Spec => []JournalInv`. `AckedKept` alone is not inductive, for
   two reasons. A crash replaces the file by an older one, so the promise must
   hold in *every* file of `Files` (this one and `replaced`), and of their durable
   lines: `FilesSound`. And a compaction drops an entry only because some marker
   names it, so the invariant must know that the marker was one a caller was
   entitled to write: `CallersKnow`.
3. `AckedIsKept`, `DeadIsKept`, `MarkedIsSettled` follow state by state.
4. `TearsBounded`, with an invariant of its own: a tail counts like a spoilt line
   (`Damage`), since it spoils the next one, and each of `Files` is counted, since
   a power cut may bring it back.
5. `CompactionMeansTheSame`, from `CompactedReplaysAlike`.
6. `CapHolds`. A compaction checks no cap, so the invariant must know that it
   never writes more than it read, which holds only while no entry stands in
   the file twice, and that in turn because ids are fresh (`WellKept`).

One step per action; the interesting ones are `CompactRenameInv` (from the
theorems on `Compacted`) and `CrashInv` (a cut keeps the durable lines).
`JournalInv` was checked by TLC on the instance of run `journal` before it was proved.

Assumptions: the named ones in `Journal` (`MaxLines` positive, `MaxFaults` a
number, `FaultKinds` a set of faults). Nothing is assumed about `Entries`.

`CalendarsProofs`, for every set of names, requests, pages and sources and every
number of calendars and faults: `UsedStaysAlways`, `MemoryHoldsNoDeletedAlways`
and `TwinsOnlyFromMishapsAlways`. No property is inductive. `UsedSafe` says
more than `UsedStays`: an unraced source's calendar has no delete on its way,
neither in a request nor left at Google (`LateAreDropped`). And a memory is
written by a request that may have shared its calendar before the delete and
remembers it after, so `MakersKnown` says that such a calendar is `early`.
As for twins, a name has at most one calendar that is not loose (`OneKept`),
because a request about to make one has found none (`NoneYet`). It looked in the memory and in Google's list, one
after the other, and that is enough because every such calendar is in one of
them or in the hands of the request that made it (`Accounted`), and that request
would hold the lock (`LockHeld`).

`CalendarPagesProofs`, for as many, and any number of pages: `CalendarsTyped`,
`DeletedStaysHiddenAlways` and `MadeIsShownAlways`.

1. `TypeOK` says that the queue of a name's lock holds the requests under way and nobody
   else. A request that answers, or whose client hangs up, leaves the queue once, so
   `QueuesOK` adds that nobody waits twice.
2. A calendar whose delete was answered is under a tombstone, off Google's list, or
   `muddled` (`BuriedHidden`), and what a page under way has of those it knows of is
   still under its tombstone, or excused (`PageHides`). The memory brings none back,
   by `MemoryHoldsNoDeleted`.
3. A calendar somebody was told of is listed, remembered, `muddled` or the aim of a delete
   (`ToldShown`). Google's list loses only what is gone, and whatever is gone was aimed
   at (`DeletesAimed`). A page under way has each such calendar already or takes it
   from the memory (`PageShows`), and another page that makes Almanac forget
   one first leaves it `muddled`.

TLC checked these invariants on the instance of run `calendars` first.

Assumptions: the named ones in `Calendars` (creates, deletes and pages are
different requests; bounds are numbers).

`PayloadProofs`, for every set of characters, zones and limits: `MappedOnceNeverRefused`
(what one usable profile maps no other refuses; a longer default may still overflow),
`KeysAreInjective` (safe ids have no ":", so the first one in a marker ends the
id) and `MappedIsShown`.

`SourcesProofs`, for every directory, number of clicks, posts, starts and
mishaps. Each group of theorems has an inductive invariant, which TLC checked
on the instance of run `sources` before it was proved.

1. `SourcesTyped`, then the three properties that rest on the mapping and the one on the
   import. `served`, `preload`, what a click has read and what a pass goes by all come
   from `MapOf`, which yields only usable profiles under their own ids; a post that
   was let in was mapped by such a profile, so the three facts of `PayloadProofs` apply.
   `RemovedIsNotImported` needs that the kit has its file once any client was removed.
2. `NothingHalfWritten` and `FilesStay`, from `FilesOK`. Two requests about one source at
   a time are on record, as `twins` if both are in the writer (`PairsOK`). A writer that
   is alone has its own temporary file, holding what it means, and moves it to where
   nothing was (`AloneOK`). So a file holds its source's profile, what twins left, or
   what a hand placed (`DiskOK`, `TmpOK`), and a click knows which file it is for
   (`PlansOK`).
3. `ServedIsTheDisk`, from `FreshOK`: a map that was read and not outrun since is the
   directory, whether a click holds it, a start, or the door. It speaks of one id at a
   time, since twins spoil only their own source. A hand's edit is read over with the next
   load, except that a twin may still have that file open (`Sure`).
4. `OrphansAreRaces` and `ClientsHaveProfiles`, from `TogetherOK`: what is served is there
   or being removed (`TheirsOK`); the profile of a waiting post is there, served, and not
   being removed, or the post crossed the removal (`WaitersOK`); and a source that no two
   requests worked on has its file from the rename on, is served before its client is
   issued, and keeps both until a removal (`HalvesOK`).
5. `WorkerLives`, from `HandsOK`: every profile in anyone's hands was made by the dashboard
   or placed by a hand whose source is on record. Two profiles the dashboard makes for a
   source map alike (`MadeMapAlike`), so the worker refuses what the door took only
   after a hand's edit.

`RoundsProofs`, for every set of entries and handlers, every margin, lifetimes, ladder and limits.
The invariant `IInv` has one part per concern. `TokenInv`: the queue holds each
waiting caller once and nobody else, only its head fetches and only when the
token is not fresh, and a request went out with more than the margin to go; it is
kept by every step of a token (`TokenNext`), and `NextIsTokens` shows that each step of
`Rounds` is one or leaves the token alone, so it is proved once. `JobOK`
ties the worker's call to the entry at hand. `CauseOK` holds by `TokenInv`: a
request that finds its token dead has been under way for longer than the margin.
`PaceOK` says that `pacing::Worker` and the history agree and the interval's
period follows them, `DoneOK` counts the done entries of the worker against
`since` and the pass's deliveries, and `AlarmOK` relates the alarm to
`backlog_reported`, which differ only in a pass that has delivered something.
For `SetAsideSlowly` two parts relate strikes to time: `StrikesOK` says that an entry not
in `mixed` has no more strikes than the outage has passes, the one under way included
once it is over with the entry; `AgeOK` that an outage on its nth rung is, at its next tick,
as old as the rungs below it together, until it is as old as `Spread`. The period
changes with every rung, since the ladder rises, so no rung is cut short by the interval
of the one before. An entry's last strike needs `PermanentLimit` passes, and `OnlyJobDies`
shows that nothing else sets an entry aside. The sums of the rungs are a constant, `Climb`, with
an assumption that says what it is, for a recursive definition would need an induction.
The three action properties follow from `IInv` step by step.

Assumptions: the named ones in `Payload`, `Sources`, `Tokens` and `Rounds`: the
":" is no safe character, the absence of a profile is no content of a file, the ladder
rises from above the poll interval, a token lives longer than the margin and a request.

`HubProofs`, for every set of entries, deletes and keys, every backlog and all bounds:

1. `AckedIsNeverLost` and `HubKeepsPromise`. `JournalStep` lists what a step may do
   to the journal and to what Google has stored: store an entry the journal took,
   take one, mark one done that is stored, mark one dead, compact, nothing. These
   keep `Promised` (an entry that was taken is pending, set aside or stored), and each
   is a step of `Inbox` or a stutter. That a step does nothing else needs `Control`:
   what the worker's snapshot, a running delivery and a request left at Google have
   in hand was taken, and a task about to mark an entry done has had it stored.
2. `LookupStaysTrue` and `NoOtherDuplicates`. Neither is inductive. `Secure` says of
   every task about to write that it is at the head of its key's queue, that the event it
   found carries its key, and that there is `Room`: fewer events than strays allow
   if it will create one, or the event it found is still there if nothing strayed. No step of
   another task disturbs a secure one: it would need the same head (`HeadsKept`), or it
   is a stray and counted.
3. `HubTyped`, with the cap: an append checks it, and a compaction does not lengthen a log
   in which no entry stands twice (`CompactedIsNoLonger`), which ids taken once
   guarantee.
4. `StaleNeedsFailure`, the order of deliveries. `TurnInv` says that the pending entries
   stand in the log in the order they were taken (`OrderedLog`; a replay keeps that
   order, `PendingOrder`, and so does a compaction, `OrderedCompacted`); that whatever was
   taken before an entry of the worker's snapshot has failed, is out of the worker's hands
   or stands before it in the snapshot (`TodoOK`); and that whatever was taken before an
   entry that is stored, or that a request left at Google may yet store, has failed or is out of
   the worker's hands (`PastOK`). So a writer whose entry is older than the event's
   content has a failure behind it: the worker's entry still waits and has its profile, and a
   late request's delivery was cut off.

Assumptions: the named ones in `Hub` (worker, entries and deletes differ; a delete names a
key; the backlog has no entry twice and fits the cap).

Only model-checked: liveness (with fairness and ENABLED, outside the prover's reach). Every
invariant and every action property that a passing run checks is a theorem.

## 5. Not modelled

The wording of pages and errors and what they render; heartbeat, metrics, history
and the notifier, which nothing that delivers or stores reads (they also miss
synchronous deliveries, `metrics.rs:28`); paths; sealing of secrets and signing
(cryptography); argument parsing, the environment and the update hook; the 3.x
store beyond the import's one read, since issuing, revoking and sessions are
reached by tests alone; the `chassis` kit beyond its calls.

## 6. What is left

`Journal` implements the append that `Hub` assumes.
