------------------------------ MODULE Journal -------------------------------
(***************************************************************************)
(* The journal file of shell/journal.rs, below the granularity its callers *)
(* see: an append writes a line and then fsyncs it, a compaction renames a *)
(* temporary file over the journal and then fsyncs the directory, writes   *)
(* can stop half way, fsyncs can fail, and a power cut keeps only what was *)
(* made durable, plus any prefix of what was not.                          *)
(*                                                                         *)
(* One line is one unit of the size cap.  Callers are reduced to what they *)
(* know: a fresh id to accept, or an entry they accepted or read as        *)
(* pending, to be marked.                                                  *)
(***************************************************************************)
EXTENDS JournalRecords

CONSTANTS
  MaxLines,    \* max_bytes, in lines
  MaxFaults,   \* bound on the faults of a behaviour
  FaultKinds   \* which of AllFaults the environment may produce

AllFaults == {"shortwrite", "fsync", "dirsync", "crash"}

ASSUME MaxLinesAssumption == MaxLines \in Nat \ {0}
ASSUME MaxFaultsAssumption == MaxFaults \in Nat
ASSUME FaultKindsAssumption == FaultKinds \subseteq AllFaults

VARIABLES
  lines,       \* the newline-terminated lines of the file, as read back
  tail,        \* what follows the last newline: nothing, or one line's worth
  durable,     \* how many of the lines a power cut is certain to leave
  replaced,    \* the files the journal's name may stand for again after a
               \* power cut: no fsync of the directory came after them
  holder,      \* what the holder of write_lock is in the middle of
  up,          \* the process is running
  posted,      \* ids accept() has been called with
  known,       \* markers some caller may still write
  acked,       \* entries accept() answered Ok for
  doneWritten, \* entries a Done marker was ever written for
  deadAcked,   \* entries mark_dead() answered Ok for
  doneAcked,   \* entries mark_done() answered Ok for
  exposed,     \* entries answered Ok for while the file's name was not durable
  tears,       \* how often a write or a power cut left an unfinished line
  faults

file == <<lines, tail, durable, replaced>>
told == <<posted, known, acked, doneWritten, deadAcked, doneAcked, exposed>>
vars == <<file, holder, up, told, tears, faults>>

-----------------------------------------------------------------------------
\* A line is a record and whether it can be parsed.
Line == [rec : Record, intact : BOOLEAN]
Torn(r) == [rec |-> r, intact |-> FALSE]
Whole(r) == [rec |-> r, intact |-> TRUE]

ThisFile == [lines |-> lines, tail |-> tail, durable |-> durable]

\* What a directory without the journal's name in it reads as.
NoFile == [lines |-> <<>>, tail |-> <<>>, durable |-> 0]

Recs(ls) == [i \in DOMAIN ls |-> ls[i].rec]

\* read_records: an unfinished last line is skipped, or parsed if only its
\* newline is missing; any other line that does not parse fails the read.
Readable == \A i \in DOMAIN lines : lines[i].intact

Records ==
  Recs(lines) \o (IF tail # <<>> /\ tail[1].intact THEN Recs(tail) ELSE <<>>)

Size == Len(lines) + Len(tail)

Fault(kind) ==
  /\ kind \in FaultKinds
  /\ faults < MaxFaults
  /\ faults' = faults + 1

-----------------------------------------------------------------------------
\* What the caller of an append must hold, and what it gives up by calling.
\* A sync handler and the worker may both hold an entry: one marks it done
\* and the other dead, in either order.
MayAppend(r) ==
  IF r.kind = "entry" THEN r.id \notin posted ELSE r \in known

Markers(e) == {DoneRec(e), DeadRec(e)}

Called(r) ==
  /\ posted' = IF r.kind = "entry" THEN posted \union {r.id} ELSE posted
  /\ known' = known \ {r}

\* Mutant: the file's size is compared before the line is added to it.
FitsBefore == Size <= MaxLines

\* The cap check, under write_lock.
Fits == Size + 1 <= MaxLines

\* append refuses a line, entry or marker alike, that would pass the cap.
Refuse(r) ==
  /\ up /\ holder = <<>> /\ MayAppend(r)
  /\ ~Fits
  /\ Called(r)
  /\ UNCHANGED <<file, holder, up, acked, doneWritten, deadAcked, doneAcked,
                 exposed, tears, faults>>

\* Mutant: the newline is forgotten, so every line runs into the one before.
LandsWithoutNewline(r) == [rec |-> r, intact |-> lines = <<>>]

\* A line lands directly behind whatever the file ends with.
Lands(r) == [rec |-> r, intact |-> tail = <<>>]

\* write_all
Write(r) ==
  /\ up /\ holder = <<>> /\ MayAppend(r)
  /\ Fits
  /\ Called(r)
  /\ lines' = Append(lines, Lands(r))
  /\ tail' = <<>>
  /\ holder' = <<r>>
  /\ doneWritten' = IF r.kind = "done" THEN doneWritten \union {r.id}
                                       ELSE doneWritten
  /\ UNCHANGED <<durable, replaced, up, acked, deadAcked, doneAcked, exposed,
                 tears, faults>>

\* write_all fails after some of the bytes; the process lives on.
ShortWrite(r) ==
  /\ up /\ holder = <<>> /\ MayAppend(r)
  /\ Fits
  /\ Fault("shortwrite")
  /\ Called(r)
  /\ \E t \in {Torn(r), Whole(r)} :
       /\ t.intact => tail = <<>>
       /\ tail' = <<t>>
       /\ doneWritten' = IF t.intact /\ r.kind = "done"
                           THEN doneWritten \union {r.id} ELSE doneWritten
  /\ tears' = tears + 1
  /\ UNCHANGED <<lines, durable, replaced, holder, up, acked, deadAcked,
                 doneAcked, exposed>>

\* sync_all succeeds: the caller is answered Ok.
Answer(r) ==
  /\ acked' = IF r.kind = "entry" THEN acked \union {r.id} ELSE acked
  /\ doneAcked' = IF r.kind = "done" THEN doneAcked \union {r.id} ELSE doneAcked
  /\ deadAcked' = IF r.kind = "dead" THEN deadAcked \union {r.id} ELSE deadAcked
  /\ known' = IF r.kind = "entry" THEN known \union Markers(r.id) ELSE known
  /\ exposed' = IF replaced # {} THEN exposed \union {r.id} ELSE exposed

\* Mutant: the fsync is left out.
UnsyncedLines == durable

SyncedLines == Len(lines)

Sync ==
  /\ up /\ holder # <<>> /\ holder[1].kind # "compact"
  /\ durable' = SyncedLines
  /\ Answer(holder[1])
  /\ holder' = <<>>
  /\ UNCHANGED <<lines, tail, replaced, up, posted, doneWritten, tears, faults>>

\* sync_all fails: the caller is answered Err, the line stays in the file.
SyncFails ==
  /\ up /\ holder # <<>> /\ holder[1].kind # "compact"
  /\ Fault("fsync")
  /\ holder' = <<>>
  /\ UNCHANGED <<file, up, told, tears>>

-----------------------------------------------------------------------------
\* pending(): a caller learns what is left to deliver.  Readers take no lock.
Read ==
  /\ up /\ Readable
  /\ known' =
       known \union UNION {Markers(Pending(Records)[i].id) :
                            i \in DOMAIN Pending(Records)}
  /\ UNCHANGED <<file, holder, up, posted, acked, doneWritten, deadAcked,
                 doneAcked, exposed, tears, faults>>

\* ... or that the log cannot be read; compact() gives up the same way.
ReadFails ==
  /\ up /\ ~Readable
  /\ UNCHANGED vars

CompactRec == [kind |-> "compact"]

\* Mutant: the temporary file is not written out before it is renamed.
RenamedUnsynced(body) ==
  /\ lines' = [i \in DOMAIN body |-> Whole(body[i])]
  /\ durable' = durable

Renamed(body) ==
  /\ lines' = [i \in DOMAIN body |-> Whole(body[i])]
  /\ durable' = Len(body)

\* compact: the fsynced temporary file takes the journal's name ...
CompactRename ==
  /\ up /\ holder = <<>> /\ Readable
  /\ Renamed(Compacted(Records))
  /\ tail' = <<>>
  /\ replaced' = replaced \union {ThisFile}
  /\ holder' = <<CompactRec>>
  /\ UNCHANGED <<up, told, tears, faults>>

\* ... and fsync_parent_dir makes that last.  It is best effort.
CompactDirSync ==
  /\ up /\ holder # <<>> /\ holder[1].kind = "compact"
  /\ holder' = <<>>
  /\ \/ replaced' = {} /\ UNCHANGED faults
     \/ Fault("dirsync") /\ UNCHANGED replaced
  /\ UNCHANGED <<lines, tail, durable, up, told, tears>>

-----------------------------------------------------------------------------
\* What a power cut leaves of a file after its first n lines.
Leftovers(f, n) ==
  IF n = Len(f.lines)
    THEN {<<>>, f.tail}
    ELSE {<<>>, <<Torn(f.lines[n + 1].rec)>>, <<f.lines[n + 1]>>}

CutTo(f, n, t) ==
  /\ lines' = SubSeq(f.lines, 1, n)
  /\ tail' = t
  /\ durable' = n
  /\ tears' = IF t \in {<<>>, f.tail} THEN tears ELSE tears + 1

\* kill -9 or a power cut.  Only what was fsynced is sure to be there, and
\* an unsynced rename may turn out not to have happened.
Crash ==
  /\ up
  /\ Fault("crash")
  /\ \E f \in replaced \union {ThisFile} : \E n \in f.durable..Len(f.lines) :
       \E t \in Leftovers(f, n) : CutTo(f, n, t)
  /\ replaced' = {}
  /\ holder' = <<>>
  /\ up' = FALSE
  /\ known' = {}
  /\ UNCHANGED <<posted, acked, doneWritten, deadAcked, doneAcked, exposed>>

\* main.rs reads the journal before it binds, and dies if it cannot.
Restart ==
  /\ ~up /\ Readable
  /\ up' = TRUE
  /\ UNCHANGED <<file, holder, told, tears, faults>>

RestartDies ==
  /\ ~up /\ ~Readable
  /\ UNCHANGED vars

-----------------------------------------------------------------------------
\* An empty journal of an earlier process, or a new installation: the first
\* append creates the file, and fsyncs it, but not its directory.
Init ==
  /\ lines = <<>> /\ tail = <<>> /\ durable = 0 /\ replaced \in {{}, {NoFile}}
  /\ holder = <<>> /\ up = TRUE
  /\ posted = {} /\ known = {} /\ acked = {}
  /\ doneWritten = {} /\ deadAcked = {} /\ doneAcked = {} /\ exposed = {}
  /\ tears = 0 /\ faults = 0

Next ==
  \/ \E r \in Record : Refuse(r) \/ Write(r) \/ ShortWrite(r)
  \/ Sync \/ SyncFails
  \/ Read \/ ReadFails \/ CompactRename \/ CompactDirSync
  \/ Crash \/ Restart \/ RestartDies

Spec == Init /\ [][Next]_vars

-----------------------------------------------------------------------------
(***************************************************************************)
(* Properties.                                                             *)
(***************************************************************************)
OptionOf(S) == {<<>>} \union {<<x>> : x \in S}

File == [lines : Seq(Line), tail : OptionOf(Line), durable : Nat]

\* Every variable keeps its shape.
TypeOK ==
  /\ lines \in Seq(Line)
  /\ tail \in OptionOf(Line)
  /\ durable \in 0..Len(lines)
  /\ replaced \subseteq File
  /\ \A f \in replaced : f.durable <= Len(f.lines)
  /\ holder \in OptionOf(Record \union {CompactRec})
  /\ up \in BOOLEAN
  /\ known \subseteq Record
  /\ posted \subseteq Entries /\ acked \subseteq Entries
  /\ doneWritten \subseteq Entries
  /\ deadAcked \subseteq Entries /\ doneAcked \subseteq Entries
  /\ exposed \subseteq Entries
  /\ tears \in Nat /\ faults \in 0..MaxFaults

\* The file never passes its cap, whatever mix of appends, short writes,
\* power cuts and compactions happened (append's check, compact's rewrite).
WithinCap == Size <= MaxLines

InFile(r) == \E i \in DOMAIN lines : lines[i].rec = r

\* An entry whose source was told "accepted" has its line in the file until
\* a Done marker has been written for it: through torn writes, failed
\* fsyncs, power cuts and compactions.  The one exception the code leaves
\* is an answer given while the directory had not been fsynced since the
\* file got its name (append, compact, fsync_parent_dir).
AckedKept ==
  \A e \in acked \ (doneWritten \union exposed) : InFile(EntryRec(e))

\* An entry set aside and never marked done keeps both its payload and its
\* Dead marker in the file for good: compaction keeps the pair (compact, T1).
DeadKept ==
  \A e \in (deadAcked \intersect acked) \ (doneWritten \union exposed) :
    InFile(EntryRec(e)) /\ InFile(DeadRec(e))

\* Once mark_done or mark_dead has answered Ok, no replay returns the entry
\* again, not even after a power cut or a compaction (append, pending).
MarkedStaysSettled ==
  Readable =>
    \A i \in DOMAIN Pending(Records) :
      Pending(Records)[i].id \notin (doneAcked \union deadAcked) \ exposed

\* The damage of an unfinished line is bounded: each one spoils at most one
\* line of the file, the one appended directly behind it (append).
OneTearOneLine ==
  Cardinality({i \in DOMAIN lines : ~lines[i].intact}) <= tears

\* Compaction changes neither what is pending nor in which order, nor what
\* is set aside (compact): a reader before and one after see the same.
CompactionKeepsMeaning ==
  [][CompactRename =>
       /\ Pending(Records)' = Pending(Records)
       /\ DeadEntries(Records)' = DeadEntries(Records)]_vars

\* "A torn write can only ever damage the final line, which replay skips"
\* (shell/journal.rs:8-9): whatever tore, the journal can be read.
NeverUnreadable == Readable

\* "Returns only once the bytes are durably on disk -- the caller may not
\* acknowledge the source before this resolves" (shell/journal.rs:52-54).
AcknowledgedIsDurable == \A e \in acked \ doneWritten : InFile(EntryRec(e))
=============================================================================
