--------------------------- MODULE JournalProofs ----------------------------
(***************************************************************************)
(* What holds of the journal file for any number of entries, any cap and   *)
(* any number of faults.                                                   *)
(***************************************************************************)
EXTENDS Journal, JournalRecordsProofs

-----------------------------------------------------------------------------
(***************************************************************************)
(* Types.                                                                  *)
(***************************************************************************)
\* An option is the empty sequence or a sequence of one.
LEMMA OptionTypes ==
  ASSUME NEW S
  PROVE  /\ <<>> \in OptionOf(S)
         /\ \A x \in S : <<x>> \in OptionOf(S)
         /\ \A o \in OptionOf(S) : /\ o \in Seq(S)
                                   /\ o # <<>> => o[1] \in S /\ o = <<o[1]>>
<1>1. \A x \in S : <<x>> \in Seq(S) /\ <<x>>[1] = x
  OBVIOUS
<1>2. <<>> \in Seq(S)
  OBVIOUS
<1> QED
  BY <1>1, <1>2 DEF OptionOf

\* What the three kinds of record are.
LEMMA RecordTypes ==
  /\ \A e \in Entries : EntryRec(e) \in Record /\ DoneRec(e) \in Record /\ DeadRec(e) \in Record
  /\ \A r \in Record : /\ r.id \in Entries /\ r.kind \in {"entry", "done", "dead"}
                       /\ Whole(r) \in Line /\ Torn(r) \in Line
  /\ \A l \in Line : l.rec \in Record /\ l.intact \in BOOLEAN
BY DEF EntryRec, DoneRec, DeadRec, Record, Whole, Torn, Line

\* The record of each line: a log.
LEMMA RecsType ==
  ASSUME NEW ls \in Seq(Line)
  PROVE  /\ Recs(ls) \in Seq(Record)
         /\ DOMAIN Recs(ls) = DOMAIN ls
         /\ \A i \in DOMAIN ls : Recs(ls)[i] = ls[i].rec
<1>1. /\ Len(ls) \in Nat /\ DOMAIN ls = 1..Len(ls)
      /\ \A i \in 1..Len(ls) : ls[i] \in Line
  OBVIOUS
<1>2. \A i \in 1..Len(ls) : ls[i].rec \in Record
  BY <1>1, RecordTypes
<1>3. Recs(ls) \in [1..Len(ls) -> Record]
  BY <1>1, <1>2 DEF Recs
<1>4. Recs(ls) \in Seq(Record)
  BY <1>1, <1>3
<1> QED
  BY <1>1, <1>4 DEF Recs

\* What follows the last newline, as a reader takes it, is a log too.
LEMMA TailType ==
  ASSUME TypeOK
  PROVE  (IF tail # <<>> /\ tail[1].intact THEN Recs(tail) ELSE <<>>) \in Seq(Record)
<1>1. tail \in OptionOf(Line)
  BY DEF TypeOK
<1>2. tail \in Seq(Line)
  BY <1>1, OptionTypes
<1> QED
  BY <1>2, RecsType

\* What a replay reads out of the file is a sequence of records.
LEMMA RecordsType ==
  ASSUME TypeOK
  PROVE  Records \in Seq(Record)
<1>1. lines \in Seq(Line)
  BY DEF TypeOK
<1>2. Recs(lines) \in Seq(Record)
  BY <1>1, RecsType
<1> QED
  BY <1>2, TailType, ConcatProperties DEF Records

\* The file on disk is a File, and no more of it is durable than it has.
LEMMA ThisFileType ==
  ASSUME TypeOK
  PROVE  ThisFile \in File /\ durable <= Len(lines)
BY DEF TypeOK, ThisFile, File

\* A compacted body, as lines.
LEMMA RenamedType ==
  ASSUME TypeOK, NEW body \in Seq(Record), Renamed(body)
  PROVE  lines' \in Seq(Line) /\ durable' \in 0..Len(lines') /\ Len(lines') = Len(body)
<1>1. Len(body) \in Nat /\ DOMAIN body = 1..Len(body)
  OBVIOUS
<1>2. \A i \in 1..Len(body) : Whole(body[i]) \in Line
  BY RecordTypes
<1>3. lines' \in [1..Len(body) -> Line]
  BY <1>1, <1>2 DEF Renamed
<1>4. lines' \in Seq(Line) /\ Len(lines') = Len(body)
  BY <1>1, <1>3
<1> QED
  BY <1>1, <1>4 DEF Renamed

\* The initial states have their types.
LEMMA TypeInit == Init => TypeOK
<1> SUFFICES ASSUME Init PROVE TypeOK
  OBVIOUS
<1>1. <<>> \in Seq(Line) /\ Len(<<>>) = 0
  OBVIOUS
<1>2. NoFile \in File /\ NoFile.durable <= Len(NoFile.lines)
  BY <1>1, OptionTypes DEF NoFile, File
<1>3. replaced \subseteq File /\ \A f \in replaced : f.durable <= Len(f.lines)
  BY <1>2 DEF Init
<1>4. faults \in 0..MaxFaults
  BY MaxFaultsAssumption DEF Init
<1> QED
  BY <1>1, <1>3, <1>4, OptionTypes DEF Init, TypeOK

\* A fault is counted within its bound.
LEMMA FaultType ==
  ASSUME TypeOK, NEW kind, Fault(kind)
  PROVE  faults' \in 0..MaxFaults
BY MaxFaultsAssumption DEF Fault, TypeOK

\* Appending a line that starts where the file ends.
LEMMA WriteType ==
  ASSUME TypeOK, NEW r \in Record, Write(r)
  PROVE  TypeOK'
<1>1. Lands(r) \in Line
  BY DEF Lands, Line
<1>2. lines \in Seq(Line) /\ Len(lines) \in Nat
  BY DEF TypeOK
<1>3. lines' \in Seq(Line) /\ Len(lines') = Len(lines) + 1
  BY <1>1, <1>2 DEF Write
<1>4. durable' \in 0..Len(lines')
  BY <1>2, <1>3 DEF Write, TypeOK
<1>5. tail' \in OptionOf(Line) /\ holder' \in OptionOf(Record \union {CompactRec})
  BY OptionTypes DEF Write
<1>6. posted' \subseteq Entries /\ known' \subseteq Record /\ doneWritten' \subseteq Entries
  BY RecordTypes DEF Write, Called, TypeOK
<1> QED
  BY <1>3, <1>4, <1>5, <1>6 DEF Write, TypeOK

\* A write that stops half way keeps the types (write_all failing).
LEMMA ShortWriteType ==
  ASSUME TypeOK, NEW r \in Record, ShortWrite(r)
  PROVE  TypeOK'
<1>1. PICK t \in {Torn(r), Whole(r)} :
        /\ tail' = <<t>>
        /\ doneWritten' = IF t.intact /\ r.kind = "done"
                            THEN doneWritten \union {r.id} ELSE doneWritten
  BY DEF ShortWrite
<1>2. tail' \in OptionOf(Line)
  BY <1>1, RecordTypes, OptionTypes
<1>3. posted' \subseteq Entries /\ known' \subseteq Record /\ doneWritten' \subseteq Entries
  BY <1>1, RecordTypes DEF ShortWrite, Called, TypeOK
<1>4. faults' \in 0..MaxFaults /\ tears' \in Nat
  BY FaultType DEF ShortWrite, TypeOK
<1> QED
  BY <1>2, <1>3, <1>4 DEF ShortWrite, TypeOK

\* The record the holder of the lock has written, when it waits for a fsync.
LEMMA HeldRecord ==
  ASSUME TypeOK, holder # <<>>, holder[1].kind # "compact"
  PROVE  holder[1] \in Record
<1>1. holder \in OptionOf(Record \union {CompactRec})
  BY DEF TypeOK
<1>2. holder[1] \in Record \union {CompactRec}
  BY <1>1, OptionTypes
<1> QED
  BY <1>2 DEF CompactRec

\* An fsync and the answer to its caller keep the types (sync_all).
LEMMA SyncType ==
  ASSUME TypeOK, Sync
  PROVE  TypeOK'
<1>1. holder[1] \in Record /\ holder[1].id \in Entries
  BY HeldRecord, RecordTypes DEF Sync
<1>2. durable' \in 0..Len(lines')
  BY DEF Sync, SyncedLines, TypeOK
<1>3. holder' \in OptionOf(Record \union {CompactRec})
  BY OptionTypes DEF Sync
<1>4. Markers(holder[1].id) \subseteq Record
  BY <1>1, RecordTypes DEF Markers
<1>5. /\ acked' \subseteq Entries /\ doneAcked' \subseteq Entries
      /\ deadAcked' \subseteq Entries /\ exposed' \subseteq Entries
      /\ known' \subseteq Record
  BY <1>1, <1>4 DEF Sync, Answer, TypeOK
<1> QED
  BY <1>2, <1>3, <1>5 DEF Sync, TypeOK

\* Reading what is pending keeps the types (pending).
LEMMA ReadType ==
  ASSUME TypeOK, Read
  PROVE  TypeOK'
<1>1. \A i \in DOMAIN Pending(Records) : Pending(Records)[i] \in Record
  BY RecordsType, PendingElements
<1>2. \A i \in DOMAIN Pending(Records) : Markers(Pending(Records)[i].id) \subseteq Record
  BY <1>1, RecordTypes DEF Markers
<1>3. known' \subseteq Record
  BY <1>2 DEF Read, TypeOK
<1> QED
  BY <1>3 DEF Read, TypeOK, file

\* The rename of a compaction keeps the types (compact).
LEMMA CompactRenameType ==
  ASSUME TypeOK, CompactRename
  PROVE  TypeOK'
<1>1. lines' \in Seq(Line) /\ durable' \in 0..Len(lines')
  BY RecordsType, CompactedType, RenamedType DEF CompactRename
<1>2. tail' \in OptionOf(Line) /\ holder' \in OptionOf(Record \union {CompactRec})
  BY OptionTypes DEF CompactRename
<1>3. replaced' \subseteq File /\ \A f \in replaced' : f.durable <= Len(f.lines)
  BY ThisFileType DEF CompactRename, TypeOK, ThisFile
<1> QED
  BY <1>1, <1>2, <1>3 DEF CompactRename, TypeOK, told

\* The fsync of the directory keeps the types (fsync_parent_dir).
LEMMA CompactDirSyncType ==
  ASSUME TypeOK, CompactDirSync
  PROVE  TypeOK'
<1>1. faults' \in 0..MaxFaults
  BY FaultType DEF CompactDirSync, TypeOK
<1>2. holder' \in OptionOf(Record \union {CompactRec})
  BY OptionTypes DEF CompactDirSync
<1>3. replaced' \subseteq replaced
  BY DEF CompactDirSync
<1> QED
  BY <1>1, <1>2, <1>3 DEF CompactDirSync, TypeOK, told

\* What a power cut leaves of a file is a file.
LEMMA LeftoversType ==
  ASSUME NEW f \in File, NEW n \in f.durable..Len(f.lines), NEW t \in Leftovers(f, n)
  PROVE  /\ SubSeq(f.lines, 1, n) \in Seq(Line)
         /\ Len(SubSeq(f.lines, 1, n)) = n
         /\ \A i \in 1..n : i \in 1..Len(f.lines) /\ SubSeq(f.lines, 1, n)[i] = f.lines[i]
         /\ n \in Nat
         /\ t \in OptionOf(Line)
<1>1. f.lines \in Seq(Line) /\ f.tail \in OptionOf(Line) /\ f.durable \in Nat
  BY DEF File
<1>2. n \in Nat /\ n <= Len(f.lines) /\ Len(f.lines) \in Nat
  BY <1>1
<1>3. \A i \in 1..n : i \in 1..Len(f.lines) /\ f.lines[i] \in Line
  BY <1>1, <1>2
<1>4. /\ SubSeq(f.lines, 1, n) \in Seq(Line)
      /\ Len(SubSeq(f.lines, 1, n)) = n
      /\ \A i \in 1..n : SubSeq(f.lines, 1, n)[i] = f.lines[i]
  BY <1>2, <1>3, SubSeqProperties
<1>5. t \in OptionOf(Line)
  <2>1. CASE n = Len(f.lines)
    BY <1>1, <2>1, OptionTypes DEF Leftovers
  <2>2. CASE n # Len(f.lines)
    <3>1. f.lines[n + 1] \in Line
      BY <1>1, <1>2, <2>2
    <3> QED
      BY <2>2, <3>1, OptionTypes, RecordTypes DEF Leftovers
  <2> QED
    BY <2>1, <2>2
<1> QED
  BY <1>2, <1>3, <1>4, <1>5

\* A power cut keeps the types.
LEMMA CrashType ==
  ASSUME TypeOK, Crash
  PROVE  TypeOK'
<1>a. PICK f \in replaced \union {ThisFile} :
        \E n \in f.durable..Len(f.lines) : \E t \in Leftovers(f, n) : CutTo(f, n, t)
  BY DEF Crash
<1>b. PICK n \in f.durable..Len(f.lines) : \E t \in Leftovers(f, n) : CutTo(f, n, t)
  BY <1>a
<1>1. PICK t \in Leftovers(f, n) : CutTo(f, n, t)
  BY <1>b
<1>2. f \in File
  BY ThisFileType DEF TypeOK
<1>3. lines' \in Seq(Line) /\ tail' \in OptionOf(Line) /\ durable' \in 0..Len(lines')
  BY <1>1, <1>2, LeftoversType DEF CutTo
<1>4. tears' \in Nat /\ faults' \in 0..MaxFaults
  BY <1>1, FaultType DEF Crash, CutTo, TypeOK
<1>5. holder' \in OptionOf(Record \union {CompactRec})
  BY OptionTypes DEF Crash
<1> QED
  BY <1>3, <1>4, <1>5 DEF Crash, TypeOK

\* Every step keeps the types.
LEMMA TypeStep == TypeOK /\ [Next]_vars => TypeOK'
<1> SUFFICES ASSUME TypeOK, [Next]_vars PROVE TypeOK'
  OBVIOUS
<1>1. CASE \E r \in Record : Refuse(r) \/ Write(r) \/ ShortWrite(r)
  <2>1. PICK r \in Record : Refuse(r) \/ Write(r) \/ ShortWrite(r)
    BY <1>1
  <2>2. CASE Refuse(r)
    <3>1. posted' \subseteq Entries /\ known' \subseteq Record
      BY <2>2, RecordTypes DEF Refuse, Called, TypeOK
    <3> QED
      BY <2>2, <3>1 DEF Refuse, TypeOK, file
  <2> QED
    BY <2>1, <2>2, WriteType, ShortWriteType
<1>2. CASE Sync
  BY <1>2, SyncType
<1>3. CASE SyncFails
  <2>1. faults' \in 0..MaxFaults /\ holder' \in OptionOf(Record \union {CompactRec})
    BY <1>3, FaultType, OptionTypes DEF SyncFails
  <2> QED
    BY <1>3, <2>1 DEF SyncFails, TypeOK, file, told
<1>4. CASE Read
  BY <1>4, ReadType
<1>5. CASE CompactRename
  BY <1>5, CompactRenameType
<1>6. CASE CompactDirSync
  BY <1>6, CompactDirSyncType
<1>7. CASE Crash
  BY <1>7, CrashType
<1>8. CASE Restart
  BY <1>8 DEF Restart, TypeOK, file, told
<1>9. CASE ReadFails \/ RestartDies \/ UNCHANGED vars
  BY <1>9 DEF ReadFails, RestartDies, TypeOK, vars, file, told
<1> QED
  BY <1>1, <1>2, <1>3, <1>4, <1>5, <1>6, <1>7, <1>8, <1>9 DEF Next

\* Type correctness of the journal (TypeOK).
THEOREM TypeCorrect == Spec => []TypeOK
BY TypeInit, TypeStep, PTL DEF Spec

-----------------------------------------------------------------------------
(***************************************************************************)
(* The inductive invariant.  AckedKept speaks of the file as it is; what   *)
(* makes it last is that every file a power cut may leave behind, the one  *)
(* with the journal's name and those that renames replaced, holds what was *)
(* promised among its durable lines.                                       *)
(***************************************************************************)
Files == replaced \union {ThisFile}

\* A reader of f finds r; r is among the lines no power cut takes from f.
Present(f, r) == (\E i \in DOMAIN f.lines : f.lines[i].rec = r) \/ f.tail = <<Whole(r)>>
Durable(f, r) == \E i \in 1..f.durable : f.lines[i].rec = r

\* kept: entries f must hold; dead, done: entries f must not return as
\* pending; written: entries a Done marker was written for; ids: entries
\* that may occur at all.
Sound(f, kept, dead, done, written, ids) ==
  /\ \A e \in kept : Durable(f, EntryRec(e))
  /\ \A e \in dead : Durable(f, DeadRec(e)) \/ ~Present(f, EntryRec(e))
  /\ \A e \in done : Durable(f, DoneRec(e)) \/ Durable(f, DeadRec(e)) \/ ~Present(f, EntryRec(e))
  /\ \A e \in Entries : Present(f, DoneRec(e)) => e \in written
  /\ \A e \in Entries : Present(f, EntryRec(e)) => e \in ids

FilesSound ==
  \A f \in Files :
    Sound(f, acked \ (exposed \union doneWritten), deadAcked \ exposed,
          doneAcked \ exposed, doneWritten, posted)

\* Only what was posted is marked, and the line a caller waits to see
\* fsynced is the last one.
CallersKnow ==
  /\ \A r \in known : r.id \in posted
  /\ deadAcked \union doneAcked \subseteq posted
  /\ (holder # <<>> /\ holder[1].kind # "compact") =>
       /\ holder[1].id \in posted
       /\ Len(lines) > 0 /\ lines[Len(lines)].rec = holder[1]

JournalInv == TypeOK /\ CallersKnow /\ FilesSound

\* Soundness passes from a file f to what a step makes of it: no durable
\* record goes, what newly appears was never promised away, and what is
\* newly promised is durable.
LEMMA SoundStep ==
  ASSUME NEW f, NEW kept, NEW dead, NEW done, NEW written, NEW ids,
         NEW g, NEW kept2, NEW dead2, NEW done2, NEW written2, NEW ids2,
         Sound(f, kept, dead, done, written, ids),
         \A r \in Record : Durable(f, r) => Durable(g, r),
         \A r \in Record : Present(g, r) =>
           \/ Present(f, r)
           \/ /\ r.kind = "entry" => r.id \in ids2 \ (dead2 \union done2)
              /\ r.kind = "done" => r.id \in written2,
         kept2 \subseteq Entries, dead2 \subseteq Entries, done2 \subseteq Entries,
         \A e \in kept2 : e \in kept \/ Durable(g, EntryRec(e)),
         \A e \in dead2 : e \in dead \/ Durable(g, DeadRec(e)),
         \A e \in done2 : e \in done \/ Durable(g, DoneRec(e)),
         written \subseteq written2, ids \subseteq ids2
  PROVE  Sound(g, kept2, dead2, done2, written2, ids2)
<1>1. \A e \in Entries : /\ EntryRec(e) \in Record /\ EntryRec(e).kind = "entry" /\ EntryRec(e).id = e
                         /\ DoneRec(e) \in Record /\ DoneRec(e).kind = "done" /\ DoneRec(e).id = e
                         /\ DeadRec(e) \in Record
  BY RecordTypes DEF EntryRec, DoneRec
<1>2. \A e \in kept2 : Durable(g, EntryRec(e))
  BY <1>1 DEF Sound
<1>3. ASSUME NEW e \in dead2 PROVE Durable(g, DeadRec(e)) \/ ~Present(g, EntryRec(e))
  BY <1>1, <1>3 DEF Sound
<1>4. ASSUME NEW e \in done2
      PROVE  Durable(g, DoneRec(e)) \/ Durable(g, DeadRec(e)) \/ ~Present(g, EntryRec(e))
  BY <1>1, <1>4 DEF Sound
<1>5. \A e \in Entries : Present(g, DoneRec(e)) => e \in written2
  BY <1>1 DEF Sound
<1>6. \A e \in Entries : Present(g, EntryRec(e)) => e \in ids2
  BY <1>1 DEF Sound
<1> QED
  BY <1>2, <1>3, <1>4, <1>5, <1>6 DEF Sound

\* A file that no step touches stays sound, whatever else is written.
LEMMA SoundUntouched ==
  ASSUME NEW f, NEW kept, NEW dead, NEW done, NEW written, NEW ids,
         NEW kept2, NEW dead2, NEW done2, NEW written2, NEW ids2,
         Sound(f, kept, dead, done, written, ids),
         kept2 \subseteq kept, dead2 \subseteq dead, done2 \subseteq done,
         written \subseteq written2, ids \subseteq ids2
  PROVE  Sound(f, kept2, dead2, done2, written2, ids2)
BY DEF Sound

\* The initial states satisfy the invariant: no file has been promised anything.
LEMMA InvInit == Init => JournalInv
<1> SUFFICES ASSUME Init PROVE JournalInv
  OBVIOUS
<1>1. CallersKnow
  BY DEF Init, CallersKnow
<1>2. \A f \in Files : f.lines = <<>> /\ f.tail = <<>>
  BY DEF Init, Files, ThisFile, NoFile
<1>3. \A f \in Files : \A r : ~Present(f, r)
  BY <1>2 DEF Present
<1>4. FilesSound
  BY <1>3 DEF FilesSound, Sound, Init
<1> QED
  BY <1>1, <1>4, TypeInit DEF JournalInv

-----------------------------------------------------------------------------
(***************************************************************************)
(* Each action preserves it.                                               *)
(***************************************************************************)

\* What a writer may append: nothing that was ever promised away.
LEMMA MayAppendFresh ==
  ASSUME JournalInv, NEW r \in Record, MayAppend(r), Called(r)
  PROVE  /\ r.id \in posted'
         /\ posted \subseteq posted'
         /\ \A x \in known' : x.id \in posted'
         /\ r.kind = "entry" => r.id \notin deadAcked \union doneAcked
BY DEF JournalInv, CallersKnow, MayAppend, Called

\* A line added at the end of the file disturbs no record before it (append).
LEMMA WriteInv ==
  ASSUME JournalInv, NEW r \in Record, Write(r)
  PROVE  JournalInv'
<1>1. TypeOK'
  BY WriteType DEF JournalInv
<1>2. lines \in Seq(Line) /\ Len(lines) \in Nat /\ Lands(r) \in Line /\ durable \in 0..Len(lines)
  BY DEF JournalInv, TypeOK, Lands, Line
<1>3. /\ lines' = Append(lines, Lands(r)) /\ tail' = <<>> /\ durable' = durable
      /\ replaced' = replaced
  BY DEF Write
<1>4. /\ Len(lines') = Len(lines) + 1 /\ DOMAIN lines' = 1..(Len(lines) + 1)
      /\ DOMAIN lines = 1..Len(lines)
      /\ \A i \in 1..Len(lines) : lines'[i] = lines[i]
      /\ lines'[Len(lines) + 1] = Lands(r)
  BY <1>2, <1>3
<1>5. /\ r.id \in posted' /\ posted \subseteq posted'
      /\ \A x \in known' : x.id \in posted'
      /\ r.kind = "entry" => r.id \notin deadAcked \union doneAcked
  BY MayAppendFresh DEF Write
<1>6. /\ acked' = acked /\ deadAcked' = deadAcked /\ doneAcked' = doneAcked
      /\ exposed' = exposed
      /\ doneWritten \subseteq doneWritten'
      /\ r.kind = "done" => r.id \in doneWritten'
  BY DEF Write
<1>7. CallersKnow'
  <2>1. holder' = <<r>> /\ lines'[Len(lines')].rec = r /\ Len(lines') > 0
    BY <1>2, <1>4 DEF Write, Lands
  <2>2. deadAcked' \union doneAcked' \subseteq posted'
    BY <1>5, <1>6 DEF JournalInv, CallersKnow
  <2> QED
    BY <1>5, <2>1, <2>2 DEF CallersKnow
<1>8. FilesSound'
  <2> SUFFICES ASSUME NEW f \in replaced \union {ThisFile'}
               PROVE  Sound(f, acked' \ (exposed' \union doneWritten'),
                            deadAcked' \ exposed', doneAcked' \ exposed',
                            doneWritten', posted')
    BY <1>3 DEF FilesSound, Files
  <2>1. CASE f \in replaced
    BY <1>5, <1>6, <2>1, SoundUntouched DEF JournalInv, FilesSound, Files
  <2>2. CASE f = ThisFile'
    <3> DEFINE old == ThisFile
    <3>1. Sound(old, acked \ (exposed \union doneWritten), deadAcked \ exposed,
                doneAcked \ exposed, doneWritten, posted)
      BY DEF JournalInv, FilesSound, Files
    <3>2. /\ old.lines = lines /\ old.durable = durable
          /\ f.lines = lines' /\ f.tail = <<>> /\ f.durable = durable
      BY <1>3, <2>2 DEF ThisFile
    <3>3. ASSUME NEW x \in Record, Durable(old, x) PROVE Durable(f, x)
      BY <1>2, <1>4, <3>2, <3>3 DEF Durable
    <3>4. ASSUME NEW x \in Record, Present(f, x) PROVE Present(old, x) \/ x = r
      BY <1>2, <1>4, <3>2, <3>4 DEF Present, Lands
    <3>5. acked' \subseteq Entries /\ deadAcked' \subseteq Entries /\ doneAcked' \subseteq Entries
      BY <1>1 DEF TypeOK
    <3> HIDE DEF old
    <3> QED
      BY <1>5, <1>6, <3>1, <3>3, <3>4, <3>5, SoundStep
  <2> QED
    BY <2>1, <2>2
<1> QED
  BY <1>1, <1>7, <1>8 DEF JournalInv

\* An unfinished line disturbs no finished one (append).
LEMMA ShortWriteInv ==
  ASSUME JournalInv, NEW r \in Record, ShortWrite(r)
  PROVE  JournalInv'
<1>1. TypeOK'
  BY ShortWriteType DEF JournalInv
<1>2. PICK t \in {Torn(r), Whole(r)} :
        /\ tail' = <<t>>
        /\ doneWritten' = IF t.intact /\ r.kind = "done"
                            THEN doneWritten \union {r.id} ELSE doneWritten
  BY DEF ShortWrite
<1>3. lines' = lines /\ durable' = durable /\ replaced' = replaced /\ holder = <<>> /\ holder' = <<>>
  BY DEF ShortWrite
<1>4. /\ r.id \in posted' /\ posted \subseteq posted'
      /\ \A x \in known' : x.id \in posted'
      /\ r.kind = "entry" => r.id \notin deadAcked \union doneAcked
  BY MayAppendFresh DEF ShortWrite
<1>5. /\ acked' = acked /\ deadAcked' = deadAcked /\ doneAcked' = doneAcked
      /\ exposed' = exposed
      /\ doneWritten \subseteq doneWritten'
  BY <1>2 DEF ShortWrite
<1>6. CallersKnow'
  BY <1>3, <1>4, <1>5 DEF JournalInv, CallersKnow
<1>7. FilesSound'
  <2> SUFFICES ASSUME NEW f \in replaced \union {ThisFile'}
               PROVE  Sound(f, acked' \ (exposed' \union doneWritten'),
                            deadAcked' \ exposed', doneAcked' \ exposed',
                            doneWritten', posted')
    BY <1>3 DEF FilesSound, Files
  <2>1. CASE f \in replaced
    BY <1>4, <1>5, <2>1, SoundUntouched DEF JournalInv, FilesSound, Files
  <2>2. CASE f = ThisFile'
    <3> DEFINE old == ThisFile
    <3>1. Sound(old, acked \ (exposed \union doneWritten), deadAcked \ exposed,
                doneAcked \ exposed, doneWritten, posted)
      BY DEF JournalInv, FilesSound, Files
    <3>2. /\ old.lines = lines /\ old.durable = durable
          /\ f.lines = lines /\ f.tail = <<t>> /\ f.durable = durable
      BY <1>2, <1>3, <2>2 DEF ThisFile
    <3>3. \A x \in Record : Durable(old, x) => Durable(f, x)
      BY <3>2 DEF Durable
    <3>4. ASSUME NEW x \in Record, Present(f, x)
          PROVE  Present(old, x) \/ (x = r /\ (r.kind = "done" => r.id \in doneWritten'))
      <4>1. CASE \E i \in DOMAIN f.lines : f.lines[i].rec = x
        BY <3>2, <4>1 DEF Present
      <4>2. CASE f.tail = <<Whole(x)>>
        <5>1. t = Whole(x)
          BY <3>2, <4>2
        <5>2. t = Whole(r) /\ x = r
          BY <5>1 DEF Whole, Torn
        <5> QED
          BY <1>2, <5>2 DEF Whole
      <4> QED
        BY <3>4, <4>1, <4>2 DEF Present
    <3>5. acked' \subseteq Entries /\ deadAcked' \subseteq Entries /\ doneAcked' \subseteq Entries
      BY <1>1 DEF TypeOK
    <3> HIDE DEF old
    <3> QED
      BY <1>4, <1>5, <3>1, <3>3, <3>4, <3>5, SoundStep
  <2> QED
    BY <2>1, <2>2
<1> QED
  BY <1>1, <1>6, <1>7 DEF JournalInv

\* An entry is acknowledged only with its line durable (append).
LEMMA SyncInv ==
  ASSUME JournalInv, Sync
  PROVE  JournalInv'
<1> DEFINE r == holder[1]
<1>1. TypeOK'
  BY SyncType DEF JournalInv
<1>2. r \in Record /\ r.id \in posted /\ Len(lines) > 0 /\ lines[Len(lines)].rec = r
  BY HeldRecord DEF JournalInv, CallersKnow, Sync
<1>3. lines \in Seq(Line) /\ Len(lines) \in Nat /\ durable \in 0..Len(lines)
  BY DEF JournalInv, TypeOK
<1>4. /\ lines' = lines /\ tail' = tail /\ durable' = Len(lines) /\ replaced' = replaced
      /\ posted' = posted /\ doneWritten' = doneWritten /\ holder' = <<>>
  BY DEF Sync, SyncedLines
<1>5. /\ acked' \subseteq acked \union (IF r.kind = "entry" THEN {r.id} ELSE {})
      /\ doneAcked' \subseteq doneAcked \union (IF r.kind = "done" THEN {r.id} ELSE {})
      /\ deadAcked' \subseteq deadAcked \union (IF r.kind = "dead" THEN {r.id} ELSE {})
      /\ exposed \subseteq exposed'
      /\ replaced # {} => r.id \in exposed'
  BY DEF Sync, Answer
<1>6. CallersKnow'
  <2>1. \A x \in known' : x.id \in posted'
    BY <1>2, <1>4 DEF JournalInv, CallersKnow, Sync, Answer, Markers, DoneRec, DeadRec
  <2>2. deadAcked' \union doneAcked' \subseteq posted'
    BY <1>2, <1>4, <1>5 DEF JournalInv, CallersKnow
  <2> QED
    BY <1>4, <2>1, <2>2 DEF CallersKnow
<1>7. FilesSound'
  <2> SUFFICES ASSUME NEW f \in replaced \union {ThisFile'}
               PROVE  Sound(f, acked' \ (exposed' \union doneWritten'),
                            deadAcked' \ exposed', doneAcked' \ exposed',
                            doneWritten', posted')
    BY <1>4 DEF FilesSound, Files
  <2>1. CASE f \in replaced
    <3>1. r.id \in exposed'
      BY <1>5, <2>1
    <3> QED
      BY <1>4, <1>5, <2>1, <3>1, SoundUntouched DEF JournalInv, FilesSound, Files
  <2>2. CASE f = ThisFile'
    <3> DEFINE old == ThisFile
    <3>1. Sound(old, acked \ (exposed \union doneWritten), deadAcked \ exposed,
                doneAcked \ exposed, doneWritten, posted)
      BY DEF JournalInv, FilesSound, Files
    <3>2. /\ old.lines = lines /\ old.tail = tail /\ old.durable = durable
          /\ f.lines = lines /\ f.tail = tail /\ f.durable = Len(lines)
      BY <1>4, <2>2 DEF ThisFile
    <3>3. \A x \in Record : Durable(old, x) => Durable(f, x)
      BY <1>3, <3>2 DEF Durable
    <3>4. \A x \in Record : Present(f, x) => Present(old, x)
      BY <3>2 DEF Present
    <3>5. Durable(f, r)
      BY <1>2, <1>3, <3>2 DEF Durable
    <3>6. /\ r.kind = "entry" => r = EntryRec(r.id)
          /\ r.kind = "done" => r = DoneRec(r.id)
          /\ r.kind = "dead" => r = DeadRec(r.id)
      BY <1>2 DEF Record, EntryRec, DoneRec, DeadRec
    <3>7. acked' \subseteq Entries /\ deadAcked' \subseteq Entries /\ doneAcked' \subseteq Entries
      BY <1>1 DEF TypeOK
    <3> HIDE DEF old, r
    <3>8. /\ \A e \in acked' : e \in acked \/ Durable(f, EntryRec(e))
          /\ \A e \in deadAcked' : e \in deadAcked \/ Durable(f, DeadRec(e))
          /\ \A e \in doneAcked' : e \in doneAcked \/ Durable(f, DoneRec(e))
      BY <1>5, <3>5, <3>6
    <3> QED
      BY <1>4, <1>5, <3>1, <3>3, <3>4, <3>7, <3>8, SoundStep
  <2> QED
    BY <2>1, <2>2
<1> QED
  BY <1>1, <1>6, <1>7 DEF JournalInv

\* A replay of the file returns what is present in it.
LEMMA HoldsRecords ==
  ASSUME TypeOK, NEW r \in Record
  PROVE  Holds(Records, r) <=> Present(ThisFile, r)
<1> DEFINE rest == IF tail # <<>> /\ tail[1].intact THEN Recs(tail) ELSE <<>>
<1>1. lines \in Seq(Line) /\ tail \in OptionOf(Line)
  BY DEF TypeOK
<1>2. Recs(lines) \in Seq(Record) /\ rest \in Seq(Record) /\ Records = Recs(lines) \o rest
  BY <1>1, RecsType, TailType DEF Records
<1>3. Holds(Records, r) <=> Holds(Recs(lines), r) \/ Holds(rest, r)
  <2> HIDE DEF rest
  <2> QED
    BY <1>2, HoldsConcat
<1>4. Holds(Recs(lines), r) <=> \E i \in DOMAIN lines : lines[i].rec = r
  BY <1>1, RecsType DEF Holds
<1>5. Holds(rest, r) <=> tail = <<Whole(r)>>
  <2>1. CASE tail = <<>>
    BY <2>1 DEF Holds
  <2>2. CASE tail # <<>>
    <3>1. tail \in Seq(Line) /\ tail[1] \in Line /\ tail = <<tail[1]>>
      BY <1>1, <2>2, OptionTypes
    <3>2. DOMAIN Recs(tail) = {1} /\ Recs(tail)[1] = tail[1].rec
      BY <3>1 DEF Recs
    <3>3. Holds(rest, r) <=> tail[1].intact /\ tail[1].rec = r
      BY <2>2, <3>2 DEF Holds
    <3>4. tail = <<Whole(r)>> <=> tail[1] = Whole(r)
      BY <3>1
    <3>5. tail[1] = Whole(r) <=> tail[1].intact /\ tail[1].rec = r
      BY <3>1 DEF Whole, Line
    <3> QED
      BY <3>3, <3>4, <3>5
  <2> QED
    BY <2>1, <2>2
<1> QED
  BY <1>3, <1>4, <1>5 DEF Present, ThisFile

\* What is durable in a file is in it.
LEMMA DurablePresent ==
  ASSUME TypeOK, NEW r, Durable(ThisFile, r)
  PROVE  Present(ThisFile, r)
<1>1. DOMAIN lines = 1..Len(lines) /\ durable \in 0..Len(lines) /\ Len(lines) \in Nat
  BY DEF TypeOK
<1> QED
  BY <1>1 DEF Durable, Present, ThisFile

\* The compacted file keeps every promise its predecessor kept.
LEMMA SoundCompacted ==
  ASSUME TypeOK, NEW g, NEW kept \in SUBSET Entries, NEW dead \in SUBSET Entries,
         NEW done \in SUBSET Entries, NEW written, NEW ids,
         kept \intersect written = {},
         Sound(ThisFile, kept, dead, done, written, ids),
         \A r \in Record : Present(g, r) <=> Holds(Compacted(Records), r),
         \A r \in Record : Durable(g, r) <=> Holds(Compacted(Records), r)
  PROVE  Sound(g, kept, dead, done, written, ids)
<1> DEFINE f == ThisFile
           body == Compacted(Records)
<1>1. Records \in Seq(Record)
  BY RecordsType
<1>2. \A r \in Record : Holds(Records, r) <=> Present(f, r)
  BY HoldsRecords
<1>3. \A r \in Record : Durable(f, r) => Holds(Records, r)
  BY <1>2, DurablePresent
<1>4. Sound(f, kept, dead, done, written, ids)
  OBVIOUS
<1>5. \A e \in Entries : /\ EntryRec(e) \in Record /\ DoneRec(e) \in Record /\ DeadRec(e) \in Record
                         /\ DoneRec(e).kind = "done"
  BY RecordTypes DEF DoneRec
<1> HIDE DEF f
<1>6. ASSUME NEW e \in kept PROVE Durable(g, EntryRec(e))
  <2>1. Holds(Records, EntryRec(e)) /\ ~Holds(Records, DoneRec(e))
    BY <1>2, <1>3, <1>4, <1>5, <1>6 DEF Sound
  <2> QED
    BY <1>1, <1>5, <2>1, CompactedKeepsUndelivered
<1>7. ASSUME NEW e \in Entries, Present(g, EntryRec(e))
      PROVE  Holds(Records, EntryRec(e)) /\ Present(f, EntryRec(e))
  <2>1. Holds(body, EntryRec(e))
    BY <1>5, <1>7
  <2>2. Holds(Records, EntryRec(e))
    BY <1>1, <2>1, CompactedAddsNothing
  <2> QED
    BY <1>2, <1>5, <2>2
<1>8. ASSUME NEW e \in Entries, Present(g, EntryRec(e)), Durable(f, DeadRec(e))
      PROVE  Durable(g, DeadRec(e))
  <2>1. Holds(Records, EntryRec(e)) /\ Holds(Records, DeadRec(e))
    BY <1>3, <1>5, <1>7, <1>8
  <2> QED
    BY <1>1, <1>5, <2>1, CompactedKeepsDead
<1>9. ASSUME NEW e \in dead PROVE Durable(g, DeadRec(e)) \/ ~Present(g, EntryRec(e))
  BY <1>4, <1>7, <1>8, <1>9 DEF Sound
<1>10. ASSUME NEW e \in done, Present(g, EntryRec(e)) PROVE Durable(g, DeadRec(e))
  <2>1. Durable(f, DoneRec(e)) \/ Durable(f, DeadRec(e))
    BY <1>4, <1>7, <1>10 DEF Sound
  <2>2. CASE Holds(Records, DeadRec(e))
    <3>1. Holds(body, DeadRec(e))
      BY <1>1, <1>7, <1>10, <2>2, CompactedKeepsDead
    <3> QED
      BY <1>5, <3>1
  <2>3. CASE ~Holds(Records, DeadRec(e))
    <3>1. Holds(Records, DoneRec(e))
      BY <1>3, <1>5, <2>1, <2>3
    <3>2. ~Holds(body, EntryRec(e))
      BY <1>1, <2>3, <3>1, CompactedDropsDelivered
    <3> QED
      BY <1>5, <1>10, <3>2
  <2> QED
    BY <2>2, <2>3
<1>11. ASSUME NEW e \in Entries, Present(g, DoneRec(e)) PROVE e \in written
  BY <1>1, <1>5, <1>11, CompactedAddsNothing
<1>12. ASSUME NEW e \in Entries, Present(g, EntryRec(e)) PROVE e \in ids
  BY <1>4, <1>7, <1>12 DEF Sound
<1> QED
  BY <1>6, <1>9, <1>10, <1>11, <1>12 DEF Sound

\* A compaction keeps every record the invariant speaks of (compact).
LEMMA CompactRenameInv ==
  ASSUME JournalInv, CompactRename
  PROVE  JournalInv'
<1> DEFINE body == Compacted(Records)
<1>1. TypeOK /\ TypeOK'
  BY CompactRenameType DEF JournalInv
<1>2. body \in Seq(Record) /\ Len(body) \in Nat /\ DOMAIN body = 1..Len(body)
  <2>1. body \in Seq(Record)
    BY <1>1, RecordsType, CompactedType
  <2> HIDE DEF body
  <2> QED
    BY <2>1
<1>3. /\ lines' = [i \in DOMAIN body |-> Whole(body[i])] /\ durable' = Len(body)
      /\ tail' = <<>> /\ replaced' = replaced \union {ThisFile}
      /\ holder' = <<CompactRec>> /\ UNCHANGED told
  BY DEF CompactRename, Renamed
<1>4. CallersKnow'
  BY <1>3 DEF JournalInv, CallersKnow, told, CompactRec
<1>5. \A r \in Record : /\ Present(ThisFile', r) <=> Holds(body, r)
                        /\ Durable(ThisFile', r) <=> Holds(body, r)
  <2> HIDE DEF body
  <2> TAKE r \in Record
  <2>1. \A i \in DOMAIN body : lines'[i].rec = body[i]
    BY <1>3 DEF Whole
  <2>2. DOMAIN lines' = 1..Len(body) /\ ThisFile'.lines = lines'
        /\ ThisFile'.tail = <<>> /\ ThisFile'.durable = Len(body)
    BY <1>2, <1>3 DEF ThisFile
  <2> QED
    BY <1>2, <2>1, <2>2 DEF Present, Durable, Holds
<1>6. FilesSound'
  <2> SUFFICES ASSUME NEW f \in replaced \union {ThisFile} \union {ThisFile'}
               PROVE  Sound(f, acked \ (exposed \union doneWritten), deadAcked \ exposed,
                            doneAcked \ exposed, doneWritten, posted)
    BY <1>3 DEF FilesSound, Files, told
  <2>1. CASE f \in replaced \union {ThisFile}
    BY <2>1 DEF JournalInv, FilesSound, Files
  <2>2. CASE f = ThisFile'
    <3>1. Sound(ThisFile, acked \ (exposed \union doneWritten), deadAcked \ exposed,
                doneAcked \ exposed, doneWritten, posted)
      BY DEF JournalInv, FilesSound, Files
    <3>2. \A r \in Record : /\ Present(f, r) <=> Holds(Compacted(Records), r)
                            /\ Durable(f, r) <=> Holds(Compacted(Records), r)
      BY <1>5, <2>2
    <3>3. acked \subseteq Entries /\ deadAcked \subseteq Entries /\ doneAcked \subseteq Entries
      BY <1>1 DEF TypeOK
    <3> HIDE DEF body
    <3> QED
      BY <1>1, <3>1, <3>2, <3>3, SoundCompacted
  <2> QED
    BY <2>1, <2>2
<1> QED
  BY <1>1, <1>4, <1>6 DEF JournalInv

\* With the directory fsynced no older file can come back (fsync_parent_dir).
LEMMA CompactDirSyncInv ==
  ASSUME JournalInv, CompactDirSync
  PROVE  JournalInv'
<1>1. TypeOK'
  BY CompactDirSyncType DEF JournalInv
<1>2. /\ Files' \subseteq Files /\ holder' = <<>> /\ UNCHANGED told
  BY DEF CompactDirSync, Files, ThisFile
<1>3. CallersKnow'
  BY <1>2 DEF JournalInv, CallersKnow, told
<1>4. FilesSound'
  BY <1>2 DEF JournalInv, FilesSound, told
<1> QED
  BY <1>1, <1>3, <1>4 DEF JournalInv

\* A power cut takes no durable line, and a reader of what it leaves finds
\* nothing that was not in the file before.
LEMMA SoundCut ==
  ASSUME NEW f \in File, NEW n \in f.durable..Len(f.lines), NEW t \in Leftovers(f, n),
         NEW g, g.lines = SubSeq(f.lines, 1, n), g.tail = t, g.durable = n
  PROVE  \A r \in Record : /\ Durable(f, r) => Durable(g, r)
                           /\ Present(g, r) => Present(f, r)
<1>1. f.lines \in Seq(Line) /\ f.durable \in Nat /\ Len(f.lines) \in Nat
      /\ DOMAIN f.lines = 1..Len(f.lines)
  BY DEF File
<1>2. /\ Len(g.lines) = n /\ g.lines \in Seq(Line) /\ n \in Nat
      /\ \A i \in 1..n : i \in 1..Len(f.lines) /\ g.lines[i] = f.lines[i]
  BY LeftoversType
<1>3. DOMAIN g.lines = 1..n
  BY <1>2
<1> TAKE r \in Record
<1>4. ASSUME Durable(f, r) PROVE Durable(g, r)
  <2>1. PICK i \in 1..f.durable : f.lines[i].rec = r
    BY <1>4 DEF Durable
  <2>2. i \in 1..n
    BY <1>1, <1>2
  <2> QED
    BY <1>2, <2>1, <2>2 DEF Durable
<1>5. ASSUME Present(g, r) PROVE Present(f, r)
  <2>1. CASE \E i \in DOMAIN g.lines : g.lines[i].rec = r
    BY <1>1, <1>2, <1>3, <2>1 DEF Present
  <2>2. CASE t = <<Whole(r)>>
    <3>1. CASE n = Len(f.lines)
      <4>1. t = f.tail
        BY <2>2, <3>1 DEF Leftovers
      <4> QED
        BY <2>2, <4>1 DEF Present
    <3>2. CASE n # Len(f.lines)
      <4>1. n + 1 \in 1..Len(f.lines)
        BY <1>1, <1>2, <3>2
      <4>2. t # <<Torn(f.lines[n + 1].rec)>>
        <5>1. Whole(r) # Torn(f.lines[n + 1].rec)
          BY DEF Whole, Torn
        <5> QED
          BY <2>2, <5>1
      <4>3. <<f.lines[n + 1]>> = <<Whole(r)>>
        BY <2>2, <3>2, <4>2 DEF Leftovers
      <4>4. f.lines[n + 1].rec = r
        BY <4>3 DEF Whole
      <4> QED
        BY <1>1, <4>1, <4>4 DEF Present
    <3> QED
      BY <3>1, <3>2
  <2> QED
    BY <1>5, <2>1, <2>2 DEF Present
<1> QED
  BY <1>4, <1>5

\* A power cut leaves a sound file, this one or one it had replaced.
LEMMA CrashInv ==
  ASSUME JournalInv, Crash
  PROVE  JournalInv'
<1>1. TypeOK /\ TypeOK'
  BY CrashType DEF JournalInv
<1>2. PICK f \in Files :
        \E n \in f.durable..Len(f.lines) : \E t \in Leftovers(f, n) : CutTo(f, n, t)
  BY DEF Crash, Files
<1>3. PICK n \in f.durable..Len(f.lines) : \E t \in Leftovers(f, n) : CutTo(f, n, t)
  BY <1>2
<1>4. PICK t \in Leftovers(f, n) : CutTo(f, n, t)
  BY <1>3
<1>5. f \in File
  BY <1>1, ThisFileType DEF Files, TypeOK
<1>6. /\ holder' = <<>> /\ known' = {} /\ Files' = {ThisFile'}
      /\ UNCHANGED <<posted, acked, doneWritten, deadAcked, doneAcked, exposed>>
  BY DEF Crash, Files
<1>7. CallersKnow'
  BY <1>6 DEF JournalInv, CallersKnow
<1>8. PICK g : g = ThisFile'
  OBVIOUS
<1>9. g.lines = SubSeq(f.lines, 1, n) /\ g.tail = t /\ g.durable = n
  BY <1>4, <1>8 DEF ThisFile, CutTo
<1>10. \A r \in Record : /\ Durable(f, r) => Durable(g, r)
                         /\ Present(g, r) => Present(f, r)
  BY <1>5, <1>9, SoundCut
<1>11. Sound(f, acked \ (exposed \union doneWritten), deadAcked \ exposed,
             doneAcked \ exposed, doneWritten, posted)
  BY DEF JournalInv, FilesSound
<1>12. acked \subseteq Entries /\ deadAcked \subseteq Entries /\ doneAcked \subseteq Entries
  BY <1>1 DEF TypeOK
<1>13. Sound(g, acked \ (exposed \union doneWritten), deadAcked \ exposed,
             doneAcked \ exposed, doneWritten, posted)
  BY <1>10, <1>11, <1>12, SoundStep
<1>14. FilesSound'
  BY <1>6, <1>8, <1>13 DEF FilesSound
<1> QED
  BY <1>1, <1>7, <1>14 DEF JournalInv

\* What is pending was posted, so its markers are of posted entries.
LEMMA ReadInv ==
  ASSUME JournalInv, Read
  PROVE  JournalInv'
<1>1. TypeOK /\ TypeOK'
  BY ReadType DEF JournalInv
<1>2. /\ Files' = Files /\ UNCHANGED <<lines, holder, posted, acked, doneWritten>>
      /\ UNCHANGED <<deadAcked, doneAcked, exposed>>
  BY DEF Read, Files, ThisFile, file
<1>3. \A i \in DOMAIN Pending(Records) : Pending(Records)[i].id \in posted
  <2> TAKE i \in DOMAIN Pending(Records)
  <2> DEFINE r == Pending(Records)[i]
  <2>1. r \in Record /\ r.kind = "entry" /\ Holds(Records, r)
    BY <1>1, RecordsType, PendingElements
  <2>2. r = EntryRec(r.id) /\ r.id \in Entries
    BY <2>1 DEF Record, EntryRec
  <2>3. Present(ThisFile, EntryRec(r.id))
    BY <1>1, <2>1, <2>2, HoldsRecords
  <2> QED
    BY <2>2, <2>3 DEF JournalInv, FilesSound, Files, Sound
<1>4. CallersKnow'
  <2>1. \A x \in known' : x.id \in posted
    BY <1>3 DEF JournalInv, CallersKnow, Read, Markers, DoneRec, DeadRec
  <2> QED
    BY <1>2, <2>1 DEF JournalInv, CallersKnow
<1>5. FilesSound'
  BY <1>2 DEF JournalInv, FilesSound
<1> QED
  BY <1>1, <1>4, <1>5 DEF JournalInv

\* Every step keeps the invariant.
LEMMA InvStep == JournalInv /\ [Next]_vars => JournalInv'
<1> SUFFICES ASSUME JournalInv, [Next]_vars PROVE JournalInv'
  OBVIOUS
<1>0. TypeOK'
  BY TypeStep DEF JournalInv
<1>1. CASE \E r \in Record : Refuse(r) \/ Write(r) \/ ShortWrite(r)
  <2>1. PICK r \in Record : Refuse(r) \/ Write(r) \/ ShortWrite(r)
    BY <1>1
  <2>2. CASE Refuse(r)
    <3>1. posted \subseteq posted' /\ \A x \in known' : x.id \in posted'
      BY <2>2, MayAppendFresh DEF Refuse
    <3>2. /\ Files' = Files /\ holder = <<>> /\ holder' = <<>>
          /\ UNCHANGED <<acked, doneWritten, deadAcked, doneAcked, exposed>>
      BY <2>2 DEF Refuse, Files, ThisFile, file
    <3>3. CallersKnow'
      BY <3>1, <3>2 DEF JournalInv, CallersKnow
    <3>4. FilesSound'
      BY <3>1, <3>2, SoundUntouched DEF JournalInv, FilesSound
    <3> QED
      BY <1>0, <3>3, <3>4 DEF JournalInv
  <2> QED
    BY <2>1, <2>2, WriteInv, ShortWriteInv
<1>2. CASE SyncFails \/ Restart \/ ReadFails \/ RestartDies \/ UNCHANGED vars
  <2>1. /\ Files' = Files /\ UNCHANGED told /\ lines' = lines
        /\ holder' \in {holder, <<>>}
    BY <1>2 DEF SyncFails, Restart, ReadFails, RestartDies, vars, file, Files, ThisFile
  <2>2. CallersKnow'
    BY <2>1 DEF JournalInv, CallersKnow, told
  <2>3. FilesSound'
    BY <2>1 DEF JournalInv, FilesSound, told
  <2> QED
    BY <1>0, <2>2, <2>3 DEF JournalInv
<1> QED
  BY <1>1, <1>2, SyncInv, ReadInv, CompactRenameInv, CompactDirSyncInv, CrashInv DEF Next

\* The invariant the safety theorems follow from: every file a power cut
\* may leave keeps every promise made, and callers hold what was posted.
THEOREM InvHolds == Spec => []JournalInv
BY InvInit, InvStep, PTL DEF Spec

-----------------------------------------------------------------------------
(***************************************************************************)
(* What follows.                                                           *)
(***************************************************************************)

\* A durable line of the file is in the file.
LEMMA DurableInFile ==
  ASSUME TypeOK, NEW r, Durable(ThisFile, r)
  PROVE  InFile(r)
<1>1. DOMAIN lines = 1..Len(lines) /\ durable \in 0..Len(lines) /\ Len(lines) \in Nat
  BY DEF TypeOK
<1> QED
  BY <1>1 DEF Durable, InFile, ThisFile

\* AckedKept, for any number of entries, faults, crashes and compactions:
\* an entry whose source was told "accepted" keeps its line until a Done
\* marker is written for it, unless the answer came before the directory
\* had been fsynced.
THEOREM AckedIsKept == Spec => []AckedKept
<1>1. JournalInv => AckedKept
  <2> SUFFICES ASSUME JournalInv, NEW e \in acked \ (doneWritten \union exposed)
               PROVE  InFile(EntryRec(e))
    BY DEF AckedKept
  <2>1. Durable(ThisFile, EntryRec(e))
    BY DEF JournalInv, FilesSound, Files, Sound
  <2> QED
    BY <2>1, DurableInFile DEF JournalInv
<1> QED
  BY <1>1, InvHolds, PTL

\* DeadKept: what was set aside keeps its payload and its marker.
THEOREM DeadIsKept == Spec => []DeadKept
<1>1. JournalInv => DeadKept
  <2> SUFFICES ASSUME JournalInv,
                      NEW e \in (deadAcked \intersect acked) \ (doneWritten \union exposed)
               PROVE  InFile(EntryRec(e)) /\ InFile(DeadRec(e))
    BY DEF DeadKept
  <2>1. Sound(ThisFile, acked \ (exposed \union doneWritten), deadAcked \ exposed,
              doneAcked \ exposed, doneWritten, posted)
    BY DEF JournalInv, FilesSound, Files
  <2>2. Durable(ThisFile, EntryRec(e))
    BY <2>1 DEF Sound
  <2>3. Present(ThisFile, EntryRec(e))
    BY <2>2, DurablePresent DEF JournalInv
  <2>4. Durable(ThisFile, DeadRec(e))
    BY <2>1, <2>3 DEF Sound
  <2> QED
    BY <2>2, <2>4, DurableInFile DEF JournalInv
<1> QED
  BY <1>1, InvHolds, PTL

\* MarkedStaysSettled: what mark_done or mark_dead answered Ok for is never
\* pending again.
THEOREM MarkedIsSettled == Spec => []MarkedStaysSettled
<1>1. JournalInv => MarkedStaysSettled
  <2> SUFFICES ASSUME JournalInv, NEW i \in DOMAIN Pending(Records),
                      Pending(Records)[i].id \in (doneAcked \union deadAcked) \ exposed
               PROVE  FALSE
    BY DEF MarkedStaysSettled
  <2> DEFINE r == Pending(Records)[i]
             e == r.id
  <2>1. TypeOK /\ Records \in Seq(Record)
    BY RecordsType DEF JournalInv
  <2>2. r \in Record /\ r.kind = "entry" /\ Holds(Records, r) /\ ~Marked(Records, e)
    BY <2>1, PendingElements
  <2>3. r = EntryRec(e) /\ e \in Entries
    BY <2>2 DEF Record, EntryRec
  <2>4. Present(ThisFile, EntryRec(e))
    BY <2>1, <2>2, <2>3, HoldsRecords
  <2>5. Sound(ThisFile, acked \ (exposed \union doneWritten), deadAcked \ exposed,
              doneAcked \ exposed, doneWritten, posted)
    BY DEF JournalInv, FilesSound, Files
  <2>6. Durable(ThisFile, DoneRec(e)) \/ Durable(ThisFile, DeadRec(e))
    <3>1. e \in doneAcked \ exposed \/ e \in deadAcked \ exposed
      OBVIOUS
    <3> HIDE DEF e
    <3> QED
      BY <2>4, <2>5, <3>1 DEF Sound
  <2>7. Holds(Records, DoneRec(e)) \/ Holds(Records, DeadRec(e))
    BY <2>1, <2>3, <2>6, DurablePresent, HoldsRecords, RecordTypes
  <2> QED
    BY <2>2, <2>7 DEF Marked
<1> QED
  BY <1>1, InvHolds, PTL

-----------------------------------------------------------------------------
(***************************************************************************)
(* The damage of tears.  A tail that is there will spoil the line that     *)
(* lands behind it, so it counts like a line that is spoilt already; and   *)
(* a power cut may bring back a replaced file, so each file is counted.    *)
(***************************************************************************)
Spoilt(ls) == {i \in DOMAIN ls : ~ls[i].intact}
Damage(f) == Cardinality(Spoilt(f.lines)) + Len(f.tail)
TearInv == TypeOK /\ \A f \in Files : Damage(f) <= tears

\* A file has finitely many spoilt lines.
LEMMA SpoiltFinite ==
  ASSUME NEW ls \in Seq(Line)
  PROVE  IsFiniteSet(Spoilt(ls)) /\ Cardinality(Spoilt(ls)) \in Nat
<1>1. Len(ls) \in Nat /\ Spoilt(ls) \subseteq 1..Len(ls)
  BY DEF Spoilt
<1> QED
  BY <1>1, PositionsFinite

\* What keeps only lines that were there keeps no more spoilt ones.
LEMMA SpoiltOfPart ==
  ASSUME NEW ls \in Seq(Line), NEW part \in Seq(Line), DOMAIN part \subseteq DOMAIN ls,
         \A i \in DOMAIN part : part[i] = ls[i]
  PROVE  Cardinality(Spoilt(part)) <= Cardinality(Spoilt(ls))
<1>1. Spoilt(part) \in SUBSET Spoilt(ls)
  BY DEF Spoilt
<1> QED
  BY <1>1, SpoiltFinite, FS_Subset

\* An unfinished line is one line.
LEMMA OptionLength ==
  ASSUME NEW S, NEW o \in OptionOf(S)
  PROVE  Len(o) \in {0, 1} /\ (o # <<>> <=> Len(o) = 1)
<1>1. Len(<<>>) = 0
  OBVIOUS
<1>2. ASSUME NEW x \in S PROVE Len(<<x>>) = 1 /\ <<x>> # <<>>
  OBVIOUS
<1> QED
  BY <1>1, <1>2 DEF OptionOf

\* One tear more pays for one unfinished line more.
LEMMA OneTearMore ==
  ASSUME NEW c \in Nat, NEW d \in Nat, c <= d,
         NEW a \in {0, 1}, NEW b \in {0, 1}, NEW m \in Nat, d + a <= m
  PROVE  c + b <= m + 1
OBVIOUS

\* The line behind a tail is spoilt in the tail's place.
LEMMA WriteTears ==
  ASSUME TearInv, NEW r \in Record, Write(r)
  PROVE  TearInv'
<1> DEFINE n == Len(lines)
<1>0. TypeOK'
  BY WriteType DEF TearInv
<1>1. lines \in Seq(Line) /\ n \in Nat /\ tail \in OptionOf(Line) /\ tears \in Nat
  BY DEF TearInv, TypeOK
<1>2. Lands(r) \in Line /\ Lands(r).intact = (tail = <<>>)
  BY DEF Lands, Line
<1>3. /\ lines' \in Seq(Line) /\ DOMAIN lines = 1 .. n /\ DOMAIN lines' = 1 .. n + 1
      /\ \A i \in 1 .. n : lines'[i] = lines[i]
      /\ lines'[n + 1] = Lands(r)
  BY <1>1, <1>2 DEF Write
<1>a. /\ \A i \in 1 .. n + 1 : i \in 1 .. n \/ i = n + 1
      /\ \A i \in 1 .. n : i \in 1 .. n + 1
      /\ n + 1 \in 1 .. n + 1
  BY <1>1
<1>b. /\ \A i : i \in Spoilt(lines) <=> i \in 1 .. n /\ ~lines[i].intact
      /\ \A i : i \in Spoilt(lines') <=> i \in 1 .. n + 1 /\ ~lines'[i].intact
  BY <1>3 DEF Spoilt
<1> HIDE DEF n
<1>4. Cardinality(Spoilt(lines')) <= Cardinality(Spoilt(lines)) + Len(tail)
  <2>1. CASE tail = <<>>
    <3>1. Spoilt(lines') = Spoilt(lines)
      BY <1>2, <1>3, <1>a, <1>b, <2>1, Zenon
    <3> QED
      BY <3>1, <1>1, <2>1, SpoiltFinite
  <2>2. CASE tail # <<>>
    <3>1. Spoilt(lines') = Spoilt(lines) \union {n + 1}
      BY <1>2, <1>3, <1>a, <1>b, <2>2, Zenon
    <3>2. Cardinality(Spoilt(lines')) <= Cardinality(Spoilt(lines)) + 1
      <4> DEFINE S == Spoilt(lines)
                 x == n + 1
      <4>1. IsFiniteSet(S) /\ Cardinality(S) \in Nat
        BY <1>1, SpoiltFinite
      <4> HIDE DEF S, x
      <4>2. Cardinality(S \union {x}) \in {Cardinality(S), Cardinality(S) + 1}
        BY <4>1, FS_AddElement
      <4>3. Cardinality(S \union {x}) <= Cardinality(S) + 1
        BY <4>1, <4>2
      <4> QED
        BY <3>1, <4>3 DEF S, x
    <3>3. Len(tail) = 1
      BY <1>1, <2>2, OptionLength
    <3> QED
      BY <3>2, <3>3
  <2> QED
    BY <2>1, <2>2
<1>5. Damage(ThisFile) <= tears /\ \A f \in replaced : Damage(f) <= tears
  BY DEF TearInv, Files
<1>6. ThisFile' = [lines |-> lines', tail |-> <<>>, durable |-> durable']
  BY DEF ThisFile, Write
<1>7. Damage(ThisFile') = Cardinality(Spoilt(lines'))
  <2>1. Cardinality(Spoilt(lines')) \in Nat
    BY <1>3, SpoiltFinite
  <2> QED
    BY <1>6, <2>1 DEF Damage
<1>8. Damage(ThisFile') <= tears
  <2>1. Cardinality(Spoilt(lines')) \in Nat /\ Cardinality(Spoilt(lines)) \in Nat
    BY <1>1, <1>3, SpoiltFinite
  <2>2. Len(tail) \in Nat
    BY <1>1, OptionLength
  <2>3. Damage(ThisFile) = Cardinality(Spoilt(lines)) + Len(tail)
    BY DEF Damage, ThisFile
  <2> QED
    BY <1>1, <1>4, <1>5, <1>7, <2>1, <2>2, <2>3
<1>9. replaced' = replaced /\ tears' = tears
  BY DEF Write
<1> QED
  BY <1>0, <1>5, <1>8, <1>9 DEF TearInv, Files

\* A write that stops half way is a tear, and leaves a tail.
LEMMA ShortWriteTears ==
  ASSUME TearInv, NEW r \in Record, ShortWrite(r)
  PROVE  TearInv'
<1>0. TypeOK'
  BY ShortWriteType DEF TearInv
<1>1. lines \in Seq(Line) /\ tail \in OptionOf(Line) /\ tears \in Nat
  BY DEF TearInv, TypeOK
<1>2. lines' = lines /\ replaced' = replaced /\ tears' = tears + 1
  BY DEF ShortWrite
<1>3. Len(tail') \in {0, 1} /\ Len(tail) \in {0, 1}
  BY <1>0, <1>1, OptionLength DEF TypeOK
<1>4. Cardinality(Spoilt(lines)) \in Nat
  BY <1>1, SpoiltFinite
<1>5. /\ Damage(ThisFile) = Cardinality(Spoilt(lines)) + Len(tail)
      /\ Damage(ThisFile') = Cardinality(Spoilt(lines)) + Len(tail')
  BY <1>2 DEF Damage, ThisFile
<1>6. Damage(ThisFile) <= tears /\ \A f \in replaced : Damage(f) <= tears
  BY DEF TearInv, Files
<1>7. Damage(ThisFile') <= tears'
  <2> DEFINE c == Cardinality(Spoilt(lines))
             a == Len(tail)
             b == Len(tail')
  <2>1. c \in Nat /\ a \in {0, 1} /\ b \in {0, 1} /\ tears \in Nat
    BY <1>1, <1>3, <1>4
  <2>2. c + a <= tears /\ c <= c
    BY <1>4, <1>5, <1>6
  <2>3. Damage(ThisFile') = c + b /\ tears' = tears + 1
    BY <1>2, <1>5
  <2> HIDE DEF c, a, b
  <2>4. c + b <= tears + 1
    BY <2>1, <2>2, OneTearMore
  <2> QED
    BY <2>3, <2>4
<1>8. ASSUME NEW f \in replaced PROVE Damage(f) <= tears'
  <2>1. f.lines \in Seq(Line) /\ f.tail \in OptionOf(Line)
    BY DEF TearInv, TypeOK, File
  <2>2. Cardinality(Spoilt(f.lines)) \in Nat /\ Len(f.tail) \in Nat
    BY <2>1, SpoiltFinite, OptionLength
  <2>3. Damage(f) \in Nat
    BY <2>2 DEF Damage
  <2> QED
    BY <1>1, <1>2, <1>6, <2>3
<1> QED
  BY <1>0, <1>2, <1>7, <1>8 DEF TearInv, Files

\* What a compaction writes is whole.
LEMMA CompactRenameTears ==
  ASSUME TearInv, CompactRename
  PROVE  TearInv'
<1>0. TypeOK'
  BY CompactRenameType DEF TearInv
<1>1. tears \in Nat /\ tears' = tears /\ replaced' = Files /\ tail' = <<>>
  BY DEF TearInv, TypeOK, CompactRename, Files
<1>2. Spoilt(lines') = {}
  BY DEF CompactRename, Renamed, Spoilt, Whole
<1>3. Damage(ThisFile') = 0
  BY <1>1, <1>2, FS_EmptySet DEF Damage, ThisFile
<1> QED
  BY <1>0, <1>1, <1>3 DEF TearInv, Files

\* A power cut leaves part of a file and at most one more unfinished line.
LEMMA CrashTears ==
  ASSUME TearInv, Crash
  PROVE  TearInv'
<1>0. TypeOK /\ TypeOK'
  BY CrashType DEF TearInv
<1>a. PICK f \in Files :
        \E n \in f.durable..Len(f.lines) : \E t \in Leftovers(f, n) : CutTo(f, n, t)
  BY DEF Crash, Files
<1>b. PICK n \in f.durable..Len(f.lines) : \E t \in Leftovers(f, n) : CutTo(f, n, t)
  BY <1>a
<1>1. PICK t \in Leftovers(f, n) : CutTo(f, n, t)
  BY <1>b
<1>2. f \in File
  BY <1>0, ThisFileType DEF TypeOK, Files
<1>3. /\ f.lines \in Seq(Line) /\ f.tail \in OptionOf(Line) /\ Damage(f) <= tears
      /\ tears \in Nat
  BY <1>0, <1>2 DEF File, TearInv, TypeOK
<1>4. lines' \in Seq(Line) /\ tail' = t /\ t \in OptionOf(Line)
  BY <1>1, <1>2, LeftoversType DEF CutTo
<1>5. Cardinality(Spoilt(lines')) <= Cardinality(Spoilt(f.lines))
  <2>1. lines' = SubSeq(f.lines, 1, n)
    BY <1>1 DEF CutTo
  <2>2. DOMAIN lines' = 1 .. n /\ DOMAIN f.lines = 1 .. Len(f.lines)
    BY <1>2, <1>3, <1>4, <2>1, LeftoversType
  <2>3. \A i \in 1 .. n : i \in 1 .. Len(f.lines) /\ lines'[i] = f.lines[i]
    BY <1>1, <1>2, <2>1, LeftoversType
  <2> QED
    BY <1>3, <1>4, <2>2, <2>3, SpoiltOfPart
<1>6. /\ Cardinality(Spoilt(lines')) \in Nat /\ Cardinality(Spoilt(f.lines)) \in Nat
      /\ Len(t) \in {0, 1} /\ Len(f.tail) \in {0, 1} /\ Len(<<>>) = 0
  BY <1>3, <1>4, SpoiltFinite, OptionLength
<1>7. Damage(f) = Cardinality(Spoilt(f.lines)) + Len(f.tail)
  BY DEF Damage
<1>8. Cardinality(Spoilt(lines')) + Len(t) <= tears'
  <2>1. CASE t = <<>> \/ t = f.tail
    <3>1. tears' = tears
      BY <1>1, <2>1 DEF CutTo
    <3> QED
      BY <1>3, <1>5, <1>6, <1>7, <2>1, <3>1
  <2>2. CASE ~(t = <<>> \/ t = f.tail)
    <3>1. tears' = tears + 1
      BY <1>1, <2>2 DEF CutTo
    <3> DEFINE c == Cardinality(Spoilt(lines'))
               d == Cardinality(Spoilt(f.lines))
               a == Len(f.tail)
               b == Len(t)
    <3>2. /\ c \in Nat /\ d \in Nat /\ a \in {0, 1} /\ b \in {0, 1} /\ tears \in Nat
          /\ c <= d /\ d + a <= tears
      BY <1>3, <1>5, <1>6, <1>7
    <3> HIDE DEF c, d, a, b
    <3>3. c + b <= tears + 1
      BY <3>2, OneTearMore
    <3> QED
      BY <3>1, <3>3 DEF c, b
  <2> QED
    BY <2>1, <2>2
<1>9. Damage(ThisFile') <= tears' /\ Files' = {ThisFile'}
  BY <1>4, <1>8 DEF Damage, ThisFile, Files, Crash
<1> QED
  BY <1>0, <1>9 DEF TearInv

\* OneTearOneLine, for any number of entries and faults: every tear spoils at
\* most one line of the file, the one that is appended behind it.
THEOREM TearsBounded == Spec => []OneTearOneLine
<1>1. Init => TearInv
  <2> SUFFICES ASSUME Init PROVE TearInv
    OBVIOUS
  <2>1. Damage(ThisFile) = 0 /\ Damage(NoFile) = 0
    <3>1. Spoilt(<<>>) = {}
      BY DEF Spoilt
    <3> QED
      BY <3>1, FS_EmptySet DEF Init, Damage, ThisFile, NoFile
  <2> QED
    BY <2>1, TypeInit DEF Init, Files, TearInv
<1>2. TearInv /\ [Next]_vars => TearInv'
  <2> SUFFICES ASSUME TearInv, [Next]_vars PROVE TearInv'
    OBVIOUS
  <2>0. TypeOK'
    BY TypeStep DEF TearInv
  <2>1. CASE UNCHANGED <<lines, tail, durable, tears>> /\ replaced' \subseteq replaced
    <3>1. Files' \subseteq Files
      BY <2>1 DEF Files, ThisFile
    <3> QED
      BY <2>0, <2>1, <3>1 DEF TearInv
  <2>2. CASE \E r \in Record : Write(r) \/ ShortWrite(r)
    BY <2>2, WriteTears, ShortWriteTears
  <2>3. CASE Sync
    <3>1. ASSUME NEW f \in Files'
          PROVE  \E g \in Files : Damage(f) = Damage(g)
      <4>1. lines' = lines /\ tail' = tail /\ replaced' = replaced
        BY <2>3 DEF Sync
      <4>2. CASE f \in replaced
        BY <4>2 DEF Files
      <4>3. CASE f = ThisFile'
        <5>1. Damage(ThisFile') = Damage(ThisFile)
          BY <4>1 DEF Damage, ThisFile
        <5> QED
          BY <4>3, <5>1 DEF Files
      <4> QED
        BY <4>1, <4>2, <4>3 DEF Files
    <3> QED
      BY <2>0, <2>3, <3>1 DEF TearInv, Sync
  <2>4. CASE ~(\E r \in Record : Write(r) \/ ShortWrite(r)) /\ ~Sync /\ ~CompactRename /\ ~Crash
    <3>1. UNCHANGED <<lines, tail, durable, tears>> /\ replaced' \subseteq replaced
      BY <2>4 DEF Next, Refuse, SyncFails, Read, ReadFails, CompactDirSync, Restart,
           RestartDies, vars, file, told
    <3> QED
      BY <2>1, <3>1
  <2> QED
    BY <2>2, <2>3, <2>4, CompactRenameTears, CrashTears
<1>3. TearInv => OneTearOneLine
  <2> SUFFICES ASSUME TearInv PROVE OneTearOneLine
    OBVIOUS
  <2>1. lines \in Seq(Line) /\ tail \in OptionOf(Line) /\ tears \in Nat
    BY DEF TearInv, TypeOK
  <2>2. Cardinality(Spoilt(lines)) \in Nat /\ Len(tail) \in Nat
    BY <2>1, SpoiltFinite, OptionLength
  <2>3. Damage(ThisFile) = Cardinality(Spoilt(lines)) + Len(tail) /\ Damage(ThisFile) <= tears
    BY DEF TearInv, Files, Damage, ThisFile
  <2> QED
    BY <2>1, <2>2, <2>3 DEF OneTearOneLine, Spoilt
<1> QED
  BY <1>1, <1>2, <1>3, PTL DEF Spec

-----------------------------------------------------------------------------
(***************************************************************************)
(* What a reader sees of a compaction.                                     *)
(***************************************************************************)

\* What is read after the rename is the compacted log.
LEMMA RenamedReads ==
  ASSUME TypeOK, CompactRename
  PROVE  /\ Records' = Compacted(Records)
         /\ lines' \o tail' = lines' /\ lines' \in Seq(Line)
         /\ Len(lines') = Len(Compacted(Records))
         /\ \A i \in 1..Len(lines') : lines'[i].rec = Compacted(Records)[i]
<1> DEFINE body == Compacted(Records)
<1>1. body \in Seq(Record)
  BY RecordsType, CompactedType
<1>2. tail' = <<>> /\ Renamed(body)
  BY DEF CompactRename
<1> HIDE DEF body
<1>3. lines' \in Seq(Line) /\ Len(lines') = Len(body)
  BY <1>1, <1>2, RenamedType
<1>4. DOMAIN body = 1..Len(body) /\ Len(body) \in Nat
  BY <1>1
<1>5. lines' = [i \in 1..Len(body) |-> Whole(body[i])]
  BY <1>2, <1>4 DEF Renamed
<1>6. \A i \in 1..Len(body) : lines'[i].rec = body[i]
  BY <1>5 DEF Whole
<1>7. Recs(lines') \in Seq(Record) /\ Recs(lines') = body
  <2>1. /\ Recs(lines') \in Seq(Record) /\ DOMAIN Recs(lines') = 1..Len(body)
        /\ \A i \in 1..Len(body) : Recs(lines')[i] = body[i]
    BY <1>3, <1>6, RecsType
  <2>2. Recs(lines') = [i \in 1..Len(body) |-> body[i]]
    BY <1>3, <1>5, <1>6 DEF Recs
  <2>3. body = [i \in 1..Len(body) |-> body[i]]
    BY <1>1
  <2> QED
    BY <2>1, <2>2, <2>3
<1>8. Records' = Recs(lines') \o <<>>
  BY <1>2 DEF Records
<1>9. Records' = body /\ lines' \o tail' = lines'
  BY <1>2, <1>3, <1>7, <1>8, ConcatEmptySeq
<1> QED
  BY <1>3, <1>6, <1>9 DEF body

\* CompactionKeepsMeaning, for any number of entries: a reader before a
\* compaction and one after it find the same pending and the same dead
\* entries, in the same order.
THEOREM CompactionMeansTheSame == Spec => CompactionKeepsMeaning
<1>1. TypeOK /\ [Next]_vars
        => [CompactRename => /\ Pending(Records)' = Pending(Records)
                             /\ DeadEntries(Records)' = DeadEntries(Records)]_vars
  <2> SUFFICES ASSUME TypeOK, CompactRename
               PROVE  /\ Pending(Records)' = Pending(Records)
                      /\ DeadEntries(Records)' = DeadEntries(Records)
    OBVIOUS
  <2>1. Records' = Compacted(Records)
    BY RenamedReads
  <2>2. /\ Pending(Compacted(Records)) = Pending(Records)
        /\ DeadEntries(Compacted(Records)) = DeadEntries(Records)
    BY RecordsType, CompactedReplaysAlike
  <2>3. /\ Pending(Records)' = Pending(Records')
        /\ DeadEntries(Records)' = DeadEntries(Records')
    OBVIOUS
  <2> QED
    BY <2>1, <2>2, <2>3
<1> QED
  BY <1>1, TypeCorrect, PTL DEF Spec, CompactionKeepsMeaning

-----------------------------------------------------------------------------
(***************************************************************************)
(* The cap.  A file within it can only be brought past it by a compaction  *)
(* that writes more than it read, which takes an entry that is in the log  *)
(* twice; and a power cut may bring back a replaced file, so each file is  *)
(* looked at.                                                              *)
(***************************************************************************)
WellKept(ls, seen) ==
  /\ Len(ls) <= MaxLines
  /\ \A i, j \in 1..Len(ls) :
       ls[i].rec.kind = "entry" /\ ls[i].rec = ls[j].rec => i = j
  /\ \A i \in 1..Len(ls) : ls[i].rec.kind = "entry" => ls[i].rec.id \in seen

Content(f) == f.lines \o f.tail
CapInv == TypeOK /\ \A f \in Files : WellKept(Content(f), posted)

\* The lines of a file and what follows its last newline.
LEMMA ContentOf ==
  ASSUME NEW ls \in Seq(Line), NEW t \in OptionOf(Line)
  PROVE  /\ ls \o t \in Seq(Line)
         /\ Len(ls) \in Nat /\ Len(t) \in {0, 1} /\ (t = <<>> <=> Len(t) = 0)
         /\ Len(ls \o t) = Len(ls) + Len(t)
         /\ \A i \in 1..Len(ls) : (ls \o t)[i] = ls[i]
         /\ t # <<>> => (ls \o t)[Len(ls) + 1] = t[1]
<1>1. t \in Seq(Line) /\ Len(ls) \in Nat /\ Len(<<>>) = 0
  BY OptionTypes
<1>2. Len(t) \in {0, 1} /\ (t = <<>> <=> Len(t) = 0)
  <2>1. ASSUME NEW x \in Line PROVE Len(<<x>>) = 1 /\ <<x>> # <<>>
    OBVIOUS
  <2> QED
    BY <1>1, <2>1 DEF OptionOf
<1>3. /\ ls \o t \in Seq(Line) /\ Len(ls \o t) = Len(ls) + Len(t)
      /\ \A i \in 1..Len(ls) + Len(t) :
           (ls \o t)[i] = IF i <= Len(ls) THEN ls[i] ELSE t[i - Len(ls)]
  BY <1>1, ConcatProperties
<1> QED
  BY <1>1, <1>2, <1>3

\* What keeps only lines that were there is as well kept.
LEMMA PartWellKept ==
  ASSUME NEW a \in Seq(Line), NEW b \in Seq(Line), NEW seen, NEW later,
         WellKept(a, seen), seen \subseteq later, Len(b) <= Len(a),
         \A i \in 1..Len(b) : b[i].rec = a[i].rec
  PROVE  WellKept(b, later)
<1>1. Len(a) \in Nat /\ Len(b) \in Nat /\ MaxLines \in Nat
  BY MaxLinesAssumption
<1>2. \A i \in 1..Len(b) : i \in 1..Len(a)
  BY <1>1
<1>3. Len(b) <= MaxLines
  BY <1>1 DEF WellKept
<1> QED
  BY <1>2, <1>3 DEF WellKept

\* b is the first n lines of a, and r behind them.
OneMore(a, b, n, r) ==
  /\ n \in Nat /\ n <= Len(a) /\ Len(b) = n + 1 /\ n + 1 <= MaxLines
  /\ \A i \in 1..n : b[i].rec = a[i].rec
  /\ b[n + 1].rec = r

NewTo(r, seen, later) ==
  /\ seen \subseteq later
  /\ r.kind = "entry" => r.id \notin seen /\ r.id \in later

\* A line that fits, with a marker or a new entry, leaves a file well kept.
LEMMA LineWellKept ==
  ASSUME NEW a \in Seq(Line), NEW b \in Seq(Line), NEW seen, NEW later, NEW r,
         NEW n, WellKept(a, seen), OneMore(a, b, n, r), NewTo(r, seen, later)
  PROVE  WellKept(b, later)
<1>0. /\ n \in Nat /\ n <= Len(a) /\ Len(b) = n + 1 /\ n + 1 <= MaxLines
      /\ \A i \in 1..n : b[i].rec = a[i].rec
      /\ b[n + 1].rec = r
      /\ seen \subseteq later
      /\ r.kind = "entry" => r.id \notin seen /\ r.id \in later
  BY DEF OneMore, NewTo
<1>1. Len(a) \in Nat
  OBVIOUS
<1>2. \A i \in 1..n + 1 : i = n + 1 \/ (i \in 1..n /\ i \in 1..Len(a))
  BY <1>0, <1>1
<1>3. \A i \in 1..n : a[i].rec.kind = "entry" => a[i].rec.id \in seen
  BY <1>0, <1>1 DEF WellKept
<1>4. \A i, j \in 1..n : a[i].rec.kind = "entry" /\ a[i].rec = a[j].rec => i = j
  BY <1>0, <1>2, <1>1 DEF WellKept
<1>5. ASSUME NEW i \in 1..n + 1, NEW j \in 1..n + 1,
             b[i].rec.kind = "entry", b[i].rec = b[j].rec
      PROVE  i = j
  BY <1>0, <1>2, <1>3, <1>4, <1>5
<1>6. ASSUME NEW i \in 1..n + 1, b[i].rec.kind = "entry" PROVE b[i].rec.id \in later
  BY <1>0, <1>2, <1>3, <1>6
<1> QED
  BY <1>0, <1>5, <1>6 DEF WellKept

\* An append that fits keeps the cap, whether or not it is finished.
LEMMA AppendCap ==
  ASSUME CapInv, NEW r \in Record, MayAppend(r), Fits, Called(r),
         \/ Write(r)
         \/ ShortWrite(r)
  PROVE  CapInv'
<1>0. TypeOK /\ TypeOK'
  BY WriteType, ShortWriteType DEF CapInv
<1>1. /\ lines \in Seq(Line) /\ tail \in OptionOf(Line)
      /\ lines' \in Seq(Line) /\ tail' \in OptionOf(Line)
  BY <1>0 DEF TypeOK
<1> DEFINE a == lines \o tail
           b == lines' \o tail'
           n == Len(lines)
<1>2. posted \subseteq posted' /\ replaced' = replaced
  BY DEF Called, Write, ShortWrite
<1>3. r.kind = "entry" => r.id \notin posted /\ r.id \in posted'
  BY DEF Called, MayAppend
<1>4. /\ a \in Seq(Line) /\ Len(a) = Len(lines) + Len(tail)
      /\ Len(lines) \in Nat /\ Len(tail) \in {0, 1}
      /\ \A i \in 1..Len(lines) : a[i] = lines[i]
  BY <1>1, ContentOf
<1>5. b \in Seq(Line) /\ Len(b) = Len(lines) + 1
      /\ (\A i \in 1..Len(lines) : b[i] = lines[i])
      /\ b[Len(lines) + 1].rec = r
  <2>1. CASE Write(r)
    <3>1. lines' = Append(lines, Lands(r)) /\ tail' = <<>>
      BY <2>1 DEF Write
    <3>2. Lands(r) \in Line /\ Lands(r).rec = r
      BY DEF Lands, Line
    <3>3. /\ Len(lines') = Len(lines) + 1
          /\ \A i \in 1..Len(lines) : lines'[i] = lines[i]
          /\ lines'[Len(lines) + 1] = Lands(r)
      BY <1>1, <3>1, <3>2
    <3>4. b = lines'
      BY <1>1, <3>1, ConcatEmptySeq
    <3> QED
      BY <1>1, <3>2, <3>3, <3>4
  <2>2. CASE ShortWrite(r)
    <3>1. PICK t \in {Torn(r), Whole(r)} : tail' = <<t>>
      BY <2>2 DEF ShortWrite
    <3>2. lines' = lines /\ t.rec = r
      BY <2>2, <3>1 DEF ShortWrite, Torn, Whole
    <3>3. tail' # <<>> /\ tail'[1] = t
      BY <3>1
    <3>4. Len(tail') = 1
      BY <3>1
    <3>5. /\ b \in Seq(Line) /\ Len(b) = Len(lines') + Len(tail')
          /\ \A i \in 1..Len(lines') : b[i] = lines'[i]
          /\ b[Len(lines') + 1] = tail'[1]
      BY <1>1, <3>3, ContentOf
    <3> QED
      BY <3>2, <3>3, <3>4, <3>5
  <2> QED
    BY <2>1, <2>2
<1>6. Len(lines) <= Len(a) /\ Len(lines) + 1 <= MaxLines
  <2>1. MaxLines \in Nat /\ Len(lines) + Len(tail) + 1 <= MaxLines
    BY MaxLinesAssumption DEF Fits, Size
  <2> QED
    BY <1>4, <2>1
<1>7. Content(ThisFile) = a /\ Content(ThisFile)' = b
  BY DEF Content, ThisFile
<1>8. WellKept(a, posted)
  BY <1>7 DEF CapInv, Files
<1> HIDE DEF a, b
<1>9. WellKept(b, posted')
  <2>1. \A i \in 1..n : b[i].rec = a[i].rec
    BY <1>4, <1>5
  <2>2. /\ a \in Seq(Line) /\ b \in Seq(Line) /\ n \in Nat /\ n <= Len(a)
        /\ Len(b) = n + 1 /\ n + 1 <= MaxLines /\ b[n + 1].rec = r
    BY <1>4, <1>5, <1>6
  <2> HIDE DEF n
  <2>3. OneMore(a, b, n, r)
    BY <2>1, <2>2 DEF OneMore
  <2>4. NewTo(r, posted, posted')
    BY <1>2, <1>3 DEF NewTo
  <2> QED
    BY <1>8, <2>2, <2>3, <2>4, LineWellKept
<1>10. ASSUME NEW f \in replaced PROVE WellKept(Content(f), posted')
  <2>1. f.lines \in Seq(Line) /\ f.tail \in OptionOf(Line)
    BY <1>0 DEF TypeOK, File
  <2>2. Content(f) \in Seq(Line) /\ WellKept(Content(f), posted)
    BY <2>1, ContentOf DEF Content, CapInv, Files
  <2> QED
    BY <1>2, <2>2, PartWellKept
<1> QED
  BY <1>0, <1>2, <1>7, <1>9, <1>10 DEF CapInv, Files

\* A compaction keeps the cap.
LEMMA CompactRenameCap ==
  ASSUME CapInv, CompactRename
  PROVE  CapInv'
<1>0. TypeOK /\ TypeOK'
  BY CompactRenameType DEF CapInv
<1>1. lines \in Seq(Line) /\ tail \in OptionOf(Line)
  BY <1>0 DEF TypeOK
<1> DEFINE a == lines \o tail
           rest == IF tail # <<>> /\ tail[1].intact THEN Recs(tail) ELSE <<>>
           c == Compacted(Records)
<1>2. /\ a \in Seq(Line) /\ Len(a) = Len(lines) + Len(tail)
      /\ Len(lines) \in Nat /\ Len(tail) \in {0, 1} /\ (tail = <<>> <=> Len(tail) = 0)
      /\ \A i \in 1..Len(lines) : a[i] = lines[i]
      /\ tail # <<>> => a[Len(lines) + 1] = tail[1]
  BY <1>1, ContentOf
<1>3. WellKept(a, posted)
  <2>1. Content(ThisFile) = a
    BY DEF Content, ThisFile
  <2> QED
    BY <2>1 DEF CapInv, Files
<1>4. Records \in Seq(Record) /\ Len(Records) <= Len(a)
      /\ \A i \in 1..Len(Records) : Records[i] = a[i].rec
  <2>1. /\ Recs(lines) \in Seq(Record) /\ rest \in Seq(Record)
        /\ Records = Recs(lines) \o rest /\ Records \in Seq(Record)
    BY <1>0, <1>1, RecsType, TailType, RecordsType DEF Records
  <2>2. /\ Len(Recs(lines)) = Len(lines)
        /\ \A i \in 1..Len(lines) : Recs(lines)[i] = lines[i].rec
    <3>1. DOMAIN Recs(lines) = 1..Len(lines)
      BY <1>1, RecsType
    <3>2. Len(Recs(lines)) = Len(lines)
      BY <1>2, <2>1, <3>1, LenProperties
    <3> QED
      BY <1>1, <3>2, RecsType
  <2>3. Len(rest) <= Len(tail) /\ Len(rest) \in Nat
        /\ \A i \in 1..Len(rest) : i = 1 /\ rest[i] = tail[1].rec /\ tail # <<>>
    <3>1. CASE tail # <<>> /\ tail[1].intact
      <4>1. tail \in Seq(Line) /\ tail = <<tail[1]>> /\ Len(tail) = 1
        BY <1>1, <1>2, <3>1, OptionTypes
      <4>2. /\ rest = Recs(tail) /\ Recs(tail) \in Seq(Record)
            /\ DOMAIN Recs(tail) = 1..1 /\ Recs(tail)[1] = tail[1].rec
        BY <3>1, <4>1, RecsType
      <4>3. Len(Recs(tail)) = 1
        BY <4>2, LenProperties
      <4> HIDE DEF rest
      <4> QED
        BY <3>1, <4>1, <4>2, <4>3
    <3>2. CASE ~(tail # <<>> /\ tail[1].intact)
      <4>1. rest = <<>> /\ Len(<<>>) = 0
        BY <3>2
      <4> QED
        BY <1>2, <4>1
    <3> QED
      BY <3>1, <3>2
  <2> HIDE DEF rest
  <2>4. /\ Len(Records) = Len(lines) + Len(rest)
        /\ \A i \in 1..Len(lines) + Len(rest) :
             Records[i] = IF i <= Len(lines) THEN Recs(lines)[i] ELSE rest[i - Len(lines)]
    <3>1. /\ Len(Recs(lines) \o rest) = Len(Recs(lines)) + Len(rest)
          /\ \A i \in 1..Len(Recs(lines)) + Len(rest) :
               (Recs(lines) \o rest)[i] =
                 IF i <= Len(Recs(lines)) THEN Recs(lines)[i]
                                          ELSE rest[i - Len(Recs(lines))]
      BY <2>1, ConcatProperties
    <3> QED
      BY <2>1, <2>2, <3>1
  <2>5. Len(Records) <= Len(a)
    BY <1>2, <2>3, <2>4
  <2>6. ASSUME NEW i \in 1..Len(Records) PROVE Records[i] = a[i].rec
    <3>1. CASE i <= Len(lines)
      BY <1>2, <2>2, <2>4, <3>1
    <3>2. CASE ~(i <= Len(lines))
      <4>1. i - Len(lines) \in 1..Len(rest)
        BY <1>2, <2>3, <2>4, <3>2
      <4>2. i - Len(lines) = 1 /\ rest[i - Len(lines)] = tail[1].rec /\ tail # <<>>
        BY <2>3, <4>1
      <4>3. i = Len(lines) + 1
        BY <1>2, <4>2
      <4> QED
        BY <1>2, <2>4, <3>2, <4>2, <4>3
    <3> QED
      BY <3>1, <3>2
  <2> QED
    BY <2>1, <2>5, <2>6
<1> HIDE DEF a, rest, c
<1>5. /\ Len(a) \in Nat /\ Len(Records) \in Nat /\ MaxLines \in Nat
      /\ DOMAIN Records = 1..Len(Records)
  BY <1>2, <1>4, MaxLinesAssumption
<1>6. EntriesOnce(Records)
  <2>1. \A i \in 1..Len(Records) : i \in 1..Len(a)
    BY <1>4, <1>5
  <2> QED
    BY <1>3, <1>4, <1>5, <2>1 DEF WellKept, EntriesOnce
<1>7. c \in Seq(Record) /\ Len(c) \in Nat /\ Len(c) <= Len(Records)
      /\ DOMAIN c = 1..Len(c) /\ EntriesOnce(c)
  BY <1>4, <1>6, CompactedType, CompactedIsNoLonger, CompactedOnce DEF c
<1>8. ASSUME NEW i \in 1..Len(c), c[i].kind = "entry" PROVE c[i].id \in posted
  <2>1. Holds(c, c[i])
    BY <1>7 DEF Holds
  <2>2. Holds(Records, c[i])
    BY <1>4, <2>1, CompactedAddsNothing DEF c
  <2>3. PICK j \in 1..Len(Records) : Records[j] = c[i]
    BY <1>5, <2>2 DEF Holds
  <2>4. j \in 1..Len(a) /\ a[j].rec = c[i]
    BY <1>4, <1>5, <2>3
  <2> QED
    BY <1>3, <1>8, <2>4 DEF WellKept
<1>9. /\ lines' \o tail' = lines' /\ Len(lines') = Len(c)
      /\ \A i \in 1..Len(c) : lines'[i].rec = c[i]
  BY <1>0, RenamedReads DEF c
<1>10. WellKept(lines', posted)
  <2>1. Len(c) <= MaxLines
    BY <1>3, <1>4, <1>5, <1>7 DEF WellKept
  <2>2. \A i, j \in 1..Len(c) : c[i].kind = "entry" /\ c[i] = c[j] => i = j
    BY <1>7 DEF EntriesOnce
  <2> QED
    BY <1>8, <1>9, <2>1, <2>2 DEF WellKept
<1>11. posted' = posted /\ replaced' = replaced \union {ThisFile}
  BY DEF CompactRename, told
<1>12. Content(ThisFile)' = lines'
  BY <1>9 DEF Content, ThisFile
<1> QED
  BY <1>0, <1>10, <1>11, <1>12 DEF CapInv, Files

\* A power cut keeps the cap: what it leaves of a file was in it.
LEMMA CrashCap ==
  ASSUME CapInv, Crash
  PROVE  CapInv'
<1>0. TypeOK /\ TypeOK'
  BY CrashType DEF CapInv
<1>a. PICK f \in Files :
        \E n \in f.durable..Len(f.lines) : \E t \in Leftovers(f, n) : CutTo(f, n, t)
  BY DEF Crash, Files
<1>b. PICK n \in f.durable..Len(f.lines) : \E t \in Leftovers(f, n) : CutTo(f, n, t)
  BY <1>a
<1>1. PICK t \in Leftovers(f, n) : CutTo(f, n, t)
  BY <1>b
<1>2. f \in File
  BY <1>0, ThisFileType DEF TypeOK, Files
<1> DEFINE a == f.lines \o f.tail
           b == lines' \o tail'
           p == Len(f.lines)
<1>3. f.lines \in Seq(Line) /\ f.tail \in OptionOf(Line)
  BY <1>2 DEF File
<1>4. WellKept(a, posted)
  BY DEF CapInv, Content
<1>5. /\ lines' \in Seq(Line) /\ Len(lines') = n /\ n \in Nat /\ n <= p
      /\ \A i \in 1..n : i \in 1..p /\ lines'[i] = f.lines[i]
      /\ tail' = t /\ t \in OptionOf(Line)
  BY <1>1, <1>2, <1>3, LeftoversType DEF CutTo
<1>6. /\ a \in Seq(Line) /\ p \in Nat /\ Len(f.tail) \in {0, 1}
      /\ Len(a) = p + Len(f.tail)
      /\ \A i \in 1..p : a[i] = f.lines[i]
      /\ f.tail # <<>> => a[p + 1] = f.tail[1]
  BY <1>3, ContentOf
<1>7. /\ b \in Seq(Line) /\ Len(t) \in {0, 1} /\ (t = <<>> <=> Len(t) = 0)
      /\ Len(b) = n + Len(t)
      /\ \A i \in 1..n : b[i] = lines'[i]
      /\ t # <<>> => b[n + 1] = t[1]
  BY <1>5, ContentOf
<1> DEFINE la == Len(a)
           lb == Len(b)
           lt == Len(t)
           ltail == Len(f.tail)
<1>c. /\ n \in Nat /\ p \in Nat /\ n <= p /\ lt \in {0, 1} /\ ltail \in {0, 1}
      /\ la = p + ltail /\ lb = n + lt /\ (t = <<>> <=> lt = 0)
  BY <1>5, <1>6, <1>7
<1>d. f.tail # <<>> => ltail = 1
  BY <1>3, ContentOf
<1> HIDE DEF a, b, p, la, lb, lt, ltail
<1>8. \A i \in 1..n : b[i].rec = a[i].rec
  BY <1>5, <1>6, <1>7
<1>9. t # <<>> => n + 1 <= la /\ t[1].rec = a[n + 1].rec
  <2> SUFFICES ASSUME t # <<>> PROVE n + 1 <= la /\ t[1].rec = a[n + 1].rec
    OBVIOUS
  <2>1. CASE n = p
    <3>1. t = f.tail
      BY <2>1 DEF Leftovers, p
    <3>2. n + 1 <= la
      BY <1>c, <1>d, <2>1, <3>1
    <3> QED
      BY <1>6, <2>1, <3>1, <3>2
  <2>2. CASE n # p
    <3>1. t = <<Torn(f.lines[n + 1].rec)>> \/ t = <<f.lines[n + 1]>>
      BY <2>2 DEF Leftovers, p
    <3>2. t[1].rec = f.lines[n + 1].rec
      BY <3>1 DEF Torn
    <3>3. n + 1 \in 1..p /\ n + 1 <= la
      BY <1>c, <2>2
    <3> QED
      BY <1>6, <3>2, <3>3
  <2> QED
    BY <2>1, <2>2
<1>10. WellKept(b, posted')
  <2>1. lb <= la
    <3>1. CASE t = <<>>
      BY <1>c, <3>1
    <3>2. CASE t # <<>>
      <4>1. n + 1 <= la
        BY <1>9, <3>2
      <4>2. lt = 1 /\ lb = n + 1
        BY <1>c, <3>2
      <4> QED
        BY <4>1, <4>2
    <3> QED
      BY <3>1, <3>2
  <2>2. ASSUME NEW i \in 1..lb PROVE b[i].rec = a[i].rec
    <3>1. CASE i \in 1..n
      BY <1>8, <3>1
    <3>2. CASE i \notin 1..n
      <4>1. i = n + 1 /\ t # <<>>
        BY <1>c, <3>2
      <4> QED
        BY <1>7, <1>9, <4>1
    <3> QED
      BY <3>1, <3>2
  <2>3. posted' = posted
    BY DEF Crash
  <2> QED
    BY <1>4, <1>6, <1>7, <2>1, <2>2, <2>3, PartWellKept DEF la, lb
<1>11. Content(ThisFile)' = b /\ Files' = {ThisFile'}
  BY DEF Content, ThisFile, Files, Crash, b
<1> QED
  BY <1>0, <1>10, <1>11 DEF CapInv

\* Every step keeps the cap.
LEMMA CapStep == CapInv /\ [Next]_vars => CapInv'
<1> SUFFICES ASSUME CapInv, [Next]_vars PROVE CapInv'
  OBVIOUS
<1>0. TypeOK /\ TypeOK'
  BY TypeStep DEF CapInv
<1>1. \A f \in Files : Content(f) \in Seq(Line)
  <2> TAKE f \in Files
  <2>1. f \in File
    BY <1>0, ThisFileType DEF TypeOK, Files
  <2> QED
    BY <2>1, ContentOf DEF File, Content
<1>2. CASE /\ lines' = lines /\ tail' = tail /\ replaced' \subseteq replaced
           /\ posted \subseteq posted'
  <2>1. Content(ThisFile)' = Content(ThisFile)
    BY <1>2 DEF Content, ThisFile
  <2>2. ASSUME NEW f \in Files PROVE WellKept(Content(f), posted')
    <3>1. WellKept(Content(f), posted) /\ Content(f) \in Seq(Line)
      BY <1>1 DEF CapInv
    <3>2. Len(Content(f)) <= Len(Content(f))
      BY <3>1
    <3> QED
      BY <1>2, <3>1, <3>2, PartWellKept
  <2> QED
    BY <1>0, <1>2, <2>1, <2>2 DEF CapInv, Files
<1>3. CASE \E r \in Record : Write(r) \/ ShortWrite(r)
  <2>1. PICK r \in Record : Write(r) \/ ShortWrite(r)
    BY <1>3
  <2>2. MayAppend(r) /\ Fits /\ Called(r)
    BY <2>1 DEF Write, ShortWrite
  <2> QED
    BY <2>1, <2>2, AppendCap
<1>4. CASE \E r \in Record : Refuse(r)
  <2>1. /\ lines' = lines /\ tail' = tail /\ replaced' = replaced
        /\ posted \subseteq posted'
    BY <1>4 DEF Refuse, Called, file
  <2> QED
    BY <1>2, <2>1
<1>5. CASE \/ Sync \/ SyncFails \/ Read \/ ReadFails \/ CompactDirSync
           \/ Restart \/ RestartDies \/ UNCHANGED vars
  <2>1. /\ lines' = lines /\ tail' = tail /\ replaced' \subseteq replaced
        /\ posted' = posted
    BY <1>5 DEF Sync, SyncFails, Read, ReadFails, CompactDirSync, Restart,
         RestartDies, vars, file, told
  <2> QED
    BY <1>2, <2>1
<1> QED
  BY <1>3, <1>4, <1>5, CompactRenameCap, CrashCap DEF Next

\* WithinCap, for any number of entries, any cap and any faults: the file
\* never passes its cap, also not by a compaction or behind a power cut.
THEOREM CapHolds == Spec => []WithinCap
<1>1. Init => CapInv
  <2> SUFFICES ASSUME Init PROVE CapInv
    OBVIOUS
  <2>1. /\ lines = <<>> /\ tail = <<>> /\ replaced \in {{}, {NoFile}}
        /\ <<>> \o <<>> = <<>> /\ Len(<<>>) = 0
    BY DEF Init
  <2>2. \A f \in Files : Content(f) = <<>>
    BY <2>1 DEF Files, ThisFile, NoFile, Content
  <2>3. WellKept(<<>>, posted)
    BY <2>1, MaxLinesAssumption DEF WellKept
  <2> QED
    BY <2>2, <2>3, TypeInit DEF CapInv
<1>2. CapInv => WithinCap
  <2> SUFFICES ASSUME CapInv PROVE WithinCap
    OBVIOUS
  <2>1. lines \in Seq(Line) /\ tail \in OptionOf(Line)
    BY DEF CapInv, TypeOK
  <2>2. Content(ThisFile) = lines \o tail
    BY DEF Content, ThisFile
  <2>3. Len(lines \o tail) <= MaxLines
    BY <2>2 DEF CapInv, Files, WellKept
  <2> QED
    BY <2>1, <2>3, ContentOf DEF WithinCap, Size
<1> QED
  BY <1>1, <1>2, CapStep, PTL DEF Spec
=============================================================================
