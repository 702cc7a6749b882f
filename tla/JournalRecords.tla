--------------------------- MODULE JournalRecords ---------------------------
(***************************************************************************)
(* What a journal record is, and what a replay makes of a log of them      *)
(* (core/journal.rs).  An entry's payload, timestamps and reasons are      *)
(* abstracted to the entry's identity: no decision here looks at them.     *)
(***************************************************************************)
EXTENDS Naturals, Sequences, FiniteSets

CONSTANT Entries   \* the ids accept() mints, one per accepted request

EntryRec(e) == [kind |-> "entry", id |-> e]
DoneRec(e) == [kind |-> "done", id |-> e]
DeadRec(e) == [kind |-> "dead", id |-> e]

Record == [kind : {"entry", "done", "dead"}, id : Entries]

Holds(records, r) == \E i \in DOMAIN records : records[i] = r

(***************************************************************************)
(* The elements of s at the positions in I, in order.  It is SelectSeq     *)
(* written by rank instead of by recursion, so that it can be reasoned     *)
(* about without induction over the sequence.                              *)
(***************************************************************************)
Rank(I, i) == Cardinality({j \in I : j <= i})
AtPositions(s, I) ==
  [k \in 1..Cardinality(I) |-> s[CHOOSE i \in I : Rank(I, i) = k]]

(***************************************************************************)
(* pending: the entries that no marker anywhere in the log names.  A       *)
(* marker counts wherever it stands, and one for an unknown entry is inert.*)
(***************************************************************************)
\* Mutant: a Dead marker is not counted.
MarkedByDoneOnly(records, e) == Holds(records, DoneRec(e))

Marked(records, e) == Holds(records, DoneRec(e)) \/ Holds(records, DeadRec(e))

PendingPositions(records) ==
  {i \in DOMAIN records :
     records[i].kind = "entry" /\ ~Marked(records, records[i].id)}

Pending(records) == AtPositions(records, PendingPositions(records))

(***************************************************************************)
(* dead: the entries some Dead marker names, whether or not a Done marker  *)
(* names them too.                                                         *)
(***************************************************************************)
DeadPositions(records) ==
  {i \in DOMAIN records :
     records[i].kind = "entry" /\ Holds(records, DeadRec(records[i].id))}

DeadEntries(records) == AtPositions(records, DeadPositions(records))

(***************************************************************************)
(* What compact() writes: the pending entries, then every dead entry       *)
(* directly followed by its marker.  Done markers and the entries they     *)
(* name are gone (shell/journal.rs).                                       *)
(***************************************************************************)
WithMarkers(entries) ==
  [k \in 1..(2 * Len(entries)) |->
     IF k % 2 = 1 THEN entries[(k + 1) \div 2]
                  ELSE DeadRec(entries[k \div 2].id)]

\* Mutants: what was set aside is dropped, or kept without its marker.
CompactedWithoutDead(records) == Pending(records)
CompactedWithoutMarkers(records) == Pending(records) \o DeadEntries(records)

Compacted(records) == Pending(records) \o WithMarkers(DeadEntries(records))
=============================================================================
