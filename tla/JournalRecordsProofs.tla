------------------------ MODULE JournalRecordsProofs ------------------------
(***************************************************************************)
(* What a replay and a compaction make of any log, whatever its length:    *)
(* the facts about JournalRecords that the proofs about Journal rest on.   *)
(***************************************************************************)
EXTENDS JournalRecords, FunctionTheorems, FiniteSetTheorems, SequenceTheorems, TLAPS

-----------------------------------------------------------------------------
(***************************************************************************)
(* Rank numbers the positions of I from 1 to Cardinality(I), in order.     *)
(***************************************************************************)

\* Any set of positions is finite, and so is any part of it.
LEMMA PositionsFinite ==
  ASSUME NEW n \in Nat, NEW I, I \subseteq 1..n
  PROVE  IsFiniteSet(I) /\ Cardinality(I) \in Nat
<1>1. IsFiniteSet(1..n)
  BY FS_Interval
<1>2. IsFiniteSet(I)
  BY <1>1, FS_Subset
<1> QED
  BY <1>2, FS_CardinalityType

\* A rank is one of the numbers 1..Cardinality(I).
LEMMA RankInRange ==
  ASSUME NEW n \in Nat, NEW I, I \subseteq 1..n, NEW i \in I
  PROVE  Rank(I, i) \in 1..Cardinality(I)
<1> DEFINE upTo == {j \in I : j <= i}
<1>0. i \in Int
  OBVIOUS
<1>1. upTo \subseteq I /\ upTo \subseteq 1..n /\ i \in upTo
  <2>1. upTo \subseteq I
    OBVIOUS
  <2>2. i \in upTo
    BY <1>0
  <2> QED
    BY <2>1, <2>2
<1>2. IsFiniteSet(I) /\ Cardinality(I) \in Nat
  BY PositionsFinite
<1>3. IsFiniteSet(upTo) /\ Cardinality(upTo) \in Nat
  BY <1>1, PositionsFinite
<1>4. Cardinality(upTo) <= Cardinality(I)
  BY <1>1, <1>2, FS_Subset
<1>5. Cardinality(upTo) # 0
  BY <1>1, <1>3, FS_EmptySet
<1> QED
  BY <1>2, <1>3, <1>4, <1>5 DEF Rank

\* A position further on has a greater rank.
LEMMA RankIncreases ==
  ASSUME NEW n \in Nat, NEW I, I \subseteq 1..n, NEW i \in I, NEW j \in I, i < j
  PROVE  Rank(I, i) < Rank(I, j)
<1> DEFINE toI == {y \in I : y <= i}
           toJ == {y \in I : y <= j}
<1>1. i \in Int /\ j \in Int /\ \A y \in I : y \in Int
  OBVIOUS
<1>2. toI \subseteq 1..n /\ toJ \subseteq 1..n
  OBVIOUS
<1>3. toI \subseteq toJ
  <2> SUFFICES ASSUME NEW y \in toI
               PROVE  y \in I /\ y <= j
    OBVIOUS
  <2>1. y \in I /\ y <= i
    OBVIOUS
  <2>2. y \in Int
    BY <1>1, <2>1
  <2> QED
    BY <1>1, <2>1, <2>2
<1>4. j \in toJ /\ j \notin toI
  BY <1>1
<1>5. /\ IsFiniteSet(toI) /\ Cardinality(toI) \in Nat
      /\ IsFiniteSet(toJ) /\ Cardinality(toJ) \in Nat
  BY <1>2, PositionsFinite
<1>6. Cardinality(toI) <= Cardinality(toJ)
  BY <1>3, <1>5, FS_Subset
<1>7. Cardinality(toI) # Cardinality(toJ)
  BY <1>3, <1>4, <1>5, FS_Subset
<1> QED
  BY <1>5, <1>6, <1>7 DEF Rank

\* No two positions have the same rank.
LEMMA RankDetermines ==
  ASSUME NEW n \in Nat, NEW I, I \subseteq 1..n, NEW i \in I, NEW j \in I,
         Rank(I, i) = Rank(I, j)
  PROVE  i = j
<1>1. Rank(I, i) \in 1..Cardinality(I) /\ Rank(I, j) \in 1..Cardinality(I)
  BY RankInRange
<1>2. Rank(I, i) \in Int /\ Rank(I, j) \in Int /\ i \in Int /\ j \in Int
  BY <1>1, PositionsFinite
<1>3. ASSUME i < j PROVE FALSE
  <2>1. Rank(I, i) < Rank(I, j)
    BY <1>3, RankIncreases
  <2> QED
    BY <1>2, <2>1
<1>4. ASSUME j < i PROVE FALSE
  <2>1. Rank(I, j) < Rank(I, i)
    BY <1>4, RankIncreases
  <2> QED
    BY <1>2, <2>1
<1> QED
  BY <1>2, <1>3, <1>4

\* Every number up to Cardinality(I) is the rank of a position.
LEMMA RankReached ==
  ASSUME NEW n \in Nat, NEW I, I \subseteq 1..n, NEW k \in 1..Cardinality(I)
  PROVE  \E i \in I : Rank(I, i) = k
<1> DEFINE N == 1..Cardinality(I)
           f == [i \in I |-> Rank(I, i)]
<1>1. IsFiniteSet(I) /\ Cardinality(I) \in Nat
  BY PositionsFinite
<1>2. IsFiniteSet(N) /\ Cardinality(N) = Cardinality(I)
  BY <1>1, FS_Interval
<1>3. f \in [I -> N]
  BY RankInRange
<1>4. \A a, b \in I : f[a] = f[b] => a = b
  BY RankDetermines
<1>5. f \in Injection(I, N)
  BY <1>3, <1>4, Fun_IsInj
<1>6. f \in Surjection(I, N)
  BY <1>2, <1>5, FS_Injection
<1>7. \A t \in N : \E i \in I : f[i] = t
  <2> HIDE DEF f, N
  <2> QED
    BY <1>6, Fun_SurjectionProperties
<1>8. \E i \in I : f[i] = k
  BY <1>7
<1> QED
  BY <1>8

-----------------------------------------------------------------------------
(***************************************************************************)
(* AtPositions(s, I) is a sequence of the elements of s at I: each of them *)
(* is one, and each of those is in it.                                     *)
(***************************************************************************)
LEMMA AtPositionsElements ==
  ASSUME NEW T, NEW s \in Seq(T), NEW I, I \subseteq 1..Len(s)
  PROVE  /\ AtPositions(s, I) \in Seq(T)
         /\ Len(AtPositions(s, I)) = Cardinality(I)
         /\ \A k \in 1..Cardinality(I) : \E i \in I : AtPositions(s, I)[k] = s[i]
         /\ \A i \in I : \E k \in 1..Cardinality(I) : AtPositions(s, I)[k] = s[i]
<1> DEFINE n == Cardinality(I)
           pick(k) == CHOOSE i \in I : Rank(I, i) = k
<1>0. Len(s) \in Nat
  OBVIOUS
<1>1. Len(s) \in Nat /\ n \in Nat
  BY <1>0, PositionsFinite
<1>2. \A k \in 1..n : pick(k) \in I /\ Rank(I, pick(k)) = k
  BY <1>1, RankReached
<1>3. AtPositions(s, I) = [k \in 1..n |-> s[pick(k)]]
  BY DEF AtPositions
<1>4. \A i \in 1..Len(s) : s[i] \in T
  OBVIOUS
<1> HIDE DEF pick, n
<1>5. AtPositions(s, I) \in Seq(T)
  <2>1. \A k \in 1..n : s[pick(k)] \in T
    BY <1>2, <1>4
  <2>2. AtPositions(s, I) \in [1..n -> T]
    BY <1>3, <2>1
  <2> QED
    BY <1>1, <2>2
<1>6. Len(AtPositions(s, I)) = n
  BY <1>1, <1>3, <1>5
<1>7. \A k \in 1..n : \E i \in I : AtPositions(s, I)[k] = s[i]
  BY <1>2, <1>3
<1>8. \A i \in I : \E k \in 1..n : AtPositions(s, I)[k] = s[i]
  <2> TAKE i \in I
  <2>1. Rank(I, i) \in 1..n
    BY <1>1, RankInRange DEF n
  <2>2. pick(Rank(I, i)) = i
    BY <1>1, <1>2, <2>1, RankDetermines
  <2> QED
    BY <1>3, <2>1, <2>2
<1> QED
  BY <1>5, <1>6, <1>7, <1>8 DEF n

\* The records a replay returns are records of the log, and of the kind.
LEMMA PendingElements ==
  ASSUME NEW records \in Seq(Record)
  PROVE  /\ Pending(records) \in Seq(Record)
         /\ \A k \in DOMAIN Pending(records) :
              /\ Pending(records)[k].kind = "entry"
              /\ Holds(records, Pending(records)[k])
              /\ ~Marked(records, Pending(records)[k].id)
<1> DEFINE I == PendingPositions(records)
<1>1. I \subseteq 1..Len(records)
  BY DEF PendingPositions
<1>2. /\ Pending(records) \in Seq(Record)
      /\ Len(Pending(records)) = Cardinality(I)
      /\ \A k \in 1..Cardinality(I) : \E i \in I : Pending(records)[k] = records[i]
  BY <1>1, AtPositionsElements DEF Pending
<1>3. DOMAIN Pending(records) = 1..Cardinality(I)
  BY <1>2
<1> QED
  BY <1>1, <1>2, <1>3 DEF PendingPositions, Holds

\* dead() returns exactly the entries some Dead marker names.
LEMMA DeadEntriesElements ==
  ASSUME NEW records \in Seq(Record)
  PROVE  /\ DeadEntries(records) \in Seq(Record)
         /\ \A k \in DOMAIN DeadEntries(records) :
              /\ DeadEntries(records)[k].kind = "entry"
              /\ Holds(records, DeadEntries(records)[k])
              /\ Holds(records, DeadRec(DeadEntries(records)[k].id))
<1> DEFINE I == DeadPositions(records)
<1>1. I \subseteq 1..Len(records)
  BY DEF DeadPositions
<1>2. /\ DeadEntries(records) \in Seq(Record)
      /\ Len(DeadEntries(records)) = Cardinality(I)
      /\ \A k \in 1..Cardinality(I) : \E i \in I : DeadEntries(records)[k] = records[i]
  BY <1>1, AtPositionsElements DEF DeadEntries
<1>3. DOMAIN DeadEntries(records) = 1..Cardinality(I)
  BY <1>2
<1> QED
  BY <1>1, <1>2, <1>3 DEF DeadPositions, Holds

\* An entry no marker names is pending.
LEMMA UnmarkedIsPending ==
  ASSUME NEW records \in Seq(Record), NEW e \in Entries,
         Holds(records, EntryRec(e)), ~Marked(records, e)
  PROVE  Holds(Pending(records), EntryRec(e))
<1> DEFINE I == PendingPositions(records)
<1>1. I \subseteq 1..Len(records)
  BY DEF PendingPositions
<1>2. PICK i \in DOMAIN records : records[i] = EntryRec(e)
  BY DEF Holds
<1>3. i \in I
  BY <1>2 DEF PendingPositions, EntryRec
<1>4. PICK k \in 1..Cardinality(I) : Pending(records)[k] = records[i]
  BY <1>1, <1>3, AtPositionsElements DEF Pending
<1>5. DOMAIN Pending(records) = 1..Cardinality(I)
  BY <1>1, AtPositionsElements DEF Pending
<1> QED
  BY <1>2, <1>4, <1>5 DEF Holds

\* An entry a Dead marker names is among the dead.
LEMMA MarkedDeadIsDead ==
  ASSUME NEW records \in Seq(Record), NEW e \in Entries,
         Holds(records, EntryRec(e)), Holds(records, DeadRec(e))
  PROVE  Holds(DeadEntries(records), EntryRec(e))
<1> DEFINE I == DeadPositions(records)
<1>1. I \subseteq 1..Len(records)
  BY DEF DeadPositions
<1>2. PICK i \in DOMAIN records : records[i] = EntryRec(e)
  BY DEF Holds
<1>3. i \in I
  BY <1>2 DEF DeadPositions, EntryRec
<1>4. PICK k \in 1..Cardinality(I) : DeadEntries(records)[k] = records[i]
  BY <1>1, <1>3, AtPositionsElements DEF DeadEntries
<1>5. DOMAIN DeadEntries(records) = 1..Cardinality(I)
  BY <1>1, AtPositionsElements DEF DeadEntries
<1> QED
  BY <1>2, <1>4, <1>5 DEF Holds

\* Each entry given to WithMarkers is in the result, its marker behind it,
\* and nothing else is.
LEMMA WithMarkersElements ==
  ASSUME NEW entries \in Seq(Record)
  PROVE  /\ WithMarkers(entries) \in Seq(Record)
         /\ \A j \in 1..Len(entries) :
              /\ Holds(WithMarkers(entries), entries[j])
              /\ Holds(WithMarkers(entries), DeadRec(entries[j].id))
         /\ \A k \in DOMAIN WithMarkers(entries) : \E j \in 1..Len(entries) :
              WithMarkers(entries)[k] \in {entries[j], DeadRec(entries[j].id)}
<1> DEFINE n == Len(entries)
           m == 2 * n
           elem(k) == IF k % 2 = 1 THEN entries[(k + 1) \div 2]
                                   ELSE DeadRec(entries[k \div 2].id)
<1>1. n \in Nat /\ m \in Nat
  OBVIOUS
<1>2. WithMarkers(entries) = [k \in 1..m |-> elem(k)]
  BY DEF WithMarkers
<1>3. \A j \in 1..n : entries[j] \in Record /\ DeadRec(entries[j].id) \in Record
  <2> TAKE j \in 1..n
  <2>1. entries[j] \in Record
    OBVIOUS
  <2> QED
    BY <2>1 DEF Record, DeadRec
<1>4. \A k \in 1..m : \E j \in 1..n : elem(k) \in {entries[j], DeadRec(entries[j].id)}
  <2> TAKE k \in 1..m
  <2>1. CASE k % 2 = 1
    <3>1. (k + 1) \div 2 \in 1..n
      BY <1>1, <2>1
    <3> QED
      BY <2>1, <3>1
  <2>2. CASE k % 2 # 1
    <3>1. k \div 2 \in 1..n
      BY <1>1, <2>2
    <3> QED
      BY <2>2, <3>1
  <2> QED
    BY <2>1, <2>2
<1>5. \A j \in 1..n : /\ 2 * j - 1 \in 1..m /\ elem(2 * j - 1) = entries[j]
                      /\ 2 * j \in 1..m /\ elem(2 * j) = DeadRec(entries[j].id)
  <2> TAKE j \in 1..n
  <2>1. /\ 2 * j - 1 \in 1..m /\ (2 * j - 1) % 2 = 1 /\ ((2 * j - 1) + 1) \div 2 = j
        /\ 2 * j \in 1..m /\ (2 * j) % 2 = 0 /\ (2 * j) \div 2 = j
    BY <1>1
  <2> QED
    BY <2>1
<1> HIDE DEF n, m, elem
<1>6. WithMarkers(entries) \in Seq(Record)
  <2>1. \A k \in 1..m : elem(k) \in Record
    BY <1>3, <1>4
  <2>2. WithMarkers(entries) \in [1..m -> Record]
    BY <1>2, <2>1
  <2> QED
    BY <1>1, <2>2
<1>7. DOMAIN WithMarkers(entries) = 1..m
  BY <1>2
<1>8. \A j \in 1..n : /\ Holds(WithMarkers(entries), entries[j])
                      /\ Holds(WithMarkers(entries), DeadRec(entries[j].id))
  BY <1>2, <1>5 DEF Holds
<1>9. \A k \in DOMAIN WithMarkers(entries) : \E j \in 1..n :
        WithMarkers(entries)[k] \in {entries[j], DeadRec(entries[j].id)}
  BY <1>2, <1>4
<1> QED
  BY <1>6, <1>8, <1>9 DEF n

\* A record of either part of a log is in the log.
LEMMA HoldsConcat ==
  ASSUME NEW a \in Seq(Record), NEW b \in Seq(Record), NEW r
  PROVE  Holds(a \o b, r) <=> Holds(a, r) \/ Holds(b, r)
<1>1. /\ Len(a) \in Nat /\ Len(b) \in Nat
      /\ DOMAIN a = 1..Len(a) /\ DOMAIN b = 1..Len(b)
  OBVIOUS
<1>2. /\ DOMAIN (a \o b) = 1..(Len(a) + Len(b))
      /\ \A i \in 1..(Len(a) + Len(b)) :
           (a \o b)[i] = IF i <= Len(a) THEN a[i] ELSE b[i - Len(a)]
  BY ConcatProperties, LenProperties
<1>3. ASSUME Holds(a, r) PROVE Holds(a \o b, r)
  <2>1. PICK i \in 1..Len(a) : a[i] = r
    BY <1>1, <1>3 DEF Holds
  <2> QED
    BY <1>1, <1>2, <2>1 DEF Holds
<1>4. ASSUME Holds(b, r) PROVE Holds(a \o b, r)
  <2>1. PICK i \in 1..Len(b) : b[i] = r
    BY <1>1, <1>4 DEF Holds
  <2>2. /\ Len(a) + i \in 1..(Len(a) + Len(b))
        /\ (Len(a) + i) - Len(a) = i /\ ~(Len(a) + i <= Len(a))
    BY <1>1
  <2> QED
    BY <1>2, <2>1, <2>2 DEF Holds
<1>5. ASSUME Holds(a \o b, r) PROVE Holds(a, r) \/ Holds(b, r)
  <2>1. PICK i \in 1..(Len(a) + Len(b)) : (a \o b)[i] = r
    BY <1>2, <1>5 DEF Holds
  <2>2. CASE i <= Len(a)
    BY <1>1, <1>2, <2>1, <2>2 DEF Holds
  <2>3. CASE ~(i <= Len(a))
    <3>1. i - Len(a) \in 1..Len(b)
      BY <1>1, <2>3
    <3> QED
      BY <1>1, <1>2, <2>1, <2>3, <3>1 DEF Holds
  <2> QED
    BY <2>2, <2>3
<1> QED
  BY <1>3, <1>4, <1>5

-----------------------------------------------------------------------------
(***************************************************************************)
(* compact() on any log: it loses no entry that was not delivered, keeps   *)
(* every set-aside entry together with its marker, and brings in nothing   *)
(* that was not there.                                                     *)
(***************************************************************************)

\* The compacted log is a log.
LEMMA CompactedType ==
  ASSUME NEW records \in Seq(Record)
  PROVE  Compacted(records) \in Seq(Record)
<1>1. /\ Pending(records) \in Seq(Record)
      /\ WithMarkers(DeadEntries(records)) \in Seq(Record)
  BY PendingElements, DeadEntriesElements, WithMarkersElements
<1> QED
  BY <1>1 DEF Compacted

\* An entry that no Done marker names survives the compaction: as a pending
\* entry, or, if it was set aside, as a dead one (compact, pending, dead).
THEOREM CompactedKeepsUndelivered ==
  ASSUME NEW records \in Seq(Record), NEW e \in Entries,
         Holds(records, EntryRec(e)), ~Holds(records, DoneRec(e))
  PROVE  Holds(Compacted(records), EntryRec(e))
<1> DEFINE kept == DeadEntries(records)
<1>1. /\ Pending(records) \in Seq(Record)
      /\ kept \in Seq(Record) /\ WithMarkers(kept) \in Seq(Record)
  BY PendingElements, DeadEntriesElements, WithMarkersElements
<1>2. CASE ~Holds(records, DeadRec(e))
  <2>1. Holds(Pending(records), EntryRec(e))
    BY <1>2, UnmarkedIsPending DEF Marked
  <2> QED
    BY <1>1, <2>1, HoldsConcat DEF Compacted
<1>3. CASE Holds(records, DeadRec(e))
  <2>1. PICK j \in 1..Len(kept) : kept[j] = EntryRec(e)
    BY <1>1, <1>3, MarkedDeadIsDead DEF Holds
  <2>2. Holds(WithMarkers(kept), EntryRec(e))
    BY <1>1, <2>1, WithMarkersElements
  <2> QED
    BY <1>1, <2>2, HoldsConcat DEF Compacted
<1> QED
  BY <1>2, <1>3

\* A set-aside entry survives with the marker that says so, delivered or
\* not (compact, T1).
THEOREM CompactedKeepsDead ==
  ASSUME NEW records \in Seq(Record), NEW e \in Entries,
         Holds(records, EntryRec(e)), Holds(records, DeadRec(e))
  PROVE  /\ Holds(Compacted(records), EntryRec(e))
         /\ Holds(Compacted(records), DeadRec(e))
<1> DEFINE kept == DeadEntries(records)
<1>1. /\ Pending(records) \in Seq(Record)
      /\ kept \in Seq(Record) /\ WithMarkers(kept) \in Seq(Record)
  BY PendingElements, DeadEntriesElements, WithMarkersElements
<1>2. PICK j \in 1..Len(kept) : kept[j] = EntryRec(e)
  BY <1>1, MarkedDeadIsDead DEF Holds
<1>3. /\ Holds(WithMarkers(kept), EntryRec(e))
      /\ Holds(WithMarkers(kept), DeadRec(e))
  BY <1>1, <1>2, WithMarkersElements DEF EntryRec
<1> QED
  BY <1>1, <1>3, HoldsConcat DEF Compacted

\* Nothing new: every record of the compacted log was one of the log, and
\* none of them is a Done marker (compact).
THEOREM CompactedAddsNothing ==
  ASSUME NEW records \in Seq(Record), NEW r, Holds(Compacted(records), r)
  PROVE  Holds(records, r) /\ r.kind # "done"
<1> DEFINE kept == DeadEntries(records)
<1>1. /\ Pending(records) \in Seq(Record)
      /\ kept \in Seq(Record) /\ WithMarkers(kept) \in Seq(Record)
  BY PendingElements, DeadEntriesElements, WithMarkersElements
<1>2. Holds(Pending(records), r) \/ Holds(WithMarkers(kept), r)
  BY <1>1, HoldsConcat DEF Compacted
<1>3. CASE Holds(Pending(records), r)
  BY <1>3, PendingElements DEF Holds
<1>4. CASE Holds(WithMarkers(kept), r)
  <2>0. PICK k \in DOMAIN WithMarkers(kept) : WithMarkers(kept)[k] = r
    BY <1>4 DEF Holds
  <2>1. PICK j \in 1..Len(kept) : r \in {kept[j], DeadRec(kept[j].id)}
    <3> HIDE DEF kept
    <3> QED
      BY <1>1, <2>0, WithMarkersElements
  <2>2. kept[j].kind = "entry" /\ Holds(records, kept[j])
        /\ Holds(records, DeadRec(kept[j].id))
    BY <1>1, DeadEntriesElements
  <2> QED
    BY <2>1, <2>2 DEF DeadRec
<1> QED
  BY <1>2, <1>3, <1>4

\* What was marked done and not set aside does not come through a
\* compaction, so it cannot be pending again behind it (compact, pending).
THEOREM CompactedDropsDelivered ==
  ASSUME NEW records \in Seq(Record), NEW e \in Entries,
         Holds(records, DoneRec(e)), ~Holds(records, DeadRec(e))
  PROVE  ~Holds(Compacted(records), EntryRec(e))
<1> SUFFICES ASSUME Holds(Compacted(records), EntryRec(e)) PROVE FALSE
  OBVIOUS
<1> DEFINE kept == DeadEntries(records)
<1>1. /\ Pending(records) \in Seq(Record)
      /\ kept \in Seq(Record) /\ WithMarkers(kept) \in Seq(Record)
  BY PendingElements, DeadEntriesElements, WithMarkersElements
<1>2. Holds(Pending(records), EntryRec(e)) \/ Holds(WithMarkers(kept), EntryRec(e))
  BY <1>1, HoldsConcat DEF Compacted
<1>3. CASE Holds(Pending(records), EntryRec(e))
  <2>1. PICK k \in DOMAIN Pending(records) : Pending(records)[k] = EntryRec(e)
    BY <1>3 DEF Holds
  <2>2. ~Marked(records, EntryRec(e).id)
    BY <2>1, PendingElements
  <2> QED
    BY <2>2 DEF Marked, EntryRec
<1>4. CASE Holds(WithMarkers(kept), EntryRec(e))
  <2>1. PICK k \in DOMAIN WithMarkers(kept) : WithMarkers(kept)[k] = EntryRec(e)
    BY <1>4 DEF Holds
  <2>2. PICK j \in 1..Len(kept) : EntryRec(e) \in {kept[j], DeadRec(kept[j].id)}
    <3> HIDE DEF kept
    <3> QED
      BY <1>1, <2>1, WithMarkersElements
  <2>3. Holds(records, DeadRec(kept[j].id))
    BY <1>1, DeadEntriesElements
  <2>4. EntryRec(e) = kept[j]
    BY <2>2 DEF EntryRec, DeadRec
  <2>5. kept[j].id = e
    BY <2>4 DEF EntryRec
  <2> QED
    BY <2>3, <2>5
<1> QED
  BY <1>2, <1>3, <1>4

-----------------------------------------------------------------------------
(***************************************************************************)
(* A compacted log replays as the log it was made of.                      *)
(***************************************************************************)

\* A strictly increasing f takes 1..k to k positions.
LEMMA IncreasingCount ==
  ASSUME NEW m \in Nat, NEW p \in Nat, NEW f \in [1..m -> 1..p],
         \A j, k \in 1..m : j < k => f[j] < f[k],
         NEW n \in 0..m
  PROVE  Cardinality({f[j] : j \in 1..n}) = n
<1> DEFINE S == 1..n
           T == {f[j] : j \in S}
           g == [j \in S |-> f[j]]
<1>1. n \in Nat /\ S \subseteq 1..m
  OBVIOUS
<1>2. IsFiniteSet(S) /\ Cardinality(S) = n
  <2>1. /\ IsFiniteSet(1..n)
        /\ Cardinality(1..n) = IF 1 > n THEN 0 ELSE n - 1 + 1
    BY <1>1, FS_Interval
  <2> QED
    BY <1>1, <2>1
<1>3. g \in Surjection(S, T)
  BY Fun_IsSurj
<1>4. \A a, b \in S : g[a] = g[b] => a = b
  <2> TAKE a, b \in S
  <2>1. a \in 1..m /\ b \in 1..m /\ a \in Int /\ b \in Int
    BY <1>1
  <2>2. f[a] \in Int /\ f[b] \in Int
    BY <2>1
  <2> HAVE g[a] = g[b]
  <2>3. f[a] = f[b]
    OBVIOUS
  <2> QED
    BY <2>1, <2>2, <2>3
<1> HIDE DEF S, T, g
<1>5. g \in Injection(S, T)
  BY <1>3, <1>4, Fun_IsInj DEF Surjection
<1>6. Cardinality(T) = Cardinality(S)
  BY <1>2, <1>3, <1>5, FS_Surjection
<1> QED
  BY <1>2, <1>6 DEF S, T

\* f lists the positions of I, which are m of the first p, in their order.
Lists(f, m, p, I) ==
  /\ f \in [1..m -> 1..p]
  /\ \A j, k \in 1..m : j < k => f[j] < f[k]
  /\ I = {f[k] : k \in 1..m}

Along(s, f, m) == [k \in 1..m |-> s[f[k]]]

\* There is only one way to list them.
LEMMA PositionsInOrder ==
  ASSUME NEW s, NEW m \in Nat, NEW p \in Nat, NEW f, NEW I, Lists(f, m, p, I)
  PROVE  AtPositions(s, I) = Along(s, f, m)
<1>0. /\ f \in [1..m -> 1..p]
      /\ \A j, k \in 1..m : j < k => f[j] < f[k]
      /\ I = {f[k] : k \in 1..m}
  BY DEF Lists
<1>1. Cardinality(I) = m
  <2>1. m \in 0..m
    OBVIOUS
  <2>2. Cardinality({f[j] : j \in 1..m}) = m
    BY <1>0, <2>1, IncreasingCount
  <2> QED
    BY <1>0, <2>2
<1>2. I \subseteq 1..p
  BY <1>0
<1>3. ASSUME NEW k \in 1..m PROVE f[k] \in I /\ Rank(I, f[k]) = k
  <2>1. \A j \in 1..m : f[j] \in Int /\ j \in Int
    BY <1>0
  <2>2. \A j \in 1..m : f[j] <= f[k] <=> j <= k
    <3> TAKE j \in 1..m
    <3>1. (j < k => f[j] < f[k]) /\ (k < j => f[k] < f[j])
      BY <1>0
    <3> QED
      BY <2>1, <3>1
  <2>3. {i \in I : i <= f[k]} = {f[j] : j \in 1..k}
    <3>1. ASSUME NEW i \in I, i <= f[k] PROVE \E j \in 1..k : i = f[j]
      <4>1. PICK j \in 1..m : i = f[j]
        BY <1>0
      <4>2. j <= k
        BY <2>2, <3>1, <4>1
      <4> QED
        BY <4>1, <4>2
    <3>2. ASSUME NEW j \in 1..k PROVE f[j] \in I /\ f[j] <= f[k]
      <4>1. j \in 1..m /\ j <= k
        OBVIOUS
      <4> QED
        BY <1>0, <2>2, <4>1
    <3> QED
      BY <3>1, <3>2
  <2>4. k \in 0..m
    OBVIOUS
  <2>5. Cardinality({f[j] : j \in 1..k}) = k
    BY <1>0, <2>4, IncreasingCount
  <2>6. f[k] \in I
    BY <1>0
  <2> QED
    BY <2>3, <2>5, <2>6 DEF Rank
<1> DEFINE pick(k) == CHOOSE i \in I : Rank(I, i) = k
<1>4. ASSUME NEW k \in 1..m PROVE pick(k) = f[k]
  <2> DEFINE c == pick(k)
  <2>1. c \in I /\ Rank(I, c) = k
    BY <1>3
  <2> HIDE DEF c
  <2>2. c = f[k]
    BY <1>2, <1>3, <2>1, RankDetermines
  <2> QED
    BY <2>2 DEF c
<1>5. AtPositions(s, I) = [k \in 1..m |-> s[pick(k)]]
  BY <1>1 DEF AtPositions
<1> HIDE DEF pick
<1> QED
  BY <1>4, <1>5 DEF Along

\* Where the parts of a compacted log stand: what is pending comes first,
\* and then every dead entry with its marker behind it.
LaidOut(c, p, d, n, m) ==
  /\ n \in Nat /\ m \in Nat
  /\ Len(c) = n + 2 * m
  /\ \A k \in 1..n : c[k] = p[k]
  /\ \A j \in 1..m :
       /\ n + (2 * j - 1) \in 1..n + 2 * m /\ n + 2 * j \in 1..n + 2 * m
       /\ c[n + (2 * j - 1)] = d[j]
       /\ c[n + 2 * j] = DeadRec(d[j].id)
  /\ \A i \in 1..n + 2 * m :
       \/ i \in 1..n
       \/ \E j \in 1..m : i = n + (2 * j - 1) \/ i = n + 2 * j

LEMMA CompactedLayout ==
  ASSUME NEW records \in Seq(Record)
  PROVE  LaidOut(Compacted(records), Pending(records), DeadEntries(records),
                 Len(Pending(records)), Len(DeadEntries(records)))
<1> DEFINE P == Pending(records)
           D == DeadEntries(records)
           W == WithMarkers(D)
           n == Len(P)
           m == Len(D)
<1>1. P \in Seq(Record) /\ D \in Seq(Record) /\ W \in Seq(Record)
  BY PendingElements, DeadEntriesElements, WithMarkersElements
<1>2. n \in Nat /\ m \in Nat /\ n = Len(P) /\ m = Len(D)
  BY <1>1
<1> HIDE DEF n, m
<1>3. W = [k \in 1..2 * m |-> IF k % 2 = 1 THEN D[(k + 1) \div 2]
                                           ELSE DeadRec(D[k \div 2].id)]
  BY DEF WithMarkers, m
<1>4. Compacted(records) = P \o W
  BY DEF Compacted
<1> HIDE DEF P, D, W
<1>5. Len(W) = 2 * m
  <2>1. DOMAIN W = 1..2 * m /\ 2 * m \in Nat
    BY <1>2, <1>3
  <2> QED
    BY <1>1, <2>1, LenProperties
<1>6. /\ Len(P \o W) = n + 2 * m
      /\ \A i \in 1..n + 2 * m : (P \o W)[i] = IF i <= n THEN P[i] ELSE W[i - n]
  <2>1. /\ Len(P \o W) = Len(P) + Len(W)
        /\ \A i \in 1..Len(P) + Len(W) :
             (P \o W)[i] = IF i <= Len(P) THEN P[i] ELSE W[i - Len(P)]
    BY <1>1, ConcatProperties
  <2> QED
    BY <1>2, <1>5, <2>1
<1>7. ASSUME NEW k \in 1..n PROVE (P \o W)[k] = P[k]
  BY <1>2, <1>6
<1>8. ASSUME NEW j \in 1..m
      PROVE  /\ n + (2 * j - 1) \in 1..n + 2 * m /\ n + 2 * j \in 1..n + 2 * m
             /\ (P \o W)[n + (2 * j - 1)] = D[j]
             /\ (P \o W)[n + 2 * j] = DeadRec(D[j].id)
  <2>1. /\ n + (2 * j - 1) \in 1..n + 2 * m /\ ~(n + (2 * j - 1) <= n)
        /\ n + (2 * j - 1) - n = 2 * j - 1 /\ 2 * j - 1 \in 1..2 * m
        /\ n + 2 * j \in 1..n + 2 * m /\ ~(n + 2 * j <= n)
        /\ n + 2 * j - n = 2 * j /\ 2 * j \in 1..2 * m
    BY <1>2
  <2>2. /\ (2 * j - 1) % 2 = 1 /\ ((2 * j - 1) + 1) \div 2 = j
        /\ (2 * j) % 2 = 0 /\ (2 * j) \div 2 = j
    BY <1>2
  <2>3. W[2 * j - 1] = D[j] /\ W[2 * j] = DeadRec(D[j].id)
    BY <1>3, <2>1, <2>2
  <2>4. (P \o W)[n + (2 * j - 1)] = W[2 * j - 1]
    <3> DEFINE i == n + (2 * j - 1)
    <3>0. j \in Int /\ n \in Nat /\ m \in Nat /\ 1 <= j /\ j <= m
      BY <1>2
    <3>1. i \in 1..n + 2 * m /\ ~(i <= n) /\ i - n = 2 * j - 1
      BY <3>0
    <3> HIDE DEF i
    <3>2. (P \o W)[i] = W[i - n]
      BY <1>6, <3>1
    <3>3. (P \o W)[i] = W[2 * j - 1]
      BY <3>1, <3>2
    <3> QED
      BY <3>3 DEF i
  <2>5. (P \o W)[n + 2 * j] = W[2 * j]
    <3> DEFINE i == n + 2 * j
    <3>0. j \in Int /\ n \in Nat /\ m \in Nat /\ 1 <= j /\ j <= m
      BY <1>2
    <3>1. i \in 1..n + 2 * m /\ ~(i <= n) /\ i - n = 2 * j
      BY <3>0
    <3> HIDE DEF i
    <3>2. (P \o W)[i] = W[i - n]
      BY <1>6, <3>1
    <3>3. (P \o W)[i] = W[2 * j]
      BY <3>1, <3>2
    <3> QED
      BY <3>3 DEF i
  <2> QED
    BY <2>1, <2>3, <2>4, <2>5
<1>9. ASSUME NEW i \in 1..n + 2 * m
      PROVE  \/ i \in 1..n
             \/ \E j \in 1..m : i = n + (2 * j - 1) \/ i = n + 2 * j
  <2> SUFFICES ASSUME i \notin 1..n
               PROVE  \E j \in 1..m : i = n + (2 * j - 1) \/ i = n + 2 * j
    OBVIOUS
  <2> DEFINE d == i - n
             j == (d + 1) \div 2
  <2>1. d \in 1..2 * m /\ i = n + d
    BY <1>2
  <2>2. j \in 1..m /\ (d = 2 * j - 1 \/ d = 2 * j)
    <3> HIDE DEF d
    <3> QED
      BY <1>2, <2>1
  <2> HIDE DEF d, j
  <2> QED
    BY <2>1, <2>2
<1> QED
  BY <1>1, <1>2, <1>4, <1>6, <1>7, <1>8, <1>9 DEF P, D, n, m, LaidOut

\* No reader can tell a compacted log from the log: what is pending in it,
\* and what is set aside, is the same, in the same order (compact, pending,
\* dead).
THEOREM CompactedReplaysAlike ==
  ASSUME NEW records \in Seq(Record)
  PROVE  /\ Pending(Compacted(records)) = Pending(records)
         /\ DeadEntries(Compacted(records)) = DeadEntries(records)
<1> DEFINE n == Len(Pending(records))
           m == Len(DeadEntries(records))
           P == Pending(records)
           D == DeadEntries(records)
           C == Compacted(records)
           f == [k \in 1..n |-> k]
           g == [j \in 1..m |-> n + (2 * j - 1)]
<1>1. /\ P \in Seq(Record) /\ D \in Seq(Record) /\ C \in Seq(Record)
      /\ n \in Nat /\ m \in Nat /\ n = Len(P) /\ m = Len(D)
  BY PendingElements, DeadEntriesElements, CompactedType
<1>2. /\ Len(C) = n + 2 * m
      /\ \A k \in 1..n : C[k] = P[k]
      /\ \A j \in 1..m :
           /\ n + (2 * j - 1) \in 1..n + 2 * m /\ n + 2 * j \in 1..n + 2 * m
           /\ C[n + (2 * j - 1)] = D[j]
           /\ C[n + 2 * j] = DeadRec(D[j].id)
      /\ \A i \in 1..n + 2 * m :
           \/ i \in 1..n
           \/ \E j \in 1..m : i = n + (2 * j - 1) \/ i = n + 2 * j
  <2>1. LaidOut(C, P, D, n, m)
    BY CompactedLayout
  <2> HIDE DEF n, m, P, D, C
  <2> QED
    BY <2>1 DEF LaidOut
<1>3. \A k \in 1..n : /\ P[k].kind = "entry" /\ P[k].id \in Entries
                      /\ Holds(records, P[k]) /\ ~Marked(records, P[k].id)
  <2> TAKE k \in 1..n
  <2>1. k \in DOMAIN P
    BY <1>1
  <2>2. P[k] \in Record
    BY <1>1
  <2> QED
    BY <2>1, <2>2, PendingElements DEF Record
<1>4. \A j \in 1..m : /\ D[j].kind = "entry" /\ D[j].id \in Entries
                      /\ Holds(records, DeadRec(D[j].id))
  <2> TAKE j \in 1..m
  <2>1. j \in DOMAIN D
    BY <1>1
  <2>2. D[j] \in Record
    BY <1>1
  <2> QED
    BY <2>1, <2>2, DeadEntriesElements DEF Record
<1>5. \A r : Holds(C, r) => Holds(records, r)
  BY CompactedAddsNothing
<1>6. DOMAIN C = 1..n + 2 * m
  BY <1>1, <1>2
<1>f. /\ f \in [1..n -> 1..n + 2 * m]
      /\ \A j, k \in 1..n : j < k => f[j] < f[k]
  BY <1>1
<1>g. /\ g \in [1..m -> 1..n + 2 * m]
      /\ \A j, k \in 1..m : j < k => g[j] < g[k]
  BY <1>1
<1> HIDE DEF n, m, P, D, C
<1>7. ASSUME NEW k \in 1..n PROVE ~Holds(C, DeadRec(P[k].id)) /\ ~Marked(C, P[k].id)
  BY <1>3, <1>5 DEF Marked
<1>8. ASSUME NEW j \in 1..m PROVE Holds(C, DeadRec(D[j].id)) /\ Marked(C, D[j].id)
  <2>1. Holds(C, DeadRec(D[j].id))
    BY <1>2, <1>6 DEF Holds
  <2> QED
    BY <2>1 DEF Marked
<1>9. ASSUME NEW j \in 1..m PROVE C[n + 2 * j].kind = "dead"
  <2>1. C[n + 2 * j] = DeadRec(D[j].id)
    BY <1>2
  <2>2. DeadRec(D[j].id).kind = "dead"
    BY DEF DeadRec
  <2> QED
    BY <2>1, <2>2
<1>10. PendingPositions(C) = {f[k] : k \in 1..n}
  <2>1. ASSUME NEW i \in PendingPositions(C) PROVE i \in 1..n
    <3>1. i \in 1..n + 2 * m /\ C[i].kind = "entry" /\ ~Marked(C, C[i].id)
      BY <1>6 DEF PendingPositions
    <3>2. ~(\E j \in 1..m : i = n + (2 * j - 1) \/ i = n + 2 * j)
      <4> SUFFICES ASSUME NEW j \in 1..m, i = n + (2 * j - 1) \/ i = n + 2 * j
                   PROVE  FALSE
        OBVIOUS
      <4>1. CASE i = n + (2 * j - 1)
        BY <1>2, <1>8, <3>1, <4>1
      <4>2. CASE i = n + 2 * j
        BY <1>9, <3>1, <4>2
      <4> QED
        BY <4>1, <4>2
    <3> QED
      BY <1>2, <3>1, <3>2
  <2>2. ASSUME NEW k \in 1..n PROVE k \in PendingPositions(C)
    <3>1. k \in 1..n + 2 * m
      BY <1>1
    <3>2. C[k].kind = "entry" /\ ~Marked(C, C[k].id)
      BY <1>2, <1>3, <1>7
    <3> QED
      BY <1>6, <3>1, <3>2 DEF PendingPositions
  <2> QED
    BY <2>1, <2>2
<1>11. DeadPositions(C) = {g[j] : j \in 1..m}
  <2>1. ASSUME NEW i \in DeadPositions(C) PROVE \E j \in 1..m : i = n + (2 * j - 1)
    <3>1. /\ i \in 1..n + 2 * m /\ C[i].kind = "entry"
          /\ Holds(C, DeadRec(C[i].id))
      BY <1>6 DEF DeadPositions
    <3>2. i \notin 1..n
      BY <1>2, <1>7, <3>1
    <3>3. PICK j \in 1..m : i = n + (2 * j - 1) \/ i = n + 2 * j
      BY <1>2, <3>1, <3>2
    <3>4. i # n + 2 * j
      BY <1>9, <3>1
    <3> QED
      BY <3>3, <3>4
  <2>2. ASSUME NEW j \in 1..m PROVE n + (2 * j - 1) \in DeadPositions(C)
    <3>1. n + (2 * j - 1) \in 1..n + 2 * m /\ C[n + (2 * j - 1)] = D[j]
      BY <1>2
    <3> DEFINE i == n + (2 * j - 1)
    <3>2. C[i].kind = "entry" /\ Holds(C, DeadRec(C[i].id)) /\ i \in DOMAIN C
      BY <1>4, <1>6, <1>8, <3>1
    <3> HIDE DEF i
    <3>3. i \in DeadPositions(C)
      BY <3>2 DEF DeadPositions
    <3> QED
      BY <3>3 DEF i
  <2>3. \A j \in 1..m : g[j] = n + (2 * j - 1)
    OBVIOUS
  <2> HIDE DEF g
  <2> QED
    BY <2>1, <2>2, <2>3
<1>12. Pending(C) = P
  <2>1. AtPositions(C, PendingPositions(C)) = Along(C, f, n)
    <3>1. Lists(f, n, n + 2 * m, PendingPositions(C)) /\ n + 2 * m \in Nat
      BY <1>1, <1>f, <1>10 DEF Lists
    <3> HIDE DEF f
    <3> QED
      BY <1>1, <3>1, PositionsInOrder
  <2>2. P = [k \in 1..n |-> P[k]]
    BY <1>1
  <2> QED
    BY <1>2, <2>1, <2>2 DEF Pending, Along
<1>13. DeadEntries(C) = D
  <2>1. AtPositions(C, DeadPositions(C)) = Along(C, g, m)
    <3>1. Lists(g, m, n + 2 * m, DeadPositions(C)) /\ n + 2 * m \in Nat
      BY <1>1, <1>g, <1>11 DEF Lists
    <3> HIDE DEF g
    <3> QED
      BY <1>1, <3>1, PositionsInOrder
  <2>2. D = [j \in 1..m |-> D[j]]
    BY <1>1
  <2> QED
    BY <1>2, <2>1, <2>2 DEF DeadEntries, Along
<1> QED
  BY <1>12, <1>13 DEF P, D, C

-----------------------------------------------------------------------------
(***************************************************************************)
(* A compacted log is no longer than the log, as long as no entry is in    *)
(* the log twice: every dead entry has a marker of its own to go with it.  *)
(***************************************************************************)
EntriesOnce(records) ==
  \A i, j \in DOMAIN records :
    records[i].kind = "entry" /\ records[i] = records[j] => i = j

\* Two sets with nothing in common have as many elements as both together.
LEMMA DisjointUnion ==
  ASSUME NEW S, NEW T, IsFiniteSet(S), IsFiniteSet(T), S \intersect T = {}
  PROVE  /\ IsFiniteSet(S \union T)
         /\ Cardinality(S \union T) = Cardinality(S) + Cardinality(T)
<1>1. /\ IsFiniteSet(S \union T)
      /\ Cardinality(S \union T)
           = Cardinality(S) + Cardinality(T) - Cardinality(S \intersect T)
  BY FS_Union
<1>2. Cardinality(S \intersect T) = 0
  BY FS_EmptySet
<1>3. Cardinality(S) \in Nat /\ Cardinality(T) \in Nat
  BY FS_CardinalityType
<1> QED
  BY <1>1, <1>2, <1>3

\* Each element is the one at a position of its own.
LEMMA AtPositionsApart ==
  ASSUME NEW s \in Seq(Record), EntriesOnce(s), NEW I, I \subseteq 1..Len(s),
         \A i \in I : s[i].kind = "entry"
  PROVE  EntriesOnce(AtPositions(s, I))
<1> DEFINE n == Cardinality(I)
           pick(k) == CHOOSE i \in I : Rank(I, i) = k
<1>1. AtPositions(s, I) = [k \in 1..n |-> s[pick(k)]]
  BY DEF AtPositions
<1>2. Len(s) \in Nat /\ DOMAIN s = 1..Len(s)
  OBVIOUS
<1>3. \A k \in 1..n : pick(k) \in I /\ Rank(I, pick(k)) = k
  BY <1>2, RankReached
<1> HIDE DEF pick, n
<1>4. ASSUME NEW j \in 1..n, NEW k \in 1..n, s[pick(j)] = s[pick(k)] PROVE j = k
  <2>1. pick(j) \in I /\ pick(k) \in I /\ s[pick(j)].kind = "entry"
    BY <1>3
  <2>2. pick(j) \in DOMAIN s /\ pick(k) \in DOMAIN s
    BY <1>2, <2>1
  <2>3. pick(j) = pick(k)
    BY <1>4, <2>1, <2>2 DEF EntriesOnce
  <2> QED
    BY <1>3, <2>3
<1> QED
  BY <1>1, <1>4 DEF EntriesOnce

\* A compaction brings no entry in twice.
LEMMA CompactedOnce ==
  ASSUME NEW records \in Seq(Record), EntriesOnce(records)
  PROVE  EntriesOnce(Compacted(records))
<1> DEFINE n == Len(Pending(records))
           m == Len(DeadEntries(records))
           P == Pending(records)
           D == DeadEntries(records)
           C == Compacted(records)
<1>1. P \in Seq(Record) /\ D \in Seq(Record) /\ C \in Seq(Record)
  BY PendingElements, DeadEntriesElements, CompactedType
<1>2. DOMAIN P = 1..n /\ DOMAIN D = 1..m /\ DOMAIN C = 1..Len(C)
  BY <1>1
<1>3. EntriesOnce(P)
  <2>1. PendingPositions(records) \subseteq 1..Len(records)
    BY DEF PendingPositions
  <2>2. \A i \in PendingPositions(records) : records[i].kind = "entry"
    BY DEF PendingPositions
  <2> QED
    BY <2>1, <2>2, AtPositionsApart DEF Pending
<1>4. EntriesOnce(D)
  <2>1. DeadPositions(records) \subseteq 1..Len(records)
    BY DEF DeadPositions
  <2>2. \A i \in DeadPositions(records) : records[i].kind = "entry"
    BY DEF DeadPositions
  <2> QED
    BY <2>1, <2>2, AtPositionsApart DEF DeadEntries
<1>5. \A k \in 1..n, j \in 1..m : P[k] # D[j]
  <2> TAKE k \in 1..n, j \in 1..m
  <2>1. ~Marked(records, P[k].id)
    BY <1>2, PendingElements
  <2>2. Holds(records, DeadRec(D[j].id))
    BY <1>2, DeadEntriesElements
  <2> QED
    BY <2>1, <2>2 DEF Marked
<1>6. LaidOut(C, P, D, n, m)
  BY CompactedLayout
<1> HIDE DEF n, m, P, D, C
<1>7. /\ \A k \in 1..n : C[k] = P[k]
      /\ \A j \in 1..m : C[n + (2 * j - 1)] = D[j]
      /\ \A j \in 1..m : C[n + 2 * j].kind = "dead"
      /\ \A i \in DOMAIN C :
           \/ i \in 1..n
           \/ \E j \in 1..m : i = n + (2 * j - 1) \/ i = n + 2 * j
  <2>1. /\ \A k \in 1..n : C[k] = P[k]
        /\ \A j \in 1..m : /\ C[n + (2 * j - 1)] = D[j]
                           /\ C[n + 2 * j] = DeadRec(D[j].id)
        /\ Len(C) = n + 2 * m
        /\ \A i \in 1..n + 2 * m :
             \/ i \in 1..n
             \/ \E j \in 1..m : i = n + (2 * j - 1) \/ i = n + 2 * j
    BY <1>6 DEF LaidOut
  <2>2. ASSUME NEW j \in 1..m PROVE C[n + 2 * j].kind = "dead"
    <3>1. C[n + 2 * j] = DeadRec(D[j].id)
      BY <2>1
    <3>2. DeadRec(D[j].id).kind = "dead"
      BY DEF DeadRec
    <3> QED
      BY <3>1, <3>2
  <2> QED
    BY <1>2, <2>1, <2>2
<1>8. ASSUME NEW i \in DOMAIN C, NEW k \in DOMAIN C, C[i].kind = "entry", C[i] = C[k]
      PROVE  i = k
  <2>1. \/ i \in 1..n /\ C[i] = P[i]
        \/ \E j \in 1..m : i = n + (2 * j - 1) /\ C[i] = D[j]
    BY <1>7, <1>8
  <2>2. \/ k \in 1..n /\ C[k] = P[k]
        \/ \E j \in 1..m : k = n + (2 * j - 1) /\ C[k] = D[j]
    BY <1>7, <1>8
  <2>3. CASE i \in 1..n /\ C[i] = P[i] /\ k \in 1..n /\ C[k] = P[k]
    BY <1>2, <1>3, <1>8, <2>3 DEF EntriesOnce
  <2>4. CASE /\ \E j \in 1..m : i = n + (2 * j - 1) /\ C[i] = D[j]
             /\ \E j \in 1..m : k = n + (2 * j - 1) /\ C[k] = D[j]
    <3>1. PICK a \in 1..m : i = n + (2 * a - 1) /\ C[i] = D[a]
      BY <2>4
    <3>2. PICK b \in 1..m : k = n + (2 * b - 1) /\ C[k] = D[b]
      BY <2>4
    <3>3. a = b
      BY <1>2, <1>4, <1>8, <3>1, <3>2 DEF EntriesOnce
    <3> QED
      BY <3>1, <3>2, <3>3
  <2> QED
    BY <1>5, <1>8, <2>1, <2>2, <2>3, <2>4
<1> QED
  BY <1>8 DEF EntriesOnce, C

\* A compaction never lengthens a log in which no entry stands twice: what
\* it writes fits wherever the log fitted (compact).
THEOREM CompactedIsNoLonger ==
  ASSUME NEW records \in Seq(Record), EntriesOnce(records)
  PROVE  Len(Compacted(records)) <= Len(records)
<1> DEFINE PP == PendingPositions(records)
           DP == DeadPositions(records)
           mark(i) == CHOOSE j \in DOMAIN records : records[j] = DeadRec(records[i].id)
           M == {mark(i) : i \in DP}
           h == [i \in DP |-> mark(i)]
           L == 1..Len(records)
<1>0. Len(records) \in Nat /\ DOMAIN records = L
  OBVIOUS
<1>1. PP \subseteq L /\ DP \subseteq L
  BY DEF PendingPositions, DeadPositions
<1>2. \A i \in DP : mark(i) \in L /\ records[mark(i)] = DeadRec(records[i].id)
  BY DEF DeadPositions, Holds
<1>3. ASSUME NEW i \in DP, NEW j \in DP, mark(i) = mark(j) PROVE i = j
  <2>1. DeadRec(records[i].id) = DeadRec(records[j].id)
    BY <1>2, <1>3
  <2>2. records[i].id = records[j].id
    BY <2>1 DEF DeadRec
  <2>3. /\ i \in DOMAIN records /\ j \in DOMAIN records
        /\ records[i].kind = "entry" /\ records[j].kind = "entry"
    BY DEF DeadPositions
  <2>4. records[i] \in Record /\ records[j] \in Record
    BY <2>3
  <2>5. records[i] = records[j]
    BY <2>2, <2>3, <2>4 DEF Record
  <2> QED
    BY <2>3, <2>5 DEF EntriesOnce
<1>4. /\ IsFiniteSet(PP) /\ Cardinality(PP) \in Nat
      /\ IsFiniteSet(DP) /\ Cardinality(DP) \in Nat
      /\ IsFiniteSet(L) /\ Cardinality(L) = Len(records)
  <2>1. /\ IsFiniteSet(PP) /\ Cardinality(PP) \in Nat
        /\ IsFiniteSet(DP) /\ Cardinality(DP) \in Nat
    BY <1>0, <1>1, PositionsFinite
  <2>2. IsFiniteSet(L) /\ Cardinality(L) = Len(records)
    <3> DEFINE n == Len(records)
    <3>1. n \in Nat
      BY <1>0
    <3> HIDE DEF n
    <3>2. /\ IsFiniteSet(1..n)
          /\ Cardinality(1..n) = IF 1 > n THEN 0 ELSE n - 1 + 1
      BY <3>1, FS_Interval
    <3>3. IsFiniteSet(1..n) /\ Cardinality(1..n) = n
      BY <3>1, <3>2
    <3> QED
      BY <3>3 DEF n
  <2> QED
    BY <2>1, <2>2
<1>5. \A i \in PP : records[i].kind = "entry" /\ ~Marked(records, records[i].id)
  BY DEF PendingPositions
<1>6. \A i \in DP : records[i].kind = "entry" /\ Holds(records, DeadRec(records[i].id))
  BY DEF DeadPositions
<1>7. \A i \in M : i \in L /\ records[i].kind = "dead"
  <2> TAKE x \in M
  <2>1. PICK i \in DP : x = mark(i)
    OBVIOUS
  <2>2. mark(i) \in L /\ records[mark(i)] = DeadRec(records[i].id)
    BY <1>2
  <2>3. DeadRec(records[i].id).kind = "dead"
    BY DEF DeadRec
  <2> HIDE DEF mark, L
  <2> QED
    BY <2>1, <2>2, <2>3
<1>8. h \in Surjection(DP, M)
  BY Fun_IsSurj
<1>9. h \in Injection(DP, M)
  <2>1. \A i, j \in DP : h[i] = h[j] => i = j
    BY <1>3
  <2>2. h \in [DP -> M]
    OBVIOUS
  <2> HIDE DEF h, DP, M
  <2> QED
    BY <2>1, <2>2, Fun_IsInj
<1> HIDE DEF PP, DP, M, L, h, mark
<1>10. IsFiniteSet(M) /\ Cardinality(M) = Cardinality(DP)
  BY <1>4, <1>8, <1>9, FS_Surjection
<1>11. /\ IsFiniteSet(PP \union DP)
       /\ Cardinality(PP \union DP) = Cardinality(PP) + Cardinality(DP)
  <2>1. PP \intersect DP = {}
    BY <1>5, <1>6 DEF Marked
  <2> QED
    BY <1>4, <2>1, DisjointUnion
<1>12. /\ IsFiniteSet((PP \union DP) \union M)
       /\ Cardinality((PP \union DP) \union M)
            = Cardinality(PP) + Cardinality(DP) + Cardinality(DP)
  <2>1. (PP \union DP) \intersect M = {}
    BY <1>5, <1>6, <1>7
  <2>2. /\ IsFiniteSet((PP \union DP) \union M)
        /\ Cardinality((PP \union DP) \union M) = Cardinality(PP \union DP) + Cardinality(M)
    BY <1>10, <1>11, <2>1, DisjointUnion
  <2> QED
    BY <1>10, <1>11, <2>2
<1>13. Cardinality((PP \union DP) \union M) <= Len(records)
  <2>1. (PP \union DP) \union M \subseteq L
    BY <1>1, <1>7
  <2> QED
    BY <1>4, <2>1, FS_Subset
<1>14. /\ Len(Pending(records)) = Cardinality(PP)
       /\ Len(DeadEntries(records)) = Cardinality(DP)
  BY <1>1, AtPositionsElements DEF Pending, DeadEntries, PP, DP, L
<1>15. Len(Compacted(records)) = Cardinality(PP) + 2 * Cardinality(DP)
  BY <1>14, CompactedLayout DEF LaidOut
<1> QED
  BY <1>4, <1>12, <1>13, <1>15
=============================================================================
