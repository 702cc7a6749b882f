------------------------------ MODULE MCSources -----------------------------
(***************************************************************************)
(* Sources on a small instance: one source that the dashboard can make,    *)
(* one id that only a file placed by hand can name, a day of ten minutes   *)
(* and a calendar of four days.                                            *)
(***************************************************************************)
EXTENDS Sources, TLC

A == <<"a">>
AB == <<"a", ":", "b">>   \* not a safe id
TheIds == {A, AB}
OnlyA == {A}

TheFileOf == [id \in {A} |-> 2]

TheCalendars == {<<" ", "x">>, <<" ">>}

Plain ==
  [parses |-> TRUE, title |-> <<"t">>, external |-> <<"c">>, zone |-> None,
   start |-> Moment(5, 0), end |-> None, minutes |-> None, allDay |-> FALSE,
   days |-> None, busy |-> None, color |-> None, status |-> None,
   reminders |-> None]

Reminding(popup, email, silent) ==
  [popup |-> popup, email |-> email, silent |-> silent]

\* Requests the door lets in: one with the profile's length, and a timestamp as
\* a day in its own offset, known by its Idempotency-Key.
Short == [Plain EXCEPT !.external = <<"b", ":", "c">>]
Day == [Plain EXCEPT !.external = None, !.start = Moment(9, 2), !.allDay = TRUE,
          !.busy = FALSE, !.color = "11", !.status = "tentative",
          !.reminders = Reminding(<<0>>, <<8>>, FALSE)]

\* Requests it must not let in.
Wrong ==
  {[Plain EXCEPT !.title = <<" ">>], [Plain EXCEPT !.zone = "Mars"],
   [Plain EXCEPT !.start = Date(0)], [Plain EXCEPT !.end = Moment(5, 1)],
   [Plain EXCEPT !.minutes = 36], [Plain EXCEPT !.allDay = TRUE, !.days = 0],
   [Plain EXCEPT !.reminders = Reminding(<<1, 2>>, <<3>>, FALSE)]}

TheBodies ==
  {[request |-> Day, header |-> <<" ", "c">>],
   [request |-> Day, header |-> <<" ">>]}
  \union {[request |-> r, header |-> None] : r \in {Short} \union Wrong}

\* A file for an earlier version, a copy of a source's file with a default
\* longer than time itself, and a file whose id would break the markers apart.
TheHandmade ==
  {[DefaultProfile(A, <<"x">>) EXCEPT !.version = 1],
   [DefaultProfile(A, <<"h">>) EXCEPT !.minutes = 36],
   DefaultProfile(AB, <<"h">>)}

-----------------------------------------------------------------------------
\* The mapping over a wider set of inputs than the posts of a run can carry.

SomeTexts == {<<>>, <<" ">>, <<"a">>, <<"a", ":", " ">>}
SomeTimes == {Garbage, Date(1), Moment(5, 0), Moment(9, 2), Moment(38, 0)}

SomeRequests ==
  {[Plain EXCEPT !.parses = p, !.start = s, !.end = e, !.minutes = m,
                 !.allDay = a, !.days = d] :
     p \in BOOLEAN, s \in SomeTimes, e \in SomeTimes \union {None},
     m \in {None, 0, 1, 36}, a \in BOOLEAN, d \in {None, 0, 2, 5}}
  \union
  {[Plain EXCEPT !.title = t, !.external = x, !.zone = z, !.color = c,
                 !.status = s, !.reminders = r] :
     t \in SomeTexts, x \in SomeTexts \union {None}, z \in {None, "UTC", "Mars"},
     c \in {None, "sage", "11", "puce"}, s \in {None, "cancelled", "done"},
     r \in {None, Reminding(<<>>, <<>>, TRUE), Reminding(<<1>>, <<>>, TRUE),
            Reminding(<<1, 9>>, <<>>, FALSE), Reminding(<<0>>, <<8>>, FALSE),
            Reminding(<<1, 2>>, <<3>>, FALSE)}}

SomeProfiles ==
  {file \in {[DefaultProfile(i, c) EXCEPT !.zone = z, !.minutes = m] :
               i \in SomeTexts, c \in {<<"x">>, <<" ">>},
               z \in {"Brussels", "Mars"}, m \in {None, -1, 6, 36}} :
     Usable(file)}

\* An event mapped under one usable profile is refused under no other, and has a
\* marker exactly when the door finds an id.
ASSUME MappingAssumption ==
  /\ \E p \in SomeProfiles, r \in SomeRequests : Verdict(r, p) = "event"
  /\ \E p \in SomeProfiles, r \in SomeRequests : Verdict(r, p) = "panic"
  /\ \A p, q \in SomeProfiles, r \in SomeRequests :
       Verdict(r, p) = "event" =>
         /\ Verdict(r, q) # "refused"
         /\ \A h \in SomeTexts \union {None} :
              HasId(r, h) <=> Event(r, p, h).marker # None

\* Different ids and things give different markers, as long as ids are safe.
ASSUME KeysDifferAssumption ==
  \A i, j \in {x \in SomeTexts \union {<<"a", ".">>, <<".", "a">>} : SafeId(x)},
     x, y \in SomeTexts \union {<<":">>, <<"a", ":">>} :
    Key(i, x) = Key(j, y) => i = j /\ x = y

Symmetry == Permutations(Clicks)
=============================================================================
