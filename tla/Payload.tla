------------------------------ MODULE Payload -------------------------------
(***************************************************************************)
(* From a posted payload to the event Almanac writes: which profile files  *)
(* are usable, which payloads a profile maps, what the event looks like    *)
(* and which key marks it (core/profile.rs, core/request.rs,               *)
(* core/calendar.rs, core/colors.rs, core/mapping.rs, and the parts of     *)
(* shell/delivery.rs and shell/ingest.rs that read a payload).             *)
(*                                                                         *)
(* Texts whose parts matter (ids, titles) are sequences of characters with *)
(* " " for any white space; other texts are values.  Instants and lengths  *)
(* are minutes, days are numbered, and chrono's range ends at Horizon.     *)
(***************************************************************************)
EXTENDS Integers, Sequences, FiniteSets

CONSTANTS
  None,               \* the field is absent
  Chars,              \* the characters of ids and titles
  SafeChars,          \* ASCII letters and digits, ".", "-" and "_"
  Zones,              \* the IANA zone names
  DefaultZone,        \* "Europe/Brussels"
  Horizon,            \* the last instant a DateTime can hold
  DayMinutes,         \* minutes in a day
  FallbackMinutes,    \* FALLBACK_DURATION_MINUTES
  MaxReminders,       \* MAX_REMINDERS
  MaxReminderMinutes  \* MAX_REMINDER_MINUTES

ASSUME CharsAssumption ==
  /\ SafeChars \union {":", " "} \subseteq Chars
  /\ ":" \notin SafeChars /\ "/" \notin SafeChars /\ " " \notin SafeChars
  /\ DefaultZone \in Zones
ASSUME NoneAssumption ==
  None \notin Int /\ None \notin STRING /\ None \notin Seq(Chars)
ASSUME LengthsAssumption ==
  /\ Horizon \in Nat /\ DayMinutes \in Nat \ {0}
  /\ FallbackMinutes \in Nat \ {0}
  /\ MaxReminders \in Nat /\ MaxReminderMinutes \in Nat

Schema == 2  \* SUPPORTED_SCHEMA_VERSION

Statuses == {"confirmed", "tentative", "cancelled"}

-----------------------------------------------------------------------------
\* Texts

Texts == Seq(Chars)

Optional(values) == values \union {None}

Blank(text) == \A i \in DOMAIN text : text[i] = " "

Trim(text) ==
  LET ink == {i \in DOMAIN text : text[i] # " "} IN
  IF ink = {} THEN <<>>
  ELSE LET first == CHOOSE i \in ink : \A j \in ink : i <= j
           last  == CHOOSE i \in ink : \A j \in ink : i >= j
       IN SubSeq(text, first, last)

SafeId(id) ==
  /\ id # <<>>
  /\ id[1] # "."
  /\ \A i \in DOMAIN id : id[i] \in SafeChars

-----------------------------------------------------------------------------
\* Profiles.  A file's contents: the schema_version it declares, whether the
\* rest parses with no unknown key, and the fields.

ProfileFiles ==
  [version : Optional(Int), parses : BOOLEAN, id : Texts, calendar : Texts,
   zone : STRING, minutes : Optional(Int)]

\* Mutant: an id is only checked for being there.
UsableWithAnyId(file) ==
  /\ file.version = Schema
  /\ file.parses
  /\ ~Blank(file.id)
  /\ ~Blank(file.calendar)
  /\ file.zone \in Zones
  /\ file.minutes # None => file.minutes > 0

Usable(file) ==
  /\ file.version = Schema
  /\ file.parses
  /\ ~Blank(file.id)
  /\ SafeId(file.id)
  /\ ~Blank(file.calendar)
  /\ file.zone \in Zones
  /\ file.minutes # None => file.minutes > 0

DefaultProfile(id, calendar) ==
  [version |-> Schema, parses |-> TRUE, id |-> id, calendar |-> calendar,
   zone |-> DefaultZone, minutes |-> FallbackMinutes]

-----------------------------------------------------------------------------
\* Requests.  `parses` covers the JSON: every field known and of its type,
\* title and start present.  A time is garbage, a date or a moment.

Garbage == [kind |-> "garbage", day |-> 0, utc |-> 0, offset |-> 0]
Date(day) == [Garbage EXCEPT !.kind = "date", !.day = day]
Moment(utc, offset) ==
  [Garbage EXCEPT !.kind = "moment", !.utc = utc, !.offset = offset]

Times ==
  {t \in [kind : {"garbage", "date", "moment"}, day : Int, utc : Int, offset : Int] :
     t.utc <= Horizon}

Lists == [popup : Seq(Int), email : Seq(Int), silent : BOOLEAN]

Requests ==
  [parses : BOOLEAN, title : Texts, external : Optional(Texts),
   start : Times, end : Optional(Times), minutes : Optional(Int),
   allDay : BOOLEAN, days : Optional(Int), busy : Optional(BOOLEAN),
   color : Optional(STRING), status : Optional(STRING),
   reminders : Optional(Lists), zone : Optional(STRING)]

Or(value, default) == IF value = None THEN default ELSE value

Zone(request, profile) == Or(request.zone, profile.zone)

Length(request, profile) ==
  Or(request.minutes, Or(profile.minutes, FallbackMinutes))

Days(request) == Or(request.days, 1)

\* An all-day event takes a timestamp too, and its date in its own offset.
StartDay(request) ==
  LET start == request.start IN
  IF start.kind = "date" THEN start.day
  ELSE (start.utc + start.offset) \div DayMinutes

Palette ==
  <<"lavender", "sage", "grape", "flamingo", "banana", "tangerine",
    "peacock", "graphite", "blueberry", "basil", "tomato">>
ColorIds == <<"1", "2", "3", "4", "5", "6", "7", "8", "9", "10", "11">>

\* The palette's row for a colour asked for by name or by id; a name is
\* compared trimmed and in lower case, and stands here in that form.
Resolved(color) == {i \in DOMAIN Palette : color \in {Palette[i], ColorIds[i]}}

Overrides(asked) ==
  [i \in DOMAIN asked.popup |-> [method |-> "popup", minutes |-> asked.popup[i]]]
  \o [i \in DOMAIN asked.email |-> [method |-> "email", minutes |-> asked.email[i]]]

RemindersAllowed(asked) ==
  /\ asked.silent => Overrides(asked) = <<>>
  /\ Len(Overrides(asked)) <= MaxReminders
  /\ \A i \in DOMAIN Overrides(asked) :
       Overrides(asked)[i].minutes \in 0 .. MaxReminderMinutes

-----------------------------------------------------------------------------
\* to_google_event checks in this order; the first check that fails decides.

IdentityStated(request, profile) ==
  /\ request.parses
  /\ ~Blank(request.title)
  /\ request.external # None => ~Blank(request.external)
  /\ Zone(request, profile) \in Zones

TimedWindowStated(request, profile) ==
  /\ request.start.kind = "moment"
  /\ IF request.end # None
     THEN request.end.kind = "moment" /\ request.end.utc > request.start.utc
     ELSE Length(request, profile) > 0

AllDayWindowStated(request) ==
  request.start.kind \in {"date", "moment"} /\ Days(request) > 0

WindowStated(request, profile) ==
  IF request.allDay THEN AllDayWindowStated(request)
  ELSE TimedWindowStated(request, profile)

\* chrono's additions panic past the range they can hold; nothing bounds the
\* length or the number of days asked for.
Overflows(request, profile) ==
  IF request.allDay
  THEN StartDay(request) + Days(request) > Horizon \div DayMinutes
  ELSE /\ request.end = None
       /\ request.start.utc + Length(request, profile) > Horizon

DetailsAllowed(request) ==
  /\ request.color # None => Resolved(request.color) # {}
  /\ request.status # None => request.status \in Statuses
  /\ request.reminders # None => RemindersAllowed(request.reminders)

\* What map_payload does with a request under a profile.
Verdict(request, profile) ==
  IF ~IdentityStated(request, profile) \/ ~WindowStated(request, profile)
  THEN "refused"
  ELSE IF Overflows(request, profile) THEN "panic"
  ELSE IF DetailsAllowed(request) THEN "event" ELSE "refused"

-----------------------------------------------------------------------------
\* The event and its marker

Key(id, external) == id \o <<":">> \o external

Start(request) ==
  IF request.allDay THEN Date(StartDay(request)) ELSE request.start

\* Mutant: the end of an all-day event is its last day.
EndInclusive(request, profile) ==
  IF request.allDay THEN Date(StartDay(request) + Days(request) - 1)
  ELSE IF request.end # None THEN request.end
  ELSE Moment(request.start.utc + Length(request, profile),
              request.start.offset)

\* Google's end of an all-day event is exclusive.
End(request, profile) ==
  IF request.allDay THEN Date(StartDay(request) + Days(request))
  ELSE IF request.end # None THEN request.end
  ELSE Moment(request.start.utc + Length(request, profile),
              request.start.offset)

\* The idempotency key of an entry: the header trimmed, absent when blank.
HeaderKey(header) ==
  IF header = None THEN None
  ELSE IF Trim(header) = <<>> THEN None ELSE Trim(header)

\* The event's own external_id wins over the Idempotency-Key header.
UpsertKey(request, profile, header) ==
  IF request.external # None THEN Key(profile.id, request.external)
  ELSE IF HeaderKey(header) = None THEN None
  ELSE Key(profile.id, HeaderKey(header))

Event(request, profile, header) ==
  [start        |-> Start(request),
   end          |-> End(request, profile),
   zone         |-> IF request.allDay THEN None ELSE Zone(request, profile),
   color        |-> IF request.color = None THEN None
                    ELSE ColorIds[CHOOSE i \in Resolved(request.color) : TRUE],
   transparency |-> IF request.busy = FALSE THEN "transparent" ELSE None,
   status       |-> request.status,
   reminders    |-> IF request.reminders = None THEN None
                    ELSE [useDefault |-> FALSE,
                          overrides  |-> Overrides(request.reminders)],
   marker       |-> UpsertKey(request, profile, header)]

\* requires_an_id: the door wants one of the two ids, not blank.
HasId(request, header) ==
  \/ request.external # None /\ ~Blank(request.external)
  \/ HeaderKey(header) # None

\* Mutant: the door only asks for an id.
AdmitsUnread(request, header, profile) == HasId(request, header)

\* Mutant: the door lets in what its mapping could not finish.
AdmitsUnlessRefused(request, header, profile) ==
  HasId(request, header) /\ Verdict(request, profile) # "refused"

\* Both checks of the door, before the journal is touched.
Admits(request, header, profile) ==
  HasId(request, header) /\ Verdict(request, profile) = "event"

-----------------------------------------------------------------------------
\* What Google takes and shows, as Google documents it: written from the
\* receiving side and used only to state properties.

GoogleShows(event) ==
  /\ event.start.kind = event.end.kind
  /\ event.start.kind = "moment" => /\ event.start.utc < event.end.utc
                                    /\ event.end.utc <= Horizon
                                    /\ event.zone \in Zones
  /\ event.start.kind = "date" => event.start.day < event.end.day
  /\ event.start.kind \in {"moment", "date"}
  /\ event.color \in {None} \union {ColorIds[i] : i \in 1 .. 11}
  /\ event.status \in {None} \union Statuses
  /\ event.reminders # None =>
       /\ Len(event.reminders.overrides) <= MaxReminders
       /\ \A i \in DOMAIN event.reminders.overrides :
            event.reminders.overrides[i].minutes \in 0 .. MaxReminderMinutes
=============================================================================
