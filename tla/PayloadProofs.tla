---------------------------- MODULE PayloadProofs ---------------------------
(***************************************************************************)
(* What the mapping promises for every payload and every profile: an       *)
(* accepted payload stays mappable, markers keep sources apart, and the    *)
(* event is one Google shows.                                              *)
(***************************************************************************)
EXTENDS Payload, SequenceTheorems, TLAPS

-----------------------------------------------------------------------------
\* The parts of a request's mapping that no usable profile can spoil: the zone
\* and the default length are the only ones that come from the profile, and
\* Profile::parse has checked both.
LEMMA ProfilesGiveGoodDefaults ==
  ASSUME NEW request, NEW p, NEW q, Usable(q)
  PROVE  /\ IdentityStated(request, p) => IdentityStated(request, q)
         /\ WindowStated(request, p) => WindowStated(request, q)
<1>1. Zone(request, p) \in Zones => Zone(request, q) \in Zones
  BY DEF Zone, Or, Usable
<1>2. Length(request, p) > 0 => Length(request, q) > 0
  BY NoneAssumption, LengthsAssumption DEF Length, Or, Usable
<1> QED
  BY <1>1, <1>2 DEF IdentityStated, WindowStated, TimedWindowStated

\* A payload that one profile maps is refused by no other usable profile: the
\* check at the door (must_be_mappable) settles it for the worker's mapping
\* later, whatever has happened to the source's profile in between.
THEOREM MappedOnceNeverRefused ==
  ASSUME NEW request, NEW p, NEW q, Usable(q),
         Verdict(request, p) = "event"
  PROVE  Verdict(request, q) # "refused"
<1>1. /\ IdentityStated(request, p) /\ WindowStated(request, p)
      /\ DetailsAllowed(request)
  BY DEF Verdict
<1> QED
  BY <1>1, ProfilesGiveGoodDefaults DEF Verdict

-----------------------------------------------------------------------------
\* The characters of a key: those of the source id, a colon, the rest.
LEMMA KeyParts ==
  ASSUME NEW i \in Texts, NEW x \in Texts
  PROVE  /\ Len(Key(i, x)) = Len(i) + 1 + Len(x)
         /\ \A n \in 1 .. Len(i) : Key(i, x)[n] = i[n]
         /\ Key(i, x)[Len(i) + 1] = ":"
         /\ \A n \in 1 .. Len(x) : Key(i, x)[Len(i) + 1 + n] = x[n]
<1> DEFINE colon == <<":">>
<1>1. colon \in Texts /\ Len(colon) = 1 /\ colon[1] = ":"
  <2>1. ":" \in Chars
    BY CharsAssumption
  <2>2. Len(colon) = 1 /\ colon[1] = ":"
    OBVIOUS
  <2>3. colon \in Seq(Chars)
    BY <2>1
  <2> QED
    BY <2>2, <2>3 DEF Texts
<1>2. i \o colon \in Texts /\ Len(i \o colon) = Len(i) + 1
  BY <1>1 DEF Texts
<1>3. /\ \A n \in 1 .. Len(i) : (i \o colon)[n] = i[n]
      /\ (i \o colon)[Len(i) + 1] = ":"
  BY <1>1 DEF Texts
<1>4. Key(i, x) = (i \o colon) \o x
  BY DEF Key
<1>5. Len(i) \in Nat /\ Len(x) \in Nat
  BY DEF Texts
<1>6. Len(Key(i, x)) = Len(i) + 1 + Len(x)
  BY <1>2, <1>4, <1>5 DEF Texts
<1>7. \A n \in 1 .. Len(i) + 1 : Key(i, x)[n] = (i \o colon)[n]
  BY <1>2, <1>4, <1>5 DEF Texts
<1>8. \A n \in 1 .. Len(x) : Key(i, x)[Len(i) + 1 + n] = x[n]
  BY <1>2, <1>4, <1>5 DEF Texts
<1> QED
  BY <1>3, <1>5, <1>6, <1>7, <1>8

\* The colon that ends a safe id is the first one in the key, so an id cannot
\* be shorter than another with the same key.
LEMMA NoShorterId ==
  ASSUME NEW i \in Texts, NEW j \in Texts, NEW x \in Texts, NEW y \in Texts,
         SafeId(j), Key(i, x) = Key(j, y)
  PROVE  ~(Len(i) < Len(j))
<1> SUFFICES ASSUME Len(i) < Len(j) PROVE FALSE
  OBVIOUS
<1> DEFINE n == Len(i) + 1
<1>1. Len(i) \in Nat /\ Len(j) \in Nat /\ n \in 1 .. Len(j)
  BY DEF Texts
<1>2. Key(j, y)[n] = j[n] /\ Key(i, x)[n] = ":"
  BY <1>1, KeyParts
<1>3. n \in DOMAIN j
  BY <1>1 DEF Texts
<1>4. j[n] # ":"
  BY <1>3, CharsAssumption DEF SafeId
<1> QED
  BY <1>2, <1>4

\* AR15's key format keeps sources apart: with safe ids, two keys are equal
\* only if source and thing are.
THEOREM KeysAreInjective ==
  ASSUME NEW i \in Texts, NEW j \in Texts, NEW x \in Texts, NEW y \in Texts,
         SafeId(i), SafeId(j), Key(i, x) = Key(j, y)
  PROVE  i = j /\ x = y
<1>1. Len(i) \in Nat /\ Len(j) \in Nat /\ Len(x) \in Nat /\ Len(y) \in Nat
  BY DEF Texts
<1>2. Len(i) = Len(j)
  BY <1>1, NoShorterId
<1>3. Len(x) = Len(y)
  BY <1>1, <1>2, KeyParts
<1>4. ASSUME NEW n \in 1 .. Len(i) PROVE i[n] = j[n]
  <2>1. Key(i, x)[n] = i[n]
    BY KeyParts
  <2>2. n \in 1 .. Len(j)
    BY <1>2
  <2>3. Key(j, y)[n] = j[n]
    BY <2>2, KeyParts
  <2> QED
    BY <2>1, <2>3
<1>5. ASSUME NEW n \in 1 .. Len(x) PROVE x[n] = y[n]
  <2>1. Key(i, x)[Len(i) + 1 + n] = x[n]
    BY KeyParts
  <2>2. n \in 1 .. Len(y)
    BY <1>3
  <2>3. Key(j, y)[Len(j) + 1 + n] = y[n]
    BY <2>2, KeyParts
  <2> QED
    BY <1>2, <2>1, <2>3
<1>6. i = j
  BY <1>2, <1>4, SeqEqual DEF Texts
<1>7. x = y
  BY <1>3, <1>5, SeqEqual DEF Texts
<1> QED
  BY <1>6, <1>7

-----------------------------------------------------------------------------
\* The window of a mapped event: an end after the start, of the start's kind,
\* within what can be represented, and for a timed event a zone that exists.
LEMMA WindowIsShown ==
  ASSUME NEW request \in Requests, NEW p, NEW header,
         p.minutes \in Optional(Int),
         Verdict(request, p) = "event"
  PROVE  LET e == Event(request, p, header) IN
         /\ e.start.kind = e.end.kind
         /\ e.start.kind \in {"moment", "date"}
         /\ e.start.kind = "moment" => /\ e.start.utc < e.end.utc
                                       /\ e.end.utc <= Horizon
                                       /\ e.zone \in Zones
         /\ e.start.kind = "date" => e.start.day < e.end.day
<1> DEFINE e == Event(request, p, header)
<1>1. /\ IdentityStated(request, p) /\ WindowStated(request, p)
      /\ ~Overflows(request, p)
  BY DEF Verdict
<1>2. e.start = Start(request) /\ e.end = End(request, p)
  BY DEF Event
<1>3. /\ request.start \in Times /\ request.end \in Optional(Times)
      /\ request.minutes \in Optional(Int) /\ request.days \in Optional(Int)
      /\ request.allDay \in BOOLEAN
  BY DEF Requests
<1>4. CASE request.allDay
  <2>1. /\ e.start = Date(StartDay(request))
        /\ e.end = Date(StartDay(request) + Days(request))
    BY <1>2, <1>4 DEF Start, End
  <2>2. StartDay(request) \in Int
    BY <1>3, LengthsAssumption DEF StartDay, Times
  <2>3. Days(request) \in Int /\ Days(request) > 0
    BY <1>1, <1>3, <1>4 DEF WindowStated, AllDayWindowStated, Days, Or, Optional
  <2> QED
    BY <2>1, <2>2, <2>3 DEF Date, Garbage
<1>5. CASE ~request.allDay
  <2>1. TimedWindowStated(request, p)
    BY <1>1, <1>5 DEF WindowStated
  <2>2. e.start = request.start /\ e.start.kind = "moment"
    BY <1>2, <1>5, <2>1 DEF Start, TimedWindowStated
  <2>3. e.zone \in Zones
    BY <1>1, <1>5 DEF Event, IdentityStated
  <2>4. CASE request.end # None
    <3>1. e.end = request.end /\ e.end \in Times
      BY <1>2, <1>3, <1>5, <2>4 DEF End, Optional
    <3>2. e.end.kind = "moment" /\ e.end.utc > e.start.utc
      BY <2>1, <2>2, <2>4, <3>1 DEF TimedWindowStated
    <3>3. e.end.utc \in Int /\ e.start.utc \in Int /\ e.end.utc <= Horizon
      BY <1>3, <2>2, <3>1 DEF Times
    <3> QED
      BY <2>2, <2>3, <3>2, <3>3
  <2>5. CASE request.end = None
    <3>1. Length(request, p) \in Int /\ Length(request, p) > 0
      BY <1>3, <2>1, <2>5, LengthsAssumption
      DEF TimedWindowStated, Length, Or, Optional
    <3>2. e.end = Moment(request.start.utc + Length(request, p), request.start.offset)
      BY <1>2, <1>5, <2>5 DEF End
    <3>3. /\ e.end.kind = "moment"
          /\ e.end.utc = request.start.utc + Length(request, p)
      BY <3>2 DEF Moment, Garbage
    <3>4. request.start.utc + Length(request, p) <= Horizon
      <4>1. /\ request.start.utc \in Int /\ Horizon \in Int
            /\ ~(request.start.utc + Length(request, p) > Horizon)
        BY <1>1, <1>3, <1>5, <2>5, LengthsAssumption DEF Overflows, Times
      <4> QED
        BY <3>1, <4>1
    <3>5. request.start.utc \in Int
      BY <1>3 DEF Times
    <3> QED
      BY <2>2, <2>3, <3>1, <3>3, <3>4, <3>5
  <2> QED
    BY <2>4, <2>5
<1> QED
  BY <1>3, <1>4, <1>5

\* Every event the mapping makes is one Google takes and shows: what it checks
\* by itself covers Google's rules on windows, colours, statuses and reminders.
THEOREM MappedIsShown ==
  ASSUME NEW request \in Requests, NEW p, NEW header,
         p.minutes \in Optional(Int),
         Verdict(request, p) = "event"
  PROVE  GoogleShows(Event(request, p, header))
<1> DEFINE e == Event(request, p, header)
<1>1. DetailsAllowed(request)
  BY DEF Verdict
<1>2. e.color \in {None} \union {ColorIds[i] : i \in 1 .. 11}
  <2>1. CASE request.color = None
    BY <2>1 DEF Event
  <2>2. CASE request.color # None
    <3> DEFINE row == CHOOSE i \in Resolved(request.color) : TRUE
    <3>1. Resolved(request.color) # {}
      BY <1>1, <2>2 DEF DetailsAllowed
    <3>2. row \in Resolved(request.color)
      BY <3>1
    <3>3. DOMAIN Palette = 1 .. 11
      BY DEF Palette
    <3>4. row \in 1 .. 11
      BY <3>2, <3>3 DEF Resolved
    <3>5. e.color = ColorIds[row]
      BY <2>2 DEF Event
    <3> QED
      BY <3>4, <3>5
  <2> QED
    BY <2>1, <2>2
<1>3. e.status \in {None} \union Statuses
  BY <1>1 DEF Event, DetailsAllowed
<1>4. ASSUME e.reminders # None
      PROVE  /\ Len(e.reminders.overrides) <= MaxReminders
             /\ \A i \in DOMAIN e.reminders.overrides :
                  e.reminders.overrides[i].minutes \in 0 .. MaxReminderMinutes
  <2>1. request.reminders # None /\ e.reminders.overrides = Overrides(request.reminders)
    BY <1>4 DEF Event
  <2> QED
    BY <1>1, <2>1 DEF DetailsAllowed, RemindersAllowed
<1> QED
  BY <1>2, <1>3, <1>4, WindowIsShown DEF GoogleShows
=============================================================================
