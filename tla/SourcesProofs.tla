---------------------------- MODULE SourcesProofs ---------------------------
(***************************************************************************)
(* The promises of Sources for any number of clicks, posts, files and      *)
(* faults: what the door lets in is never refused by the mapping later,    *)
(* no two sources share a marker, a removed source is not imported again,  *)
(* no file is left half-written or lost, the map is the directory, the two *)
(* halves of a source and its waiting posts keep together, and the worker  *)
(* ends of no payload that hands did not bring about.                      *)
(***************************************************************************)
EXTENDS Sources, PayloadProofs, WellFoundedInduction

-----------------------------------------------------------------------------
\* The two ways a file can be torn are contents a file may have.
LEMMA TornFiles ==
  /\ Emptied \in Torn /\ Mixed \in Torn
  /\ Torn \subseteq Contents /\ Made \subseteq Contents
<1>1. \E t \in Torn : t.zone = "empty"
  <2> DEFINE t == [DefaultProfile(<<>>, <<>>) EXCEPT !.parses = FALSE, !.zone = "empty"]
  <2>1. t \in Torn
    BY DEF Torn
  <2>2. t.zone = "empty"
    BY DEF DefaultProfile
  <2> QED
    BY <2>1, <2>2
<1>2. \E t \in Torn : t.zone = "mixed"
  <2> DEFINE t == [DefaultProfile(<<>>, <<>>) EXCEPT !.parses = FALSE, !.zone = "mixed"]
  <2>1. t \in Torn
    BY DEF Torn
  <2>2. t.zone = "mixed"
    BY DEF DefaultProfile
  <2> QED
    BY <2>1, <2>2
<1>3. Emptied \in Torn
  BY <1>1 DEF Emptied
<1>4. Mixed \in Torn
  BY <1>2 DEF Mixed
<1> QED
  BY <1>3, <1>4 DEF Contents

\* Some numbers that are there have a least one.
LEMMA LeastNumber ==
  ASSUME NEW numbers, numbers \subseteq Nat, numbers # {}
  PROVE  \E f \in numbers : \A g \in numbers : f <= g
<1>1. PICK f \in numbers : \A g \in numbers : ~(<<g, f>> \in OpToRel(<, Nat))
  BY NatLessThanWellFounded, WFMin
<1>2. \A g \in numbers : ~(g < f)
  BY <1>1 DEF OpToRel
<1> QED
  BY <1>2

\* Whatever a directory holds: the first of some files is one of them.
LEMMA FirstIsOne ==
  ASSUME NEW files, files \subseteq Files, files # {}
  PROVE  First(files) \in files
<1>1. files \subseteq Nat
  BY FilesAssumption
<1>2. \E f \in files : \A g \in files : f <= g
  BY <1>1, LeastNumber
<1> QED
  BY <1>2 DEF First

\* A map of profiles serves usable profiles under their own ids.
ProfileMap(m) ==
  \A id \in Ids : m[id] # None => Usable(m[id]) /\ m[id].id = id

\* load_map makes such a map of any directory.
LEMMA MapOfIsProfileMap ==
  ASSUME NEW dir
  PROVE  ProfileMap(MapOf(dir))
<1> SUFFICES ASSUME NEW id \in Ids, MapOf(dir)[id] # None
             PROVE  Usable(MapOf(dir)[id]) /\ MapOf(dir)[id].id = id
  BY DEF ProfileMap
<1>1. Holders(dir, id) # {} /\ MapOf(dir)[id] = dir[First(Holders(dir, id))]
  BY DEF MapOf
<1>2. Holders(dir, id) \subseteq Files
  BY DEF Holders
<1>3. First(Holders(dir, id)) \in Holders(dir, id)
  BY <1>1, <1>2, FirstIsOne
<1> QED
  BY <1>1, <1>3 DEF Holders

\* Whatever a file may hold names an id and a default length of their types.
LEMMA ContentsTyped ==
  ASSUME NEW file \in Contents
  PROVE  file.id \in Texts /\ file.minutes \in Optional(Int)
<1>1. CASE file \in Made
  <2>1. PICK id \in SafeIds, cal \in Calendars : file = DefaultProfile(id, Trim(cal))
    BY <1>1 DEF Made
  <2> QED
    BY <2>1, PeopleAssumption, LengthsAssumption DEF DefaultProfile, SafeIds, Optional
<1>2. CASE file \in Torn
  <2>1. <<>> \in Texts
    BY DEF Texts
  <2>2. file.id = <<>> /\ file.minutes = FallbackMinutes
    BY <1>2 DEF Torn, DefaultProfile
  <2> QED
    BY <2>1, <2>2, LengthsAssumption DEF Optional
<1>3. CASE file \in Handmade
  BY <1>3, PeopleAssumption DEF ProfileFiles
<1> QED
  BY <1>1, <1>2, <1>3 DEF Contents

\* The empty map is one too.
LEMMA NothingIsProfileMap ==
  Nothing \in Maps /\ ProfileMap(Nothing)
BY DEF Nothing, ProfileMap, Maps

\* A directory of known contents gives a map of known contents.
LEMMA MapOfTyped ==
  ASSUME NEW dir \in [Files -> Contents \union {NoFile}]
  PROVE  MapOf(dir) \in Maps
<1> SUFFICES ASSUME NEW id \in Ids
             PROVE  (IF Holders(dir, id) = {} THEN None
                     ELSE dir[First(Holders(dir, id))]) \in Contents \union {None}
  BY DEF MapOf, Maps
<1>1. CASE Holders(dir, id) # {}
  <2>1. First(Holders(dir, id)) \in Holders(dir, id)
    BY <1>1, FirstIsOne DEF Holders
  <2> QED
    BY <1>1, <2>1 DEF Holders
<1> QED
  BY <1>1

-----------------------------------------------------------------------------
(***************************************************************************)
(* The type invariant, in two parts: the clicks, and the rest              *)
(***************************************************************************)

Records == {r \in ClickRecs : Sound(r)}

ClicksOK == click \in [Clicks -> Records]

StateOK ==
  /\ disk \in [Files -> Contents \union {NoFile}]
  /\ tmp \in [Files -> Contents \union {NoFile}]
  /\ served \in Maps /\ wprof \in Maps
  /\ preload \in Optional(Maps)
  /\ up \in BOOLEAN /\ alive \in BOOLEAN /\ kitFile \in BOOLEAN
  /\ clients \subseteq Ids
  /\ post \in [Posts -> PostRecs]
  /\ todo \subseteq Posts
  /\ spent \in [clicks : Nat, starts : Nat, mishaps : Nat]
  /\ trail \in Trails
  /\ alive => up

\* The two parts are the whole.
LEMMA TypeParts ==
  TypeOK <=> ClicksOK /\ StateOK
BY DEF TypeOK, ClicksOK, StateOK, Records

\* A click that does nothing is a record like the others.
LEMMA IdleTyped ==
  Idle \in Records
BY DEF Idle, Records, ClickRecs, Sound, Optional

\* A step that changes one click, into a record that is sound.
LEMMA OneClick ==
  ASSUME ClicksOK, NEW c \in Clicks, NEW r \in Records,
         click' = [click EXCEPT ![c] = r]
  PROVE  ClicksOK'
BY DEF ClicksOK

\* A click that ends, and one that goes on with nothing but its place changed.
LEMMA Finished ==
  ASSUME ClicksOK, NEW c \in Clicks, Finish(c)
  PROVE  ClicksOK'
BY OneClick, IdleTyped DEF Finish

\* A click that goes on to another operation keeps its record sound.
LEMMA Gone ==
  ASSUME ClicksOK, NEW c \in Clicks, NEW pc, Go(c, pc),
         [click[c] EXCEPT !.pc = pc] \in Records
  PROVE  ClicksOK'
BY OneClick DEF Go

\* Being outrun changes no more than a flag.
LEMMA OutrunTyped ==
  ASSUME NEW clk \in [Clicks -> Records]
  PROVE  /\ Outrun(clk) \in [Clicks -> Records]
         /\ \A c \in Clicks : clk[c].pc # "set" => Outrun(clk)[c] = clk[c]
<1>1. ASSUME NEW r \in Records PROVE [r EXCEPT !.behind = TRUE] \in Records
  BY ZenonT(30) DEF Records, ClickRecs, Sound
<1> QED
  BY <1>1 DEF Outrun

\* A file moved into place changes no more than other writers' descriptors.
LEMMA MovedTyped ==
  ASSUME ClicksOK, NEW c \in Clicks
  PROVE  Moved(c) \in [Clicks -> Records] /\ Moved(c)[c] = click[c]
<1>1. ASSUME NEW r \in Records, NEW fd \in {"path", "gone"}
      PROVE  [r EXCEPT !.fd = fd] \in Records
  BY DEF Records, ClickRecs, Sound
<1>2. ASSUME NEW d \in Clicks PROVE Moved(c)[d] \in Records
  BY <1>1 DEF Moved, ClicksOK
<1> QED
  BY <1>2 DEF Moved

-----------------------------------------------------------------------------
\* What the steps of clicks leave of the types, for the clicks.
LEMMA ClickStepClicks ==
  ASSUME ClicksOK, StateOK, NEW c \in Clicks, ClickStep(c)
  PROVE  ClicksOK'
<1> USE DEF Optional
<1>0. click[c] \in Records /\ click[c] \in ClickRecs /\ Sound(click[c])
  BY DEF ClicksOK, Records
<1>1. ASSUME NEW id \in Ids, NEW cal \in Calendars, BeginCreate(c, id, cal)
      PROVE  ClicksOK'
  <2> DEFINE r == [Idle EXCEPT !.pc = "issue", !.op = "create", !.id = id]
             s == [Idle EXCEPT !.pc = "check", !.op = "create", !.id = id,
                     !.file = FileOf[id], !.content = DefaultProfile(id, Trim(cal))]
  <2>1. r \in Records
    BY DEF Idle, Records, ClickRecs, Sound
  <2>2. SafeId(id) => s \in Records
    <3> SUFFICES ASSUME SafeId(id) PROVE s \in Records
      OBVIOUS
    <3>1. id \in SafeIds /\ FileOf[id] \in Files
      BY FilesAssumption DEF SafeIds
    <3>2. DefaultProfile(id, Trim(cal)) \in Made
      BY <3>1 DEF Made
    <3> QED
      BY <3>1, <3>2, TornFiles DEF Idle, Records, ClickRecs, Sound
  <2>3. \/ click' = [click EXCEPT ![c] = r]
        \/ SafeId(id) /\ click' = [click EXCEPT ![c] = s]
        \/ UNCHANGED click
    BY <1>1 DEF BeginCreate
  <2>4. CASE UNCHANGED click
    BY <2>4 DEF ClicksOK
  <2> QED
    BY <2>1, <2>2, <2>3, <2>4, OneClick
<1>2. ASSUME NEW id \in SafeIds, BeginRemove(c, id) PROVE ClicksOK'
  <2> DEFINE r == [Idle EXCEPT !.pc = "unlink", !.op = "remove", !.id = id,
                                !.file = FileOf[id]]
             s == [Idle EXCEPT !.pc = "forget", !.op = "remove", !.id = id]
  <2>1. r \in Records /\ s \in Records
    BY FilesAssumption DEF Idle, Records, ClickRecs, Sound, SafeIds
  <2>2. \/ click' = [click EXCEPT ![c] = r]
        \/ click' = [click EXCEPT ![c] = s]
        \/ UNCHANGED click
    BY <1>2 DEF BeginRemove
  <2>3. CASE UNCHANGED click
    BY <2>3 DEF ClicksOK
  <2> QED
    BY <2>1, <2>2, <2>3, OneClick
<1>3. CASE BeginReload(c)
  <2> DEFINE r == [Idle EXCEPT !.pc = "load", !.op = "reload"]
  <2>1. r \in Records
    BY DEF Idle, Records, ClickRecs, Sound
  <2> QED
    BY <1>3, <2>1, OneClick DEF BeginReload
<1>4. ASSUME NEW f \in Files, BeginClean(c, f) PROVE ClicksOK'
  <2> DEFINE r == [Idle EXCEPT !.pc = "unlink", !.op = "clean", !.file = f]
  <2>1. r \in Records
    BY DEF Idle, Records, ClickRecs, Sound
  <2> QED
    BY <1>4, <2>1, OneClick DEF BeginClean
<1>5. CASE Check(c)
  <2>1. [click[c] EXCEPT !.pc = "create"] \in Records
    BY <1>0, <1>5 DEF Check, Records, ClickRecs, Sound
  <2> QED
    BY <1>5, <2>1, Gone, Finished DEF Check
<1>6. CASE Create(c)
  <2> DEFINE r == [click[c] EXCEPT !.pc = "write", !.fd = "tmp"]
  <2>1. r \in Records
    BY <1>0, <1>6 DEF Create, Records, ClickRecs, Sound
  <2>2. click' = [click EXCEPT ![c] = r]
    BY <1>0, <1>6 DEF Create, ClickRecs, ClicksOK
  <2> QED
    BY <2>1, <2>2, OneClick
<1>7. CASE Write(c)
  <2>1. [click[c] EXCEPT !.pc = "rename"] \in Records
    BY <1>0, <1>7 DEF Write, Records, ClickRecs, Sound
  <2> QED
    BY <1>7, <2>1, Gone DEF Write
<1>8. CASE Rename(c)
  <2> DEFINE clk == Outrun(Moved(c))
             r == [clk[c] EXCEPT !.pc = "load", !.fd = "none"]
  <2>1. clk \in [Clicks -> Records] /\ clk[c] = click[c]
    BY <1>8, MovedTyped, OutrunTyped DEF Rename
  <2>2. r \in Records
    BY <1>0, <1>8, <2>1 DEF Rename, Records, ClickRecs, Sound
  <2>3. CASE click' = [clk EXCEPT ![c].pc = "load", ![c].fd = "none"]
    <3>1. click' = [clk EXCEPT ![c] = r]
      BY <1>0, <2>1, <2>3 DEF ClickRecs
    <3> QED
      BY <2>1, <2>2, <3>1 DEF ClicksOK
  <2> QED
    BY <1>8, <2>3, Finished DEF Rename
<1>9. CASE WriteFails(c)
  BY <1>9, Finished DEF WriteFails
<1>10. CASE Load(c)
  <2> DEFINE r == [click[c] EXCEPT !.pc = "set", !.seen = MapOf(disk), !.behind = FALSE]
  <2>1. MapOf(disk) \in Maps
    BY MapOfTyped DEF StateOK
  <2>2. r \in Records
    BY <1>0, <1>10, <2>1 DEF Load, Records, ClickRecs, Sound
  <2>3. click' = [click EXCEPT ![c] = r]
    BY <1>0, <1>10 DEF Load, ClickRecs, ClicksOK
  <2> QED
    BY <2>2, <2>3, OneClick
<1>11. CASE Set(c)
  <2> DEFINE r == [click[c] EXCEPT !.pc = After(click[c].op), !.seen = None,
                                   !.behind = FALSE]
  <2>1. CASE After(click[c].op) = "idle"
    BY <1>11, <2>1, Finished DEF Set
  <2>2. CASE After(click[c].op) # "idle"
    <3>1. /\ After(click[c].op) \in {"issue", "forget"}
          /\ click[c].op \in {"create", "remove"}
      BY <2>2 DEF After
    <3>2. r \in Records
      BY ZenonT(30), <1>0, <3>1 DEF Records, ClickRecs, Sound
    <3>3. click' = [click EXCEPT ![c] = r]
      BY <1>0, <1>11, <2>2 DEF Set, ClickRecs, ClicksOK
    <3> QED
      BY <3>2, <3>3, OneClick
  <2> QED
    BY <2>1, <2>2
<1>12. CASE Issue(c)
  BY <1>12, Finished DEF Issue
<1>13. CASE IssueFails(c)
  BY <1>13, Finished DEF IssueFails
<1>14. CASE Unlink(c)
  <2> DEFINE f == click[c].file
             after == [d \in Clicks |->
               IF d = c THEN [click[c] EXCEPT !.pc = "load"]
               ELSE IF click[d].file = f /\ click[d].fd = "path"
                    THEN [click[d] EXCEPT !.fd = "gone"]
               ELSE Outrun(click)[d]]
  <2>1. [click[c] EXCEPT !.pc = "load"] \in Records
    BY <1>0 DEF Records, ClickRecs, Sound
  <2>2. ASSUME NEW d \in Clicks PROVE [click[d] EXCEPT !.fd = "gone"] \in Records
    BY DEF ClicksOK, Records, ClickRecs, Sound
  <2>3. ASSUME NEW d \in Clicks PROVE Outrun(click)[d] \in Records
    BY OutrunTyped DEF ClicksOK
  <2>4. after \in [Clicks -> Records]
    BY <2>1, <2>2, <2>3
  <2>5. click' = after \/ Finish(c)
    BY <1>14 DEF Unlink
  <2> QED
    BY <2>4, <2>5, Finished DEF ClicksOK
<1>15. CASE Forget(c)
  BY <1>15, Finished DEF Forget
<1>16. CASE RemoveFails(c)
  BY <1>16, Finished DEF RemoveFails
<1> QED
  BY <1>1, <1>2, <1>3, <1>4, <1>5, <1>6, <1>7, <1>8, <1>9, <1>10, <1>11,
     <1>12, <1>13, <1>14, <1>15, <1>16 DEF ClickStep

\* One more spent is still counted in naturals.
LEMMA SpentTyped ==
  ASSUME StateOK, NEW what, Spend(what)
  PROVE  spent' \in [clicks : Nat, starts : Nat, mishaps : Nat]
BY DEF StateOK, Spend

\* A trail grows within its types.
LEMMA TrailTyped ==
  ASSUME StateOK, NEW c \in Clicks, NEW id \in Ids, Meets(c, id)
  PROVE  trail' \in Trails
BY DEF StateOK, Trails, Meets, Optional

\* A change of the directory leaves the history well-typed.
LEMMA OvertakesTyped ==
  ASSUME StateOK, Overtakes
  PROVE  trail' \in Trails
BY DEF StateOK, Trails, Overtakes

\* The parts of the state that most clicks leave as they are.
LEMMA StillTyped ==
  ASSUME StateOK, UNCHANGED <<served, procVars, kitVars, post, workVars>>,
         disk' \in [Files -> Contents \union {NoFile}],
         tmp' \in [Files -> Contents \union {NoFile}],
         spent' \in [clicks : Nat, starts : Nat, mishaps : Nat],
         trail' \in Trails
  PROVE  StateOK'
BY DEF StateOK, procVars, kitVars, workVars

\* What the steps of clicks leave of the types, for the rest of the state.
LEMMA ClickStepState ==
  ASSUME ClicksOK, StateOK, NEW c \in Clicks, ClickStep(c)
  PROVE  StateOK'
<1>0. /\ click[c] \in ClickRecs /\ Sound(click[c])
      /\ disk \in [Files -> Contents \union {NoFile}]
      /\ tmp \in [Files -> Contents \union {NoFile}]
      /\ spent \in [clicks : Nat, starts : Nat, mishaps : Nat]
      /\ trail \in Trails
  BY DEF ClicksOK, Records, StateOK
<1>1. ASSUME NEW id \in Ids, NEW cal \in Calendars, BeginCreate(c, id, cal)
      PROVE  StateOK'
  <2>1. trail' \in Trails
    BY <1>0, <1>1, TrailTyped DEF BeginCreate
  <2>2. spent' \in [clicks : Nat, starts : Nat, mishaps : Nat]
    BY <1>1, SpentTyped DEF BeginCreate, Begin
  <2> QED
    BY <1>0, <1>1, <2>1, <2>2, StillTyped DEF BeginCreate, fileVars
<1>2. ASSUME NEW id \in SafeIds, BeginRemove(c, id) PROVE StateOK'
  <2>0. id \in Ids
    BY DEF SafeIds
  <2>1. trail' \in Trails
    <3>1. CASE Meets(c, id)
      BY <3>1, <2>0, TrailTyped
    <3>2. CASE UNCHANGED trail
      BY <3>2, <1>0
    <3>3. CASE trail' = [trail EXCEPT
             !.crossed = @ \union {p \in Posts : /\ post[p].pc = "posting"
                                                 /\ post[p].id = id},
             !.unpaired = IF Overlapping(c, id) THEN @ \union {id} ELSE @]
      BY <3>3, <2>0, <1>0 DEF Trails, Optional
    <3> QED
      BY <1>2, <3>1, <3>2, <3>3 DEF BeginRemove
  <2>2. spent' \in [clicks : Nat, starts : Nat, mishaps : Nat]
    BY <1>2, SpentTyped DEF BeginRemove, Begin
  <2> QED
    BY <1>0, <1>2, <2>1, <2>2, StillTyped DEF BeginRemove, fileVars
<1>3. CASE BeginReload(c)
  BY <1>0, <1>3, SpentTyped, StillTyped DEF BeginReload, Begin, fileVars
<1>4. ASSUME NEW f \in Files, BeginClean(c, f) PROVE StateOK'
  BY <1>0, <1>4, SpentTyped, StillTyped DEF BeginClean, Begin, fileVars
<1>5. CASE Check(c)
  <2>1. click[c].id \in Ids
    BY <1>0, <1>5 DEF Check, Sound, SafeIds
  <2>2. trail' \in Trails
    <3>1. \/ trail' = [trail EXCEPT !.twins = @ \union {click[c].id}]
          \/ trail' = [trail EXCEPT !.twins = @]
      BY <1>5 DEF Check
    <3> QED
      BY <1>0, <2>1, <3>1 DEF Trails
  <2> QED
    BY <1>0, <1>5, <2>2, StillTyped DEF Check, fileVars
<1>6. CASE Create(c)
  BY <1>0, <1>6, TornFiles, StillTyped DEF Create, Sound
<1>7. CASE Write(c)
  <2>1. click[c].content \in Contents /\ click[c].file \in Files
    BY <1>0, <1>7, TornFiles DEF Write, Sound
  <2>2. \A old : Over(old, click[c].content) \subseteq Contents
    BY <2>1, TornFiles DEF Over
  <2> QED
    BY <1>0, <1>7, <2>1, <2>2, StillTyped DEF Write, fileVars
<1>8. CASE Rename(c)
  <2>1. click[c].file \in Files
    BY <1>0, <1>8 DEF Rename, Sound
  <2>2. trail' \in Trails
    BY <1>0, <1>8, OvertakesTyped DEF Rename
  <2>3. /\ disk' \in [Files -> Contents \union {NoFile}]
        /\ tmp' \in [Files -> Contents \union {NoFile}]
    BY <1>0, <1>8, <2>1 DEF Rename, fileVars
  <2> QED
    BY <1>0, <1>8, <2>2, <2>3, StillTyped DEF Rename
<1>9. CASE WriteFails(c)
  BY <1>0, <1>9, SpentTyped, StillTyped DEF WriteFails, Mishap, fileVars
<1>10. CASE Load(c)
  BY <1>0, <1>10, StillTyped DEF Load, fileVars
<1>11. CASE Set(c)
  <2>1. served' \in Maps
    BY <1>0, <1>11 DEF Set, Sound
  <2>2. trail' \in Trails
    BY <1>0, <1>11 DEF Set, Trails, ClickRecs
  <2> QED
    BY <1>11, <2>1, <2>2 DEF Set, StateOK, fileVars, procVars, kitVars, workVars
<1>12. CASE Issue(c)
  <2>1. click[c].id \in Ids
    BY <1>0, <1>12 DEF Issue, Sound
  <2>2. trail' \in Trails
    BY <1>0, <1>12 DEF Issue, Trails
  <2> QED
    BY <1>12, <2>1, <2>2 DEF Issue, StateOK, fileVars, procVars, kitVars, workVars
<1>13. CASE IssueFails(c)
  BY <1>0, <1>13, SpentTyped, StillTyped DEF IssueFails, Mishap, fileVars
<1>14. CASE Unlink(c)
  <2>1. click[c].file \in Files
    BY <1>0, <1>14 DEF Unlink, Sound
  <2>2. disk' \in [Files -> Contents \union {NoFile}]
    BY <1>0, <1>14, <2>1 DEF Unlink
  <2>3. ASSUME disk[click[c].file] # NoFile PROVE disk[click[c].file].id \in Texts
    BY <1>0, <2>1, <2>3, ContentsTyped
  <2>4. trail' \in Trails
    <3> DEFINE e == IF click[c].op = "clean"
                    THEN trail.edited \union {disk[click[c].file].id}
                    ELSE trail.edited
               h == trail.handover \/ preload # None
    <3>1. CASE disk[click[c].file] # NoFile /\ trail' = [trail EXCEPT !.handover = h, !.edited = e]
      <4>1. e \subseteq Texts /\ h \in BOOLEAN
        BY <1>0, <2>3, <3>1 DEF Trails
      <4> QED
        BY <1>0, <3>1, <4>1 DEF Trails
    <3>2. CASE UNCHANGED trail
      BY <1>0, <3>2
    <3> QED
      BY <1>14, <3>1, <3>2 DEF Unlink
  <2> QED
    BY <1>0, <1>14, <2>2, <2>4, StillTyped DEF Unlink
<1>15. CASE Forget(c)
  <2>1. click[c].id \in Ids
    BY <1>0, <1>15 DEF Forget, Sound
  <2>2. trail' \in Trails
    BY <1>0, <1>15, <2>1 DEF Forget, Trails
  <2> QED
    BY <1>15, <2>1, <2>2 DEF Forget, StateOK, fileVars, procVars, kitVars, workVars
<1>16. CASE RemoveFails(c)
  <2>1. trail' \in Trails
    <3>1. click[c].id \in Ids
      BY <1>0, <1>16 DEF RemoveFails, Sound
    <3>2. \/ trail' = [trail EXCEPT !.unpaired = @ \union {click[c].id}]
          \/ trail' = [trail EXCEPT !.unpaired = @]
      BY <1>16 DEF RemoveFails
    <3> QED
      BY <1>0, <3>1, <3>2 DEF Trails, Optional
  <2> QED
    BY <1>0, <1>16, <2>1, SpentTyped, StillTyped DEF RemoveFails, Mishap, fileVars
<1> QED
  BY <1>1, <1>2, <1>3, <1>4, <1>5, <1>6, <1>7, <1>8, <1>9, <1>10, <1>11,
     <1>12, <1>13, <1>14, <1>15, <1>16 DEF ClickStep

\* What a post holds once it is let in: an id and a payload that its profile
\* maps.  None is set aside, and the worker's snapshot holds waiting posts only.
Held(r) ==
  /\ r.pc # "dead"
  /\ r.pc \in {"posting", "pending", "sent"} =>
       /\ r.id \in Ids /\ r.body \in Bodies
       /\ HasId(r.body.request, r.body.header)
       /\ r.profile \in Contents
       /\ Usable(r.profile) /\ r.profile.id = r.id
       /\ Verdict(r.body.request, r.profile) = "event"

PostsOK ==
  /\ \A p \in Posts : Held(post[p])
  /\ \A p \in todo : post[p].pc = "pending"

\* Every map of profiles anyone goes by is one.
MapsOK ==
  /\ ProfileMap(served) /\ ProfileMap(wprof)
  /\ preload # None => ProfileMap(preload)
  /\ \A c \in Clicks : click[c].pc = "set" => ProfileMap(click[c].seen)

\* The initial state has its types.
LEMMA TypeInit ==
  ASSUME Init
  PROVE  TypeOK
<1> USE TypeParts DEF Optional
<1>1. ClicksOK
  BY IdleTyped DEF Init, ClicksOK
<1>2. [edited |-> {}, placed |-> {}, twins |-> {}, crossed |-> {},
       unpaired |-> {}, imported |-> {}, gone |-> {},
       lagging |-> FALSE, unread |-> FALSE, handover |-> FALSE] \in Trails
  BY DEF Trails
<1>3. post \in [Posts -> PostRecs]
  BY DEF Init, PostRecs
<1> QED
  BY <1>1, <1>2, <1>3, NothingIsProfileMap DEF Init, StateOK

\* What any step leaves of the types.
LEMMA TypeStep ==
  ASSUME TypeOK, PostsOK, [Next]_vars
  PROVE  TypeOK'
<1> SUFFICES ClicksOK' /\ StateOK'
  BY TypeParts, PTL
<1>0. /\ ClicksOK /\ StateOK
      /\ disk \in [Files -> Contents \union {NoFile}]
      /\ post \in [Posts -> PostRecs]
      /\ trail \in Trails
      /\ served \in Maps
  BY TypeParts DEF StateOK
<1> USE DEF Optional, fileVars, procVars, kitVars, workVars
<1>1. ASSUME NEW c \in Clicks, ClickStep(c) PROVE ClicksOK' /\ StateOK'
  BY <1>0, <1>1, ClickStepClicks, ClickStepState
<1>2. ASSUME NEW p \in Posts, NEW id \in Ids, NEW caller \in Ids \union {Admin},
             NEW body \in Bodies, Admit(p, id, caller, body)
      PROVE  ClicksOK' /\ StateOK'
  <2> DEFINE r == [pc |-> "posting", id |-> id, body |-> body, profile |-> served[id]]
  <2>1. r \in PostRecs
    BY <1>0, <1>2 DEF PostRecs, Maps, Admit, Welcome
  <2>2. post' \in [Posts -> PostRecs]
    BY <1>0, <1>2, <2>1 DEF Admit
  <2>3. trail' \in Trails
    BY <1>0, <1>2 DEF Admit, Trails
  <2> QED
    BY <1>0, <1>2, <2>2, <2>3 DEF Admit, ClicksOK, StateOK
<1>3. ASSUME NEW p \in Posts, Accept(p) PROVE ClicksOK' /\ StateOK'
  <2>1. post' \in [Posts -> PostRecs]
    BY <1>0, <1>3 DEF Accept, PostRecs
  <2>2. spent' \in [clicks : Nat, starts : Nat, mishaps : Nat]
    BY <1>0, <1>3, SpentTyped DEF Accept, Mishap, StateOK
  <2> QED
    BY <1>0, <1>3, <2>1, <2>2 DEF Accept, ClicksOK, StateOK
<1>4. ASSUME NEW p \in Posts, Deliver(p) PROVE ClicksOK' /\ StateOK'
  <2>1. post' \in [Posts -> PostRecs]
    <3>1. CASE UNCHANGED post
      BY <1>0, <3>1
    <3>2. CASE ~Orphan(p)
      <4>1. wprof[post[p].id] \in Contents \/ wprof[post[p].id] = None
        BY <1>0, <1>4 DEF StateOK, Maps, Deliver, PostsOK, Held
      <4>2. wprof[post[p].id] \in Contents
        BY <3>2, <4>1 DEF Orphan
      <4>3. \/ \E pc \in Attempts(p, wprof[post[p].id]) :
                 post' = [post EXCEPT ![p].pc = pc,
                   ![p].profile = IF pc = "sent" THEN wprof[post[p].id] ELSE @]
            \/ UNCHANGED post
        BY <1>4, <3>2 DEF Deliver
      <4>4. CASE UNCHANGED post
        BY <1>0, <4>4
      <4>5. ASSUME NEW pc \in Attempts(p, wprof[post[p].id]),
                   post' = [post EXCEPT ![p].pc = pc,
                     ![p].profile = IF pc = "sent" THEN wprof[post[p].id] ELSE @]
            PROVE  post' \in [Posts -> PostRecs]
        <5>1. pc \in {"sent", "pending", "dead"}
          BY <4>5 DEF Attempts
        <5> DEFINE old == post[p]
                   profile == IF pc = "sent" THEN wprof[old.id] ELSE old.profile
                   new == [old EXCEPT !.pc = pc, !.profile = profile]
        <5>2. old \in PostRecs
          BY <1>0
        <5>3. profile \in Optional(Contents)
          BY <4>2, <5>2 DEF PostRecs, Optional
        <5>4. post' = [post EXCEPT ![p] = new]
          BY <1>0, <4>5
        <5> HIDE DEF profile, old
        <5>5. new \in PostRecs
          BY <5>1, <5>2, <5>3 DEF PostRecs
        <5> HIDE DEF new
        <5> QED
          BY <1>0, <5>4, <5>5
      <4> QED
        BY <4>3, <4>4, <4>5
    <3> QED
      BY <1>4, <3>1, <3>2 DEF Deliver
  <2>2. todo' \subseteq Posts /\ (alive' => alive) /\ alive' \in BOOLEAN
    BY <1>0, <1>4 DEF Deliver, StateOK
  <2>3. wprof' \in Maps
    BY <1>0, <1>4, NothingIsProfileMap DEF Deliver, StateOK
  <2> QED
    BY <1>0, <1>4, <2>1, <2>2, <2>3 DEF Deliver, ClicksOK, StateOK
<1>5. CASE BeginPass
  BY <1>0, <1>5 DEF BeginPass, ClicksOK, StateOK
<1>6. CASE BeginStart
  <2>1. MapOf(disk) \in Maps
    BY <1>0, MapOfTyped
  <2>2. trail' \in Trails
    BY <1>0, <1>6 DEF BeginStart, Trails
  <2>3. spent' \in [clicks : Nat, starts : Nat, mishaps : Nat]
    BY <1>0, <1>6, SpentTyped DEF BeginStart
  <2> QED
    BY <1>0, <1>6, <2>1, <2>2, <2>3 DEF BeginStart, ClicksOK, StateOK
<1>7. CASE LockHeld
  BY <1>0, <1>7 DEF LockHeld, ClicksOK, StateOK
<1>8. CASE TakeLock
  <2>1. Legacy \subseteq Ids
    BY PeopleAssumption DEF SafeIds
  <2>2. trail' \in Trails
    BY <1>0, <1>8, <2>1 DEF TakeLock, Trails
  <2>3. clients' \subseteq Ids /\ kitFile' \in BOOLEAN
    BY <1>0, <1>8, <2>1 DEF TakeLock, StateOK, Imports
  <2>4. served' \in Maps
    BY <1>0, <1>8 DEF TakeLock, StateOK
  <2> QED
    BY <1>0, <1>8, <2>2, <2>3, <2>4 DEF TakeLock, ClicksOK, StateOK
<1>9. CASE Crash
  <2>1. trail' \in Trails
    <3>1. {click[c].id : c \in {d \in Clicks : click[d].op = "remove"}}
            \subseteq Optional(Ids)
      BY <1>0 DEF ClicksOK, Records, ClickRecs
    <3> QED
      BY <1>0, <1>9, <3>1 DEF Crash, Trails
  <2>2. post' \in [Posts -> PostRecs]
    BY <1>0, <1>9 DEF Crash, PostRecs
  <2>3. ClicksOK'
    BY <1>9, IdleTyped DEF Crash, ClicksOK
  <2> QED
    BY <1>0, <1>9, <2>1, <2>2, <2>3, NothingIsProfileMap DEF Crash, StateOK
<1>10. ASSUME NEW f \in Files, NEW content \in Handmade \union {NoFile},
              Edit(f, content)
       PROVE  ClicksOK' /\ StateOK'
  <2>1. ClicksOK'
    BY <1>0, <1>10, OutrunTyped DEF Edit, ClicksOK
  <2>2. disk' \in [Files -> Contents \union {NoFile}]
    BY <1>0, <1>10 DEF Edit, Contents
  <2>3. trail' \in Trails
    <3>1. content \in Contents \union {NoFile}
      BY DEF Contents
    <3> DEFINE named == {x.id : x \in {disk[f], content} \ {NoFile}}
               e == trail.edited \union named \union {id \in SafeIds : FileOf[id] = f}
    <3>2. named \subseteq Texts
      BY <1>0, <3>1, ContentsTyped
    <3>3. {id \in SafeIds : FileOf[id] = f} \subseteq Texts
      BY PeopleAssumption DEF SafeIds
    <3>4. e \subseteq Texts /\ up \in BOOLEAN
      BY <1>0, <3>2, <3>3 DEF Trails, StateOK
    <3>5. trail' = [trail EXCEPT !.handover = @ \/ preload # None, !.unread = up,
                      !.placed = @ \union {content}, !.edited = e]
      BY <1>10 DEF Edit
    <3> QED
      BY <1>0, <3>1, <3>4, <3>5 DEF Trails
  <2>4. spent' \in [clicks : Nat, starts : Nat, mishaps : Nat]
    BY <1>0, <1>10, SpentTyped DEF Edit, Mishap
  <2> QED
    BY <1>0, <1>10, <2>1, <2>2, <2>3, <2>4 DEF Edit, StateOK
<1>11. CASE UNCHANGED vars
  BY <1>0, <1>11 DEF vars, ClicksOK, StateOK
<1> QED
  BY <1>1, <1>2, <1>3, <1>4, <1>5, <1>6, <1>7, <1>8, <1>9, <1>10, <1>11
     DEF Next, PostStep

\* No step lets a post be held that its profile does not map, or sets one
\* aside: a profile that maps a payload is replaced by profiles that do not
\* refuse it.
LEMMA PostsStep ==
  ASSUME TypeOK, PostsOK, MapsOK, [Next]_vars
  PROVE  PostsOK'
<1>0. /\ served \in Maps /\ wprof \in Maps
      /\ post \in [Posts -> PostRecs] /\ todo \subseteq Posts
  BY DEF TypeOK
<1>1. ASSUME UNCHANGED <<post, todo>> PROVE PostsOK'
  BY <1>1 DEF PostsOK
<1>2. ASSUME NEW c \in Clicks, ClickStep(c) PROVE PostsOK'
  BY <1>1, <1>2 DEF ClickStep, BeginCreate, BeginRemove, BeginReload, BeginClean,
     Check, Create, Write, Rename, WriteFails, Load, Set, Issue, IssueFails,
     Unlink, Forget, RemoveFails, workVars
<1>3. ASSUME NEW p \in Posts, NEW id \in Ids, NEW caller \in Ids \union {Admin},
             NEW body \in Bodies, Admit(p, id, caller, body)
      PROVE  PostsOK'
  <2> DEFINE r == [pc |-> "posting", id |-> id, body |-> body, profile |-> served[id]]
  <2>1. served[id] \in Contents /\ Usable(served[id]) /\ served[id].id = id
    BY <1>0, <1>3 DEF Admit, Welcome, MapsOK, ProfileMap, Maps
  <2>2. Held(r)
    BY <1>3, <2>1 DEF Held, Admit, Admits
  <2>3. post' = [post EXCEPT ![p] = r] /\ todo' = todo /\ p \notin todo
    BY <1>3 DEF Admit, PostsOK, workVars
  <2> QED
    BY <1>0, <2>2, <2>3 DEF PostsOK
<1>4. ASSUME NEW p \in Posts, Accept(p) PROVE PostsOK'
  <2>1. PICK pc \in {"pending", "refused"} : post' = [post EXCEPT ![p].pc = pc]
    BY <1>4 DEF Accept
  <2>2. Held(post[p]) /\ post[p].pc = "posting" /\ p \notin todo /\ todo' = todo
    BY <1>4 DEF PostsOK, Accept, workVars
  <2>3. Held([post[p] EXCEPT !.pc = pc])
    BY <1>0, <2>2 DEF Held, PostRecs
  <2> QED
    BY <1>0, <2>1, <2>2, <2>3 DEF PostsOK
<1>5. ASSUME NEW p \in Posts, Deliver(p) PROVE PostsOK'
  <2>1. p \in todo /\ post[p].pc = "pending" /\ Held(post[p])
    BY <1>5 DEF Deliver, PostsOK
  <2>2. CASE UNCHANGED post /\ todo' \subseteq todo
    BY <2>2 DEF PostsOK
  <2>3. ASSUME ~Orphan(p), todo' = todo \ {p},
               Verdict(post[p].body.request, wprof[post[p].id]) # "panic",
               NEW pc \in Attempts(p, wprof[post[p].id]),
               post' = [post EXCEPT ![p].pc = pc,
                 ![p].profile = IF pc = "sent" THEN wprof[post[p].id] ELSE @]
        PROVE  PostsOK'
    <3> DEFINE q == wprof[post[p].id]
               r == [post[p] EXCEPT !.pc = pc, !.profile = IF pc = "sent" THEN q ELSE @]
    <3>1. q \in Contents /\ Usable(q) /\ q.id = post[p].id
      BY <1>0, <2>1, <2>3 DEF Orphan, Held, MapsOK, ProfileMap, Maps
    <3>2. Verdict(post[p].body.request, q) # "refused"
      BY <2>1, <3>1, MappedOnceNeverRefused DEF Held
    <3>3. pc \in {"sent", "pending"} /\ Verdict(post[p].body.request, q) = "event"
      BY <2>3, <3>2 DEF Attempts, Verdict
    <3>4. post[p] \in PostRecs
      BY <1>0
    <3>5. Held(r)
      BY <2>1, <3>1, <3>3, <3>4 DEF Held, PostRecs
    <3> QED
      BY <1>0, <2>3, <3>5 DEF PostsOK
  <2> QED
    BY <1>5, <2>2, <2>3 DEF Deliver
<1>6. CASE BeginPass
  BY <1>6 DEF BeginPass, PostsOK
<1>7. CASE Crash
  <2>1. ASSUME NEW p \in Posts PROVE Held(post'[p])
    <3>1. Held(post[p]) /\ post[p] \in PostRecs
      BY <1>0 DEF PostsOK
    <3>2. Held([post[p] EXCEPT !.pc = "refused"])
      BY <3>1 DEF Held, PostRecs
    <3> QED
      BY <1>7, <3>1, <3>2 DEF Crash
  <2> QED
    BY <1>7, <2>1 DEF Crash, PostsOK
<1>8. CASE BeginStart \/ LockHeld \/ TakeLock
  BY <1>1, <1>8 DEF BeginStart, LockHeld, TakeLock, workVars
<1>9. ASSUME NEW f \in Files, NEW content \in Handmade \union {NoFile},
             Edit(f, content)
      PROVE  PostsOK'
  BY <1>1, <1>9 DEF Edit, workVars
<1>10. CASE UNCHANGED vars
  BY <1>1, <1>10 DEF vars
<1> QED
  BY <1>2, <1>3, <1>4, <1>5, <1>6, <1>7, <1>8, <1>9, <1>10 DEF Next, PostStep

\* A map that somebody goes by, one that load_map would make now, or none.
Known(m) ==
  \/ m \in {MapOf(disk), Nothing, served, wprof}
  \/ preload # None /\ m = preload
  \/ \E d \in Clicks : click[d].pc = "set" /\ m = click[d].seen

AllKnown ==
  /\ Known(served') /\ Known(wprof')
  /\ preload' # None => Known(preload')
  /\ \A d \in Clicks : click'[d].pc = "set" => Known(click'[d].seen)

\* Every map a step stores is one of these.
LEMMA MapsKnown ==
  ASSUME TypeOK, [Next]_vars
  PROVE  AllKnown
<1>0. click \in [Clicks -> Records]
  BY TypeParts DEF ClicksOK
<1>1. ASSUME UNCHANGED <<served, preload, wprof>>,
             \A d \in Clicks : click'[d].pc = "set" =>
               \/ click'[d].seen = MapOf(disk)
               \/ click[d].pc = "set" /\ click'[d].seen = click[d].seen
      PROVE  AllKnown
  BY <1>1, Zenon DEF AllKnown, Known
<1>2. Idle.pc # "set"
  BY DEF Idle
<1>3. ASSUME NEW clk \in [Clicks -> Records], NEW d \in Clicks
      PROVE  Outrun(clk)[d].pc = clk[d].pc /\ Outrun(clk)[d].seen = clk[d].seen
  BY <1>3 DEF Outrun, Records, ClickRecs
<1>4. ASSUME NEW c \in Clicks, ClickStep(c) PROVE AllKnown
  <2> USE DEF procVars, workVars
  <2>1. CASE Set(c)
    <3>1. Known(served')
      BY <2>1 DEF Set, AllKnown, Known
    <3>2. After(click[c].op) # "set"
      BY DEF After
    <3>3. ASSUME NEW d \in Clicks, click'[d].pc = "set"
          PROVE  click'[d] = click[d]
      BY <1>0, <1>2, <2>1, <3>2, <3>3 DEF Set, Finish, Records, ClickRecs
    <3> QED
      BY <2>1, <3>1, <3>3 DEF Set, AllKnown, Known
  <2>2. CASE Rename(c)
    <3>1. ASSUME NEW d \in Clicks
          PROVE  /\ Moved(c)[d].pc = click[d].pc
                 /\ Moved(c)[d].seen = click[d].seen
      BY <1>0 DEF Moved, Records, ClickRecs
    <3>2. Moved(c) \in [Clicks -> Records] /\ Outrun(Moved(c)) \in [Clicks -> Records]
      BY <1>0, MovedTyped, OutrunTyped DEF ClicksOK
    <3>3. ASSUME NEW d \in Clicks, click'[d].pc = "set"
          PROVE  click[d].pc = "set" /\ click'[d].seen = click[d].seen
      <4>1. CASE Finish(c)
        BY <1>0, <1>2, <3>3, <4>1 DEF Finish
      <4>2. CASE click' = [Outrun(Moved(c)) EXCEPT ![c].pc = "load", ![c].fd = "none"]
        <5>1. d # c
          BY <3>2, <3>3, <4>2 DEF Records, ClickRecs
        <5> QED
          BY <1>3, <3>1, <3>2, <3>3, <4>2, <5>1
      <4> QED
        BY <2>2, <4>1, <4>2 DEF Rename
    <3> QED
      BY <1>1, <2>2, <3>3 DEF Rename
  <2>3. CASE Unlink(c)
    <3>1. ASSUME NEW d \in Clicks, click'[d].pc = "set"
          PROVE  click[d].pc = "set" /\ click'[d].seen = click[d].seen
      BY <1>0, <1>2, <1>3, <2>3, <3>1 DEF Unlink, Finish, Records, ClickRecs
    <3> QED
      BY <1>1, <2>3, <3>1 DEF Unlink
  <2>4. CASE Load(c)
    BY <1>0, <1>1, <2>4 DEF Load, Records, ClickRecs
  <2>5. CASE Create(c)
    BY <1>0, <1>1, <2>5 DEF Create, Records, ClickRecs
  <2>6. ASSUME UNCHANGED <<served, preload, wprof>>,
               Finish(c) \/ Go(c, "create") \/ Go(c, "rename")
        PROVE  AllKnown
    BY <1>0, <1>1, <1>2, <2>6 DEF Go, Finish, Records, ClickRecs
  <2>7. CASE Check(c) \/ Write(c) \/ WriteFails(c) \/ Issue(c) \/ IssueFails(c)
             \/ Forget(c) \/ RemoveFails(c)
    <3>1. UNCHANGED <<served, preload, wprof>>
      BY <2>7 DEF Check, Write, WriteFails, Issue, IssueFails, Forget, RemoveFails
    <3>2. Finish(c) \/ Go(c, "create") \/ Go(c, "rename")
      BY <2>7 DEF Check, Write, WriteFails, Issue, IssueFails, Forget, RemoveFails
    <3> QED
      BY <2>6, <3>1, <3>2
  <2>8. ASSUME UNCHANGED <<served, preload, wprof>>,
               \A d \in Clicks : click'[d].pc = "set" => click'[d] = click[d]
        PROVE  AllKnown
    BY <1>1, <2>8
  <2>9. ASSUME NEW id \in Ids, NEW cal \in Calendars, BeginCreate(c, id, cal)
        PROVE  AllKnown
    <3> DEFINE r == [Idle EXCEPT !.pc = "issue", !.op = "create", !.id = id]
               q == [Idle EXCEPT !.pc = "check", !.op = "create", !.id = id,
                       !.file = FileOf[id], !.content = DefaultProfile(id, Trim(cal))]
    <3>1. UNCHANGED <<served, preload, wprof>>
      BY <2>9 DEF BeginCreate
    <3>2. \/ click' = [click EXCEPT ![c] = r]
          \/ click' = [click EXCEPT ![c] = q]
          \/ UNCHANGED click
      BY <2>9 DEF BeginCreate
    <3>3. r.pc # "set" /\ q.pc # "set"
      BY DEF Idle
    <3>4. \A d \in Clicks : click'[d].pc = "set" => click'[d] = click[d]
      BY <1>0, <3>2, <3>3
    <3> QED
      BY <2>8, <3>1, <3>4
  <2>10. ASSUME NEW id \in SafeIds, BeginRemove(c, id) PROVE AllKnown
    <3> DEFINE r == [Idle EXCEPT !.pc = "unlink", !.op = "remove", !.id = id,
                                  !.file = FileOf[id]]
               q == [Idle EXCEPT !.pc = "forget", !.op = "remove", !.id = id]
    <3>1. UNCHANGED <<served, preload, wprof>>
      BY <2>10 DEF BeginRemove
    <3>2. \/ click' = [click EXCEPT ![c] = r]
          \/ click' = [click EXCEPT ![c] = q]
          \/ UNCHANGED click
      BY <2>10 DEF BeginRemove
    <3>3. r.pc # "set" /\ q.pc # "set"
      BY DEF Idle
    <3>4. \A d \in Clicks : click'[d].pc = "set" => click'[d] = click[d]
      BY <1>0, <3>2, <3>3
    <3> QED
      BY <2>8, <3>1, <3>4
  <2>11. CASE BeginReload(c)
    BY <2>8, <2>11 DEF BeginReload, Idle
  <2>12. ASSUME NEW f \in Files, BeginClean(c, f) PROVE AllKnown
    BY <2>8, <2>12 DEF BeginClean, Idle
  <2> QED
    BY <1>4, <2>1, <2>2, <2>3, <2>4, <2>5, <2>7, <2>9, <2>10, <2>11, <2>12
       DEF ClickStep
<1>5. ASSUME NEW p \in Posts, PostStep(p) PROVE AllKnown
  BY <1>5 DEF PostStep, Admit, Accept, AllKnown, Known, procVars, workVars
<1>6. ASSUME NEW p \in Posts, Deliver(p) PROVE AllKnown
  BY <1>6 DEF Deliver, AllKnown, Known, procVars
<1>7. CASE BeginPass
  BY <1>7 DEF BeginPass, AllKnown, Known, procVars
<1>8. CASE BeginStart
  BY <1>8 DEF BeginStart, AllKnown, Known, workVars
<1>9. CASE LockHeld \/ TakeLock
  BY <1>9 DEF LockHeld, TakeLock, AllKnown, Known, workVars
<1>10. CASE Crash
  BY <1>2, <1>10 DEF Crash, AllKnown, Known
<1>11. ASSUME NEW f \in Files, NEW content \in Handmade \union {NoFile},
              Edit(f, content)
       PROVE  AllKnown
  BY <1>0, <1>1, <1>3, <1>11 DEF Edit, procVars, workVars
<1>12. CASE UNCHANGED vars
  BY <1>12 DEF vars, AllKnown, Known
<1> QED
  BY <1>4, <1>5, <1>6, <1>7, <1>8, <1>9, <1>10, <1>11, <1>12 DEF Next

\* So every map of profiles was made by load_map.
LEMMA MapsStep ==
  ASSUME TypeOK, MapsOK, [Next]_vars
  PROVE  MapsOK'
<1>1. AllKnown
  BY MapsKnown
<1>2. ASSUME NEW m, Known(m) PROVE ProfileMap(m)
  BY <1>2, MapOfIsProfileMap, NothingIsProfileMap DEF Known, MapsOK
<1> QED
  BY <1>1, <1>2 DEF AllKnown, MapsOK

-----------------------------------------------------------------------------
\* A text that is not all blanks is trimmed to what stands between its first
\* and its last other character.
LEMMA TrimCuts ==
  ASSUME NEW text \in Texts, Trim(text) # <<>>
  PROVE  \E first, last \in DOMAIN text :
           /\ first <= last /\ text[first] # " "
           /\ Trim(text) = SubSeq(text, first, last)
<1> DEFINE ink == {i \in DOMAIN text : text[i] # " "}
           first == CHOOSE i \in ink : \A j \in ink : i <= j
           last == CHOOSE i \in ink : \A j \in ink : i >= j
<1>0. text \in Seq(Chars) /\ Len(text) \in Nat /\ DOMAIN text = 1 .. Len(text)
  BY LenProperties DEF Texts
<1>1. Trim(text) = IF ink = {} THEN <<>> ELSE SubSeq(text, first, last)
  BY Zenon DEF Trim, ink
<1>2. ink # {}
  BY <1>1
<1>3. ink \subseteq 1 .. Len(text) /\ Len(text) \in Nat
  BY <1>0
<1>4. \A i \in ink : text[i] # " "
  OBVIOUS
<1> HIDE DEF ink
<1>5. \E i \in ink : \A j \in ink : i <= j
  <2>1. ink \subseteq Nat
    BY <1>3
  <2> QED
    BY <1>2, <2>1, LeastNumber
<1>6. \E i \in ink : \A j \in ink : i >= j
  <2> DEFINE back == {Len(text) - i : i \in ink}
  <2>1. back \subseteq Nat /\ back # {}
    <3>1. ASSUME NEW i \in ink PROVE Len(text) - i \in Nat
      BY <1>3
    <3>2. back # {}
      BY <1>2
    <3> QED
      BY <3>1, <3>2
  <2>2. PICK k \in back : \A j \in back : k <= j
    BY <2>1, LeastNumber
  <2>3. PICK i \in ink : k = Len(text) - i
    BY <2>2
  <2>4. ASSUME NEW j \in ink PROVE i >= j
    <3>1. k <= Len(text) - j
      BY <2>2
    <3> QED
      BY <1>3, <2>3, <3>1
  <2> QED
    BY <2>4
<1>7. first \in ink /\ \A j \in ink : first <= j
  BY <1>5
<1>8. last \in ink
  BY <1>6
<1> HIDE DEF first, last
<1>9. first <= last /\ first \in DOMAIN text /\ last \in DOMAIN text
  BY <1>0, <1>3, <1>7, <1>8
<1>10. Trim(text) = SubSeq(text, first, last)
  BY <1>1, <1>2
<1> QED
  BY <1>4, <1>7, <1>9, <1>10

\* Such a cut is a text, and begins as it should.
LEMMA CutsTyped ==
  ASSUME NEW text \in Texts, NEW first \in DOMAIN text, NEW last \in DOMAIN text,
         first <= last
  PROVE  /\ SubSeq(text, first, last) \in Texts
         /\ 1 \in DOMAIN SubSeq(text, first, last)
         /\ SubSeq(text, first, last)[1] = text[first]
<1>1. text \in Seq(Chars) /\ Len(text) \in Nat /\ DOMAIN text = 1 .. Len(text)
  BY LenProperties DEF Texts
<1>2. first \in Int /\ last \in Int /\ \A i \in first .. last : i \in 1 .. Len(text)
  BY <1>1
<1>3. \A i \in first .. last : text[i] \in Chars
  BY <1>1, <1>2, ElementOfSeq
<1>4. /\ SubSeq(text, first, last) \in Seq(Chars)
      /\ Len(SubSeq(text, first, last)) = last - first + 1
      /\ \A i \in 1 .. last - first + 1 :
           SubSeq(text, first, last)[i] = text[first + i - 1]
  BY <1>2, <1>3, SubSeqProperties
<1>5. 1 \in 1 .. last - first + 1 /\ first + 1 - 1 = first
  BY <1>2
<1>6. SubSeq(text, first, last)[1] = text[first + 1 - 1]
  BY <1>4, <1>5
<1>7. 1 \in DOMAIN SubSeq(text, first, last)
  BY <1>4, <1>5, LenProperties
<1> QED
  BY <1>4, <1>5, <1>6, <1>7 DEF Texts

\* A text trimmed is a text.
LEMMA TrimTyped ==
  ASSUME NEW text \in Texts
  PROVE  Trim(text) \in Texts
<1>1. CASE Trim(text) = <<>>
  BY <1>1 DEF Texts
<1>2. CASE Trim(text) # <<>>
  <2>1. PICK first, last \in DOMAIN text :
          first <= last /\ Trim(text) = SubSeq(text, first, last)
    BY <1>2, TrimCuts
  <2> QED
    BY <2>1, CutsTyped
<1> QED
  BY <1>1, <1>2

\* A text trimmed is empty or not blank.
LEMMA TrimmedInk ==
  ASSUME NEW text \in Texts, Trim(text) # <<>>
  PROVE  ~Blank(Trim(text))
<1>1. PICK first, last \in DOMAIN text :
        first <= last /\ text[first] # " " /\ Trim(text) = SubSeq(text, first, last)
  BY TrimCuts
<1> QED
  BY <1>1, CutsTyped DEF Blank

\* What the dashboard writes for a source is usable, and not torn.
LEMMA MadeUsable ==
  ASSUME NEW id \in SafeIds, NEW cal \in Calendars, Trim(cal) # <<>>
  PROVE  /\ DefaultProfile(id, Trim(cal)) \in Made
         /\ Usable(DefaultProfile(id, Trim(cal)))
         /\ DefaultProfile(id, Trim(cal)).id = id
<1>1. ~Blank(Trim(cal))
  BY TrimmedInk, PeopleAssumption
<1>2. id \in Texts /\ SafeId(id)
  BY PeopleAssumption DEF SafeIds
<1>3. ~Blank(id)
  <2>1. id \in Seq(Chars) /\ id # <<>>
    BY <1>2 DEF Texts, SafeId
  <2>2. 1 \in DOMAIN id
    BY <2>1, EmptySeq, LenProperties
  <2> QED
    BY <1>2, <2>2, CharsAssumption DEF SafeId, Blank
<1> DEFINE file == DefaultProfile(id, Trim(cal))
<1>4. /\ file.version = Schema /\ file.parses /\ file.id = id
      /\ file.calendar = Trim(cal) /\ file.zone = DefaultZone
      /\ file.minutes = FallbackMinutes
  BY DEF DefaultProfile
<1>5. file.zone \in Zones /\ file.minutes > 0
  <2> HIDE DEF file
  <2>1. FallbackMinutes > 0
    BY LengthsAssumption
  <2>2. DefaultZone \in Zones
    BY CharsAssumption
  <2> QED
    BY <1>4, <2>1, <2>2
<1>6. file \in Made
  BY DEF Made
<1> HIDE DEF file
<1>7. Usable(file)
  BY <1>1, <1>2, <1>3, <1>4, <1>5 DEF Usable
<1> QED
  BY <1>4, <1>6, <1>7 DEF file

\* No torn file parses, and all that are made do.
LEMMA TornUseless ==
  /\ \A file \in Torn : ~file.parses
  /\ \A file \in Made : file.parses
<1>1. \A file \in Torn : ~file.parses
  BY DEF Torn, DefaultProfile
<1>2. \A file \in Made : file.parses
  BY DEF Made, DefaultProfile
<1> QED
  BY <1>1, <1>2

\* What the door lets in has a marker made of the source's id and a text.
LEMMA KeyIsMade ==
  ASSUME NEW request \in Requests, NEW header \in Optional(Texts), NEW profile,
         HasId(request, header)
  PROVE  \E x \in Texts : UpsertKey(request, profile, header) = Key(profile.id, x)
<1>1. CASE request.external # None
  <2>1. request.external \in Texts
    BY <1>1 DEF Requests, Optional
  <2> QED
    BY <1>1, <2>1 DEF UpsertKey
<1>2. CASE request.external = None
  <2>1. HeaderKey(header) # None
    BY <1>2 DEF HasId
  <2>2. header \in Texts /\ HeaderKey(header) = Trim(header)
    BY <2>1 DEF HeaderKey, Optional
  <2>3. HeaderKey(header) \in Texts
    BY <2>2, TrimTyped
  <2> QED
    BY <1>2, <2>1, <2>3 DEF UpsertKey
<1> QED
  BY <1>1, <1>2

\* So it has one at all.
LEMMA KeyIsText ==
  ASSUME NEW request \in Requests, NEW header \in Optional(Texts), NEW profile,
         HasId(request, header), profile.id \in Texts
  PROVE  UpsertKey(request, profile, header) # None
<1>1. PICK x \in Texts : UpsertKey(request, profile, header) = Key(profile.id, x)
  BY KeyIsMade
<1>2. Key(profile.id, x) \in Seq(Chars)
  <2>0. ":" \in Chars
    BY CharsAssumption
  <2>1. <<":">> \in Seq(Chars)
    BY <2>0
  <2>2. profile.id \o <<":">> \in Seq(Chars)
    BY <2>1, ConcatProperties DEF Texts
  <2> QED
    BY <2>2, ConcatProperties DEF Key, Texts
<1> QED
  BY <1>1, <1>2, NoneAssumption

-----------------------------------------------------------------------------
(***************************************************************************)
(* The theorems                                                            *)
(***************************************************************************)

\* The parts that hold together in every reachable state.
LEMMA SourcesInvariant == Spec => [](TypeOK /\ PostsOK /\ MapsOK)
<1>1. Init => TypeOK /\ PostsOK /\ MapsOK
  <2>1. Init => PostsOK
    BY DEF Init, PostsOK, Held
  <2>2. Init => MapsOK
    BY NothingIsProfileMap DEF Init, MapsOK, Idle
  <2> QED
    BY <2>1, <2>2, TypeInit
<1>2. (TypeOK /\ PostsOK /\ MapsOK) /\ [Next]_vars => (TypeOK /\ PostsOK /\ MapsOK)'
  BY TypeStep, PostsStep, MapsStep
<1> QED
  BY <1>1, <1>2, PTL DEF Spec

\* The shape of the state, for any number of clicks, posts, files and faults.
THEOREM SourcesTyped == Spec => []TypeOK
BY SourcesInvariant, PTL

\* What the door lets in is never set aside as unmappable, and while it waits
\* no profile that its source may have by then refuses it.
THEOREM AcceptedIsMappable == Spec => []AcceptedStaysMappable
<1>1. TypeOK /\ PostsOK /\ MapsOK => AcceptedStaysMappable
  BY MappedOnceNeverRefused DEF AcceptedStaysMappable, PostsOK, Held, MapsOK,
     ProfileMap
<1> QED
  BY <1>1, SourcesInvariant, PTL

\* What is delivered is an event Google takes and shows, with a marker.
THEOREM SentIsShown == Spec => []GoogleShowsWhatIsSent
<1>1. TypeOK /\ PostsOK => GoogleShowsWhatIsSent
  <2> SUFFICES ASSUME PostsOK, NEW p \in Posts, post[p].pc = "sent"
      PROVE  LET event == Event(post[p].body.request, post[p].profile,
                                post[p].body.header)
             IN  GoogleShows(event) /\ event.marker # None
    BY DEF GoogleShowsWhatIsSent
  <2> DEFINE request == post[p].body.request
             header == post[p].body.header
             profile == post[p].profile
  <2>1. Held(post[p])
    BY DEF PostsOK
  <2>2. request \in Requests /\ header \in Optional(Texts)
    BY <2>1, PeopleAssumption DEF Held
  <2>3. GoogleShows(Event(request, profile, header))
    BY <2>1, <2>2, ContentsTyped, MappedIsShown DEF Held
  <2>4. UpsertKey(request, profile, header) # None
    BY <2>1, <2>2, ContentsTyped, KeyIsText DEF Held
  <2> QED
    BY <2>3, <2>4 DEF Event
<1> QED
  BY <1>1, SourcesInvariant, PTL

\* What two sources send never ends up under one marker.
THEOREM SourcesKeptApart == Spec => []KeysKeepSourcesApart
<1>1. MapsOK => KeysKeepSourcesApart
  <2> SUFFICES ASSUME MapsOK,
               NEW i \in Ids, NEW j \in Ids, NEW a \in Bodies, NEW b \in Bodies,
               i # j, served[i] # None, served[j] # None,
               Admits(a.request, a.header, served[i]),
               Admits(b.request, b.header, served[j]),
               UpsertKey(a.request, served[i], a.header)
                 = UpsertKey(b.request, served[j], b.header)
      PROVE  FALSE
    BY DEF KeysKeepSourcesApart
  <2>1. /\ served[i].id = i /\ served[j].id = j
        /\ SafeId(i) /\ SafeId(j) /\ i \in Texts /\ j \in Texts
    BY PeopleAssumption DEF MapsOK, ProfileMap, Usable
  <2>2. PICK x \in Texts : UpsertKey(a.request, served[i], a.header) = Key(i, x)
    BY <2>1, KeyIsMade, PeopleAssumption DEF Admits
  <2>3. PICK y \in Texts : UpsertKey(b.request, served[j], b.header) = Key(j, y)
    BY <2>1, KeyIsMade, PeopleAssumption DEF Admits
  <2> QED
    BY <2>1, <2>2, <2>3, KeysAreInjective
<1> QED
  BY <1>1, SourcesInvariant, PTL

\* Once anything has been removed the kit has a file of its own, and no start
\* imports again.
RemovedForGood ==
  /\ trail \in Trails /\ kitFile \in BOOLEAN
  /\ trail.gone # {} => kitFile
  /\ trail.gone \intersect clients = {}

\* A source removed stays removed, over any number of restarts, until it is
\* made again.
THEOREM RemovedIsNotImported == Spec => []RemovedStaysOut
<1>1. Init => RemovedForGood
  <2> SUFFICES ASSUME Init PROVE RemovedForGood
    OBVIOUS
  <2>1. trail \in Trails /\ kitFile \in BOOLEAN
    BY TypeInit DEF TypeOK
  <2> QED
    BY <2>1 DEF RemovedForGood, Init
<1>2. TypeOK /\ TypeOK' /\ RemovedForGood /\ [Next]_vars => RemovedForGood'
  <2> SUFFICES ASSUME TypeOK, TypeOK', RemovedForGood, [Next]_vars
               PROVE  /\ (trail.gone # {} => kitFile)'
                      /\ trail'.gone \intersect clients' = {}
    BY DEF RemovedForGood, TypeOK
  <2>0. trail \in Trails
    BY DEF TypeOK
  <2> DEFINE Done == /\ (trail.gone # {} => kitFile)'
                     /\ trail'.gone \intersect clients' = {}
  <2>1. ASSUME UNCHANGED <<clients, kitFile>>, trail'.gone = trail.gone
        PROVE  Done
    BY <2>1 DEF RemovedForGood
  <2>2. ASSUME NEW c \in Clicks, ClickStep(c) PROVE Done
    <3> USE DEF kitVars
    <3>1. CASE Issue(c)
      BY <2>0, <3>1 DEF Issue, RemovedForGood, Trails
    <3>2. CASE Forget(c)
      BY <2>0, <3>2 DEF Forget, RemovedForGood, Trails
    <3>3. ASSUME NEW id, Meets(c, id) PROVE trail'.gone = trail.gone
      BY <2>0, <3>3 DEF Meets, Trails
    <3>4. ASSUME NEW id \in Ids, NEW cal \in Calendars, BeginCreate(c, id, cal)
          PROVE  Done
      BY <2>1, <3>3, <3>4 DEF BeginCreate
    <3>5. ASSUME NEW id \in SafeIds, BeginRemove(c, id) PROVE Done
      <4>1. trail'.gone = trail.gone
        BY <2>0, <3>3, <3>5 DEF BeginRemove, Trails
      <4> QED
        BY <2>1, <3>5, <4>1 DEF BeginRemove
    <3>6. BeginReload(c) => Done
      BY <2>1 DEF BeginReload
    <3>7. ASSUME NEW f \in Files, BeginClean(c, f) PROVE Done
      BY <2>1, <3>7 DEF BeginClean
    <3>8. CASE Check(c) \/ Rename(c) \/ Set(c) \/ Unlink(c) \/ RemoveFails(c)
      <4>1. trail'.gone = trail.gone
        BY <2>0, <3>8 DEF Check, Rename, Overtakes, Set, Unlink, RemoveFails, Trails
      <4> QED
        BY <2>1, <3>8, <4>1 DEF Check, Rename, Set, Unlink, RemoveFails
    <3>9. CASE Create(c) \/ Write(c) \/ WriteFails(c) \/ Load(c) \/ IssueFails(c)
      BY <2>1, <3>9 DEF Create, Write, WriteFails, Load, IssueFails
    <3> QED
      BY <2>2, <3>1, <3>2, <3>4, <3>5, <3>6, <3>7, <3>8, <3>9 DEF ClickStep
  <2>3. ASSUME NEW p \in Posts, PostStep(p) PROVE Done
    <3>1. trail'.gone = trail.gone /\ UNCHANGED <<clients, kitFile>>
      BY <2>0, <2>3 DEF PostStep, Admit, Accept, kitVars, Trails
    <3> QED
      BY <2>1, <3>1
  <2>4. ASSUME NEW p \in Posts, Deliver(p) PROVE Done
    BY <2>1, <2>4 DEF Deliver, kitVars
  <2>5. CASE TakeLock
    BY <2>0, <2>5 DEF TakeLock, Imports, RemovedForGood, Trails
  <2>6. CASE BeginPass \/ BeginStart \/ LockHeld \/ Crash
    <3>1. trail'.gone = trail.gone /\ UNCHANGED <<clients, kitFile>>
      BY <2>0, <2>6 DEF BeginPass, BeginStart, LockHeld, Crash, kitVars, Trails
    <3> QED
      BY <2>1, <3>1
  <2>7. ASSUME NEW f \in Files, NEW content \in Handmade \union {NoFile},
               Edit(f, content)
        PROVE  Done
    <3>1. trail'.gone = trail.gone /\ UNCHANGED <<clients, kitFile>>
      BY <2>0, <2>7 DEF Edit, kitVars, Trails
    <3> QED
      BY <2>1, <3>1
  <2>8. CASE UNCHANGED vars
    BY <2>1, <2>8 DEF vars
  <2> QED
    BY <2>2, <2>3, <2>4, <2>5, <2>6, <2>7, <2>8 DEF Next
<1>3. RemovedForGood => RemovedStaysOut
  BY DEF RemovedForGood, RemovedStaysOut
<1> QED
  BY <1>1, <1>2, <1>3, SourcesTyped, PTL DEF Spec

-----------------------------------------------------------------------------
(***************************************************************************)
(* Files, writers and maps: what relates the directory to the clicks that  *)
(* are under way, the maps of profiles and the posts that wait             *)
(***************************************************************************)

\* A content that the dashboard wrote for a source, in that source's own file.
Own(file, f) ==
  /\ file \in Made /\ Usable(file)
  /\ file.id \in SafeIds /\ f = FileOf[file.id]

\* The file f is named after one of the ids.
Among(ids, f) == \E id \in ids \intersect SafeIds : FileOf[id] = f

\* A file whose source was made twice at a time or edited by hand, or that is
\* no source's file.
Foreign(t, f) ==
  Among(t.twins \union t.edited, f) \/ \A id \in SafeIds : FileOf[id] # f

\* What stands in a file: its source's profile, what two writers left, or what
\* a hand put there.
DiskOK(dir, t) ==
  \A f \in Files : dir[f] # NoFile =>
    \/ Own(dir[f], f)
    \/ dir[f] \in Torn /\ Among(t.twins, f)
    \/ dir[f] \in t.placed /\ dir[f].id \in t.edited /\ Foreign(t, f)

TmpOK(dir) ==
  \A f \in Files : dir[f] # NoFile => Own(dir[f], f) \/ dir[f] \in Torn

Ready == {"check", "create", "write", "rename"}
Active == {"create", "write", "rename"}
Open == {"write", "rename"}

\* What a click is at says what it is for and which file it works on.
Planned(r) ==
  /\ r.fd # "none" <=> r.pc \in Open
  /\ r.pc \in Ready => Own(r.content, r.file) /\ r.content.id = r.id
  /\ r.pc \in Ready \union {"issue"} => r.op = "create"
  /\ r.pc = "forget" => r.op = "remove"
  /\ r.pc = "unlink" => r.op \in {"remove", "clean"}
  /\ r.pc \in {"load", "set"} => r.op # "none"
  /\ r.pc = "unlink" /\ r.op = "remove" => r.id \in SafeIds /\ r.file = FileOf[r.id]
  /\ r.pc \in {"load", "set"} /\ r.op = "create" => r.id \in SafeIds
  /\ r.pc = "idle" => r.op = "none"
  /\ r.op \in {"none", "reload", "clean"} => r.id = None

PlansOK == \A c \in Clicks : Planned(click[c])

\* Two requests about one source at a time are on record.
Pair(r, s, t) ==
  r.id = s.id /\ r.id # None =>
    /\ r.id \in t.unpaired
    /\ r.pc \in Active /\ s.pc \in Active => r.id \in t.twins

PairsOK ==
  \A c, d \in Clicks : c # d => Pair(click[c], click[d], trail)

\* A writer that has its source to itself writes what it means to, and moves it
\* to where nothing was; and only a foreign file is cleaned up.
Alone(r, dir, aux, t) ==
  /\ r.pc \in Open /\ r.id \notin t.twins =>
       r.fd = "tmp" /\ aux[r.file] = IF r.pc = "write" THEN Emptied ELSE r.content
  /\ r.pc \in Active /\ r.id \notin t.twins \union t.edited => dir[r.file] = NoFile
  /\ r.pc = "unlink" /\ r.op = "clean" => Foreign(t, r.file)

AloneOK == \A c \in Clicks : Alone(click[c], disk, tmp, trail)

\* The history only grows.
Grows(t, u) ==
  /\ t.twins \subseteq u.twins /\ t.edited \subseteq u.edited
  /\ t.placed \subseteq u.placed /\ t.unpaired \subseteq u.unpaired
  /\ t.crossed \subseteq u.crossed

\* Every step adds to the history.
LEMMA TrailGrows ==
  ASSUME TypeOK, [Next]_vars
  PROVE  Grows(trail, trail')
<1>0. trail \in Trails
  BY DEF TypeOK
<1>1. ASSUME UNCHANGED trail PROVE Grows(trail, trail')
  BY <1>1 DEF Grows
<1>2. ASSUME NEW c, NEW id, Meets(c, id) PROVE Grows(trail, trail')
  BY <1>0, <1>2 DEF Meets, Trails, Grows
<1>3. ASSUME NEW c \in Clicks, ClickStep(c) PROVE Grows(trail, trail')
  <2>1. ASSUME NEW id \in Ids, NEW cal \in Calendars, BeginCreate(c, id, cal)
        PROVE  Grows(trail, trail')
    BY <1>1, <1>2, <2>1 DEF BeginCreate
  <2>2. ASSUME NEW id \in SafeIds, BeginRemove(c, id) PROVE Grows(trail, trail')
    <3>1. CASE trail' = [trail EXCEPT
             !.crossed = @ \union {p \in Posts : /\ post[p].pc = "posting"
                                                 /\ post[p].id = id},
             !.unpaired = IF Overlapping(c, id) THEN @ \union {id} ELSE @]
      BY <1>0, <3>1 DEF Trails, Grows
    <3> QED
      BY <1>1, <1>2, <2>2, <3>1 DEF BeginRemove
  <2>3. CASE Check(c) \/ Set(c) \/ Issue(c) \/ Forget(c) \/ RemoveFails(c)
    <3>1. CASE Check(c)
      BY <1>0, <3>1 DEF Check, Trails, Grows
    <3>2. CASE Set(c)
      BY <1>0, <3>2 DEF Set, Trails, Grows
    <3>3. CASE Issue(c) \/ Forget(c)
      BY <1>0, <3>3 DEF Issue, Forget, Trails, Grows
    <3>4. CASE RemoveFails(c)
      BY <1>0, <3>4 DEF RemoveFails, Trails, Grows
    <3> QED
      BY <2>3, <3>1, <3>2, <3>3, <3>4
  <2>4. CASE Rename(c)
    BY <1>0, <1>1, <2>4 DEF Rename, Overtakes, Trails, Grows
  <2>6. CASE Unlink(c)
    <3> DEFINE e == IF click[c].op = "clean"
                    THEN trail.edited \union {disk[click[c].file].id}
                    ELSE trail.edited
    <3>1. \/ UNCHANGED trail
          \/ trail' = [trail EXCEPT !.handover = @ \/ preload # None, !.edited = e]
      BY <2>6 DEF Unlink
    <3>2. trail.edited \subseteq e
      OBVIOUS
    <3> HIDE DEF e
    <3> QED
      BY <1>0, <1>1, <3>1, <3>2 DEF Trails, Grows
  <2>5. CASE Create(c) \/ Write(c) \/ WriteFails(c) \/ Load(c) \/ IssueFails(c)
             \/ BeginReload(c) \/ \E f \in Files : BeginClean(c, f)
    BY <1>1, <2>5 DEF Create, Write, WriteFails, Load, IssueFails, BeginReload,
       BeginClean
  <2> QED
    BY <1>3, <2>1, <2>2, <2>3, <2>4, <2>5, <2>6 DEF ClickStep
<1>4. ASSUME NEW p \in Posts, PostStep(p) \/ Deliver(p) PROVE Grows(trail, trail')
  BY <1>0, <1>4 DEF PostStep, Admit, Accept, Deliver, Trails, Grows
<1>5. CASE BeginPass \/ LockHeld \/ UNCHANGED vars
  BY <1>1, <1>5 DEF BeginPass, LockHeld, vars
<1>6. CASE BeginStart \/ TakeLock \/ Crash
  BY <1>0, <1>6 DEF BeginStart, TakeLock, Crash, Trails, Grows
<1>7. ASSUME NEW f \in Files, NEW content \in Handmade \union {NoFile},
             Edit(f, content)
      PROVE  Grows(trail, trail')
  BY <1>0, <1>7 DEF Edit, Trails, Grows
<1> QED
  BY <1>3, <1>4, <1>5, <1>6, <1>7 DEF Next

\* More history excuses no less.
LEMMA MoreForeign ==
  ASSUME NEW t, NEW u, Grows(t, u), NEW f, Foreign(t, f)
  PROVE  Foreign(u, f)
BY DEF Grows, Foreign, Among

\* What a directory holds, it holds of a longer history.
LEMMA MoreDisk ==
  ASSUME NEW t, NEW u, Grows(t, u), NEW dir, DiskOK(dir, t)
  PROVE  DiskOK(dir, u)
<1> SUFFICES ASSUME NEW f \in Files, dir[f] # NoFile
             PROVE  \/ Own(dir[f], f)
                    \/ dir[f] \in Torn /\ Among(u.twins, f)
                    \/ dir[f] \in u.placed /\ dir[f].id \in u.edited /\ Foreign(u, f)
  BY DEF DiskOK
<1>1. CASE Own(dir[f], f)
  BY <1>1
<1>2. CASE dir[f] \in Torn /\ Among(t.twins, f)
  BY <1>2 DEF Grows, Among
<1>3. CASE dir[f] \in t.placed /\ dir[f].id \in t.edited /\ Foreign(t, f)
  BY <1>3, MoreForeign DEF Grows
<1> QED
  BY <1>1, <1>2, <1>3 DEF DiskOK

\* Files are named after one source each.
LEMMA OneSourcePerFile ==
  ASSUME NEW i \in SafeIds, NEW j \in SafeIds, FileOf[i] = FileOf[j]
  PROVE  i = j
BY FilesAssumption

\* While nobody edited a source's files, only the file named after it can hold
\* its profile.
LEMMA HoldersFirm ==
  ASSUME NEW dir, NEW t, DiskOK(dir, t), NEW id \in Ids, id \notin t.edited,
         NEW f \in Holders(dir, id)
  PROVE  id \in SafeIds /\ f = FileOf[id] /\ dir[f] \in Made
<1>1. f \in Files /\ dir[f] # NoFile /\ Usable(dir[f]) /\ dir[f].id = id
  BY DEF Holders
<1>2. dir[f] \notin Torn
  BY <1>1, TornUseless DEF Usable
<1> QED
  BY <1>1, <1>2 DEF DiskOK, Own

\* The source's own file holds its profile.
There(dir, id) == id \in SafeIds /\ FileOf[id] \in Holders(dir, id)

\* So the directory serves a source nobody edited exactly when its own file
\* holds its profile.
LEMMA MapFirm ==
  ASSUME NEW dir \in [Files -> Contents \union {NoFile}], NEW t, DiskOK(dir, t),
         NEW id \in Ids, id \notin t.edited
  PROVE  /\ MapOf(dir)[id] = IF There(dir, id) THEN dir[FileOf[id]] ELSE None
         /\ MapOf(dir)[id] # None <=> There(dir, id)
         /\ MapOf(dir)[id] # None => MapOf(dir)[id] \in Made
<1>1. MapOf(dir)[id] = IF Holders(dir, id) = {} THEN None
                       ELSE dir[First(Holders(dir, id))]
  BY DEF MapOf
<1>2. CASE Holders(dir, id) = {}
  BY <1>1, <1>2 DEF There
<1>3. CASE Holders(dir, id) # {}
  <2>1. First(Holders(dir, id)) \in Holders(dir, id)
    BY <1>3, FirstIsOne DEF Holders
  <2>2. /\ id \in SafeIds /\ First(Holders(dir, id)) = FileOf[id]
        /\ dir[FileOf[id]] \in Made
    BY <2>1, HoldersFirm
  <2>3. dir[FileOf[id]] # None
    BY <2>2, TornFiles, ContentsAssumption
  <2> QED
    BY <1>1, <1>3, <2>1, <2>2, <2>3 DEF There
<1> QED
  BY <1>2, <1>3

\* A click that goes on with what it is about, and one that another click's
\* step passes by.
Into(r, s, pc) ==
  s.pc = pc /\ s.op = r.op /\ s.id = r.id /\ s.file = r.file /\ s.content = r.content

Alike(r, s) ==
  /\ Into(r, s, r.pc) /\ s.seen = r.seen
  /\ s.fd = "none" <=> r.fd = "none"
  /\ r.pc = "set" /\ r.behind => s.behind

\* Being outrun, or losing a descriptor, changes nothing else.
LEMMA OutrunAlike ==
  ASSUME NEW clk \in [Clicks -> ClickRecs], NEW d \in Clicks
  PROVE  /\ Alike(clk[d], Outrun(clk)[d]) /\ Outrun(clk)[d].fd = clk[d].fd
         /\ Outrun(clk)[d].pc = "set" => Outrun(clk)[d].behind
         /\ clk[d].pc # "set" => Outrun(clk)[d] = clk[d]
         /\ Outrun(clk) \in [Clicks -> ClickRecs]
<1>0. ASSUME NEW r \in ClickRecs PROVE [r EXCEPT !.behind = TRUE] \in ClickRecs
  BY DEF ClickRecs
<1>1. Outrun(clk) \in [Clicks -> ClickRecs]
  BY <1>0 DEF Outrun
<1>2. CASE clk[d].pc # "set"
  <2>1. Outrun(clk)[d] = clk[d]
    BY <1>2 DEF Outrun
  <2> QED
    BY <1>1, <1>2, <2>1 DEF Alike, Into
<1>3. CASE clk[d].pc = "set"
  <2>1. Outrun(clk)[d] = [clk[d] EXCEPT !.behind = TRUE] /\ clk[d] \in ClickRecs
    BY <1>3 DEF Outrun
  <2>2. /\ Outrun(clk)[d].behind /\ Outrun(clk)[d].fd = clk[d].fd
        /\ Outrun(clk)[d].seen = clk[d].seen /\ Into(clk[d], Outrun(clk)[d], "set")
    BY <1>3, <2>1 DEF Into, ClickRecs
  <2> QED
    BY <1>1, <1>3, <2>2 DEF Alike
<1> QED
  BY <1>2, <1>3

\* Another writer's file moved into place takes no more than a descriptor.
LEMMA MovedAlike ==
  ASSUME click \in [Clicks -> ClickRecs], NEW c \in Clicks, NEW d \in Clicks
  PROVE  /\ Alike(click[d], Moved(c)[d])
         /\ Moved(c)[c] = click[c]
         /\ click[d].file # click[c].file => Moved(c)[d] = click[d]
         /\ Moved(c) \in [Clicks -> ClickRecs]
<1>1. Moved(c) \in [Clicks -> ClickRecs]
  BY DEF Moved, ClickRecs
<1> QED
  BY <1>1 DEF Moved, Alike, Into, ClickRecs

\* The clicks a step is not about go on as they were, but that they may be
\* outrun and lose a descriptor.
LEMMA OthersAlike ==
  ASSUME TypeOK, NEW c \in Clicks, ClickStep(c), NEW d \in Clicks, d # c
  PROVE  Alike(click[d], click'[d])
<1>0. click \in [Clicks -> ClickRecs]
  BY DEF TypeOK
<1>1. ASSUME click'[d] = click[d] PROVE Alike(click[d], click'[d])
  BY <1>1 DEF Alike, Into
<1>2. ASSUME Finish(c) PROVE click'[d] = click[d]
  BY <1>0, <1>2 DEF Finish
<1>3. ASSUME NEW pc, Go(c, pc) PROVE click'[d] = click[d]
  BY <1>0, <1>3 DEF Go
<1>4. CASE Rename(c)
  <2>1. CASE Finish(c)
    BY <1>1, <1>2, <2>1
  <2>2. CASE click' = [Outrun(Moved(c)) EXCEPT ![c].pc = "load", ![c].fd = "none"]
    <3>1. click'[d] = Outrun(Moved(c))[d]
      BY <1>0, <2>2, MovedAlike, OutrunAlike
    <3>2. Alike(Moved(c)[d], Outrun(Moved(c))[d]) /\ Alike(click[d], Moved(c)[d])
      BY <1>0, MovedAlike, OutrunAlike
    <3> QED
      BY <3>1, <3>2 DEF Alike, Into
  <2> QED
    BY <1>4, <2>1, <2>2 DEF Rename
<1>5. CASE Unlink(c)
  <2>1. CASE Finish(c)
    BY <1>1, <1>2, <2>1
  <2>2. CASE ~Finish(c)
    <3>1. \/ click'[d] = [click[d] EXCEPT !.fd = "gone"] /\ click[d].fd = "path"
          \/ click'[d] = Outrun(click)[d]
      BY <1>5, <2>2 DEF Unlink
    <3>2. click[d] \in ClickRecs
      BY <1>0
    <3>3. CASE click'[d] = [click[d] EXCEPT !.fd = "gone"] /\ click[d].fd = "path"
      BY <3>2, <3>3 DEF Alike, Into, ClickRecs
    <3>4. CASE click'[d] = Outrun(click)[d]
      BY <1>0, <3>4, OutrunAlike
    <3> QED
      BY <3>1, <3>3, <3>4
  <2> QED
    BY <2>1, <2>2
<1>6. CASE Check(c) \/ Write(c) \/ WriteFails(c) \/ Issue(c) \/ IssueFails(c)
           \/ Forget(c) \/ RemoveFails(c)
  BY <1>1, <1>2, <1>3, <1>6 DEF Check, Write, WriteFails, Issue, IssueFails, Forget,
     RemoveFails
<1>7. ASSUME NEW r, click' = [click EXCEPT ![c] = r] \/ UNCHANGED click
      PROVE  Alike(click[d], click'[d])
  BY <1>0, <1>1, <1>7
<1>8. ASSUME NEW id \in Ids, NEW cal \in Calendars, BeginCreate(c, id, cal)
      PROVE  Alike(click[d], click'[d])
  BY <1>7, <1>8 DEF BeginCreate
<1>9. ASSUME NEW id \in SafeIds, BeginRemove(c, id)
      PROVE  Alike(click[d], click'[d])
  BY <1>7, <1>9 DEF BeginRemove
<1>10. CASE BeginReload(c) \/ \E f \in Files : BeginClean(c, f)
  BY <1>7, <1>10 DEF BeginReload, BeginClean
<1>11. CASE Create(c) \/ Load(c) \/ Set(c)
  BY <1>0, <1>1, <1>2, <1>11 DEF Create, Load, Set
<1> QED
  BY <1>4, <1>5, <1>6, <1>8, <1>9, <1>10, <1>11 DEF ClickStep

\* What the steps of a click that is under way make of it.
LEMMA ClickTurns ==
  ASSUME TypeOK, NEW c \in Clicks
  PROVE  /\ Check(c) => \/ click'[c] = Idle
                         \/ /\ Into(click[c], click'[c], "create")
                            /\ click'[c].fd = click[c].fd
         /\ Create(c) => Into(click[c], click'[c], "write") /\ click'[c].fd = "tmp"
         /\ Write(c) => /\ Into(click[c], click'[c], "rename")
                        /\ click'[c].fd = click[c].fd
         /\ Rename(c) => \/ click'[c] = Idle
                         \/ Into(click[c], click'[c], "load") /\ click'[c].fd = "none"
         /\ Load(c) => /\ Into(click[c], click'[c], "set")
                       /\ click'[c].fd = click[c].fd
                       /\ click'[c].seen = MapOf(disk) /\ ~click'[c].behind
         /\ Set(c) => \/ click'[c] = Idle /\ click[c].op \notin {"create", "remove"}
                      \/ /\ Into(click[c], click'[c], After(click[c].op))
                         /\ click'[c].fd = click[c].fd
                         /\ click[c].op \in {"create", "remove"}
         /\ Unlink(c) => \/ click'[c] = Idle
                         \/ /\ Into(click[c], click'[c], "load")
                            /\ click'[c].fd = click[c].fd
         /\ WriteFails(c) \/ Issue(c) \/ IssueFails(c) \/ Forget(c) \/ RemoveFails(c)
              => click'[c] = Idle
<1>0. click \in [Clicks -> ClickRecs] /\ click[c] \in ClickRecs
  BY DEF TypeOK
<1>1. Finish(c) => click'[c] = Idle
  BY <1>0 DEF Finish
<1>2. ASSUME NEW pc, Go(c, pc)
      PROVE  Into(click[c], click'[c], pc) /\ click'[c].fd = click[c].fd
  BY <1>0, <1>2 DEF Go, Into, ClickRecs
<1>3. ASSUME Check(c)
      PROVE  \/ click'[c] = Idle
             \/ Into(click[c], click'[c], "create") /\ click'[c].fd = click[c].fd
  BY <1>1, <1>2, <1>3 DEF Check
<1>4. ASSUME Create(c) PROVE Into(click[c], click'[c], "write") /\ click'[c].fd = "tmp"
  BY <1>0, <1>4 DEF Create, Into, ClickRecs
<1>5. ASSUME Write(c)
      PROVE  Into(click[c], click'[c], "rename") /\ click'[c].fd = click[c].fd
  BY <1>2, <1>5 DEF Write
<1>6. ASSUME Rename(c)
      PROVE  \/ click'[c] = Idle
             \/ Into(click[c], click'[c], "load") /\ click'[c].fd = "none"
  <2>1. CASE Finish(c)
    BY <1>1, <2>1
  <2>2. CASE click' = [Outrun(Moved(c)) EXCEPT ![c].pc = "load", ![c].fd = "none"]
    <3>1. /\ Outrun(Moved(c)) \in [Clicks -> ClickRecs]
          /\ Outrun(Moved(c))[c] = click[c]
      BY <1>0, <1>6, MovedAlike, OutrunAlike DEF Rename
    <3> QED
      BY <1>0, <2>2, <3>1 DEF Into, ClickRecs
  <2> QED
    BY <1>6, <2>1, <2>2 DEF Rename
<1>7. ASSUME Load(c)
      PROVE  /\ Into(click[c], click'[c], "set") /\ click'[c].fd = click[c].fd
             /\ click'[c].seen = MapOf(disk) /\ ~click'[c].behind
  BY <1>0, <1>7 DEF Load, Into, ClickRecs
<1>8. ASSUME Set(c)
      PROVE  \/ click'[c] = Idle /\ click[c].op \notin {"create", "remove"}
             \/ /\ Into(click[c], click'[c], After(click[c].op))
                /\ click'[c].fd = click[c].fd
                /\ click[c].op \in {"create", "remove"}
  <2>1. After(click[c].op) = "idle" <=> click[c].op \notin {"create", "remove"}
    BY DEF After
  <2> QED
    BY <1>0, <1>1, <1>8, <2>1 DEF Set, Into, ClickRecs
<1>9. ASSUME Unlink(c)
      PROVE  \/ click'[c] = Idle
             \/ Into(click[c], click'[c], "load") /\ click'[c].fd = click[c].fd
  BY <1>0, <1>1, <1>9 DEF Unlink, Into, ClickRecs
<1>10. ASSUME WriteFails(c) \/ Issue(c) \/ IssueFails(c) \/ Forget(c) \/ RemoveFails(c)
       PROVE  click'[c] = Idle
  BY <1>1, <1>10 DEF WriteFails, Issue, IssueFails, Forget, RemoveFails
<1> QED
  BY Zenon, <1>3, <1>4, <1>5, <1>6, <1>7, <1>8, <1>9, <1>10

\* Clicks that do nothing, and clicks that others pass by, go by their plans.
LEMMA IdlePlanned == Planned(Idle)
BY DEF Planned, Idle, Ready, Open

\* A click passed by goes by its plan as before.
LEMMA AlikePlanned ==
  ASSUME NEW r, NEW s, Alike(r, s), Planned(r)
  PROVE  Planned(s)
BY DEF Alike, Into, Planned

\* Steps that are nobody's click leave all clicks alike, or end them all.
LEMMA OutsideAlike ==
  ASSUME TypeOK, [Next]_vars, \A c \in Clicks : ~ClickStep(c), NEW d \in Clicks
  PROVE  \/ Alike(click[d], click'[d]) /\ click'[d].fd = click[d].fd
         \/ click'[d] = Idle /\ Crash
<1>0. click \in [Clicks -> ClickRecs]
  BY DEF TypeOK
<1>1. ASSUME UNCHANGED click PROVE Alike(click[d], click'[d]) /\ click'[d].fd = click[d].fd
  BY <1>1 DEF Alike, Into
<1>2. ASSUME NEW p \in Posts, PostStep(p) \/ Deliver(p) PROVE UNCHANGED click
  BY <1>2 DEF PostStep, Admit, Accept, Deliver
<1>3. ASSUME BeginPass \/ BeginStart \/ LockHeld \/ TakeLock \/ UNCHANGED vars
      PROVE  Alike(click[d], click'[d]) /\ click'[d].fd = click[d].fd
  <2>1. UNCHANGED click
    BY <1>3 DEF BeginPass, BeginStart, LockHeld, TakeLock, vars
  <2> QED
    BY <1>1, <2>1
<1>4. CASE Crash
  BY <1>4 DEF Crash
<1>5. ASSUME NEW f \in Files, NEW content \in Handmade \union {NoFile},
             Edit(f, content)
      PROVE  click' = Outrun(click)
  BY <1>5 DEF Edit
<1>6. \/ \E p \in Posts : PostStep(p) \/ Deliver(p)
      \/ BeginPass \/ BeginStart \/ LockHeld \/ TakeLock \/ UNCHANGED vars
      \/ Crash
      \/ \E f \in Files, content \in Handmade \union {NoFile} : Edit(f, content)
  BY DEF Next
<1>7. CASE \E p \in Posts : PostStep(p) \/ Deliver(p)
  <2>1. UNCHANGED click
    BY <1>2, <1>7
  <2> QED
    BY <1>1, <2>1
<1>8. CASE BeginPass \/ BeginStart \/ LockHeld \/ TakeLock \/ UNCHANGED vars
  BY <1>3, <1>8
<1>9. CASE \E f \in Files, content \in Handmade \union {NoFile} : Edit(f, content)
  <2>1. click' = Outrun(click)
    BY <1>5, <1>9
  <2> QED
    BY <1>0, <2>1, OutrunAlike
<1> QED
  BY <1>4, <1>6, <1>7, <1>8, <1>9

\* What a click begins.
Begins(s, pc, op, id, file) ==
  s.pc = pc /\ s.op = op /\ s.id = id /\ s.file = file /\ s.fd = "none"

\* A creation begins with the file, or with the client alone.
LEMMA BeginsCreate ==
  ASSUME TypeOK, NEW c \in Clicks, NEW id, NEW cal, BeginCreate(c, id, cal)
  PROVE  \/ UNCHANGED <<click, trail>>
         \/ /\ Meets(c, id) /\ served[id] # None
            /\ Begins(click'[c], "issue", "create", id, NoFile)
         \/ /\ Meets(c, id) /\ served[id] = None /\ SafeId(id) /\ Trim(cal) # <<>>
            /\ Begins(click'[c], "check", "create", id, FileOf[id])
            /\ click'[c].content = DefaultProfile(id, Trim(cal))
<1>0. click \in [Clicks -> ClickRecs]
  BY DEF TypeOK
<1>1. CASE UNCHANGED <<click, trail>>
  BY <1>1
<1>2. CASE /\ Meets(c, id) /\ served[id] # None
           /\ click' = [click EXCEPT ![c] =
                [Idle EXCEPT !.pc = "issue", !.op = "create", !.id = id]]
  BY <1>0, <1>2 DEF Begins, Idle
<1>3. CASE /\ Meets(c, id) /\ served[id] = None /\ SafeId(id) /\ Trim(cal) # <<>>
           /\ click' = [click EXCEPT ![c] =
                [Idle EXCEPT !.pc = "check", !.op = "create", !.id = id,
                   !.file = FileOf[id],
                   !.content = DefaultProfile(id, Trim(cal))]]
  BY <1>0, <1>3 DEF Begins, Idle
<1> QED
  BY Zenon, <1>1, <1>2, <1>3 DEF BeginCreate

\* A removal begins with the file, or with the client alone, or not at all.
LEMMA BeginsRemove ==
  ASSUME TypeOK, NEW c \in Clicks, NEW id, BeginRemove(c, id)
  PROVE  \/ UNCHANGED <<click, trail>>
         \/ /\ served[id] # None /\ Pending(id) = {}
            /\ Begins(click'[c], "unlink", "remove", id, FileOf[id])
            /\ trail' = [trail EXCEPT
                 !.crossed = @ \union {p \in Posts : /\ post[p].pc = "posting"
                                                     /\ post[p].id = id},
                 !.unpaired = IF Overlapping(c, id) THEN @ \union {id} ELSE @]
         \/ /\ Meets(c, id) /\ served[id] = None
            /\ Begins(click'[c], "forget", "remove", id, NoFile)
<1>0. click \in [Clicks -> ClickRecs]
  BY DEF TypeOK
<1>1. CASE UNCHANGED <<click, trail>>
  BY <1>1
<1>2. CASE click' = [click EXCEPT ![c] =
             [Idle EXCEPT !.pc = "unlink", !.op = "remove", !.id = id,
                          !.file = FileOf[id]]]
  <2>1. Begins(click'[c], "unlink", "remove", id, FileOf[id])
    BY <1>0, <1>2 DEF Begins, Idle
  <2>2. click'[c].pc = "unlink"
    BY <2>1 DEF Begins
  <2> QED
    BY <1>0, <2>1, <2>2 DEF BeginRemove, Idle
<1>3. CASE Meets(c, id) /\ served[id] = None /\ click' = [click EXCEPT ![c] =
             [Idle EXCEPT !.pc = "forget", !.op = "remove", !.id = id]]
  BY <1>0, <1>3 DEF Begins, Idle
<1> QED
  BY Zenon, <1>1, <1>2, <1>3 DEF BeginRemove

\* A reload and a cleaning up name no source.
LEMMA BeginsOther ==
  ASSUME TypeOK, NEW c \in Clicks
  PROVE  /\ BeginReload(c) => Begins(click'[c], "load", "reload", None, NoFile)
         /\ \A f \in Files : BeginClean(c, f) =>
              Begins(click'[c], "unlink", "clean", None, f)
<1>0. click \in [Clicks -> ClickRecs]
  BY DEF TypeOK
<1>1. ASSUME BeginReload(c) PROVE Begins(click'[c], "load", "reload", None, NoFile)
  BY <1>0, <1>1 DEF BeginReload, Begins, Idle
<1>2. ASSUME NEW f \in Files, BeginClean(c, f)
      PROVE  Begins(click'[c], "unlink", "clean", None, f)
  BY <1>0, <1>2 DEF BeginClean, Begins, Idle
<1> QED
  BY <1>1, <1>2

\* Every step leaves clicks with a plan.
LEMMA PlansStep ==
  ASSUME TypeOK, PlansOK, [Next]_vars
  PROVE  PlansOK'
<1>1. CASE \A c \in Clicks : ~ClickStep(c)
  BY <1>1, OutsideAlike, AlikePlanned, IdlePlanned DEF PlansOK
<1>2. ASSUME NEW c \in Clicks, ClickStep(c) PROVE PlansOK'
  <2> SUFFICES Planned(click'[c])
    BY <1>2, OthersAlike, AlikePlanned DEF PlansOK
  <2>0. Planned(click[c])
    BY DEF PlansOK
  <2> USE DEF Planned, Ready, Open
  <2>1. ASSUME NEW id \in Ids, NEW cal \in Calendars, BeginCreate(c, id, cal)
        PROVE  Planned(click'[c])
    <3>1. CASE UNCHANGED <<click, trail>>
      BY <2>0, <3>1
    <3>2. CASE Begins(click'[c], "issue", "create", id, NoFile)
      BY <3>2 DEF Begins
    <3>3. CASE /\ SafeId(id) /\ Trim(cal) # <<>>
               /\ Begins(click'[c], "check", "create", id, FileOf[id])
               /\ click'[c].content = DefaultProfile(id, Trim(cal))
      <4> DEFINE content == DefaultProfile(id, Trim(cal))
      <4>1. id \in SafeIds
        BY <3>3 DEF SafeIds
      <4>2. Own(content, FileOf[id]) /\ content.id = id
        BY <3>3, <4>1, MadeUsable DEF Own
      <4> HIDE DEF content
      <4> QED
        BY <3>3, <4>2 DEF Begins, content
    <3> QED
      BY <2>1, <3>1, <3>2, <3>3, BeginsCreate
  <2>2. ASSUME NEW id \in SafeIds, BeginRemove(c, id) PROVE Planned(click'[c])
    <3>1. CASE UNCHANGED <<click, trail>>
      BY <2>0, <3>1
    <3>2. CASE Begins(click'[c], "unlink", "remove", id, FileOf[id])
      BY <3>2 DEF Begins
    <3>3. CASE Begins(click'[c], "forget", "remove", id, NoFile)
      BY <3>3 DEF Begins
    <3> QED
      BY <2>2, <3>1, <3>2, <3>3, BeginsRemove
  <2>3. CASE BeginReload(c)
    BY <2>3, BeginsOther DEF Begins
  <2>4. ASSUME NEW f \in Files, BeginClean(c, f) PROVE Planned(click'[c])
    BY <2>4, BeginsOther DEF Begins
  <2>5. ASSUME click'[c] = Idle PROVE Planned(click'[c])
    BY <2>5, IdlePlanned
  <2>6. CASE Check(c)
    BY <2>0, <2>5, <2>6, ClickTurns DEF Check, Into
  <2>7. CASE Create(c)
    BY <2>0, <2>7, ClickTurns DEF Create, Into
  <2>8. CASE Write(c)
    BY <2>0, <2>8, ClickTurns DEF Write, Into
  <2>9. CASE Rename(c)
    <3>1. CASE click'[c] = Idle
      BY <2>5, <3>1
    <3>2. CASE Into(click[c], click'[c], "load") /\ click'[c].fd = "none"
      <4>1. /\ click[c].op = "create" /\ click[c].id \in SafeIds
        BY <2>0, <2>9 DEF Rename, Own
      <4> QED
        BY <3>2, <4>1 DEF Into
    <3> QED
      BY <2>9, <3>1, <3>2, ClickTurns
  <2>10. CASE Load(c)
    BY <2>0, <2>10, ClickTurns DEF Load, Into
  <2>11. CASE Set(c)
    BY <2>0, <2>5, <2>11, ClickTurns DEF Set, After, Into
  <2>12. CASE Unlink(c)
    BY <2>0, <2>5, <2>12, ClickTurns DEF Unlink, Into
  <2>13. CASE WriteFails(c) \/ Issue(c) \/ IssueFails(c) \/ Forget(c) \/ RemoveFails(c)
    BY <2>5, <2>13, ClickTurns
  <2> QED
    BY <1>2, <2>1, <2>2, <2>3, <2>4, <2>6, <2>7, <2>8, <2>9, <2>10, <2>11, <2>12,
       <2>13 DEF ClickStep
<1> QED
  BY <1>1, <1>2

\* The steps that change the directory.
Puts(f, content) == disk' = [disk EXCEPT ![f] = content]

\* A rename, a late write, an unlink or a hand; nothing else.
LEMMA DiskChanges ==
  ASSUME [Next]_vars
  PROVE  \/ UNCHANGED disk
         \/ \E c \in Clicks :
              /\ ClickStep(c) /\ click[c].pc = "rename"
              /\ tmp[click[c].file] # NoFile /\ Puts(click[c].file, tmp[click[c].file])
         \/ \E c \in Clicks :
              /\ ClickStep(c) /\ click[c].pc = "write" /\ click[c].fd = "path"
              /\ \E new \in {click[c].content, Mixed} : Puts(click[c].file, new)
         \/ \E c \in Clicks :
              /\ ClickStep(c) /\ click[c].pc = "unlink" /\ Puts(click[c].file, NoFile)
         \/ \E f \in Files, content \in Handmade \union {NoFile} :
              Edit(f, content) /\ Puts(f, content)
<1> DEFINE Goal == 
         \/ UNCHANGED disk
         \/ \E c \in Clicks :
              /\ ClickStep(c) /\ click[c].pc = "rename"
              /\ tmp[click[c].file] # NoFile /\ Puts(click[c].file, tmp[click[c].file])
         \/ \E c \in Clicks :
              /\ ClickStep(c) /\ click[c].pc = "write" /\ click[c].fd = "path"
              /\ \E new \in {click[c].content, Mixed} : Puts(click[c].file, new)
         \/ \E c \in Clicks :
              /\ ClickStep(c) /\ click[c].pc = "unlink" /\ Puts(click[c].file, NoFile)
         \/ \E f \in Files, content \in Handmade \union {NoFile} :
              Edit(f, content) /\ Puts(f, content)
<1>1. ASSUME NEW c \in Clicks, ClickStep(c) PROVE Goal
  <2>1. CASE Rename(c)
    BY <1>1, <2>1 DEF Rename, Puts, fileVars
  <2>2. CASE Write(c)
    BY <1>1, <2>2 DEF Write, Over, Puts, fileVars
  <2>3. CASE Unlink(c)
    BY <1>1, <2>3 DEF Unlink, Puts
  <2>4. ASSUME NEW id, NEW cal, BeginCreate(c, id, cal) PROVE UNCHANGED disk
    BY <2>4 DEF BeginCreate, fileVars
  <2>5. ASSUME NEW id, BeginRemove(c, id) PROVE UNCHANGED disk
    BY <2>5 DEF BeginRemove, fileVars
  <2>6. CASE \/ BeginReload(c) \/ Check(c) \/ Create(c) \/ WriteFails(c)
             \/ Load(c) \/ Set(c) \/ Issue(c) \/ IssueFails(c) \/ Forget(c)
             \/ RemoveFails(c) \/ \E f \in Files : BeginClean(c, f)
    BY <2>6 DEF BeginReload, Check, Create, WriteFails, Load, Set, Issue, IssueFails,
       Forget, RemoveFails, BeginClean, fileVars
  <2> QED
    BY <1>1, <2>1, <2>2, <2>3, <2>4, <2>5, <2>6 DEF ClickStep
<1>2. ASSUME NEW p \in Posts, PostStep(p) \/ Deliver(p) PROVE UNCHANGED disk
  BY <1>2 DEF PostStep, Admit, Accept, Deliver, fileVars
<1>3. CASE \/ BeginPass \/ BeginStart \/ LockHeld \/ TakeLock \/ Crash
           \/ UNCHANGED vars
  BY <1>3 DEF BeginPass, BeginStart, LockHeld, TakeLock, Crash, vars, fileVars
<1>4. ASSUME NEW f \in Files, NEW content \in Handmade \union {NoFile},
             Edit(f, content)
      PROVE  Puts(f, content)
  BY <1>4 DEF Edit, Puts
<1>5. CASE \E f \in Files, content \in Handmade \union {NoFile} : Edit(f, content)
  BY <1>4, <1>5
<1>6. CASE \E p \in Posts : PostStep(p) \/ Deliver(p)
  BY <1>2, <1>6
<1>7. CASE \E c \in Clicks : ClickStep(c)
  BY <1>1, <1>7
<1> QED
  BY <1>3, <1>5, <1>6, <1>7 DEF Next

\* A step that puts something fit into one file.
LEMMA DiskPut ==
  ASSUME TypeOK, DiskOK(disk, trail), Grows(trail, trail'), NEW f \in Files, NEW v,
         Puts(f, v),
         \/ v = NoFile
         \/ Own(v, f)
         \/ v \in Torn /\ Among(trail'.twins, f)
         \/ v \in trail'.placed /\ v.id \in trail'.edited /\ Foreign(trail', f)
  PROVE  DiskOK(disk', trail')
<1>1. DiskOK(disk, trail')
  BY MoreDisk
<1> QED
  BY <1>1 DEF DiskOK, Puts, TypeOK

\* Every step leaves files that are some source's own, torn by two writers, or
\* a hand's.
LEMMA DiskStep ==
  ASSUME TypeOK, PlansOK, DiskOK(disk, trail), TmpOK(tmp), AloneOK, [Next]_vars
  PROVE  DiskOK(disk', trail')
<1>0. Grows(trail, trail')
  BY TrailGrows
<1>1. CASE UNCHANGED disk
  BY <1>0, <1>1, MoreDisk
<1>2. ASSUME NEW c \in Clicks, click[c].pc \in Ready
      PROVE  /\ click[c].file \in Files /\ Own(click[c].content, click[c].file)
             /\ click[c].id \in SafeIds /\ FileOf[click[c].id] = click[c].file
  BY <1>2 DEF PlansOK, Planned, TypeOK, Sound, Ready, Own
<1>3. ASSUME NEW c \in Clicks, click[c].pc \in Ready, click[c].id \in trail.twins
      PROVE  Among(trail'.twins, click[c].file)
  BY <1>0, <1>2, <1>3 DEF Grows, Among
<1>4. ASSUME NEW c \in Clicks, click[c].pc = "rename",
             tmp[click[c].file] # NoFile, Puts(click[c].file, tmp[click[c].file])
      PROVE  DiskOK(disk', trail')
  <2> DEFINE f == click[c].file
  <2>0. click[c].pc \in Ready
    BY <1>4 DEF Ready
  <2>1. f \in Files /\ Own(click[c].content, f)
    BY <1>2, <2>0
  <2>2. Own(tmp[f], f) \/ tmp[f] \in Torn
    BY <1>4, <2>1 DEF TmpOK
  <2>3. ASSUME tmp[f] \in Torn PROVE click[c].id \in trail.twins
    <3>1. tmp[f] # click[c].content
      BY <2>1, <2>3, TornUseless DEF Own
    <3> QED
      BY <1>4, <3>1 DEF AloneOK, Alone, Open
  <2> QED
    BY <1>0, <1>3, <1>4, <2>0, <2>1, <2>2, <2>3, DiskPut
<1>5. ASSUME NEW c \in Clicks, click[c].pc = "write", click[c].fd = "path",
             NEW new \in {click[c].content, Mixed}, Puts(click[c].file, new)
      PROVE  DiskOK(disk', trail')
  <2>0. click[c].pc \in Ready
    BY <1>5 DEF Ready
  <2>1. click[c].id \in trail.twins
    BY <1>5 DEF AloneOK, Alone, Open
  <2>2. click[c].file \in Files /\ Own(click[c].content, click[c].file)
    BY <1>2, <2>0
  <2>3. Among(trail'.twins, click[c].file)
    BY <1>3, <2>0, <2>1
  <2>4. Own(new, click[c].file) \/ new \in Torn
    BY <2>2, TornFiles
  <2> QED
    BY <1>0, <1>5, <2>2, <2>3, <2>4, DiskPut
<1>6. ASSUME NEW c \in Clicks, click[c].pc = "unlink", Puts(click[c].file, NoFile)
      PROVE  DiskOK(disk', trail')
  <2>1. click[c].file \in Files
    BY <1>6 DEF TypeOK, Sound
  <2> QED
    BY <1>0, <1>6, <2>1, DiskPut
<1>7. ASSUME NEW f \in Files, NEW content \in Handmade \union {NoFile},
             Edit(f, content), Puts(f, content)
      PROVE  DiskOK(disk', trail')
  <2>1. /\ content \in trail'.placed
        /\ \A id \in SafeIds : FileOf[id] = f => id \in trail'.edited
        /\ content # NoFile => content.id \in trail'.edited
    BY <1>7 DEF Edit, TypeOK, Trails
  <2>2. Foreign(trail', f)
    BY <2>1 DEF Foreign, Among
  <2> QED
    BY <1>0, <1>7, <2>1, <2>2, DiskPut
<1> QED
  BY <1>1, <1>4, <1>5, <1>6, <1>7, DiskChanges

\* The steps that change a temporary file.
PutsTmp(f, content) == tmp' = [tmp EXCEPT ![f] = content]

\* A create, a write, or a rename; nothing else.
LEMMA TmpChanges ==
  ASSUME [Next]_vars
  PROVE  \/ UNCHANGED tmp
         \/ \E c \in Clicks :
              /\ ClickStep(c) /\ click[c].pc = "create" /\ PutsTmp(click[c].file, Emptied)
         \/ \E c \in Clicks :
              /\ ClickStep(c) /\ click[c].pc = "write" /\ click[c].fd = "tmp"
              /\ \E new \in Over(tmp[click[c].file], click[c].content) :
                   PutsTmp(click[c].file, new)
         \/ \E c \in Clicks :
              /\ ClickStep(c) /\ click[c].pc = "rename" /\ PutsTmp(click[c].file, NoFile)
<1> DEFINE Goal ==
         \/ UNCHANGED tmp
         \/ \E c \in Clicks :
              /\ ClickStep(c) /\ click[c].pc = "create" /\ PutsTmp(click[c].file, Emptied)
         \/ \E c \in Clicks :
              /\ ClickStep(c) /\ click[c].pc = "write" /\ click[c].fd = "tmp"
              /\ \E new \in Over(tmp[click[c].file], click[c].content) :
                   PutsTmp(click[c].file, new)
         \/ \E c \in Clicks :
              /\ ClickStep(c) /\ click[c].pc = "rename" /\ PutsTmp(click[c].file, NoFile)
<1>1. ASSUME NEW c \in Clicks, ClickStep(c) PROVE Goal
  <2>1. CASE Rename(c)
    BY <1>1, <2>1 DEF Rename, PutsTmp, fileVars
  <2>2. CASE Write(c)
    BY <1>1, <2>2 DEF Write, PutsTmp, fileVars
  <2>3. CASE Create(c)
    BY <1>1, <2>3 DEF Create, PutsTmp
  <2>4. ASSUME NEW id, NEW cal, BeginCreate(c, id, cal) PROVE UNCHANGED tmp
    BY <2>4 DEF BeginCreate, fileVars
  <2>5. ASSUME NEW id, BeginRemove(c, id) PROVE UNCHANGED tmp
    BY <2>5 DEF BeginRemove, fileVars
  <2>6. CASE \/ BeginReload(c) \/ Check(c) \/ Unlink(c) \/ WriteFails(c)
             \/ Load(c) \/ Set(c) \/ Issue(c) \/ IssueFails(c) \/ Forget(c)
             \/ RemoveFails(c) \/ \E f \in Files : BeginClean(c, f)
    BY <2>6 DEF BeginReload, Check, Unlink, WriteFails, Load, Set, Issue, IssueFails,
       Forget, RemoveFails, BeginClean, fileVars
  <2> QED
    BY <1>1, <2>1, <2>2, <2>3, <2>4, <2>5, <2>6 DEF ClickStep
<1>2. ASSUME NEW p \in Posts, PostStep(p) \/ Deliver(p) PROVE UNCHANGED tmp
  BY <1>2 DEF PostStep, Admit, Accept, Deliver, fileVars
<1>3. CASE \/ BeginPass \/ BeginStart \/ LockHeld \/ TakeLock \/ Crash
           \/ UNCHANGED vars
  BY <1>3 DEF BeginPass, BeginStart, LockHeld, TakeLock, Crash, vars, fileVars
<1>4. ASSUME NEW f \in Files, NEW content \in Handmade \union {NoFile},
             Edit(f, content)
      PROVE  UNCHANGED tmp
  BY <1>4 DEF Edit
<1>5. CASE \E f \in Files, content \in Handmade \union {NoFile} : Edit(f, content)
  BY <1>4, <1>5
<1>6. CASE \E p \in Posts : PostStep(p) \/ Deliver(p)
  BY <1>2, <1>6
<1>7. CASE \E c \in Clicks : ClickStep(c)
  BY <1>1, <1>7
<1> QED
  BY <1>3, <1>5, <1>6, <1>7 DEF Next

\* A click that is making a file knows whose.
LEMMA ReadyPlans ==
  ASSUME TypeOK, PlansOK, NEW c \in Clicks, click[c].pc \in Ready
  PROVE  /\ click[c].file \in Files /\ Own(click[c].content, click[c].file)
         /\ click[c].id \in SafeIds /\ FileOf[click[c].id] = click[c].file
         /\ click[c].id # None /\ click[c].content # Emptied
<1>1. /\ click[c].file \in Files /\ Own(click[c].content, click[c].file)
      /\ click[c].id \in SafeIds /\ FileOf[click[c].id] = click[c].file
  BY DEF PlansOK, Planned, TypeOK, Sound, Ready, Own
<1>2. click[c].id # None
  BY <1>1, PeopleAssumption DEF SafeIds
<1>3. click[c].content # Emptied
  BY <1>1, TornFiles, TornUseless DEF Own
<1> QED
  BY <1>1, <1>2, <1>3

\* Every step leaves temporary files that are a source's own or torn.
LEMMA TmpStep ==
  ASSUME TypeOK, PlansOK, TmpOK(tmp), [Next]_vars
  PROVE  TmpOK(tmp')
<1>1. ASSUME NEW f \in Files, NEW v, PutsTmp(f, v),
             v = NoFile \/ Own(v, f) \/ v \in Torn
      PROVE  TmpOK(tmp')
  BY <1>1 DEF TmpOK, PutsTmp, TypeOK
<1>2. CASE UNCHANGED tmp
  BY <1>2
<1>3. ASSUME NEW c \in Clicks, click[c].pc = "create", PutsTmp(click[c].file, Emptied)
      PROVE  TmpOK(tmp')
  <2>1. click[c].file \in Files
    BY <1>3, ReadyPlans DEF Ready
  <2> QED
    BY <1>1, <1>3, <2>1, TornFiles
<1>4. ASSUME NEW c \in Clicks, click[c].pc = "write",
             NEW new \in Over(tmp[click[c].file], click[c].content),
             PutsTmp(click[c].file, new)
      PROVE  TmpOK(tmp')
  <2>1. click[c].file \in Files /\ Own(click[c].content, click[c].file)
    BY <1>4, ReadyPlans DEF Ready
  <2>2. new = click[c].content \/ new \in Torn
    BY TornFiles DEF Over
  <2> QED
    BY <1>1, <1>4, <2>1, <2>2
<1>5. ASSUME NEW c \in Clicks, click[c].pc = "rename", PutsTmp(click[c].file, NoFile)
      PROVE  TmpOK(tmp')
  <2>1. click[c].file \in Files
    BY <1>5, ReadyPlans DEF Ready
  <2> QED
    BY <1>1, <1>5, <2>1
<1> QED
  BY <1>2, <1>3, <1>4, <1>5, TmpChanges

-----------------------------------------------------------------------------
\* A step of a click ends it, begins it with what overlaps on record, or leaves
\* it about the same source.
Begun(c, id, unpaired) ==
  \A d \in Clicks \ {c} : click[d].pc # "idle" /\ click[d].id = id => id \in unpaired

\* A click takes up a source only as it begins, and writes for it only as its
\* check found nothing.
LEMMA ClickPairs ==
  ASSUME TypeOK, PlansOK, NEW c \in Clicks, ClickStep(c)
  PROVE  \/ click'[c].id = None
         \/ /\ click'[c].id = click[c].id
            /\ click'[c].pc \in Active => \/ click[c].pc \in Active
                                          \/ Check(c) /\ ~Clash(c)
         \/ /\ click'[c].pc \notin Active
            /\ Begun(c, click'[c].id, trail'.unpaired)
<1> DEFINE Goal ==
         \/ click'[c].id = None
         \/ /\ click'[c].id = click[c].id
            /\ click'[c].pc \in Active => \/ click[c].pc \in Active
                                          \/ Check(c) /\ ~Clash(c)
         \/ /\ click'[c].pc \notin Active
            /\ Begun(c, click'[c].id, trail'.unpaired)
<1>0. click \in [Clicks -> ClickRecs] /\ trail \in Trails
  BY DEF TypeOK
<1>1. ASSUME click'[c] = Idle PROVE Goal
  BY <1>1 DEF Idle
<1>2. ASSUME NEW id, Meets(c, id) PROVE Begun(c, id, trail'.unpaired)
  BY <1>0, <1>2 DEF Meets, Overlapping, Begun, Trails
<1>3. ASSUME NEW id, NEW cal, BeginCreate(c, id, cal) PROVE Goal
  <2>1. CASE UNCHANGED <<click, trail>>
    BY <2>1
  <2>2. CASE Meets(c, id) /\ Begins(click'[c], "issue", "create", id, NoFile)
    BY <1>2, <2>2 DEF Begins, Active
  <2>3. CASE Meets(c, id) /\ Begins(click'[c], "check", "create", id, FileOf[id])
    BY <1>2, <2>3 DEF Begins, Active
  <2> QED
    BY <1>3, <2>1, <2>2, <2>3, BeginsCreate
<1>4. ASSUME NEW id, BeginRemove(c, id) PROVE Goal
  <2>1. CASE UNCHANGED <<click, trail>>
    BY <2>1
  <2>2. CASE Meets(c, id) /\ Begins(click'[c], "forget", "remove", id, NoFile)
    BY <1>2, <2>2 DEF Begins, Active
  <2>3. CASE /\ Begins(click'[c], "unlink", "remove", id, FileOf[id])
             /\ trail' = [trail EXCEPT
                  !.crossed = @ \union {p \in Posts : /\ post[p].pc = "posting"
                                                      /\ post[p].id = id},
                  !.unpaired = IF Overlapping(c, id) THEN @ \union {id} ELSE @]
    <3>1. trail'.unpaired = IF Overlapping(c, id) THEN trail.unpaired \union {id}
                            ELSE trail.unpaired
      BY <1>0, <2>3 DEF Trails
    <3>2. Begun(c, id, trail'.unpaired)
      BY <3>1 DEF Overlapping, Begun
    <3> QED
      BY <2>3, <3>2 DEF Begins, Active
  <2> QED
    BY <1>4, <2>1, <2>2, <2>3, BeginsRemove
<1>5. CASE BeginReload(c) \/ \E f \in Files : BeginClean(c, f)
  BY <1>5, BeginsOther DEF Begins
<1>6. CASE Check(c)
  <2>1. CASE Clash(c)
    BY <1>0, <1>1, <1>6, <2>1 DEF Check, Finish
  <2>2. CASE ~Clash(c)
    BY <1>0, <1>6, <2>2 DEF Check, Go, ClickRecs
  <2> QED
    BY <2>1, <2>2
<1>7. CASE Create(c)
  BY <1>7, ClickTurns DEF Create, Into, Active
<1>8. CASE Write(c)
  BY <1>8, ClickTurns DEF Write, Into, Active
<1>9. CASE Rename(c)
  BY <1>1, <1>9, ClickTurns DEF Into, Active
<1>10. CASE Load(c)
  BY <1>10, ClickTurns DEF Into, Active
<1>11. CASE Set(c)
  BY <1>1, <1>11, ClickTurns DEF Into, Active, After
<1>12. CASE Unlink(c)
  BY <1>1, <1>12, ClickTurns DEF Into, Active
<1>13. CASE WriteFails(c) \/ Issue(c) \/ IssueFails(c) \/ Forget(c) \/ RemoveFails(c)
  BY <1>1, <1>13, ClickTurns
<1> QED
  BY <1>3, <1>4, <1>5, <1>6, <1>7, <1>8, <1>9, <1>10, <1>11, <1>12, <1>13
     DEF ClickStep

\* Every step leaves requests about one source on record.
LEMMA PairsStep ==
  ASSUME TypeOK, PlansOK, PairsOK, [Next]_vars
  PROVE  PairsOK'
<1>0. Grows(trail, trail') /\ trail \in Trails
  BY TrailGrows DEF TypeOK
<1>1. ASSUME NEW r, NEW s, NEW r2, NEW s2, Pair(r, s, trail),
             r2.id = r.id \/ r2.id = None, s2.id = s.id \/ s2.id = None,
             r2.pc \in Active => r.pc \in Active,
             s2.pc \in Active => s.pc \in Active
      PROVE  Pair(r2, s2, trail')
  BY <1>0, <1>1 DEF Pair, Grows
<1>2. ASSUME NEW r, NEW s, Alike(r, s) PROVE s.id = r.id /\ s.pc = r.pc
  BY <1>2 DEF Alike, Into
<1>3. ASSUME NEW c \in Clicks, NEW d \in Clicks, c # d,
             \A e \in Clicks : ~ClickStep(e)
      PROVE  Pair(click'[c], click'[d], trail')
  <2>1. /\ Alike(click[c], click'[c]) \/ click'[c] = Idle
        /\ Alike(click[d], click'[d]) \/ click'[d] = Idle
    BY <1>3, OutsideAlike
  <2>2. /\ click'[c].id = click[c].id \/ click'[c].id = None
        /\ click'[d].id = click[d].id \/ click'[d].id = None
        /\ click'[c].pc \in Active => click[c].pc \in Active
        /\ click'[d].pc \in Active => click[d].pc \in Active
    BY <1>2, <2>1 DEF Idle, Active
  <2> QED
    BY <1>1, <1>3, <2>2 DEF PairsOK
<1>4. ASSUME NEW c \in Clicks, NEW d \in Clicks, c # d, ClickStep(c)
      PROVE  Pair(click'[c], click'[d], trail') /\ Pair(click'[d], click'[c], trail')
  <2>1. click'[d].id = click[d].id /\ click'[d].pc = click[d].pc
    BY <1>2, <1>4, OthersAlike
  <2>2. Pair(click[c], click[d], trail) /\ Pair(click[d], click[c], trail)
    BY <1>4 DEF PairsOK
  <2>3. CASE click'[c].id = None
    BY <2>3 DEF Pair
  <2>4. CASE /\ click'[c].id = click[c].id
             /\ click'[c].pc \in Active => click[c].pc \in Active
    BY <1>1, <2>1, <2>2, <2>4
  <2>5. CASE click'[c].id = click[c].id /\ Check(c) /\ ~Clash(c)
    <3>1. click[d].pc \in Active /\ click[d].id = click[c].id
          => click[c].id \in trail'.twins
      BY <1>0, <2>5 DEF Check, Writing, Active, Trails
    <3> QED
      BY <1>0, <2>1, <2>2, <2>5, <3>1 DEF Pair, Grows
  <2>6. CASE /\ click'[c].pc \notin Active
             /\ Begun(c, click'[c].id, trail'.unpaired)
    <3>1. click[d].id # None => click[d].pc # "idle"
      BY DEF PlansOK, Planned
    <3> QED
      BY <1>4, <2>1, <2>6, <3>1 DEF Pair, Begun
  <2> QED
    BY <1>4, <2>3, <2>4, <2>5, <2>6, ClickPairs
<1>5. ASSUME NEW c \in Clicks, NEW d \in Clicks, c # d
      PROVE  Pair(click'[c], click'[d], trail')
  <2>1. CASE ClickStep(c)
    BY <1>4, <1>5, <2>1
  <2>2. CASE ClickStep(d)
    BY <1>4, <1>5, <2>2
  <2>3. ASSUME NEW e \in Clicks, ClickStep(e), e # c, e # d
        PROVE  Pair(click'[c], click'[d], trail')
    BY <1>1, <1>2, <1>5, <2>3, OthersAlike DEF PairsOK
  <2> QED
    BY <1>3, <1>5, <2>1, <2>2, <2>3
<1> QED
  BY <1>5 DEF PairsOK

\* Two clicks at work on one file work for one source, made twice at a time.
LEMMA OneFileTwins ==
  ASSUME TypeOK, PlansOK, PairsOK, NEW c \in Clicks, NEW d \in Clicks, c # d,
         click[c].pc \in Active, click[d].pc \in Active,
         click[c].file = click[d].file
  PROVE  click[c].id = click[d].id /\ click[d].id \in trail.twins
<1>1. click[c].pc \in Ready /\ click[d].pc \in Ready
  BY DEF Active, Ready
<1>2. click[c].id = click[d].id
  BY <1>1, ReadyPlans, OneSourcePerFile
<1>3. click[c].id # None
  BY <1>1, ReadyPlans
<1> QED
  BY <1>2, <1>3 DEF PairsOK, Pair

\* A click that a step passes by stays alone with its file.
LEMMA PassedAlone ==
  ASSUME TypeOK, PlansOK, PairsOK, AloneOK, [Next]_vars, NEW d \in Clicks,
         ~ClickStep(d), Alike(click[d], click'[d]),
         click[d].pc \in Open /\ click[d].id \notin trail'.twins
           => click'[d].fd = click[d].fd
  PROVE  Alone(click'[d], disk', tmp', trail')
<1> DEFINE r == click[d]
<1>0. Grows(trail, trail')
  BY TrailGrows
<1>1. /\ click'[d].pc = r.pc /\ click'[d].op = r.op /\ click'[d].id = r.id
      /\ click'[d].file = r.file /\ click'[d].content = r.content
  BY DEF Alike, Into
<1>2. Alone(r, disk, tmp, trail)
  BY DEF AloneOK
<1>3. ASSUME r.pc \in Active, r.id \notin trail.twins, NEW c \in Clicks, ClickStep(c),
             click[c].pc \in Active
      PROVE  click[c].file # r.file
  <2>1. c # d
    BY <1>3
  <2> QED
    BY <1>3, <2>1, OneFileTwins
<1>4. ASSUME r.pc \in Open, r.id \notin trail'.twins PROVE tmp'[r.file] = tmp[r.file]
  <2>0. r.id \notin trail.twins /\ r.pc \in Active
    BY <1>0, <1>4 DEF Grows, Open, Active
  <2>1. ASSUME NEW c \in Clicks, ClickStep(c), click[c].pc \in Active, NEW v,
               PutsTmp(click[c].file, v)
        PROVE  tmp'[r.file] = tmp[r.file]
    <3>1. click[c].file # r.file
      BY <1>3, <2>0, <2>1
    <3> QED
      BY <2>1, <3>1 DEF PutsTmp, TypeOK
  <2>2. CASE UNCHANGED tmp
    BY <2>2
  <2> QED
    BY <2>1, <2>2, TmpChanges DEF Active
<1>5. ASSUME r.pc \in Active, r.id \notin trail'.twins \union trail'.edited
      PROVE  disk'[r.file] = NoFile
  <2>0. r.id \notin trail.twins \union trail.edited
    BY <1>0, <1>5 DEF Grows
  <2>1. disk[r.file] = NoFile
    BY <1>2, <1>5, <2>0 DEF Alone
  <2>2. ASSUME NEW c \in Clicks, ClickStep(c), click[c].pc \in Active, NEW v,
               Puts(click[c].file, v)
        PROVE  disk'[r.file] = NoFile
    <3>1. click[c].file # r.file
      BY <1>3, <1>5, <2>0, <2>2
    <3> QED
      BY <2>1, <2>2, <3>1 DEF Puts, TypeOK
  <2>3. ASSUME NEW c \in Clicks, Puts(click[c].file, NoFile)
        PROVE  disk'[r.file] = NoFile
    BY <2>1, <2>3 DEF Puts, TypeOK
  <2>4. ASSUME NEW f \in Files, NEW content \in Handmade \union {NoFile},
               Edit(f, content), Puts(f, content)
        PROVE  disk'[r.file] = NoFile
    <3>1. r.id \in SafeIds /\ FileOf[r.id] = r.file
      BY <1>5, ReadyPlans DEF Ready, Active
    <3>2. FileOf[r.id] = f => r.id \in trail'.edited
      BY <2>4, <3>1 DEF Edit, TypeOK, Trails
    <3>3. r.file # f
      BY <1>5, <3>1, <3>2
    <3> QED
      BY <2>1, <2>4, <3>3 DEF Puts, TypeOK
  <2>5. CASE UNCHANGED disk
    BY <2>1, <2>5
  <2> QED
    BY <2>2, <2>3, <2>4, <2>5, DiskChanges DEF Active
<1>6. r.pc = "unlink" /\ r.op = "clean" => Foreign(trail', r.file)
  BY <1>0, <1>2, MoreForeign DEF Alone
<1>7. r.pc \in Open /\ r.id \notin trail'.twins =>
        /\ click'[d].fd = "tmp"
        /\ tmp'[r.file] = IF r.pc = "write" THEN Emptied ELSE r.content
  BY <1>0, <1>2, <1>4 DEF Alone, Grows
<1> QED
  BY <1>1, <1>5, <1>6, <1>7 DEF Alone

\* Only what is no served source's own file can be cleaned up.
LEMMA UnusableForeign ==
  ASSUME TypeOK, DiskOK(disk, trail), NEW f \in Unusable(disk)
  PROVE  Foreign(trail, f)
<1>1. f \in Files /\ disk[f] # NoFile
  BY DEF Unusable
<1>2. ASSUME Own(disk[f], f), disk[f].id \notin trail.edited PROVE FALSE
  <2> DEFINE id == disk[f].id
  <2>1. id \in Ids
    BY <1>2 DEF Own, SafeIds
  <2>2. f \in Holders(disk, id)
    BY <1>1, <1>2 DEF Own, Holders
  <2>3. First(Holders(disk, id)) \in Holders(disk, id)
    BY <2>2, FirstIsOne DEF Holders
  <2> HIDE DEF id
  <2>4. /\ f = FileOf[id] /\ First(Holders(disk, id)) = FileOf[id]
    BY <1>2, <2>1, <2>2, <2>3, HoldersFirm DEF id
  <2> QED
    BY <2>1, <2>2, <2>4 DEF Unusable
<1>3. CASE Own(disk[f], f)
  BY <1>2, <1>3 DEF Foreign, Among, Own
<1>4. CASE disk[f] \in Torn /\ Among(trail.twins, f)
  BY <1>4 DEF Foreign, Among
<1> QED
  BY <1>1, <1>3, <1>4 DEF DiskOK

\* What a click's own step leaves of its being alone.
LEMMA OwnAlone ==
  ASSUME TypeOK, PlansOK, PairsOK, AloneOK, DiskOK(disk, trail), [Next]_vars,
         NEW c \in Clicks, ClickStep(c)
  PROVE  Alone(click'[c], disk', tmp', trail')
<1> DEFINE r == click[c]
           s == click'[c]
           Goal == Alone(click'[c], disk', tmp', trail')
<1>0. /\ click \in [Clicks -> ClickRecs] /\ trail \in Trails
      /\ disk \in [Files -> Contents \union {NoFile}]
      /\ tmp \in [Files -> Contents \union {NoFile}]
  BY DEF TypeOK
<1>1. Grows(trail, trail')
  BY TrailGrows
<1>2. Alone(r, disk, tmp, trail)
  BY DEF AloneOK
<1>3. ASSUME s.pc \notin Active \union {"unlink"} PROVE Goal
  BY <1>3 DEF Alone, Open, Active
<1>4. ASSUME s = Idle PROVE Goal
  BY <1>3, <1>4 DEF Idle, Active
<1>5. ASSUME NEW id, NEW cal, BeginCreate(c, id, cal) PROVE Goal
  <2>1. CASE UNCHANGED <<click, trail>>
    BY <1>2, <1>5, <2>1 DEF BeginCreate, fileVars
  <2>2. CASE Begins(click'[c], "issue", "create", id, NoFile)
    BY <1>3, <2>2 DEF Begins, Active
  <2>3. CASE Begins(click'[c], "check", "create", id, FileOf[id])
    BY <1>3, <2>3 DEF Begins, Active
  <2> QED
    BY <1>5, <2>1, <2>2, <2>3, BeginsCreate
<1>6. ASSUME NEW id, BeginRemove(c, id) PROVE Goal
  <2>1. CASE UNCHANGED <<click, trail>>
    BY <1>2, <1>6, <2>1 DEF BeginRemove, fileVars
  <2>2. CASE Begins(click'[c], "forget", "remove", id, NoFile)
    BY <1>3, <2>2 DEF Begins, Active
  <2>3. CASE Begins(click'[c], "unlink", "remove", id, FileOf[id])
    BY <2>3 DEF Begins, Alone, Active, Open
  <2> QED
    BY <1>6, <2>1, <2>2, <2>3, BeginsRemove
<1>7. ASSUME NEW f \in Files, BeginClean(c, f) PROVE Goal
  <2>1. s.pc = "unlink" /\ s.file = f
    BY <1>7, BeginsOther DEF Begins
  <2>2. f \in Unusable(disk) /\ UNCHANGED trail
    BY <1>7 DEF BeginClean
  <2> QED
    BY <2>1, <2>2, UnusableForeign DEF Alone, Active, Open
<1>8. CASE BeginReload(c)
  BY <1>3, <1>8, BeginsOther DEF Begins, Active
<1>9. CASE Check(c)
  <2>1. CASE Into(r, s, "create")
    <3>0. ~Clash(c)
      BY <1>0, <1>9, <2>1 DEF Check, Finish, Into, Idle
    <3>1. disk[r.file] = NoFile /\ UNCHANGED disk
      BY <1>9, <3>0 DEF Check, Clash, fileVars
    <3> QED
      BY <2>1, <3>1 DEF Alone, Open, Into
  <2> QED
    BY <1>4, <1>9, <2>1, ClickTurns
<1>10. CASE Create(c)
  <2>0. r.pc = "create" /\ r.file \in Files
    BY <1>10 DEF Create, TypeOK, Sound
  <2>1. Into(r, s, "write") /\ s.fd = "tmp"
    BY <1>10, ClickTurns
  <2>2. UNCHANGED <<disk, trail>> /\ tmp'[r.file] = Emptied
    BY <1>0, <1>10, <2>0 DEF Create
  <2>3. r.id \notin trail.twins \union trail.edited => disk[r.file] = NoFile
    BY <1>2, <2>0 DEF Alone, Active
  <2> QED
    BY <2>1, <2>2, <2>3 DEF Alone, Into, Active, Open
<1>11. CASE Write(c)
  <2>0. r.pc = "write" /\ r.file \in Files /\ UNCHANGED trail
    BY <1>11 DEF Write, TypeOK, Sound
  <2>1. Into(r, s, "rename") /\ s.fd = r.fd
    BY <1>11, ClickTurns
  <2>2. ASSUME r.id \notin trail.twins
        PROVE  /\ r.fd = "tmp" /\ tmp'[r.file] = r.content /\ UNCHANGED disk
    <3>1. r.fd = "tmp" /\ tmp[r.file] = Emptied
      BY <1>2, <2>0, <2>2 DEF Alone, Open
    <3>2. \E new \in Over(tmp[r.file], r.content) : tmp' = [tmp EXCEPT ![r.file] = new]
      BY <1>11, <3>1 DEF Write
    <3>3. UNCHANGED disk
      BY <1>11, <3>1 DEF Write
    <3> QED
      BY <1>0, <2>0, <3>1, <3>2, <3>3 DEF Over
  <2>3. r.id \notin trail.twins \union trail.edited => disk[r.file] = NoFile
    BY <1>2, <2>0 DEF Alone, Active
  <2> QED
    BY <2>0, <2>1, <2>2, <2>3 DEF Alone, Into, Active, Open
<1>12. CASE Rename(c)
  BY <1>3, <1>4, <1>12, ClickTurns DEF Into, Active
<1>13. CASE Load(c)
  BY <1>3, <1>13, ClickTurns DEF Into, Active
<1>14. CASE Set(c)
  BY <1>3, <1>4, <1>14, ClickTurns DEF Into, Active, After
<1>15. CASE Unlink(c)
  BY <1>3, <1>4, <1>15, ClickTurns DEF Into, Active
<1>16. CASE WriteFails(c) \/ Issue(c) \/ IssueFails(c) \/ Forget(c) \/ RemoveFails(c)
  BY <1>4, <1>16, ClickTurns
<1> QED
  BY <1>5, <1>6, <1>7, <1>8, <1>9, <1>10, <1>11, <1>12, <1>13, <1>14, <1>15, <1>16
     DEF ClickStep

\* A click keeps its descriptor unless another one moves the same file.
LEMMA DescriptorKept ==
  ASSUME TypeOK, PlansOK, PairsOK, NEW c \in Clicks, ClickStep(c), NEW d \in Clicks,
         d # c, click[d].pc \in Open, click[d].id \notin trail.twins,
         click[d].fd = "tmp"
  PROVE  click'[d].fd = "tmp"
<1>0. click \in [Clicks -> ClickRecs]
  BY DEF TypeOK
<1>1. ASSUME click'[d] = click[d] PROVE click'[d].fd = "tmp"
  BY <1>1
<1>2. ASSUME Finish(c) PROVE click'[d] = click[d]
  BY <1>0, <1>2 DEF Finish
<1>3. ASSUME NEW pc, Go(c, pc) PROVE click'[d] = click[d]
  BY <1>0, <1>3 DEF Go
<1>4. CASE Rename(c)
  <2>1. CASE Finish(c)
    BY <1>1, <1>2, <2>1
  <2>2. CASE click' = [Outrun(Moved(c)) EXCEPT ![c].pc = "load", ![c].fd = "none"]
    <3>1. click'[d] = Outrun(Moved(c))[d]
      BY <1>0, <2>2, MovedAlike, OutrunAlike
    <3>2. click[d].file # click[c].file
      BY <1>4, OneFileTwins DEF Rename, Active, Open
    <3>3. Moved(c)[d] = click[d] /\ Moved(c) \in [Clicks -> ClickRecs]
      BY <1>0, <3>2, MovedAlike
    <3> QED
      BY <3>1, <3>3, OutrunAlike
  <2> QED
    BY <1>4, <2>1, <2>2 DEF Rename
<1>5. CASE Unlink(c)
  <2>1. CASE Finish(c)
    BY <1>1, <1>2, <2>1
  <2>2. CASE ~Finish(c)
    <3>1. click'[d] = Outrun(click)[d]
      BY <1>5, <2>2 DEF Unlink
    <3> QED
      BY <1>0, <3>1, OutrunAlike
  <2> QED
    BY <2>1, <2>2
<1>6. CASE Check(c) \/ Write(c) \/ WriteFails(c) \/ Issue(c) \/ IssueFails(c)
           \/ Forget(c) \/ RemoveFails(c)
  BY <1>1, <1>2, <1>3, <1>6 DEF Check, Write, WriteFails, Issue, IssueFails, Forget,
     RemoveFails
<1>7. ASSUME NEW r, click' = [click EXCEPT ![c] = r] \/ UNCHANGED click
      PROVE  click'[d] = click[d]
  BY <1>0, <1>7
<1>8. ASSUME NEW id \in Ids, NEW cal \in Calendars, BeginCreate(c, id, cal)
      PROVE  click'[d] = click[d]
  BY <1>7, <1>8 DEF BeginCreate
<1>9. ASSUME NEW id \in SafeIds, BeginRemove(c, id)
      PROVE  click'[d] = click[d]
  BY <1>7, <1>9 DEF BeginRemove
<1>10. CASE BeginReload(c) \/ \E f \in Files : BeginClean(c, f)
  BY <1>1, <1>7, <1>10 DEF BeginReload, BeginClean
<1>11. CASE Create(c) \/ Load(c) \/ Set(c)
  BY <1>0, <1>1, <1>2, <1>11 DEF Create, Load, Set
<1> QED
  BY <1>1, <1>4, <1>5, <1>6, <1>8, <1>9, <1>10, <1>11 DEF ClickStep

\* Every step leaves writers alone with their files.
LEMMA AloneStep ==
  ASSUME TypeOK, PlansOK, PairsOK, AloneOK, DiskOK(disk, trail), [Next]_vars
  PROVE  AloneOK'
<1>1. ASSUME NEW d \in Clicks PROVE Alone(click'[d], disk', tmp', trail')
  <2>1. CASE ClickStep(d)
    BY <2>1, OwnAlone
  <2>2. ASSUME NEW c \in Clicks, ClickStep(c), ~ClickStep(d)
        PROVE  Alone(click'[d], disk', tmp', trail')
    <3>0. c # d
      BY <2>2
    <3>1. Alike(click[d], click'[d])
      BY <2>2, <3>0, OthersAlike
    <3>2. ASSUME click[d].pc \in Open, click[d].id \notin trail'.twins
          PROVE  click'[d].fd = click[d].fd
      <4>1. click[d].id \notin trail.twins
        BY <3>2, TrailGrows DEF Grows
      <4>2. click[d].fd = "tmp"
        BY <3>2, <4>1 DEF AloneOK, Alone
      <4> QED
        BY <2>2, <3>0, <3>2, <4>1, <4>2, DescriptorKept
    <3> QED
      BY <2>2, <3>1, <3>2, PassedAlone
  <2>3. ASSUME \A c \in Clicks : ~ClickStep(c)
        PROVE  Alone(click'[d], disk', tmp', trail')
    <3>1. CASE click'[d] = Idle
      BY <3>1 DEF Alone, Idle, Active, Open
    <3>2. CASE Alike(click[d], click'[d]) /\ click'[d].fd = click[d].fd
      BY <2>3, <3>2, PassedAlone
    <3> QED
      BY <2>3, <3>1, <3>2, OutsideAlike
  <2> QED
    BY <2>1, <2>2, <2>3
<1> QED
  BY <1>1 DEF AloneOK

-----------------------------------------------------------------------------
\* Everything that relates the directory to the clicks.
FilesOK ==
  /\ PlansOK /\ PairsOK /\ AloneOK
  /\ DiskOK(disk, trail) /\ TmpOK(tmp)

\* It holds of a fresh installation.
LEMMA FilesInit ==
  ASSUME Init
  PROVE  FilesOK
<1>1. /\ \A c \in Clicks : click[c] = Idle
      /\ \A f \in Files : disk[f] = NoFile /\ tmp[f] = NoFile
  BY DEF Init
<1>2. PlansOK
  BY <1>1, IdlePlanned DEF PlansOK
<1>3. PairsOK /\ AloneOK
  BY <1>1 DEF PairsOK, Pair, AloneOK, Alone, Idle, Open, Active
<1>4. DiskOK(disk, trail) /\ TmpOK(tmp)
  BY <1>1 DEF DiskOK, TmpOK
<1> QED
  BY <1>2, <1>3, <1>4 DEF FilesOK

\* Every step keeps it.
LEMMA FilesStep ==
  ASSUME TypeOK, FilesOK, [Next]_vars
  PROVE  FilesOK'
<1>1. PlansOK' /\ PairsOK' /\ AloneOK'
  BY PlansStep, PairsStep, AloneStep DEF FilesOK
<1>2. DiskOK(disk', trail')
  BY DiskStep DEF FilesOK
<1>3. TmpOK(tmp')
  BY TmpStep DEF FilesOK
<1> QED
  BY <1>1, <1>2, <1>3 DEF FilesOK

\* It holds of every state.
LEMMA FilesInvariant == Spec => [](TypeOK /\ FilesOK)
<1>1. Init => FilesOK
  BY FilesInit
<1>2. TypeOK /\ FilesOK /\ [Next]_vars => FilesOK'
  BY FilesStep
<1> QED
  BY <1>1, <1>2, SourcesTyped, PTL DEF Spec

\* No crash and no failure leaves a half-written file under a profile's name.
THEOREM NothingHalfWritten == Spec => []NeverHalfWritten
<1>1. FilesOK => NeverHalfWritten
  <2> SUFFICES ASSUME FilesOK, NEW f \in Files, disk[f] \in Torn
               PROVE  \/ disk[f] \in trail.placed
                      \/ Among(trail.twins, f)
    BY DEF NeverHalfWritten, Among
  <2>1. disk[f] # NoFile
    BY TornFiles, ContentsAssumption
  <2>2. ~Own(disk[f], f)
    BY TornUseless DEF Own
  <2> QED
    BY <2>1, <2>2 DEF FilesOK, DiskOK
<1> QED
  BY <1>1, FilesInvariant, PTL

\* A source's file stays until its source is removed.
THEOREM FilesStay == Spec => FilesKept
<1>1. TypeOK /\ FilesOK /\ [Next]_vars =>
        \A f \in Files :
          disk'[f] # disk[f] /\ disk[f] # NoFile
          => \/ spent'.mishaps > spent.mishaps
             \/ Excused(f)
             \/ \E c \in Clicks :
                  /\ click[c].pc = "unlink" /\ click[c].file = f
                  /\ click[c].op = "remove" /\ disk[f].id = click[c].id
  <2> SUFFICES ASSUME TypeOK, FilesOK, [Next]_vars, NEW f \in Files,
                      disk'[f] # disk[f], disk[f] # NoFile
               PROVE  \/ spent'.mishaps > spent.mishaps
                      \/ Excused(f)
                      \/ \E c \in Clicks :
                           /\ click[c].pc = "unlink" /\ click[c].file = f
                           /\ click[c].op = "remove" /\ disk[f].id = click[c].id
    OBVIOUS
  <2> USE DEF FilesOK
  <2>0. ASSUME NEW g, NEW v, Puts(g, v) PROVE f = g
    BY <2>0 DEF Puts, TypeOK
  <2>1. ASSUME NEW id \in SafeIds, FileOf[id] = f, id \in trail.twins \union trail.edited
        PROVE  Excused(f)
    BY <2>1 DEF Excused
  <2>2. ASSUME NEW c \in Clicks, click[c].pc = "rename",
               NEW v, Puts(click[c].file, v)
        PROVE  Excused(f)
    <3>1. click[c].id \in SafeIds /\ FileOf[click[c].id] = f
      BY <2>0, <2>2, ReadyPlans DEF Ready
    <3>2. click[c].id \in trail.twins \union trail.edited
      BY <2>0, <2>2 DEF AloneOK, Alone, Active
    <3> QED
      BY <2>1, <3>1, <3>2
  <2>3. ASSUME NEW c \in Clicks, click[c].pc = "write", click[c].fd = "path",
               NEW v, Puts(click[c].file, v)
        PROVE  Excused(f)
    <3>1. click[c].id \in SafeIds /\ FileOf[click[c].id] = f
      BY <2>0, <2>3, ReadyPlans DEF Ready
    <3>2. click[c].id \in trail.twins
      BY <2>3 DEF AloneOK, Alone, Open
    <3> QED
      BY <2>1, <3>1, <3>2
  <2>4. ASSUME NEW c \in Clicks, click[c].pc = "unlink", Puts(click[c].file, NoFile)
        PROVE  \/ Excused(f)
               \/ /\ click[c].pc = "unlink" /\ click[c].file = f
                  /\ click[c].op = "remove" /\ disk[f].id = click[c].id
    <3>1. click[c].file = f
      BY <2>0, <2>4
    <3>2. CASE Own(disk[f], f) /\ click[c].op = "remove"
      <4>1. click[c].id \in SafeIds /\ f = FileOf[click[c].id]
        BY <2>4, <3>1, <3>2 DEF PlansOK, Planned
      <4>2. disk[f].id = click[c].id
        BY <3>2, <4>1, OneSourcePerFile DEF Own
      <4> QED
        BY <2>4, <3>1, <3>2, <4>2
    <3>3. CASE Own(disk[f], f) /\ click[c].op = "clean"
      <4>1. Foreign(trail, f)
        BY <2>4, <3>1, <3>3 DEF AloneOK, Alone
      <4> QED
        BY <3>3, <4>1 DEF Own, Foreign, Among, Excused
    <3>4. CASE Among(trail.twins, f)
      BY <3>4 DEF Among, Excused
    <3>5. CASE disk[f].id \in trail.edited
      BY <3>5 DEF Excused
    <3> QED
      BY <2>4, <3>2, <3>3, <3>4, <3>5 DEF DiskOK, PlansOK, Planned
  <2>5. ASSUME NEW g \in Files, NEW content \in Handmade \union {NoFile},
               Edit(g, content)
        PROVE  spent'.mishaps > spent.mishaps
    BY <2>5 DEF Edit, Mishap, Spend, TypeOK
  <2> QED
    BY <2>2, <2>3, <2>4, <2>5, DiskChanges
<1> QED
  BY <1>1, FilesInvariant, PTL DEF Spec, FilesKept

-----------------------------------------------------------------------------
(***************************************************************************)
(* Maps and the directory: what was read from it and not outrun since is   *)
(* what it holds                                                           *)
(***************************************************************************)

\* A source whose files no two requests made together; once any did, a source
\* whose files were not edited either, since a writer that kept the file open
\* may then write what a hand has replaced.
Sure(t, id) == id \notin t.twins /\ (t.twins = {} \/ id \notin t.edited)

\* A map that agrees with the directory.
Fresh(map, dir, t) == \A id \in Ids : Sure(t, id) => map[id] = MapOf(dir)[id]

\* A click between its change of the directory and its set_profiles.
Changing(r) == r.pc \in {"load", "set"} /\ r.op # "reload"

FreshOK ==
  /\ \A c \in Clicks : click[c].pc = "set" /\ ~click[c].behind
                       => Fresh(click[c].seen, disk, trail)
  /\ preload # None /\ ~trail.handover => Fresh(preload, disk, trail)
  /\ up /\ ~trail.lagging /\ ~trail.unread /\ (\A c \in Clicks : ~Changing(click[c]))
     => Fresh(served, disk, trail)

\* Where the map a click holds, a starting process's and the served one come
\* from.
LEMMA SeenTurns ==
  ASSUME TypeOK, [Next]_vars, NEW d \in Clicks,
         click'[d].pc = "set", ~click'[d].behind
  PROVE  \/ /\ click[d].pc = "set" /\ ~click[d].behind
            /\ click'[d].seen = click[d].seen
         \/ click'[d].seen = MapOf(disk) /\ UNCHANGED disk
<1> DEFINE Goal ==
         \/ /\ click[d].pc = "set" /\ ~click[d].behind
            /\ click'[d].seen = click[d].seen
         \/ click'[d].seen = MapOf(disk) /\ UNCHANGED disk
<1>0. ASSUME Alike(click[d], click'[d]) PROVE Goal
  BY <1>0 DEF Alike, Into
<1>1. ASSUME \A c \in Clicks : ~ClickStep(c) PROVE Goal
  <2>1. click'[d] # Idle
    BY DEF Idle
  <2> QED
    BY <1>0, <1>1, <2>1, OutsideAlike
<1>2. ASSUME NEW c \in Clicks, ClickStep(c), c # d PROVE Goal
  BY <1>0, <1>2, OthersAlike
<1>3. ASSUME ClickStep(d) PROVE Goal
  <2>0. ASSUME UNCHANGED click PROVE Goal
    BY <2>0
  <2>1. ASSUME NEW id, NEW cal, BeginCreate(d, id, cal) PROVE Goal
    BY <2>0, <2>1, BeginsCreate DEF Begins
  <2>2. ASSUME NEW id, BeginRemove(d, id) PROVE Goal
    BY <2>0, <2>2, BeginsRemove DEF Begins
  <2>3. CASE BeginReload(d) \/ \E f \in Files : BeginClean(d, f)
    BY <2>3, BeginsOther DEF Begins
  <2>4. CASE Load(d)
    BY <2>4, ClickTurns DEF Load, fileVars
  <2>5. CASE Check(d)
    BY <2>5, ClickTurns DEF Into, Idle
  <2>6. CASE Create(d) \/ Write(d)
    BY <2>6, ClickTurns DEF Into
  <2>7. CASE Rename(d)
    BY <2>7, ClickTurns DEF Into, Idle
  <2>8. CASE Set(d)
    BY <2>8, ClickTurns DEF Into, Idle, After
  <2>9. CASE Unlink(d)
    BY <2>9, ClickTurns DEF Into, Idle
  <2>10. CASE WriteFails(d) \/ Issue(d) \/ IssueFails(d) \/ Forget(d) \/ RemoveFails(d)
    BY <2>10, ClickTurns DEF Idle
  <2> QED
    BY <1>3, <2>1, <2>2, <2>3, <2>4, <2>5, <2>6, <2>7, <2>8, <2>9, <2>10
       DEF ClickStep
<1> QED
  BY <1>1, <1>2, <1>3

\* What a starting process has loaded is dropped, loaded anew, or kept.
LEMMA PreloadTurns ==
  ASSUME TypeOK, [Next]_vars
  PROVE  \/ preload' = None
         \/ preload' = MapOf(disk) /\ UNCHANGED disk
         \/ UNCHANGED preload /\ (trail.handover => trail'.handover)
<1> DEFINE Goal ==
         \/ preload' = None
         \/ preload' = MapOf(disk) /\ UNCHANGED disk
         \/ UNCHANGED preload /\ (trail.handover => trail'.handover)
<1>0. trail \in Trails
  BY DEF TypeOK
<1>1. ASSUME NEW c \in Clicks, ClickStep(c) PROVE Goal
  <2>0. ASSUME NEW id, Meets(c, id) PROVE trail'.handover = trail.handover
    BY <1>0, <2>0 DEF Meets, Trails
  <2>1. ASSUME NEW id, NEW cal, BeginCreate(c, id, cal) PROVE Goal
    BY <2>0, <2>1 DEF BeginCreate, procVars
  <2>2. ASSUME NEW id, BeginRemove(c, id) PROVE Goal
    <3>1. trail'.handover = trail.handover
      BY <1>0, <2>0, <2>2 DEF BeginRemove, Trails
    <3> QED
      BY <2>2, <3>1 DEF BeginRemove, procVars
  <2>3. CASE BeginReload(c) \/ \E f \in Files : BeginClean(c, f)
    BY <2>3 DEF BeginReload, BeginClean, procVars
  <2>4. CASE Check(c) \/ Set(c) \/ Issue(c) \/ Forget(c) \/ RemoveFails(c)
    BY <1>0, <2>4 DEF Check, Set, Issue, Forget, RemoveFails, Trails, procVars
  <2>5. CASE Create(c) \/ Write(c) \/ WriteFails(c) \/ Load(c) \/ IssueFails(c)
    BY <2>5 DEF Create, Write, WriteFails, Load, IssueFails, procVars
  <2>6. CASE Rename(c) \/ Unlink(c)
    <3>1. trail.handover => trail'.handover
      BY <1>0, <2>6 DEF Rename, Overtakes, Unlink, Trails
    <3> QED
      BY <2>6, <3>1 DEF Rename, Unlink, procVars
  <2> QED
    BY <1>1, <2>1, <2>2, <2>3, <2>4, <2>5, <2>6 DEF ClickStep
<1>2. ASSUME NEW p \in Posts, PostStep(p) \/ Deliver(p) PROVE Goal
  BY <1>0, <1>2 DEF PostStep, Admit, Accept, Deliver, procVars, Trails
<1>3. CASE BeginPass \/ LockHeld \/ TakeLock \/ Crash \/ UNCHANGED vars
  BY <1>0, <1>3 DEF BeginPass, LockHeld, TakeLock, Crash, vars, procVars, Trails
<1>4. CASE BeginStart
  BY <1>4 DEF BeginStart, fileVars
<1>5. ASSUME NEW f \in Files, NEW content \in Handmade \union {NoFile},
             Edit(f, content)
      PROVE  Goal
  BY <1>0, <1>5 DEF Edit, procVars, Trails
<1> QED
  BY <1>1, <1>2, <1>3, <1>4, <1>5 DEF Next

\* Only set_profiles ends what a click has changed, unless the process ends.
LEMMA ChangingKept ==
  ASSUME TypeOK, [Next]_vars, \A c \in Clicks : ~Set(c), ~Crash,
         NEW d \in Clicks, Changing(click[d])
  PROVE  Changing(click'[d])
<1>0. ASSUME Alike(click[d], click'[d]) PROVE Changing(click'[d])
  BY <1>0 DEF Alike, Into, Changing
<1>1. ASSUME \A c \in Clicks : ~ClickStep(c) PROVE Changing(click'[d])
  BY <1>0, <1>1, OutsideAlike
<1>2. ASSUME NEW c \in Clicks, ClickStep(c), c # d PROVE Changing(click'[d])
  BY <1>0, <1>2, OthersAlike
<1>3. ASSUME ClickStep(d) PROVE Changing(click'[d])
  <2>0. click[d].pc \in {"load", "set"}
    BY DEF Changing
  <2>1. ASSUME NEW id, NEW cal, BeginCreate(d, id, cal) PROVE FALSE
    BY <2>0, <2>1 DEF BeginCreate, Begin
  <2>2. ASSUME NEW id, BeginRemove(d, id) PROVE FALSE
    BY <2>0, <2>2 DEF BeginRemove, Begin
  <2>3. CASE BeginReload(d) \/ \E f \in Files : BeginClean(d, f)
    BY <2>0, <2>3 DEF BeginReload, BeginClean, Begin
  <2>4. CASE Load(d)
    BY <2>4, ClickTurns DEF Into, Changing
  <2>5. CASE \/ Check(d) \/ Create(d) \/ Write(d) \/ Rename(d) \/ WriteFails(d)
             \/ Issue(d) \/ IssueFails(d) \/ Unlink(d) \/ Forget(d) \/ RemoveFails(d)
    BY <2>0, <2>5 DEF Check, Create, Write, Rename, WriteFails, Writing, Issue,
       IssueFails, Unlink, Forget, RemoveFails
  <2> QED
    BY <1>3, <2>1, <2>2, <2>3, <2>4, <2>5 DEF ClickStep
<1> QED
  BY <1>1, <1>2, <1>3

\* Nothing but a set_profiles, a start and a crash changes what is served.
LEMMA ServedTurns ==
  ASSUME TypeOK, [Next]_vars, ~Crash, ~TakeLock, \A c \in Clicks : ~Set(c)
  PROVE  /\ UNCHANGED <<served, up>>
         /\ trail'.lagging = trail.lagging
         /\ trail.unread => trail'.unread \/ ~up
<1> DEFINE Goal ==
         /\ UNCHANGED <<served, up>>
         /\ trail'.lagging = trail.lagging
         /\ trail.unread => trail'.unread \/ ~up
<1>0. trail \in Trails /\ up \in BOOLEAN
  BY DEF TypeOK
<1>1. ASSUME NEW c \in Clicks, ClickStep(c) PROVE Goal
  <2>0. ASSUME NEW id, Meets(c, id)
        PROVE  trail'.lagging = trail.lagging /\ trail'.unread = trail.unread
    BY <1>0, <2>0 DEF Meets, Trails
  <2>1. ASSUME NEW id, NEW cal, BeginCreate(c, id, cal) PROVE Goal
    BY <2>0, <2>1 DEF BeginCreate, procVars
  <2>2. ASSUME NEW id, BeginRemove(c, id) PROVE Goal
    <3>1. trail'.lagging = trail.lagging /\ trail'.unread = trail.unread
      BY <1>0, <2>0, <2>2 DEF BeginRemove, Trails
    <3> QED
      BY <2>2, <3>1 DEF BeginRemove, procVars
  <2>3. CASE BeginReload(c) \/ \E f \in Files : BeginClean(c, f)
    BY <2>3 DEF BeginReload, BeginClean, procVars
  <2>4. CASE Check(c) \/ Issue(c) \/ Forget(c) \/ RemoveFails(c)
    <3>1. trail'.lagging = trail.lagging /\ trail'.unread = trail.unread
      BY <1>0, <2>4 DEF Check, Issue, Forget, RemoveFails, Trails
    <3> QED
      BY <2>4, <3>1 DEF Check, Issue, Forget, RemoveFails, procVars
  <2>5. CASE Create(c) \/ Write(c) \/ WriteFails(c) \/ Load(c) \/ IssueFails(c)
    BY <2>5 DEF Create, Write, WriteFails, Load, IssueFails, procVars
  <2>6. CASE Rename(c) \/ Unlink(c)
    <3>1. trail'.lagging = trail.lagging /\ trail'.unread = trail.unread
      BY <1>0, <2>6 DEF Rename, Overtakes, Unlink, Trails
    <3> QED
      BY <2>6, <3>1 DEF Rename, Unlink, procVars
  <2> QED
    BY <1>1, <2>1, <2>2, <2>3, <2>4, <2>5, <2>6 DEF ClickStep
<1>2. ASSUME NEW p \in Posts, PostStep(p) \/ Deliver(p) PROVE Goal
  BY <1>0, <1>2 DEF PostStep, Admit, Accept, Deliver, procVars, Trails
<1>3. CASE BeginPass \/ BeginStart \/ LockHeld \/ UNCHANGED vars
  BY <1>0, <1>3 DEF BeginPass, BeginStart, LockHeld, vars, procVars, Trails
<1>4. ASSUME NEW f \in Files, NEW content \in Handmade \union {NoFile},
             Edit(f, content)
      PROVE  Goal
  BY <1>0, <1>4 DEF Edit, procVars, Trails
<1> QED
  BY <1>1, <1>2, <1>3, <1>4 DEF Next

\* Everything that was read before now is outrun, or will be read again.
Outdone ==
  /\ \A d \in Clicks : click'[d].pc = "set" => click'[d].behind
  /\ preload' # None => trail'.handover
  /\ up' => trail'.unread \/ \E c \in Clicks : Changing(click'[c])

\* A source's profile changes only with its own file, while no hand edits it.
LEMMA OtherFileSame ==
  ASSUME NEW dir \in [Files -> Contents \union {NoFile}],
         NEW dir2 \in [Files -> Contents \union {NoFile}],
         NEW t, DiskOK(dir, t), DiskOK(dir2, t), NEW id \in Ids, id \notin t.edited,
         id \in SafeIds => dir2[FileOf[id]] = dir[FileOf[id]]
  PROVE  /\ There(dir2, id) <=> There(dir, id)
         /\ MapOf(dir2)[id] = MapOf(dir)[id]
<1>1. There(dir2, id) <=> There(dir, id)
  BY DEF There, Holders
<1> QED
  BY <1>1, MapFirm DEF There

\* What a change of the directory does to what was read of it.
LEMMA MapTurns ==
  ASSUME TypeOK, TypeOK', FilesOK, FilesOK', [Next]_vars
  PROVE  \/ \A id \in Ids : Sure(trail', id) => MapOf(disk')[id] = MapOf(disk)[id]
         \/ Outdone
<1>0. /\ click \in [Clicks -> ClickRecs]
      /\ disk \in [Files -> Contents \union {NoFile}]
      /\ disk' \in [Files -> Contents \union {NoFile}]
      /\ trail \in Trails /\ up \in BOOLEAN
  BY DEF TypeOK
<1> USE DEF FilesOK
<1>1. CASE UNCHANGED disk
  BY <1>1
<1>2. ASSUME NEW c \in Clicks, ClickStep(c), click[c].pc = "rename",
             disk' # disk
      PROVE  Outdone
  <2>0. Rename(c)
    BY <1>2 DEF ClickStep, BeginCreate, BeginRemove, BeginReload, BeginClean, Begin,
       Check, Create, Write, WriteFails, Load, Set, Issue, IssueFails, Unlink, Forget,
       RemoveFails, fileVars
  <2>1. /\ click' = [Outrun(Moved(c)) EXCEPT ![c].pc = "load", ![c].fd = "none"]
        /\ Overtakes /\ UNCHANGED preload
    BY <1>2, <2>0 DEF Rename, fileVars, procVars
  <2>2. Outrun(Moved(c)) \in [Clicks -> ClickRecs] /\ Moved(c) \in [Clicks -> ClickRecs]
    BY <1>0, MovedAlike, OutrunAlike
  <2>3. ASSUME NEW d \in Clicks, d # c, click'[d].pc = "set" PROVE click'[d].behind
    <3>1. click'[d] = Outrun(Moved(c))[d]
      BY <2>1, <2>2, <2>3
    <3> QED
      BY <2>2, <2>3, <3>1, OutrunAlike
  <2>4. Into(click[c], click'[c], "load")
    <3>1. click'[c].pc = "load"
      BY <2>1, <2>2 DEF ClickRecs
    <3> QED
      BY <2>0, <3>1, ClickTurns DEF Idle
  <2>5. Changing(click'[c]) /\ click'[c].pc # "set"
    BY <1>2, <2>4 DEF Changing, Into, PlansOK, Planned, Ready
  <2>6. preload' # None => trail'.handover
    BY <1>0, <2>1 DEF Overtakes, Trails
  <2> QED
    BY <2>3, <2>5, <2>6 DEF Outdone
<1>3. ASSUME NEW c \in Clicks, ClickStep(c), click[c].pc = "write",
             click[c].fd = "path", NEW v, Puts(click[c].file, v)
      PROVE  \A id \in Ids : Sure(trail', id) => MapOf(disk')[id] = MapOf(disk)[id]
  <2>1. Grows(trail, trail')
    BY TrailGrows
  <2>2. /\ click[c].id \in trail.twins /\ click[c].id \in SafeIds
        /\ FileOf[click[c].id] = click[c].file
    BY <1>3, ReadyPlans DEF AloneOK, Alone, Open, Ready
  <2>3. ASSUME NEW id \in Ids, Sure(trail', id)
        PROVE  MapOf(disk')[id] = MapOf(disk)[id]
    <3>1. id # click[c].id /\ id \notin trail'.edited
      BY <2>1, <2>2, <2>3 DEF Grows, Sure
    <3>2. ASSUME id \in SafeIds PROVE disk'[FileOf[id]] = disk[FileOf[id]]
      <4>1. FileOf[id] # click[c].file
        BY <2>2, <3>1, <3>2, OneSourcePerFile
      <4> QED
        BY <1>0, <1>3, <4>1 DEF Puts
    <3>3. DiskOK(disk, trail') /\ DiskOK(disk', trail')
      BY <2>1, MoreDisk
    <3> QED
      BY <1>0, <3>1, <3>2, <3>3, OtherFileSame
  <2> QED
    BY <2>3
<1>4. ASSUME NEW c \in Clicks, ClickStep(c), click[c].pc = "unlink",
             disk' # disk
      PROVE  Outdone
  <2> DEFINE f == click[c].file
  <2>0. Unlink(c)
    BY <1>4 DEF ClickStep, BeginCreate, BeginRemove, BeginReload, BeginClean, Begin,
       Check, Create, Write, WriteFails, Load, Set, Issue, IssueFails, Rename, Forget,
       RemoveFails, fileVars
  <2>1. /\ click' = [d \in Clicks |->
             IF d = c THEN [click[c] EXCEPT !.pc = "load"]
             ELSE IF click[d].file = f /\ click[d].fd = "path"
                  THEN [click[d] EXCEPT !.fd = "gone"]
             ELSE Outrun(click)[d]]
        /\ trail' = [trail EXCEPT
             !.handover = @ \/ preload # None,
             !.edited = IF click[c].op = "clean" THEN @ \union {disk[f].id} ELSE @]
        /\ UNCHANGED preload
    BY <1>4, <2>0 DEF Unlink, procVars
  <2>2. ASSUME NEW d \in Clicks, d # c, click'[d].pc = "set" PROVE click'[d].behind
    <3>1. CASE click[d].file = f /\ click[d].fd = "path"
      <4>1. click[d].pc \in Open
        BY <3>1 DEF PlansOK, Planned
      <4>2. click'[d].pc = click[d].pc
        BY <1>0, <2>1, <2>2, <3>1 DEF ClickRecs
      <4> QED
        BY <2>2, <4>1, <4>2 DEF Open
    <3>2. CASE ~(click[d].file = f /\ click[d].fd = "path")
      <4>1. click'[d] = Outrun(click)[d]
        BY <2>1, <2>2, <3>2
      <4> QED
        BY <1>0, <2>2, <4>1, OutrunAlike
    <3> QED
      BY <3>1, <3>2
  <2>3. click'[c].pc = "load" /\ click'[c].op = click[c].op
    BY <1>0, <2>1 DEF ClickRecs
  <2>4. Changing(click'[c])
    BY <1>4, <2>3 DEF Changing, PlansOK, Planned
  <2>5. preload' # None => trail'.handover
    BY <1>0, <2>1 DEF Trails
  <2> QED
    BY <2>2, <2>3, <2>4, <2>5 DEF Outdone
<1>5. ASSUME NEW f \in Files, NEW content \in Handmade \union {NoFile},
             Edit(f, content)
      PROVE  Outdone
  <2>1. /\ click' = Outrun(click) /\ UNCHANGED <<preload, up>>
        /\ trail'.handover = (trail.handover \/ preload # None)
        /\ trail'.unread = up
    BY <1>0, <1>5 DEF Edit, procVars, Trails
  <2> QED
    BY <1>0, <2>1, OutrunAlike DEF Outdone
<1> QED
  BY <1>1, <1>2, <1>3, <1>4, <1>5, DiskChanges

\* Every step leaves maps that are not outrun in step with the directory.
LEMMA FreshStep ==
  ASSUME TypeOK, TypeOK', FilesOK, FilesOK', FreshOK, [Next]_vars
  PROVE  FreshOK'
<1>0. Grows(trail, trail') /\ trail \in Trails
  BY TrailGrows DEF TypeOK
<1>1. ASSUME NEW id, Sure(trail', id) PROVE Sure(trail, id)
  BY <1>0, <1>1 DEF Sure, Grows
<1>2. CASE \A id \in Ids : Sure(trail', id) => MapOf(disk')[id] = MapOf(disk)[id]
  <2>1. ASSUME NEW m, Fresh(m, disk, trail) PROVE Fresh(m, disk', trail')
    BY <1>1, <1>2, <2>1 DEF Fresh
  <2>2. UNCHANGED disk => Fresh(MapOf(disk), disk', trail')
    BY DEF Fresh
  <2>3. ASSUME NEW d \in Clicks, click'[d].pc = "set", ~click'[d].behind
        PROVE  Fresh(click'[d].seen, disk', trail')
    BY <2>1, <2>2, <2>3, SeenTurns DEF FreshOK
  <2>4. ASSUME preload' # None, ~trail'.handover PROVE Fresh(preload', disk', trail')
    BY <2>1, <2>2, <2>4, PreloadTurns DEF FreshOK
  <2>5. ASSUME up', ~trail'.lagging, ~trail'.unread,
               \A c \in Clicks : ~Changing(click'[c])
        PROVE  Fresh(served', disk', trail')
    <3>1. CASE Crash
      BY <2>5, <3>1 DEF Crash
    <3>2. CASE TakeLock
      <4>1. served' = preload /\ preload # None /\ trail'.lagging = trail.handover
        BY <1>0, <3>2 DEF TakeLock, Trails
      <4> QED
        BY <2>1, <2>5, <4>1 DEF FreshOK
    <3>3. ASSUME NEW c \in Clicks, Set(c) PROVE Fresh(served', disk', trail')
      <4>1. /\ click[c].pc = "set" /\ served' = click[c].seen
            /\ trail'.lagging = click[c].behind
        BY <1>0, <3>3 DEF Set, Trails
      <4> QED
        BY <2>1, <2>5, <4>1 DEF FreshOK
    <3>4. CASE ~Crash /\ ~TakeLock /\ \A c \in Clicks : ~Set(c)
      <4>1. UNCHANGED <<served, up>> /\ ~trail.lagging /\ ~trail.unread /\ up
        BY <2>5, <3>4, ServedTurns
      <4>2. \A c \in Clicks : ~Changing(click[c])
        BY <2>5, <3>4, ChangingKept
      <4>3. Fresh(served, disk, trail)
        BY <4>1, <4>2 DEF FreshOK
      <4>4. Fresh(served, disk', trail')
        BY <2>1, <4>3
      <4> QED
        BY <4>1, <4>4
    <3> QED
      BY <3>1, <3>2, <3>3, <3>4
  <2> QED
    BY <2>3, <2>4, <2>5 DEF FreshOK
<1>3. CASE Outdone
  BY <1>3 DEF Outdone, FreshOK
<1> QED
  BY <1>2, <1>3, MapTurns

\* What is said to be fresh is, in every state.
LEMMA FreshInvariant == Spec => []FreshOK
<1>1. Init => FreshOK
  BY DEF Init, FreshOK, Idle
<1>2. TypeOK /\ TypeOK' /\ FilesOK /\ FilesOK' /\ FreshOK /\ [Next]_vars => FreshOK'
  BY FreshStep
<1> QED
  BY <1>1, <1>2, SourcesTyped, FilesInvariant, PTL DEF Spec

\* The map in memory is the directory, whatever requests, failures and starts
\* came before, but for the intervals it names.
THEOREM ServedIsTheDisk == Spec => []ServedIsDisk
<1>1. TypeOK /\ FreshOK => ServedIsDisk
  <2> SUFFICES ASSUME TypeOK, FreshOK, up, ~trail.lagging, ~trail.unread,
                      trail.twins = {},
                      \A c \in Clicks :
                        ~(click[c].pc \in {"load", "set"} /\ click[c].op # "reload")
               PROVE  served = MapOf(disk)
    BY DEF ServedIsDisk
  <2>1. Fresh(served, disk, trail)
    BY DEF FreshOK, Changing
  <2>2. \A id \in Ids : served[id] = MapOf(disk)[id]
    BY <2>1 DEF Fresh, Sure
  <2>3. served \in Maps /\ MapOf(disk) \in Maps
    BY MapOfTyped DEF TypeOK
  <2> QED
    BY <2>2, <2>3 DEF Maps
<1> QED
  BY <1>1, SourcesTyped, FreshInvariant, PTL

-----------------------------------------------------------------------------
(***************************************************************************)
(* The two halves of a source and the posts that wait for it: what is      *)
(* served, what its file holds, whether the kit has its client             *)
(***************************************************************************)

\* A source that was not made twice at a time nor edited by hand.
Firm(t, id) == id \notin t.twins /\ id \notin t.edited

\* A process whose map is not behind.
Live(u, t) == u /\ ~t.lagging

At(r, id, op, pcs) == r.id = id /\ r.op = op /\ r.pc \in pcs

\* A removal between its unlink and its set_profiles, and up to its forgetting
\* the client.
Leaving(clk, id) == \E c \in Clicks : At(clk[c], id, "remove", {"load", "set"})
Going(clk, id) == \E c \in Clicks : At(clk[c], id, "remove", {"load", "set", "forget"})

\* A post that is let in and did not cross a removal.
Waiting(q, p, t) == q.pc \in {"posting", "pending"} /\ p \notin t.crossed

\* What is served is there, or is being removed.
TheirsOK ==
  \A id \in Ids :
    Firm(trail, id) /\ Live(up, trail) /\ served[id] # None
    => There(disk, id) \/ Leaving(click, id)

\* The profile of what waits is there and served, and nothing removes it.
WaitersOK ==
  \A id \in Ids, p \in Posts :
    Firm(trail, id) /\ Waiting(post[p], p, trail) /\ post[p].id = id =>
      /\ There(disk, id)
      /\ Live(up, trail) => served[id] # None
      /\ \A c \in Clicks : ~At(click[c], id, "remove", {"unlink", "load", "set"})

\* A source that is made has its file from the rename on, is served before its
\* client is issued, and the client has both until it is removed.
HalvesOK ==
  \A id \in Ids :
    Firm(trail, id) /\ id \notin trail.unpaired =>
      /\ \A c \in Clicks :
           At(click[c], id, "create", {"load", "set", "issue"}) => There(disk, id)
      /\ \A c \in Clicks :
           At(click[c], id, "create", {"issue"}) /\ Live(up, trail)
           => served[id] # None
      /\ id \in clients \ trail.imported =>
           /\ There(disk, id) \/ Going(click, id)
           /\ Live(up, trail) => served[id] # None \/ Going(click, id)

\* A source's file goes only when it is removed.
LEMMA ThereStep ==
  ASSUME TypeOK, FilesOK, [Next]_vars, NEW id \in Ids, Firm(trail', id),
         There(disk, id), ~There(disk', id)
  PROVE  \E c \in Clicks :
           /\ At(click[c], id, "remove", {"unlink"})
           /\ At(click'[c], id, "remove", {"load"})
<1> DEFINE f == FileOf[id]
<1> USE DEF FilesOK
<1>0. /\ id \in SafeIds /\ f \in Files /\ disk[f] # NoFile /\ disk[f].id = id
      /\ id \notin trail.twins /\ id \notin trail.edited
  BY TrailGrows DEF There, Holders, Firm, Grows
<1>1. disk'[f] # disk[f]
  BY DEF There, Holders
<1>2. ASSUME NEW g, NEW v, Puts(g, v) PROVE f = g
  BY <1>1, <1>2 DEF Puts, TypeOK
<1>3. ASSUME NEW c \in Clicks, click[c].pc = "rename", NEW v, Puts(click[c].file, v)
      PROVE  FALSE
  <2>1. click[c].id = id
    BY <1>0, <1>2, <1>3, ReadyPlans, OneSourcePerFile DEF Ready
  <2> QED
    BY <1>0, <1>2, <1>3, <2>1 DEF AloneOK, Alone, Active
<1>4. ASSUME NEW c \in Clicks, click[c].pc = "write", click[c].fd = "path",
             NEW v, Puts(click[c].file, v)
      PROVE  FALSE
  <2>1. click[c].id = id
    BY <1>0, <1>2, <1>4, ReadyPlans, OneSourcePerFile DEF Ready
  <2> QED
    BY <1>0, <1>4, <2>1 DEF AloneOK, Alone, Open
<1>5. ASSUME NEW c \in Clicks, ClickStep(c), click[c].pc = "unlink",
             Puts(click[c].file, NoFile)
      PROVE  /\ At(click[c], id, "remove", {"unlink"})
             /\ At(click'[c], id, "remove", {"load"})
  <2>1. click[c].file = f
    BY <1>2, <1>5
  <2>2. click[c].op # "clean"
    BY <1>0, <1>5, <2>1, OneSourcePerFile DEF AloneOK, Alone, Foreign, Among
  <2>3. click[c].op = "remove" /\ click[c].id = id
    BY <1>0, <1>5, <2>1, <2>2, OneSourcePerFile DEF PlansOK, Planned
  <2>4. Unlink(c)
    BY <1>5 DEF ClickStep, BeginCreate, BeginRemove, BeginReload, BeginClean, Begin,
       Check, Create, Write, WriteFails, Writing, Load, Set, Issue, IssueFails, Rename,
       Forget, RemoveFails, Puts, TypeOK, fileVars
  <2>5. Into(click[c], click'[c], "load")
    <3>1. disk[click[c].file] # NoFile
      BY <1>0, <2>1
    <3>2. click'[c] = [click[c] EXCEPT !.pc = "load"]
      BY <2>4, <3>1 DEF Unlink
    <3>3. click[c] \in ClickRecs
      BY DEF TypeOK
    <3> QED
      BY <3>2, <3>3 DEF Into, ClickRecs
  <2> QED
    BY <1>5, <2>3, <2>5 DEF At, Into
<1>6. ASSUME NEW g \in Files, NEW content \in Handmade \union {NoFile},
             Edit(g, content), Puts(g, content)
      PROVE  FALSE
  <2>1. f = g
    BY <1>2, <1>6
  <2>2. id \in trail'.edited
    BY <1>0, <1>6, <2>1 DEF Edit, TypeOK, Trails
  <2> QED
    BY <2>2 DEF Firm
<1> QED
  BY <1>1, <1>3, <1>4, <1>5, <1>6, DiskChanges

-----------------------------------------------------------------------------
\* How the places at which the two halves matter are reached and left.

\* A removal began when no post waited, and put those under way on record.
LEMMA RemoverTurns ==
  ASSUME TypeOK, PlansOK, [Next]_vars, NEW d \in Clicks, NEW id,
         At(click'[d], id, "remove", {"unlink", "load", "set"})
  PROVE  \/ At(click[d], id, "remove", {"unlink", "load", "set"})
         \/ /\ Pending(id) = {} /\ UNCHANGED post
            /\ \A p \in Posts : post[p].pc = "posting" /\ post[p].id = id
                                => p \in trail'.crossed
<1> DEFINE Goal ==
         \/ At(click[d], id, "remove", {"unlink", "load", "set"})
         \/ /\ Pending(id) = {} /\ UNCHANGED post
            /\ \A p \in Posts : post[p].pc = "posting" /\ post[p].id = id
                                => p \in trail'.crossed
<1>0. ASSUME Alike(click[d], click'[d]) PROVE Goal
  BY <1>0 DEF Alike, Into, At
<1>1. ASSUME \A c \in Clicks : ~ClickStep(c) PROVE Goal
  <2>1. click'[d] # Idle
    BY DEF Idle, At
  <2> QED
    BY <1>0, <1>1, <2>1, OutsideAlike
<1>2. ASSUME NEW c \in Clicks, ClickStep(c), c # d PROVE Goal
  BY <1>0, <1>2, OthersAlike
<1>3. ASSUME ClickStep(d) PROVE Goal
  <2> USE DEF At
  <2>0. ASSUME UNCHANGED click PROVE Goal
    BY <2>0
  <2>1. ASSUME NEW i, NEW cal, BeginCreate(d, i, cal) PROVE Goal
    BY <2>0, <2>1, BeginsCreate DEF Begins
  <2>2. ASSUME NEW i, BeginRemove(d, i) PROVE Goal
    <3>1. CASE UNCHANGED <<click, trail>>
      BY <2>0, <3>1
    <3>2. CASE Begins(click'[d], "forget", "remove", i, NoFile)
      BY <3>2 DEF Begins
    <3>3. CASE /\ served[i] # None /\ Pending(i) = {}
               /\ Begins(click'[d], "unlink", "remove", i, FileOf[i])
               /\ trail' = [trail EXCEPT
                    !.crossed = @ \union {p \in Posts : /\ post[p].pc = "posting"
                                                        /\ post[p].id = i},
                    !.unpaired = IF Overlapping(d, i) THEN @ \union {i} ELSE @]
      <4>1. i = id
        BY <3>3 DEF Begins
      <4>2. trail'.crossed = trail.crossed \union
                 {p \in Posts : post[p].pc = "posting" /\ post[p].id = i}
        BY <3>3 DEF TypeOK, Trails
      <4>3. UNCHANGED post
        BY <2>2 DEF BeginRemove
      <4> QED
        BY <3>3, <4>1, <4>2, <4>3
    <3> QED
      BY <2>2, <3>1, <3>2, <3>3, BeginsRemove
  <2>3. CASE BeginReload(d) \/ \E f \in Files : BeginClean(d, f)
    BY <2>3, BeginsOther DEF Begins
  <2>4. CASE Check(d)
    BY <2>4, ClickTurns DEF Into, Idle
  <2>5. CASE Create(d) \/ Write(d)
    BY <2>5, ClickTurns DEF Into
  <2>6. CASE Rename(d)
    BY <2>6, ClickTurns DEF Rename, Into, Idle, PlansOK, Planned, Ready
  <2>7. CASE Load(d)
    BY <2>7, ClickTurns DEF Load, Into
  <2>8. CASE Set(d)
    <3>1. click'[d] # Idle
      BY DEF Idle
    <3>2. click[d].pc = "set"
      BY <2>8 DEF Set
    <3>3. Into(click[d], click'[d], After(click[d].op))
      BY <2>8, <3>1, ClickTurns
    <3> QED
      BY <2>8, <3>2, <3>3 DEF Into, After
  <2>9. CASE Unlink(d)
    <3>1. click'[d] # Idle
      BY DEF Idle
    <3>2. click[d].pc = "unlink"
      BY <2>9 DEF Unlink
    <3>3. Into(click[d], click'[d], "load")
      BY <2>9, <3>1, ClickTurns
    <3> QED
      BY <3>2, <3>3 DEF Into, PlansOK, Planned
  <2>10. CASE WriteFails(d) \/ Issue(d) \/ IssueFails(d) \/ Forget(d) \/ RemoveFails(d)
    BY <2>10, ClickTurns DEF Idle
  <2> QED
    BY <1>3, <2>1, <2>2, <2>3, <2>4, <2>5, <2>6, <2>7, <2>8, <2>9, <2>10
       DEF ClickStep
<1> QED
  BY <1>1, <1>2, <1>3

\* A creation came from its own rename, or began when the source was served.
LEMMA CreatorTurns ==
  ASSUME TypeOK, PlansOK, [Next]_vars, NEW d \in Clicks, NEW id,
         At(click'[d], id, "create", {"load", "set", "issue"})
  PROVE  \/ /\ At(click[d], id, "create", {"load", "set", "issue"})
            /\ click'[d].pc = "issue" => click[d].pc = "issue" \/ Set(d)
         \/ Rename(d) /\ At(click[d], id, "create", {"rename"}) /\ click'[d].pc = "load"
         \/ /\ served[id] # None /\ UNCHANGED <<disk, served, up>>
            /\ up /\ click[d].pc = "idle"
            /\ \A c \in Clicks : c # d /\ click[c].id = id /\ click[c].pc # "idle"
                                 => id \in trail'.unpaired
            /\ trail.lagging => id \in trail'.unpaired
            /\ trail'.lagging = trail.lagging
<1> DEFINE Goal ==
         \/ /\ At(click[d], id, "create", {"load", "set", "issue"})
            /\ click'[d].pc = "issue" => click[d].pc = "issue" \/ Set(d)
         \/ Rename(d) /\ At(click[d], id, "create", {"rename"}) /\ click'[d].pc = "load"
         \/ /\ served[id] # None /\ UNCHANGED <<disk, served, up>>
            /\ up /\ click[d].pc = "idle"
            /\ \A c \in Clicks : c # d /\ click[c].id = id /\ click[c].pc # "idle"
                                 => id \in trail'.unpaired
            /\ trail.lagging => id \in trail'.unpaired
            /\ trail'.lagging = trail.lagging
<1>0. ASSUME Alike(click[d], click'[d]) PROVE Goal
  BY <1>0 DEF Alike, Into, At
<1>1. ASSUME \A c \in Clicks : ~ClickStep(c) PROVE Goal
  <2>1. click'[d] # Idle
    BY DEF Idle, At
  <2> QED
    BY <1>0, <1>1, <2>1, OutsideAlike
<1>2. ASSUME NEW c \in Clicks, ClickStep(c), c # d PROVE Goal
  BY <1>0, <1>2, OthersAlike
<1>3. ASSUME ClickStep(d) PROVE Goal
  <2> USE DEF At
  <2>0. ASSUME UNCHANGED click PROVE Goal
    BY <2>0
  <2>1. ASSUME NEW i, NEW cal, BeginCreate(d, i, cal) PROVE Goal
    <3>1. CASE UNCHANGED <<click, trail>>
      BY <2>0, <3>1
    <3>2. CASE Begins(click'[d], "check", "create", i, FileOf[i])
      BY <3>2 DEF Begins
    <3>3. CASE /\ Meets(d, i) /\ served[i] # None
               /\ Begins(click'[d], "issue", "create", i, NoFile)
      <4>1. i = id
        BY <3>3 DEF Begins
      <4>2. UNCHANGED <<disk, served, up>> /\ up /\ click[d].pc = "idle"
        BY <2>1 DEF BeginCreate, Begin, fileVars, procVars
      <4>3. /\ trail'.unpaired = IF Overlapping(d, i) \/ trail.lagging
                                 THEN trail.unpaired \union {i} ELSE trail.unpaired
            /\ trail'.lagging = trail.lagging
        BY <3>3 DEF Meets, TypeOK, Trails
      <4>4. \A c \in Clicks : c # d /\ click[c].id = id /\ click[c].pc # "idle"
                                 => id \in trail'.unpaired
        BY <4>1, <4>3 DEF Overlapping
      <4> QED
        BY <3>3, <4>1, <4>2, <4>3, <4>4
    <3> QED
      BY <2>1, <3>1, <3>2, <3>3, BeginsCreate
  <2>2. ASSUME NEW i, BeginRemove(d, i) PROVE Goal
    BY <2>0, <2>2, BeginsRemove DEF Begins
  <2>3. CASE BeginReload(d) \/ \E f \in Files : BeginClean(d, f)
    BY <2>3, BeginsOther DEF Begins
  <2>4. CASE Check(d)
    BY <2>4, ClickTurns DEF Into, Idle
  <2>5. CASE Create(d) \/ Write(d)
    BY <2>5, ClickTurns DEF Into
  <2>6. CASE Rename(d)
    BY <2>6, ClickTurns DEF Rename, Into, Idle
  <2>7. CASE Load(d)
    BY <2>7, ClickTurns DEF Load, Into
  <2>8. CASE Set(d)
    <3>1. click'[d] # Idle
      BY DEF Idle
    <3>2. click[d].pc = "set"
      BY <2>8 DEF Set
    <3>3. Into(click[d], click'[d], After(click[d].op))
      BY <2>8, <3>1, ClickTurns
    <3> QED
      BY <2>8, <3>2, <3>3 DEF Into, After
  <2>9. CASE Unlink(d)
    <3>1. click'[d] # Idle
      BY DEF Idle
    <3>2. click[d].pc = "unlink"
      BY <2>9 DEF Unlink
    <3>3. Into(click[d], click'[d], "load")
      BY <2>9, <3>1, ClickTurns
    <3> QED
      BY <3>2, <3>3 DEF Into, PlansOK, Planned
  <2>10. CASE WriteFails(d) \/ Issue(d) \/ IssueFails(d) \/ Forget(d) \/ RemoveFails(d)
    BY <2>10, ClickTurns DEF Idle
  <2> QED
    BY <1>3, <2>1, <2>2, <2>3, <2>4, <2>5, <2>6, <2>7, <2>8, <2>9, <2>10
       DEF ClickStep
<1> QED
  BY <1>1, <1>2, <1>3

\* A removal goes on until its client is forgotten, or is on record.
LEMMA GoingTurns ==
  ASSUME TypeOK, [Next]_vars, NEW d \in Clicks, NEW id,
         At(click[d], id, "remove", {"load", "set", "forget"})
  PROVE  \/ At(click'[d], id, "remove", {"load", "set", "forget"})
         \/ id \notin clients'
         \/ id \in trail'.unpaired
<1> DEFINE Goal ==
         \/ At(click'[d], id, "remove", {"load", "set", "forget"})
         \/ id \notin clients'
         \/ id \in trail'.unpaired
<1>0. trail \in Trails
  BY DEF TypeOK
<1>1. ASSUME Alike(click[d], click'[d]) PROVE Goal
  BY <1>1 DEF Alike, Into, At
<1>2. ASSUME Crash PROVE Goal
  <2>1. click[d].op = "remove" /\ click[d].id = id
    BY DEF At
  <2>2. trail'.unpaired = trail.unpaired \union
          {click[c].id : c \in {e \in Clicks : click[e].op = "remove"}}
    BY <1>0, <1>2 DEF Crash, Trails
  <2> QED
    BY <2>1, <2>2
<1>3. ASSUME \A c \in Clicks : ~ClickStep(c) PROVE Goal
  BY <1>1, <1>2, <1>3, OutsideAlike
<1>4. ASSUME NEW c \in Clicks, ClickStep(c), c # d PROVE Goal
  BY <1>1, <1>4, OthersAlike
<1>5. ASSUME ClickStep(d) PROVE Goal
  <2>0. click[d].pc \in {"load", "set", "forget"} /\ click[d].op = "remove"
        /\ click[d].id = id
    BY DEF At
  <2>1. ASSUME NEW i, NEW cal, BeginCreate(d, i, cal) PROVE FALSE
    BY <2>0, <2>1 DEF BeginCreate, Begin
  <2>2. ASSUME NEW i, BeginRemove(d, i) PROVE FALSE
    BY <2>0, <2>2 DEF BeginRemove, Begin
  <2>3. CASE BeginReload(d) \/ \E f \in Files : BeginClean(d, f)
    BY <2>0, <2>3 DEF BeginReload, BeginClean, Begin
  <2>4. CASE Load(d)
    BY <2>0, <2>4, ClickTurns DEF Into, At
  <2>5. CASE Set(d)
    <3>1. Into(click[d], click'[d], "forget")
      BY <2>0, <2>5, ClickTurns DEF After
    <3> QED
      BY <2>0, <3>1 DEF Into, At
  <2>6. CASE Forget(d)
    BY <2>0, <2>6 DEF Forget
  <2>7. CASE RemoveFails(d)
    BY <1>0, <2>0, <2>7 DEF RemoveFails, Trails
  <2>8. CASE \/ Check(d) \/ Create(d) \/ Write(d) \/ Rename(d) \/ WriteFails(d)
             \/ Issue(d) \/ IssueFails(d) \/ Unlink(d)
    BY <2>0, <2>8 DEF Check, Create, Write, Rename, WriteFails, Writing, Issue,
       IssueFails, Unlink
  <2> QED
    BY <1>5, <2>1, <2>2, <2>3, <2>4, <2>5, <2>6, <2>7, <2>8 DEF ClickStep
<1> QED
  BY <1>3, <1>4, <1>5

\* It leaves the map only by set_profiles.
LEMMA LeavingTurns ==
  ASSUME TypeOK, [Next]_vars, \A c \in Clicks : ~Set(c), ~Crash,
         NEW d \in Clicks, NEW id, At(click[d], id, "remove", {"load", "set"})
  PROVE  At(click'[d], id, "remove", {"load", "set"})
<1> DEFINE Goal == At(click'[d], id, "remove", {"load", "set"})
<1>1. ASSUME Alike(click[d], click'[d]) PROVE Goal
  BY <1>1 DEF Alike, Into, At
<1>3. ASSUME \A c \in Clicks : ~ClickStep(c) PROVE Goal
  BY <1>1, <1>3, OutsideAlike
<1>4. ASSUME NEW c \in Clicks, ClickStep(c), c # d PROVE Goal
  BY <1>1, <1>4, OthersAlike
<1>5. ASSUME ClickStep(d) PROVE Goal
  <2>0. click[d].pc \in {"load", "set"} /\ click[d].op = "remove" /\ click[d].id = id
    BY DEF At
  <2>1. ASSUME NEW i, NEW cal, BeginCreate(d, i, cal) PROVE FALSE
    BY <2>0, <2>1 DEF BeginCreate, Begin
  <2>2. ASSUME NEW i, BeginRemove(d, i) PROVE FALSE
    BY <2>0, <2>2 DEF BeginRemove, Begin
  <2>3. CASE BeginReload(d) \/ \E f \in Files : BeginClean(d, f)
    BY <2>0, <2>3 DEF BeginReload, BeginClean, Begin
  <2>4. CASE Load(d)
    BY <2>0, <2>4, ClickTurns DEF Into, At
  <2>8. CASE \/ Check(d) \/ Create(d) \/ Write(d) \/ Rename(d) \/ WriteFails(d)
             \/ Issue(d) \/ IssueFails(d) \/ Unlink(d) \/ Forget(d) \/ RemoveFails(d)
    BY <2>0, <2>8 DEF Check, Create, Write, Rename, WriteFails, Writing, Issue,
       IssueFails, Unlink, Forget, RemoveFails
  <2> QED
    BY <1>5, <2>1, <2>2, <2>3, <2>4, <2>8 DEF ClickStep
<1> QED
  BY <1>3, <1>4, <1>5

\* What waits was let in, and the door found its profile served.
Admitted(q, id) ==
  /\ up /\ served[id] # None /\ q.id = id /\ q.pc = "posting"
  /\ UNCHANGED <<disk, served, up, click>> /\ trail'.lagging = trail.lagging

\* A post that waits uncrossed waited before, or was let in with no removal
\* under way.
LEMMA WaitingTurns ==
  ASSUME TypeOK, PostsOK, [Next]_vars, NEW p \in Posts, Waiting(post'[p], p, trail')
  PROVE  \/ Waiting(post[p], p, trail) /\ post'[p].id = post[p].id
         \/ \E id \in Ids : Admitted(post'[p], id) /\ ~trail.lagging /\ ~Removing(id)
<1> DEFINE Goal ==
         \/ Waiting(post[p], p, trail) /\ post'[p].id = post[p].id
         \/ \E id \in Ids : Admitted(post'[p], id) /\ ~trail.lagging /\ ~Removing(id)
<1>0. post \in [Posts -> PostRecs] /\ trail \in Trails /\ Grows(trail, trail')
  BY TrailGrows DEF TypeOK
<1>1. ASSUME post'[p] = post[p] PROVE Goal
  BY <1>0, <1>1 DEF Waiting, Grows
<1>2. ASSUME NEW c \in Clicks, ClickStep(c) PROVE Goal
  <2>1. ASSUME NEW i, NEW cal, BeginCreate(c, i, cal) PROVE UNCHANGED post
    BY <2>1 DEF BeginCreate
  <2>2. ASSUME NEW i, BeginRemove(c, i) PROVE UNCHANGED post
    BY <2>2 DEF BeginRemove
  <2>3. CASE \/ BeginReload(c) \/ Check(c) \/ Create(c) \/ Write(c) \/ Rename(c)
             \/ WriteFails(c) \/ Load(c) \/ Set(c) \/ Issue(c) \/ IssueFails(c)
             \/ Unlink(c) \/ Forget(c) \/ RemoveFails(c)
             \/ \E f \in Files : BeginClean(c, f)
    <3>1. UNCHANGED post
      BY <2>3 DEF BeginReload, Check, Create, Write, Rename, WriteFails, Load, Set,
         Issue, IssueFails, Unlink, Forget, RemoveFails, BeginClean
    <3> QED
      BY <1>1, <3>1
  <2> QED
    BY <1>1, <1>2, <2>1, <2>2, <2>3 DEF ClickStep
<1>3. ASSUME NEW q \in Posts, NEW id \in Ids, NEW caller, NEW body,
             Admit(q, id, caller, body)
      PROVE  Goal
  <2>1. CASE p # q
    BY <1>0, <1>1, <1>3, <2>1 DEF Admit
  <2>2. CASE p = q
    <3>1. post'[p].id = id /\ post'[p].pc = "posting"
      BY <1>0, <1>3, <2>2 DEF Admit
    <3>2. up /\ served[id] # None
      BY <1>3 DEF Admit, Welcome
    <3>3. ~trail.lagging /\ ~Removing(id)
      BY <1>0, <1>3, <2>2 DEF Admit, Waiting, Trails
    <3>4. UNCHANGED <<disk, served, up, click>> /\ trail'.lagging = trail.lagging
      BY <1>0, <1>3 DEF Admit, Trails, fileVars, procVars
    <3> QED
      BY <3>1, <3>2, <3>3, <3>4 DEF Admitted
  <2> QED
    BY <2>1, <2>2
<1>4. ASSUME NEW q \in Posts, Accept(q) \/ Deliver(q) PROVE Goal
  <2>1. UNCHANGED trail
    BY <1>4 DEF Accept, Deliver
  <2>2. post'[p] = post[p] \/ (q = p /\ post'[p].id = post[p].id)
    <3>1. CASE p # q
      BY <1>0, <1>4, <3>1 DEF Accept, Deliver
    <3>2. CASE p = q
      <4>1. post[p] \in PostRecs
        BY <1>0
      <4>4. CASE Accept(p)
        BY <1>0, <3>2, <4>1, <4>4 DEF Accept, PostRecs
      <4>5. CASE Deliver(p) /\ ~UNCHANGED post
        <5>1. PICK pc \in Attempts(p, wprof[post[p].id]) :
                post' = [post EXCEPT ![p].pc = pc,
                  ![p].profile = IF pc = "sent" THEN wprof[post[p].id] ELSE @]
          BY <4>5 DEF Deliver
        <5>2. CASE pc = "sent"
          BY <1>0, <3>2, <4>1, <5>1, <5>2 DEF PostRecs
        <5>3. CASE pc # "sent"
          BY <1>0, <3>2, <4>1, <5>1, <5>3 DEF PostRecs
        <5> QED
          BY <5>2, <5>3
      <4> QED
        BY <1>4, <3>2, <4>4, <4>5
    <3> QED
      BY <3>1, <3>2
  <2>3. CASE Accept(q) /\ q = p
    BY <1>0, <2>1, <2>2, <2>3 DEF Accept, Waiting
  <2>4. CASE Deliver(q) /\ q = p /\ post[p].pc = "pending"
    BY <1>0, <2>1, <2>2, <2>4 DEF Waiting
  <2>5. Deliver(q) => post[q].pc = "pending"
    BY DEF Deliver, PostsOK
  <2> QED
    BY <1>1, <1>4, <2>2, <2>3, <2>4, <2>5
<1>5. CASE BeginPass \/ BeginStart \/ LockHeld \/ TakeLock \/ UNCHANGED vars
  BY <1>1, <1>5 DEF BeginPass, BeginStart, LockHeld, TakeLock, vars
<1>6. CASE Crash
  BY <1>0, <1>1, <1>6 DEF Crash, Waiting, PostRecs
<1>7. ASSUME NEW f \in Files, NEW content \in Handmade \union {NoFile},
             Edit(f, content)
      PROVE  Goal
  BY <1>1, <1>7 DEF Edit
<1> QED
  BY <1>2, <1>3, <1>4, <1>5, <1>6, <1>7 DEF Next, PostStep
\* A client is issued by a click that made its source, or was imported.
LEMMA ClientTurns ==
  ASSUME TypeOK, [Next]_vars, NEW id \in Ids, id \in clients' \ trail'.imported
  PROVE  \/ id \in clients \ trail.imported
         \/ \E c \in Clicks : Issue(c) /\ click[c].id = id
<1> DEFINE Goal ==
         \/ id \in clients \ trail.imported
         \/ \E c \in Clicks : Issue(c) /\ click[c].id = id
<1>0. trail \in Trails
  BY DEF TypeOK
<1>1. ASSUME UNCHANGED clients, trail'.imported = trail.imported PROVE Goal
  BY <1>1
<1>2. ASSUME NEW c \in Clicks, ClickStep(c) PROVE Goal
  <2>0. ASSUME NEW i, Meets(c, i) PROVE trail'.imported = trail.imported
    BY <1>0, <2>0 DEF Meets, Trails
  <2>1. ASSUME NEW i, NEW cal, BeginCreate(c, i, cal) PROVE Goal
    BY <1>1, <2>0, <2>1 DEF BeginCreate, kitVars
  <2>2. ASSUME NEW i, BeginRemove(c, i) PROVE Goal
    <3>1. trail'.imported = trail.imported
      BY <1>0, <2>0, <2>2 DEF BeginRemove, Trails
    <3> QED
      BY <1>1, <2>2, <3>1 DEF BeginRemove, kitVars
  <2>3. CASE BeginReload(c) \/ \E f \in Files : BeginClean(c, f)
    BY <1>1, <2>3 DEF BeginReload, BeginClean, kitVars
  <2>4. CASE Check(c) \/ Set(c) \/ RemoveFails(c)
    BY <1>0, <1>1, <2>4 DEF Check, Set, RemoveFails, Trails, kitVars
  <2>5. CASE Create(c) \/ Write(c) \/ WriteFails(c) \/ Load(c) \/ IssueFails(c)
    BY <1>1, <2>5 DEF Create, Write, WriteFails, Load, IssueFails, kitVars
  <2>6. CASE Rename(c) \/ Unlink(c)
    <3>1. trail'.imported = trail.imported
      BY <1>0, <2>6 DEF Rename, Overtakes, Unlink, Trails
    <3> QED
      BY <1>1, <2>6, <3>1 DEF Rename, Unlink, kitVars
  <2>7. CASE Issue(c)
    BY <1>0, <2>7 DEF Issue, Trails
  <2>8. CASE Forget(c)
    BY <1>0, <2>8 DEF Forget, Trails
  <2> QED
    BY <1>2, <2>1, <2>2, <2>3, <2>4, <2>5, <2>6, <2>7, <2>8 DEF ClickStep
<1>3. ASSUME NEW p \in Posts, PostStep(p) \/ Deliver(p) PROVE Goal
  BY <1>0, <1>3 DEF PostStep, Admit, Accept, Deliver, kitVars, Trails
<1>4. CASE BeginPass \/ LockHeld \/ BeginStart \/ Crash \/ UNCHANGED vars
  BY <1>0, <1>4 DEF BeginPass, LockHeld, BeginStart, Crash, vars, kitVars, Trails
<1>5. CASE TakeLock
  BY <1>0, <1>5 DEF TakeLock, Trails
<1>6. ASSUME NEW f \in Files, NEW content \in Handmade \union {NoFile},
             Edit(f, content)
      PROVE  Goal
  BY <1>0, <1>6 DEF Edit, kitVars, Trails
<1> QED
  BY <1>2, <1>3, <1>4, <1>5, <1>6 DEF Next

\* A map that is not behind and was stored just now serves a source exactly
\* when its file is there; otherwise nothing of it changed.
LEMMA ServedChange ==
  ASSUME TypeOK, FilesOK, FreshOK, [Next]_vars, NEW id \in Ids,
         Firm(trail', id), Live(up', trail')
  PROVE  \/ /\ Live(up, trail) /\ UNCHANGED served
            /\ ~Crash /\ \A c \in Clicks : ~Set(c)
         \/ served'[id] # None <=> There(disk', id)
<1>0. Firm(trail, id) /\ trail \in Trails
  BY TrailGrows DEF Grows, Firm, TypeOK
<1>1. ASSUME NEW m, Fresh(m, disk, trail) PROVE m[id] # None <=> There(disk, id)
  <2>1. m[id] = MapOf(disk)[id]
    BY <1>0, <1>1 DEF Fresh, Sure, Firm
  <2>2. MapOf(disk)[id] # None <=> There(disk, id)
    BY <1>0, MapFirm DEF FilesOK, Firm, TypeOK
  <2> QED
    BY <2>1, <2>2
<1>2. CASE Crash
  BY <1>2 DEF Crash, Live
<1>3. CASE TakeLock
  <2>1. /\ served' = preload /\ preload # None /\ trail'.lagging = trail.handover
        /\ UNCHANGED disk
    BY <1>0, <1>3 DEF TakeLock, Trails, fileVars
  <2>2. Fresh(preload, disk, trail)
    BY <2>1 DEF FreshOK, Live
  <2> QED
    BY <1>1, <2>1, <2>2
<1>4. ASSUME NEW c \in Clicks, Set(c) PROVE served'[id] # None <=> There(disk', id)
  <2>1. /\ click[c].pc = "set" /\ served' = click[c].seen
        /\ trail'.lagging = click[c].behind /\ UNCHANGED disk
    BY <1>0, <1>4 DEF Set, Trails, fileVars
  <2>2. Fresh(click[c].seen, disk, trail)
    BY <2>1 DEF FreshOK, Live
  <2> QED
    BY <1>1, <2>1, <2>2
<1>5. CASE ~Crash /\ ~TakeLock /\ \A c \in Clicks : ~Set(c)
  BY <1>5, ServedTurns DEF Live
<1> QED
  BY <1>2, <1>3, <1>4, <1>5

\* Every step leaves what is served there, or being removed.
LEMMA TheirsStep ==
  ASSUME TypeOK, FilesOK, FreshOK, TheirsOK, [Next]_vars
  PROVE  TheirsOK'
<1> SUFFICES ASSUME NEW id \in Ids, Firm(trail', id), Live(up', trail'),
                    served'[id] # None
             PROVE  There(disk', id) \/ Leaving(click', id)
  BY DEF TheirsOK
<1>1. CASE served'[id] # None <=> There(disk', id)
  BY <1>1
<1>2. CASE /\ Live(up, trail) /\ UNCHANGED served
           /\ ~Crash /\ \A c \in Clicks : ~Set(c)
  <2>1. Firm(trail, id)
    BY TrailGrows DEF Grows, Firm
  <2>2. There(disk, id) \/ Leaving(click, id)
    BY <1>2, <2>1 DEF TheirsOK
  <2>3. CASE There(disk, id) /\ ~There(disk', id)
    <3>1. PICK c \in Clicks : At(click'[c], id, "remove", {"load"})
      BY <2>3, ThereStep
    <3> QED
      BY <3>1 DEF Leaving, At
  <2>4. CASE Leaving(click, id)
    <3>1. PICK c \in Clicks : At(click[c], id, "remove", {"load", "set"})
      BY <2>4 DEF Leaving
    <3>2. At(click'[c], id, "remove", {"load", "set"})
      BY <1>2, <3>1, LeavingTurns
    <3> QED
      BY <3>2 DEF Leaving
  <2> QED
    BY <2>2, <2>3, <2>4
<1> QED
  BY <1>1, <1>2, ServedChange

\* Every step leaves the profile of what waits.
LEMMA WaitersStep ==
  ASSUME TypeOK, PostsOK, FilesOK, FreshOK, TheirsOK, WaitersOK, [Next]_vars
  PROVE  WaitersOK'
<1> SUFFICES ASSUME NEW id \in Ids, NEW p \in Posts, Firm(trail', id),
                    Waiting(post'[p], p, trail'), post'[p].id = id
             PROVE  /\ There(disk', id)
                    /\ Live(up', trail') => served'[id] # None
                    /\ \A c \in Clicks :
                         ~At(click'[c], id, "remove", {"unlink", "load", "set"})
  BY DEF WaitersOK
<1>0. Firm(trail, id)
  BY TrailGrows DEF Grows, Firm
<1>1. CASE Waiting(post[p], p, trail) /\ post'[p].id = post[p].id
  <2>1. /\ There(disk, id)
        /\ Live(up, trail) => served[id] # None
        /\ \A c \in Clicks : ~At(click[c], id, "remove", {"unlink", "load", "set"})
    BY <1>0, <1>1 DEF WaitersOK
  <2>2. There(disk', id)
    <3>1. \A c \in Clicks : ~At(click[c], id, "remove", {"unlink"})
      BY <2>1 DEF At
    <3> QED
      BY <2>1, <3>1, ThereStep
  <2>3. Live(up', trail') => served'[id] # None
    BY <2>1, <2>2, ServedChange
  <2>4. ASSUME NEW c \in Clicks, At(click'[c], id, "remove", {"unlink", "load", "set"})
        PROVE  FALSE
    <3>1. /\ Pending(id) = {} /\ UNCHANGED post
          /\ \A q \in Posts : post[q].pc = "posting" /\ post[q].id = id
                              => q \in trail'.crossed
      BY <2>1, <2>4, RemoverTurns DEF FilesOK
    <3>2. post[p].pc \in {"posting", "pending"} /\ p \notin trail'.crossed
      BY <1>1 DEF Waiting
    <3>3. post[p].id = id
      BY <1>1
    <3> QED
      BY <3>1, <3>2, <3>3 DEF Pending
  <2> QED
    BY <2>2, <2>3, <2>4
<1>2. ASSUME NEW i \in Ids, Admitted(post'[p], i), ~trail.lagging, ~Removing(i)
      PROVE  /\ There(disk', id)
             /\ Live(up', trail') => served'[id] # None
             /\ \A c \in Clicks :
                  ~At(click'[c], id, "remove", {"unlink", "load", "set"})
  <2>1. i = id
    BY <1>2 DEF Admitted
  <2>2. Live(up, trail) /\ served[id] # None /\ UNCHANGED <<disk, served, click>>
    BY <1>2, <2>1 DEF Admitted, Live
  <2>3. \A c \in Clicks : ~At(click[c], id, "remove", {"unlink", "load", "set"})
    BY <1>2, <2>1 DEF Removing, At
  <2>4. ~Leaving(click, id)
    BY <2>3 DEF Leaving, At
  <2>5. There(disk, id)
    BY <1>0, <2>2, <2>4 DEF TheirsOK
  <2> QED
    BY <2>2, <2>3, <2>5
<1> QED
  BY <1>1, <1>2, WaitingTurns

\* Every step leaves the halves of a source together.
LEMMA HalvesStep ==
  ASSUME TypeOK, FilesOK, FreshOK, TheirsOK, HalvesOK, [Next]_vars
  PROVE  HalvesOK'
<1> SUFFICES ASSUME NEW id \in Ids, Firm(trail', id), id \notin trail'.unpaired
             PROVE  /\ \A d \in Clicks :
                         At(click'[d], id, "create", {"load", "set", "issue"})
                         => There(disk', id)
                    /\ \A d \in Clicks :
                         At(click'[d], id, "create", {"issue"}) /\ Live(up', trail')
                         => served'[id] # None
                    /\ id \in clients' \ trail'.imported =>
                         /\ There(disk', id) \/ Going(click', id)
                         /\ Live(up', trail') => served'[id] # None \/ Going(click', id)
  BY DEF HalvesOK
<1>0. Firm(trail, id) /\ id \notin trail.unpaired /\ trail \in Trails
  BY TrailGrows DEF Grows, Firm, TypeOK
<1>1. id # None
  BY PeopleAssumption
<1>2. ASSUME NEW d \in Clicks, At(click'[d], id, "create", {"load", "set", "issue"})
      PROVE  There(disk', id)
  <2>1. CASE At(click[d], id, "create", {"load", "set", "issue"})
    <3>1. There(disk, id)
      BY <1>0, <2>1 DEF HalvesOK
    <3>2. ASSUME NEW c \in Clicks, At(click[c], id, "remove", {"unlink"}) PROVE FALSE
      <4>1. c # d /\ click[c].id = id /\ click[d].id = id
        BY <2>1, <3>2 DEF At
      <4> QED
        BY <1>0, <1>1, <4>1 DEF FilesOK, PairsOK, Pair
    <3> QED
      BY <3>1, <3>2, ThereStep
  <2>2. CASE Rename(d) /\ At(click[d], id, "create", {"rename"}) /\ click'[d].pc = "load"
    <3> DEFINE f == click[d].file
    <3>1. click[d].pc = "rename" /\ click[d].id = id
      BY <2>2 DEF At
    <3>2. /\ f \in Files /\ Own(click[d].content, f) /\ id \in SafeIds
          /\ FileOf[id] = f /\ click[d].content.id = id
      BY <3>1, ReadyPlans DEF Ready, FilesOK, PlansOK, Planned
    <3>3. tmp[f] = click[d].content
      BY <1>0, <3>1 DEF FilesOK, AloneOK, Alone, Open, Firm
    <3>4. click[d] \in ClickRecs /\ click \in [Clicks -> ClickRecs]
      BY DEF TypeOK
    <3>5. ~Finish(d)
      BY <2>2, <3>4 DEF Finish, Idle
    <3>6. disk' = [disk EXCEPT ![f] = tmp[f]] /\ tmp[f] # NoFile
      BY <2>2, <3>5 DEF Rename
    <3>7. disk'[f] = click[d].content /\ disk'[f] # NoFile
      BY <3>2, <3>3, <3>6 DEF TypeOK
    <3> QED
      BY <3>2, <3>7 DEF There, Holders, Own
  <2>3. ASSUME served[id] # None, UNCHANGED disk, up, click[d].pc = "idle",
               \A c \in Clicks : c # d /\ click[c].id = id /\ click[c].pc # "idle"
                                 => id \in trail'.unpaired,
               trail.lagging => id \in trail'.unpaired
        PROVE  There(disk', id)
    <3>1. Live(up, trail)
      BY <2>3 DEF Live
    <3>2. ~Leaving(click, id)
      BY <2>3 DEF Leaving, At
    <3>3. There(disk, id)
      BY <1>0, <2>3, <3>1, <3>2 DEF TheirsOK
    <3> QED
      BY <2>3, <3>3
  <2> QED
    BY <1>2, <2>1, <2>2, <2>3, CreatorTurns DEF FilesOK
<1>3. ASSUME NEW d \in Clicks, At(click'[d], id, "create", {"issue"}),
             Live(up', trail')
      PROVE  served'[id] # None
  <2>0. At(click'[d], id, "create", {"load", "set", "issue"}) /\ click'[d].pc = "issue"
    BY <1>3 DEF At
  <2>1. There(disk', id)
    BY <1>2, <2>0
  <2>2. CASE served'[id] # None <=> There(disk', id)
    BY <2>1, <2>2
  <2>3. CASE /\ Live(up, trail) /\ UNCHANGED served
             /\ ~Crash /\ \A c \in Clicks : ~Set(c)
    <3>1. CASE /\ At(click[d], id, "create", {"load", "set", "issue"})
               /\ click'[d].pc = "issue" => click[d].pc = "issue" \/ Set(d)
      <4>1. At(click[d], id, "create", {"issue"})
        BY <2>0, <2>3, <3>1 DEF At
      <4> QED
        BY <1>0, <2>3, <4>1 DEF HalvesOK
    <3>2. CASE served[id] # None
      BY <2>3, <3>2
    <3> QED
      BY <2>0, <3>1, <3>2, CreatorTurns DEF FilesOK
  <2> QED
    BY <1>3, <2>2, <2>3, ServedChange
<1>4. ASSUME id \in clients' \ trail'.imported
      PROVE  /\ There(disk', id) \/ Going(click', id)
             /\ Live(up', trail') => served'[id] # None \/ Going(click', id)
  <2>1. ASSUME Going(click, id) PROVE Going(click', id)
    <3>1. PICK c \in Clicks : At(click[c], id, "remove", {"load", "set", "forget"})
      BY <2>1 DEF Going
    <3>2. At(click'[c], id, "remove", {"load", "set", "forget"})
      BY <1>4, <3>1, GoingTurns
    <3> QED
      BY <3>2 DEF Going
  <2>2. CASE id \in clients \ trail.imported
    <3>1. /\ There(disk, id) \/ Going(click, id)
          /\ Live(up, trail) => served[id] # None \/ Going(click, id)
      BY <1>0, <2>2 DEF HalvesOK
    <3>2. CASE There(disk, id) /\ ~There(disk', id)
      <4>1. PICK c \in Clicks : At(click'[c], id, "remove", {"load"})
        BY <3>2, ThereStep
      <4>2. Going(click', id)
        BY <4>1 DEF Going, At
      <4> QED
        BY <4>2
    <3>3. There(disk', id) \/ Going(click', id)
      BY <2>1, <3>1, <3>2
    <3>4. Live(up', trail') => served'[id] # None \/ Going(click', id)
      BY <2>1, <3>1, <3>3, ServedChange
    <3> QED
      BY <3>3, <3>4
  <2>3. ASSUME NEW c \in Clicks, Issue(c), click[c].id = id
        PROVE  /\ There(disk', id)
               /\ Live(up', trail') => served'[id] # None
    <3>1. At(click[c], id, "create", {"issue"})
      BY <2>3 DEF Issue, At, FilesOK, PlansOK, Planned
    <3>2. At(click[c], id, "create", {"load", "set", "issue"})
      BY <3>1 DEF At
    <3>3. There(disk, id) /\ (Live(up, trail) => served[id] # None)
      BY <1>0, <3>1, <3>2 DEF HalvesOK
    <3>4. UNCHANGED <<disk, served, up>> /\ trail'.lagging = trail.lagging
      BY <1>0, <2>3 DEF Issue, fileVars, procVars, Trails
    <3> QED
      BY <3>3, <3>4 DEF Live
  <2> QED
    BY <1>4, <2>2, <2>3, ClientTurns
<1> QED
  BY <1>2, <1>3, <1>4

\* The three hold together.
TogetherOK == TheirsOK /\ WaitersOK /\ HalvesOK

\* The three hold of every state.
LEMMA TogetherInvariant == Spec => []TogetherOK
<1>1. Init => TogetherOK
  <2> SUFFICES ASSUME Init PROVE TogetherOK
    OBVIOUS
  <2>1. TheirsOK
    BY DEF Init, TheirsOK, Live
  <2>2. WaitersOK
    BY DEF Init, WaitersOK, Waiting
  <2>3. HalvesOK
    BY DEF Init, HalvesOK, At, Idle
  <2> QED
    BY <2>1, <2>2, <2>3 DEF TogetherOK
<1>2. TypeOK /\ PostsOK /\ FilesOK /\ FreshOK /\ TogetherOK /\ [Next]_vars => TogetherOK'
  <2> SUFFICES ASSUME TypeOK, PostsOK, FilesOK, FreshOK, TogetherOK, [Next]_vars
               PROVE  TogetherOK'
    OBVIOUS
  <2>1. TheirsOK' /\ WaitersOK' /\ HalvesOK'
    BY TheirsStep, WaitersStep, HalvesStep DEF TogetherOK
  <2> QED
    BY <2>1 DEF TogetherOK
<1> QED
  BY <1>1, <1>2, SourcesInvariant, FilesInvariant, FreshInvariant, PTL DEF Spec

\* An accepted entry is left without a profile only by a race or by hand.
THEOREM OrphansAreRaces == Spec => []OrphansOnlyFromRaces
<1>1. TypeOK /\ PostsOK /\ TogetherOK => OrphansOnlyFromRaces
  <2> SUFFICES ASSUME PostsOK, WaitersOK, up, NEW p \in Posts,
                      post[p].pc = "pending", served[post[p].id] = None,
                      p \notin trail.crossed, ~trail.lagging,
                      post[p].id \notin trail.edited \union trail.twins
               PROVE  FALSE
    BY DEF OrphansOnlyFromRaces, TogetherOK
  <2>1. post[p].id \in Ids
    BY DEF PostsOK, Held
  <2> QED
    BY <2>1 DEF WaitersOK, Firm, Live, Waiting
<1> QED
  BY <1>1, SourcesInvariant, TogetherInvariant, PTL

\* A client has a profile that is served.
THEOREM ClientsHaveProfiles == Spec => []IssuedWithProfile
<1>1. TypeOK /\ TogetherOK => IssuedWithProfile
  <2> SUFFICES ASSUME TypeOK, HalvesOK, up, NEW id \in clients,
                      served[id] = None,
                      ~\E c \in Clicks : click[c].id = id,
                      ~trail.lagging,
                      id \notin trail.unpaired \union trail.edited \union trail.twins,
                      id \notin trail.imported
               PROVE  FALSE
    BY DEF IssuedWithProfile, TogetherOK
  <2>1. id \in Ids
    BY DEF TypeOK
  <2>2. ~Going(click, id)
    BY DEF Going, At
  <2> QED
    BY <2>1, <2>2 DEF HalvesOK, Firm, Live
<1> QED
  BY <1>1, SourcesTyped, TogetherInvariant, PTL

-----------------------------------------------------------------------------
(***************************************************************************)
(* The worker: a profile that the dashboard did not write is a hand's      *)
(***************************************************************************)

\* A profile that the dashboard wrote, or that a hand placed for its source.
Handed(file, id, t) ==
  file \in Made \/ (file \in t.placed /\ id \in t.edited)

MapHanded(m, t) == \A id \in Ids : m[id] # None => Handed(m[id], id, t)

Hanging(r) == r.pc \in {"posting", "pending"}

HandsOK ==
  /\ MapHanded(served, trail) /\ MapHanded(wprof, trail)
  /\ preload # None => MapHanded(preload, trail)
  /\ \A c \in Clicks : click[c].pc = "set" => MapHanded(click[c].seen, trail)
  /\ \A p \in Posts :
       Hanging(post[p]) => Handed(post[p].profile, post[p].id, trail)

\* The directory is read into such a map.
LEMMA LoadedHanded ==
  ASSUME TypeOK, FilesOK
  PROVE  MapHanded(MapOf(disk), trail)
<1> SUFFICES ASSUME NEW id \in Ids, MapOf(disk)[id] # None
             PROVE  Handed(MapOf(disk)[id], id, trail)
  BY DEF MapHanded
<1> DEFINE f == First(Holders(disk, id))
<1>1. Holders(disk, id) # {} /\ MapOf(disk)[id] = disk[f]
  BY DEF MapOf
<1>2. Holders(disk, id) \subseteq Files
  BY DEF Holders
<1>3. f \in Holders(disk, id)
  BY <1>1, <1>2, FirstIsOne
<1>4. f \in Files /\ disk[f] # NoFile /\ Usable(disk[f]) /\ disk[f].id = id
  BY <1>3 DEF Holders
<1>5. disk[f] \notin Torn
  BY <1>4, TornUseless DEF Usable
<1> QED
  BY <1>1, <1>4, <1>5 DEF FilesOK, DiskOK, Own, Handed

\* A post that waits waited before, or was let in under what was served.
LEMMA PostTurns ==
  ASSUME TypeOK, PostsOK, [Next]_vars, NEW p \in Posts, Hanging(post'[p])
  PROVE  \/ /\ Hanging(post[p])
            /\ post'[p].id = post[p].id /\ post'[p].profile = post[p].profile
         \/ \E id \in Ids : /\ served[id] # None
                            /\ post'[p].id = id /\ post'[p].profile = served[id]
<1> DEFINE Goal ==
         \/ /\ Hanging(post[p])
            /\ post'[p].id = post[p].id /\ post'[p].profile = post[p].profile
         \/ \E id \in Ids : /\ served[id] # None
                            /\ post'[p].id = id /\ post'[p].profile = served[id]
<1>0. post \in [Posts -> PostRecs] /\ post[p] \in PostRecs
  BY DEF TypeOK
<1>1. ASSUME post'[p] = post[p] PROVE Goal
  BY <1>1
<1>2. ASSUME NEW c \in Clicks, ClickStep(c) PROVE Goal
  <2>1. UNCHANGED post
    BY <1>2 DEF ClickStep, BeginCreate, BeginRemove, BeginReload, BeginClean,
       Check, Create, Write, Rename, WriteFails, Load, Set, Issue, IssueFails,
       Unlink, Forget, RemoveFails
  <2> QED
    BY <1>1, <2>1
<1>3. ASSUME NEW q \in Posts, NEW id \in Ids, NEW caller, NEW body,
             Admit(q, id, caller, body)
      PROVE  Goal
  <2>1. CASE p # q
    BY <1>0, <1>1, <1>3, <2>1 DEF Admit
  <2>2. CASE p = q
    <3>1. post'[p].id = id /\ post'[p].profile = served[id]
      BY <1>0, <1>3, <2>2 DEF Admit
    <3>2. served[id] # None
      BY <1>3 DEF Admit, Welcome
    <3> QED
      BY <3>1, <3>2
  <2> QED
    BY <2>1, <2>2
<1>4. ASSUME NEW q \in Posts, Accept(q) PROVE Goal
  <2>1. CASE p # q
    BY <1>0, <1>1, <1>4, <2>1 DEF Accept
  <2>2. CASE p = q
    <3>1. post'[p].id = post[p].id /\ post'[p].profile = post[p].profile
      BY <1>0, <1>4, <2>2 DEF Accept, PostRecs
    <3>2. Hanging(post[p])
      BY <1>4, <2>2 DEF Accept, Hanging
    <3> QED
      BY <3>1, <3>2
  <2> QED
    BY <2>1, <2>2
<1>5. ASSUME NEW q \in Posts, Deliver(q) PROVE Goal
  <2>1. CASE UNCHANGED post
    BY <1>1, <2>1
  <2>2. ASSUME NEW pc, post' = [post EXCEPT ![q].pc = pc,
                 ![q].profile = IF pc = "sent" THEN wprof[post[q].id] ELSE @]
        PROVE  Goal
    <3>1. CASE p # q
      BY <1>0, <1>1, <2>2, <3>1
    <3>2. CASE p = q /\ pc = "sent"
      BY <1>0, <2>2, <3>2 DEF Hanging, PostRecs
    <3>3. CASE p = q /\ pc # "sent"
      <4>1. post'[p].id = post[p].id /\ post'[p].profile = post[p].profile
        BY <1>0, <2>2, <3>3 DEF PostRecs
      <4>2. Hanging(post[p])
        BY <1>5, <3>3 DEF Deliver, PostsOK, Hanging
      <4> QED
        BY <4>1, <4>2
    <3> QED
      BY <3>1, <3>2, <3>3
  <2> QED
    BY <1>5, <2>1, <2>2 DEF Deliver
<1>6. CASE BeginPass \/ BeginStart \/ LockHeld \/ TakeLock \/ UNCHANGED vars
  BY <1>1, <1>6 DEF BeginPass, BeginStart, LockHeld, TakeLock, vars
<1>7. CASE Crash
  BY <1>0, <1>1, <1>7 DEF Crash, Hanging, PostRecs
<1>8. ASSUME NEW f \in Files, NEW content \in Handmade \union {NoFile},
             Edit(f, content)
      PROVE  Goal
  BY <1>1, <1>8 DEF Edit
<1> QED
  BY <1>2, <1>3, <1>4, <1>5, <1>6, <1>7, <1>8 DEF Next, PostStep

\* Every step keeps the account of where profiles come from.
LEMMA HandsStep ==
  ASSUME TypeOK, PostsOK, FilesOK, HandsOK, [Next]_vars
  PROVE  HandsOK'
<1>1. Grows(trail, trail')
  BY TrailGrows
<1>2. ASSUME NEW file, NEW id, Handed(file, id, trail)
      PROVE  Handed(file, id, trail')
  BY <1>1, <1>2 DEF Handed, Grows
<1>3. ASSUME NEW m, MapHanded(m, trail) PROVE MapHanded(m, trail')
  BY <1>2, <1>3 DEF MapHanded
<1>4. ASSUME NEW m, Known(m) PROVE MapHanded(m, trail')
  <2>1. MapHanded(MapOf(disk), trail)
    BY LoadedHanded
  <2>2. MapHanded(Nothing, trail)
    BY DEF MapHanded, Nothing
  <2>3. MapHanded(m, trail)
    BY <1>4, <2>1, <2>2 DEF Known, HandsOK
  <2> QED
    BY <1>3, <2>3
<1>5. ASSUME NEW p \in Posts, Hanging(post'[p])
      PROVE  Handed(post'[p].profile, post'[p].id, trail')
  <2>1. CASE /\ Hanging(post[p])
             /\ post'[p].id = post[p].id /\ post'[p].profile = post[p].profile
    <3>1. Handed(post[p].profile, post[p].id, trail)
      BY <2>1 DEF HandsOK
    <3> QED
      BY <1>2, <2>1, <3>1
  <2>2. ASSUME NEW id \in Ids, served[id] # None,
               post'[p].id = id, post'[p].profile = served[id]
        PROVE  Handed(post'[p].profile, post'[p].id, trail')
    <3>1. Handed(served[id], id, trail)
      BY <2>2 DEF HandsOK, MapHanded
    <3> QED
      BY <1>2, <2>2, <3>1
  <2> QED
    BY <1>5, <2>1, <2>2, PostTurns
<1>6. AllKnown
  BY MapsKnown
<1>7. MapHanded(served', trail') /\ MapHanded(wprof', trail')
  BY <1>4, <1>6 DEF AllKnown
<1>8. preload' # None => MapHanded(preload', trail')
  BY <1>4, <1>6 DEF AllKnown
<1>9. \A c \in Clicks : click'[c].pc = "set" => MapHanded(click'[c].seen, trail')
  BY <1>4, <1>6 DEF AllKnown
<1> QED
  BY <1>5, <1>7, <1>8, <1>9 DEF HandsOK

\* Two profiles of the dashboard differ in nothing the mapping goes by.
LEMMA MadeMapAlike ==
  ASSUME NEW file \in Made, NEW other \in Made, NEW request
  PROVE  Verdict(request, file) = Verdict(request, other)
<1>1. /\ file.zone = DefaultZone /\ other.zone = DefaultZone
      /\ file.minutes = FallbackMinutes /\ other.minutes = FallbackMinutes
  BY DEF Made, DefaultProfile
<1>2. /\ Zone(request, file) = Zone(request, other)
      /\ Length(request, file) = Length(request, other)
  BY <1>1 DEF Zone, Length
<1>3. IdentityStated(request, file) <=> IdentityStated(request, other)
  BY <1>2 DEF IdentityStated
<1>4. WindowStated(request, file) <=> WindowStated(request, other)
  BY <1>2 DEF WindowStated, TimedWindowStated
<1>5. Overflows(request, file) <=> Overflows(request, other)
  BY <1>2 DEF Overflows
<1> QED
  BY <1>3, <1>4, <1>5 DEF Verdict

\* A worker that has ended, in a process that has not, ended of a post that
\* waits under one profile and panics under another.
Killer(p, file, t) ==
  /\ post[p].pc = "pending" /\ post[p].id \in t.edited
  /\ file.id = post[p].id
  /\ Verdict(post[p].body.request, file) = "panic"

\* Every step leaves an ended worker its post and the profile it ended of.
LEMMA WorkerStep ==
  ASSUME TypeOK, PostsOK, MapsOK, FilesOK, HandsOK, WorkerSurvives, [Next]_vars
  PROVE  WorkerSurvives'
<1> SUFFICES ASSUME up', ~alive'
             PROVE  \E p \in Posts, file \in Made \union (trail'.placed \ {NoFile}) :
                      /\ post'[p].pc = "pending" /\ post'[p].id \in trail'.edited
                      /\ file.id = post'[p].id
                      /\ Verdict(post'[p].body.request, file) = "panic"
  BY DEF WorkerSurvives
<1>0. Grows(trail, trail') /\ post \in [Posts -> PostRecs]
  BY TrailGrows DEF TypeOK
<1>1. ASSUME NEW p \in Posts, NEW file \in Made \union (trail.placed \ {NoFile}),
             Killer(p, file, trail), post'[p] = post[p]
      PROVE  \E q \in Posts, new \in Made \union (trail'.placed \ {NoFile}) :
                      /\ post'[q].pc = "pending" /\ post'[q].id \in trail'.edited
                      /\ new.id = post'[q].id
                      /\ Verdict(post'[q].body.request, new) = "panic"
  BY <1>0, <1>1 DEF Killer, Grows
<1>2. ASSUME NEW p \in Posts, Deliver(p)
      PROVE  \E file \in Made \union (trail.placed \ {NoFile}) :
               Killer(p, file, trail) /\ post'[p] = post[p]
  <2> DEFINE q == wprof[post[p].id]
             request == post[p].body.request
  <2>1. /\ q # None /\ Verdict(request, q) = "panic" /\ UNCHANGED post
    BY <1>2 DEF Deliver, Orphan
  <2>2. post[p].pc = "pending" /\ Held(post[p])
    BY <1>2 DEF Deliver, PostsOK
  <2>3. post[p].id \in Ids /\ Verdict(request, post[p].profile) = "event"
    BY <2>2 DEF Held
  <2>4. q.id = post[p].id /\ Usable(q)
    BY <2>1, <2>3 DEF MapsOK, ProfileMap
  <2>5. Handed(q, post[p].id, trail) /\ Handed(post[p].profile, post[p].id, trail)
    BY <2>1, <2>2, <2>3 DEF HandsOK, MapHanded, Hanging
  <2>6. post[p].id \in trail.edited
    <3>1. ~(q \in Made /\ post[p].profile \in Made)
      BY <2>1, <2>3, MadeMapAlike
    <3> QED
      BY <2>5, <3>1 DEF Handed
  <2>7. q # NoFile
    <3>1. q \in Contents
      BY <2>1, <2>3 DEF TypeOK, Maps
    <3> QED
      BY <3>1, ContentsAssumption
  <2> QED
    BY <2>1, <2>2, <2>4, <2>5, <2>6, <2>7 DEF Killer, Handed
<1>3. ASSUME up, ~alive, UNCHANGED post
      PROVE  \E p \in Posts, file \in Made \union (trail'.placed \ {NoFile}) :
                      /\ post'[p].pc = "pending" /\ post'[p].id \in trail'.edited
                      /\ file.id = post'[p].id
                      /\ Verdict(post'[p].body.request, file) = "panic"
  BY <1>0, <1>1, <1>3 DEF WorkerSurvives, Killer
<1>4. ASSUME NEW c \in Clicks, ClickStep(c)
      PROVE  UNCHANGED <<up, alive, post>>
  BY <1>4 DEF ClickStep, BeginCreate, BeginRemove, BeginReload, BeginClean,
     Check, Create, Write, Rename, WriteFails, Load, Set, Issue, IssueFails,
     Unlink, Forget, RemoveFails, procVars, workVars
<1>5. ASSUME NEW q \in Posts, PostStep(q)
      PROVE  \E p \in Posts, file \in Made \union (trail.placed \ {NoFile}) :
               Killer(p, file, trail) /\ post'[p] = post[p]
  <2>0. up /\ ~alive
    <3>1. UNCHANGED <<procVars, workVars>>
      BY <1>5 DEF PostStep, Admit, Accept
    <3> QED
      BY <3>1 DEF procVars, workVars
  <2>1. post[q].pc # "pending"
    BY <1>5 DEF PostStep, Admit, Accept
  <2>2. PICK p \in Posts, file \in Made \union (trail.placed \ {NoFile}) :
          Killer(p, file, trail)
    BY <2>0 DEF WorkerSurvives, Killer
  <2>3. p # q
    BY <2>1, <2>2 DEF Killer
  <2>4. post'[p] = post[p]
    BY <1>0, <1>5, <2>3 DEF PostStep, Admit, Accept
  <2> QED
    BY <2>2, <2>4
<1>6. CASE BeginPass \/ BeginStart \/ LockHeld \/ UNCHANGED vars
  <2>1. UNCHANGED post
    BY <1>6 DEF BeginPass, BeginStart, LockHeld, vars
  <2>2. UNCHANGED <<up, alive>>
    <3>1. CASE BeginPass
      BY <3>1 DEF BeginPass, procVars
    <3>2. CASE BeginStart \/ LockHeld
      BY <3>2 DEF BeginStart, LockHeld, workVars
    <3>3. CASE UNCHANGED vars
      BY <3>3 DEF vars
    <3> QED
      BY <1>6, <3>1, <3>2, <3>3
  <2>3. up /\ ~alive
    BY <2>2
  <2> QED
    BY <1>3, <2>1, <2>3
<1>7. CASE TakeLock \/ Crash
  BY <1>7 DEF TakeLock, Crash
<1>8. ASSUME NEW f \in Files, NEW content \in Handmade \union {NoFile},
             Edit(f, content)
      PROVE  up /\ ~alive /\ UNCHANGED post
  BY <1>8 DEF Edit, procVars, workVars
<1> QED
  BY <1>1, <1>2, <1>3, <1>4, <1>5, <1>6, <1>7, <1>8 DEF Next

\* The worker ends only of a payload whose source's files a hand changed.
THEOREM WorkerLives == Spec => []WorkerSurvives
<1>1. Init => HandsOK /\ WorkerSurvives
  BY DEF Init, HandsOK, MapHanded, Nothing, Idle, Hanging, WorkerSurvives
<1>2. /\ TypeOK /\ PostsOK /\ MapsOK /\ FilesOK /\ HandsOK /\ WorkerSurvives
      /\ [Next]_vars
      => HandsOK' /\ WorkerSurvives'
  BY HandsStep, WorkerStep
<1> QED
  BY <1>1, <1>2, SourcesInvariant, FilesInvariant, PTL DEF Spec
=============================================================================
