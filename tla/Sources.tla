------------------------------- MODULE Sources ------------------------------
(***************************************************************************)
(* The sources of a running Almanac: profile files on disk, the map of     *)
(* profiles in memory, the kit's clients, the posts accepted under them    *)
(* and the worker that delivers what was accepted (shell/profiles.rs,      *)
(* shell/kit.rs, the profile routes of shell/dashboard.rs, the door of     *)
(* shell/ingest.rs, the start in main.rs).                                 *)
(*                                                                         *)
(* A dashboard request is a click.  Clicks run on threads of their own and *)
(* share nothing but the directory and the map, so each file operation and *)
(* each access to the map is a step; a scan of the directory is one step.  *)
(* How a delivery runs is module Hub's subject: here it takes one step.    *)
(***************************************************************************)
EXTENDS Payload

CONSTANTS
  Clicks,     \* dashboard requests under way at a time
  Posts,      \* asynchronous posts
  Ids,        \* source ids that files and posts may name
  Files,      \* file names *.toml in sorted order, as numbers
  FileOf,     \* the file named after a safe id
  NoFile,     \* no such file
  Admin,      \* the caller with the login token
  Calendars,  \* what the form's calendar field may hold
  Bodies,     \* [request, header] pairs that sources send
  Handmade,   \* contents of files placed by hand
  Legacy,     \* ids with a token in the 3.x store
  MaxClicks, MaxStarts,  \* bounds on dashboard requests and starts
  MaxMishaps  \* bound on failed operations and edits by hand

SafeIds == {id \in Ids : SafeId(id)}

ASSUME FilesAssumption ==
  /\ Files \subseteq Nat /\ NoFile \notin Files
  /\ FileOf \in [SafeIds -> Files]
  /\ \A i, j \in SafeIds : FileOf[i] = FileOf[j] => i = j
ASSUME PeopleAssumption ==
  /\ Admin \notin Ids /\ None \notin Ids
  /\ Legacy \subseteq SafeIds
  /\ Ids \subseteq Texts /\ Calendars \subseteq Texts
  /\ Handmade \subseteq ProfileFiles
  /\ Bodies \subseteq [request : Requests, header : Optional(Texts)]
ASSUME BoundsAssumption ==
  /\ MaxClicks \in Nat /\ MaxStarts \in Nat /\ MaxMishaps \in Nat

Made == {DefaultProfile(id, Trim(cal)) : id \in SafeIds, cal \in Calendars}

\* A file truncated, and a file two writers wrote over each other.
Torn == {[DefaultProfile(<<>>, <<>>) EXCEPT !.parses = FALSE, !.zone = z] :
           z \in {"empty", "mixed"}}
Emptied == CHOOSE t \in Torn : t.zone = "empty"
Mixed == CHOOSE t \in Torn : t.zone = "mixed"

Contents == Made \union Torn \union Handmade
ASSUME ContentsAssumption == None \notin Contents /\ NoFile \notin Contents

Maps == [Ids -> Contents \union {None}]
Nothing == [id \in Ids |-> None]

VARIABLES
  disk,     \* the profiles directory
  tmp,      \* the <id>.toml.tmp beside each file
  served,   \* AppState.profiles
  up,       \* whether a process holds the data directory's lock
  preload,  \* what a starting process has loaded, before it has the lock
  clients,  \* ids with a client in the kit's store
  kitFile,  \* whether clients.json.enc exists
  click,    \* the dashboard requests
  post,     \* the posts
  todo,     \* the rest of the worker's snapshot of the pending entries
  wprof,    \* the profiles the worker's pass goes by
  alive,    \* whether the worker task runs
  spent,    \* clicks, starts and mishaps so far
  trail     \* what happened, for the properties

vars == <<disk, tmp, served, up, preload, clients, kitFile, click, post, todo,
          wprof, alive, spent, trail>>
fileVars == <<disk, tmp>>
procVars == <<up, preload>>
kitVars == <<clients, kitFile>>
workVars == <<todo, wprof, alive>>

-----------------------------------------------------------------------------
\* The directory

\* load_all: in sorted order, the first usable file of an id is served.
Holders(dir, id) ==
  {f \in Files : dir[f] # NoFile /\ Usable(dir[f]) /\ dir[f].id = id}

First(files) == CHOOSE f \in files : \A g \in files : f <= g

MapOf(dir) ==
  [id \in Ids |-> IF Holders(dir, id) = {} THEN None
                  ELSE dir[First(Holders(dir, id))]]

\* Mutant: any file may be deleted as unusable.
AnyFile(dir) == {f \in Files : dir[f] # NoFile}

\* The files that are there and not served.
Unusable(dir) ==
  {f \in Files : /\ dir[f] # NoFile
                 /\ ~\E id \in Ids : /\ f \in Holders(dir, id)
                                     /\ f = First(Holders(dir, id))}

-----------------------------------------------------------------------------
\* Bookkeeping.  Idle clicks hold nothing.

Idle == [pc |-> "idle", op |-> "none", id |-> None, file |-> NoFile,
         content |-> None, fd |-> "none", seen |-> None, behind |-> FALSE]

Spend(what) == spent' = [spent EXCEPT ![what] = @ + 1]
Mishap == spent.mishaps < MaxMishaps /\ Spend("mishaps")

Go(c, pc) == click' = [click EXCEPT ![c].pc = pc]
Finish(c) == click' = [click EXCEPT ![c] = Idle]

\* Clicks that have read the directory and not yet stored what they read.
Read == {c \in Clicks : click[c].pc = "set"}

\* The same clicks, once the directory has changed under them.
Outrun(clk) ==
  [c \in Clicks |->
     IF clk[c].pc = "set" THEN [clk[c] EXCEPT !.behind = TRUE] ELSE clk[c]]

\* A starting process that loaded before the change is behind as well.
Overtakes == trail' = [trail EXCEPT !.handover = @ \/ preload # None]

\* Mutant: a removal does not look for waiting events.
NonePending(id) == {}

\* The events that wait for a source's profile.
Pending(id) == {p \in Posts : post[p].pc = "pending" /\ post[p].id = id}

Init ==
  /\ disk = [f \in Files |-> NoFile]
  /\ tmp = [f \in Files |-> NoFile]
  /\ served = Nothing
  /\ up = FALSE /\ preload = None
  /\ clients = {} /\ kitFile = FALSE
  /\ click = [c \in Clicks |-> Idle]
  /\ post = [p \in Posts |-> [pc |-> "new", id |-> None, body |-> None,
                              profile |-> None]]
  /\ todo = {} /\ wprof = Nothing /\ alive = FALSE
  /\ spent = [clicks |-> 0, starts |-> 0, mishaps |-> 0]
  /\ trail = [edited |-> {}, placed |-> {}, twins |-> {}, crossed |-> {},
              unpaired |-> {}, imported |-> {}, gone |-> {},
              lagging |-> FALSE, unread |-> FALSE, handover |-> FALSE]

-----------------------------------------------------------------------------
\* kit::create_source, called before the kit stores the client

Begin(c) ==
  /\ up
  /\ click[c].pc = "idle"
  /\ spent.clicks < MaxClicks
  /\ Spend("clicks")

Overlapping(c, id) ==
  \E d \in Clicks \ {c} : click[d].pc # "idle" /\ click[d].id = id

\* Two requests about one source at a time, or one that goes by a map that is
\* behind the directory, may leave the source's two halves apart.
Meets(c, id) ==
  trail' = [trail EXCEPT !.unpaired =
              IF Overlapping(c, id) \/ trail.lagging THEN @ \union {id} ELSE @]

BeginCreate(c, id, cal) ==
  /\ Begin(c)
  /\ \/ served[id] # None
        /\ click' = [click EXCEPT ![c] =
             [Idle EXCEPT !.pc = "issue", !.op = "create", !.id = id]]
        /\ Meets(c, id)
     \/ served[id] = None /\ SafeId(id) /\ Trim(cal) # <<>>
        /\ click' = [click EXCEPT ![c] =
             [Idle EXCEPT !.pc = "check", !.op = "create", !.id = id,
                !.file = FileOf[id],
                !.content = DefaultProfile(id, Trim(cal))]]
        /\ Meets(c, id)
     \/ served[id] = None /\ (~SafeId(id) \/ Trim(cal) = <<>>)
        /\ UNCHANGED <<click, trail>>
  /\ UNCHANGED <<fileVars, served, procVars, kitVars, post, workVars>>

\* save_new looks at the directory: no other file with the id, no such file.
Clash(c) ==
  \/ Holders(disk, click[c].id) # {}
  \/ disk[click[c].file] # NoFile

Writing(d) == click[d].pc \in {"create", "write", "rename"}

Check(c) ==
  /\ click[c].pc = "check"
  /\ IF Clash(c) THEN Finish(c) ELSE Go(c, "create")
  /\ trail' = [trail EXCEPT !.twins =
       IF ~Clash(c) /\ \E d \in Clicks : /\ Writing(d)
                                         /\ click[d].id = click[c].id
       THEN @ \union {click[c].id} ELSE @]
  /\ UNCHANGED <<fileVars, served, procVars, kitVars, post, workVars, spent>>

\* Mutant: the profile is written in place.
CreateInPlace(c) ==
  /\ click[c].pc = "create"
  /\ disk' = [disk EXCEPT ![click[c].file] = Emptied]
  /\ click' = [click EXCEPT ![c].pc = "write", ![c].fd = "path"]
  /\ UNCHANGED <<tmp, served, procVars, kitVars, post, workVars, spent, trail>>

\* write_atomically, operation by operation.  File::create truncates the
\* temporary file another writer of the same name has open.
Create(c) ==
  /\ click[c].pc = "create"
  /\ tmp' = [tmp EXCEPT ![click[c].file] = Emptied]
  /\ click' = [click EXCEPT ![c].pc = "write", ![c].fd = "tmp"]
  /\ UNCHANGED <<disk, served, procVars, kitVars, post, workVars, spent, trail>>

\* Both of two writers write from the start of the one file.
Over(old, new) == IF old \in {Emptied, new} THEN {new} ELSE {new, Mixed}

\* The write and the fsync; the descriptor may meanwhile be the file that
\* another writer moved into place.
Write(c) ==
  /\ click[c].pc = "write"
  /\ Go(c, "rename")
  /\ LET f == click[c].file IN
     \/ click[c].fd = "tmp"
        /\ \E new \in Over(tmp[f], click[c].content) :
             tmp' = [tmp EXCEPT ![f] = new]
        /\ UNCHANGED disk
     \/ click[c].fd = "path"
        /\ \E new \in Over(disk[f], click[c].content) :
             disk' = [disk EXCEPT ![f] = new]
        /\ UNCHANGED tmp
     \/ click[c].fd = "gone" /\ UNCHANGED fileVars
  /\ UNCHANGED <<served, procVars, kitVars, post, workVars, spent, trail>>

\* What becomes of the other writers' descriptors when c moves the temporary
\* file into place.
Moved(c) ==
  [d \in Clicks |->
     IF d = c \/ click[d].file # click[c].file THEN click[d]
     ELSE IF click[d].fd = "tmp" THEN [click[d] EXCEPT !.fd = "path"]
     ELSE IF click[d].fd = "path" THEN [click[d] EXCEPT !.fd = "gone"]
     ELSE click[d]]

Rename(c) ==
  /\ click[c].pc = "rename"
  /\ LET f == click[c].file IN
     \/ /\ tmp[f] # NoFile
        /\ disk' = [disk EXCEPT ![f] = tmp[f]]
        /\ tmp' = [tmp EXCEPT ![f] = NoFile]
        /\ click' = [Outrun(Moved(c)) EXCEPT ![c].pc = "load", ![c].fd = "none"]
        /\ Overtakes
     \/ /\ tmp[f] = NoFile
        /\ Finish(c)
        /\ UNCHANGED <<fileVars, trail>>
  /\ UNCHANGED <<served, procVars, kitVars, post, workVars, spent>>

\* Mutant: a profile that could not be written is passed over.
WriteFailsUnnoticed(c) ==
  /\ Mishap
  /\ Writing(c)
  /\ Go(c, "issue")
  /\ UNCHANGED <<fileVars, served, procVars, kitVars, post, workVars, trail>>

\* Any of the file operations fails: the click is answered with an error and
\* the temporary file stays.
WriteFails(c) ==
  /\ Mishap
  /\ Writing(c)
  /\ Finish(c)
  /\ UNCHANGED <<fileVars, served, procVars, kitVars, post, workVars, trail>>

-----------------------------------------------------------------------------
\* load_map and set_profiles, which every change ends in

\* Mutant: a new profile is inserted into the map instead of read back.
LoadByInserting(c) ==
  /\ click[c].pc = "load"
  /\ click' = [click EXCEPT ![c].pc = "set", ![c].behind = FALSE,
       ![c].seen = IF click[c].op = "create"
                   THEN [served EXCEPT ![click[c].id] = click[c].content]
                   ELSE MapOf(disk)]
  /\ UNCHANGED <<fileVars, served, procVars, kitVars, post, workVars, spent, trail>>

Load(c) ==
  /\ click[c].pc = "load"
  /\ click' = [click EXCEPT ![c].pc = "set", ![c].seen = MapOf(disk),
                            ![c].behind = FALSE]
  /\ UNCHANGED <<fileVars, served, procVars, kitVars, post, workVars, spent, trail>>

After(op) ==
  IF op = "create" THEN "issue" ELSE IF op = "remove" THEN "forget" ELSE "idle"

Set(c) ==
  /\ click[c].pc = "set"
  /\ served' = click[c].seen
  /\ trail' = [trail EXCEPT !.lagging = click[c].behind, !.unread = FALSE]
  /\ IF After(click[c].op) = "idle" THEN Finish(c)
     ELSE click' = [click EXCEPT ![c].pc = After(click[c].op), ![c].seen = None,
                                 ![c].behind = FALSE]
  /\ UNCHANGED <<fileVars, procVars, kitVars, post, workVars, spent>>

\* The kit stores the client the hook agreed to, or fails to.
Issue(c) ==
  /\ click[c].pc = "issue"
  /\ Finish(c)
  /\ clients' = clients \union {click[c].id} /\ kitFile' = TRUE
  /\ trail' = [trail EXCEPT !.gone = @ \ {click[c].id},
                            !.imported = @ \ {click[c].id}]
  /\ UNCHANGED <<fileVars, served, procVars, post, workVars, spent>>

IssueFails(c) ==
  /\ Mishap
  /\ click[c].pc = "issue"
  /\ Finish(c)
  /\ UNCHANGED <<fileVars, served, procVars, kitVars, post, workVars, trail>>

-----------------------------------------------------------------------------
\* kit::remove_source, called before the kit deletes the client

BeginRemove(c, id) ==
  /\ Begin(c)
  /\ id \in clients
  /\ \/ /\ served[id] # None /\ Pending(id) = {}
        /\ click' = [click EXCEPT ![c] =
             [Idle EXCEPT !.pc = "unlink", !.op = "remove", !.id = id,
                          !.file = FileOf[id]]]
        /\ trail' = [trail EXCEPT
             !.crossed = @ \union {p \in Posts : /\ post[p].pc = "posting"
                                                 /\ post[p].id = id},
             !.unpaired = IF Overlapping(c, id) THEN @ \union {id} ELSE @]
     \/ /\ served[id] = None
        /\ click' = [click EXCEPT ![c] =
             [Idle EXCEPT !.pc = "forget", !.op = "remove", !.id = id]]
        /\ Meets(c, id)
     \/ /\ served[id] # None /\ Pending(id) # {}
        /\ UNCHANGED <<click, trail>>
  /\ UNCHANGED <<fileVars, served, procVars, kitVars, post, workVars>>

\* The file goes, or the request fails since a file named after the id is not
\* there: the profile is served from a file with a name of its own.  Writers
\* keep the unlinked file open.
Unlink(c) ==
  /\ click[c].pc = "unlink"
  /\ LET f == click[c].file IN
     \/ /\ disk[f] # NoFile
        /\ disk' = [disk EXCEPT ![f] = NoFile]
        /\ click' = [d \in Clicks |->
             IF d = c THEN [click[c] EXCEPT !.pc = "load"]
             ELSE IF click[d].file = f /\ click[d].fd = "path"
                  THEN [click[d] EXCEPT !.fd = "gone"]
             ELSE Outrun(click)[d]]
        /\ trail' = [trail EXCEPT
             !.handover = @ \/ preload # None,
             !.edited = IF click[c].op = "clean" THEN @ \union {disk[f].id} ELSE @]
     \/ /\ disk[f] = NoFile
        /\ Finish(c)
        /\ UNCHANGED <<disk, trail>>
  /\ UNCHANGED <<tmp, served, procVars, kitVars, post, workVars, spent>>

Forget(c) ==
  /\ click[c].pc = "forget"
  /\ Finish(c)
  /\ clients' = clients \ {click[c].id} /\ kitFile' = TRUE
  /\ trail' = [trail EXCEPT !.gone = @ \union {click[c].id}]
  /\ UNCHANGED <<fileVars, served, procVars, post, workVars, spent>>

\* The journal cannot be read, the file cannot be deleted, or the kit cannot
\* store its change: in the last case the profile is gone and the client not.
RemoveFails(c) ==
  /\ Mishap
  /\ click[c].op = "remove" /\ click[c].pc \in {"unlink", "forget"}
  /\ Finish(c)
  /\ trail' = [trail EXCEPT !.unpaired =
       IF click[c].pc = "forget" THEN @ \union {click[c].id} ELSE @]
  /\ UNCHANGED <<fileVars, served, procVars, kitVars, post, workVars>>

-----------------------------------------------------------------------------
\* dashboard::reload_profiles and dashboard::delete_unusable

BeginReload(c) ==
  /\ Begin(c)
  /\ click' = [click EXCEPT ![c] = [Idle EXCEPT !.pc = "load", !.op = "reload"]]
  /\ UNCHANGED <<fileVars, served, procVars, kitVars, post, workVars, trail>>

BeginClean(c, f) ==
  /\ Begin(c)
  /\ f \in Unusable(disk)
  /\ click' = [click EXCEPT ![c] =
       [Idle EXCEPT !.pc = "unlink", !.op = "clean", !.file = f]]
  /\ UNCHANGED <<fileVars, served, procVars, kitVars, post, workVars, trail>>

-----------------------------------------------------------------------------
\* The door: ingest::authenticate and what is checked before the journal

Welcome(caller, id) == served[id] # None /\ caller \in {Admin, id}

Removing(id) ==
  \E c \in Clicks : /\ click[c].op = "remove" /\ click[c].id = id
                    /\ click[c].pc \in {"unlink", "load", "set"}

Admit(p, id, caller, body) ==
  /\ up
  /\ post[p].pc = "new"
  /\ caller \in clients \union {Admin}
  /\ Welcome(caller, id)
  /\ Admits(body.request, body.header, served[id])
  /\ post' = [post EXCEPT ![p] = [pc |-> "posting", id |-> id, body |-> body,
                                  profile |-> served[id]]]
  /\ trail' = [trail EXCEPT !.crossed =
       IF Removing(id) \/ trail.lagging THEN @ \union {p} ELSE @]
  /\ UNCHANGED <<fileVars, served, procVars, kitVars, click, workVars, spent>>

\* The journal takes the entry, or the caller is told it could not.
Accept(p) ==
  /\ post[p].pc = "posting"
  /\ \/ post' = [post EXCEPT ![p].pc = "pending"] /\ UNCHANGED spent
     \/ /\ Mishap
        /\ post' = [post EXCEPT ![p].pc = "refused"]
  /\ UNCHANGED <<fileVars, served, procVars, kitVars, click, workVars, trail>>

-----------------------------------------------------------------------------
\* The worker: one pass goes by one snapshot of entries and of profiles

BeginPass ==
  /\ up /\ alive /\ todo = {}
  /\ todo' = {p \in Posts : post[p].pc = "pending"}
  /\ todo' # {}
  /\ wprof' = served
  /\ UNCHANGED <<fileVars, served, procVars, kitVars, click, post, alive, spent, trail>>

\* What an attempt makes of an entry: Google takes it or fails for a while; a
\* refusal by the mapping is permanent and ends in setting the entry aside.
Attempts(p, profile) ==
  LET verdict == Verdict(post[p].body.request, profile) IN
  IF verdict = "event" THEN {"sent", "pending"} ELSE {"pending", "dead"}

Orphan(p) == wprof[post[p].id] = None

Deliver(p) ==
  /\ up /\ alive /\ p \in todo
  /\ \/ Orphan(p) /\ todo' = todo \ {p} /\ UNCHANGED <<post, alive>>
     \/ /\ ~Orphan(p)
        /\ Verdict(post[p].body.request, wprof[post[p].id]) # "panic"
        /\ \E pc \in Attempts(p, wprof[post[p].id]) :
             post' = [post EXCEPT ![p].pc = pc,
                        ![p].profile = IF pc = "sent" THEN wprof[post[p].id] ELSE @]
        /\ todo' = todo \ {p} /\ UNCHANGED alive
     \* A panic ends the task; nothing starts another worker.
     \/ /\ ~Orphan(p)
        /\ Verdict(post[p].body.request, wprof[post[p].id]) = "panic"
        /\ alive' = FALSE /\ todo' = {} /\ UNCHANGED post
  /\ wprof' = IF todo' = {} THEN Nothing ELSE wprof
  /\ UNCHANGED <<fileVars, served, procVars, kitVars, click, spent, trail>>

-----------------------------------------------------------------------------
\* Starting and stopping.  main loads the profiles before it takes the lock,
\* which another process may still hold while an update hands over.

BeginStart ==
  /\ preload = None
  /\ spent.starts < MaxStarts /\ Spend("starts")
  /\ preload' = MapOf(disk)
  /\ trail' = [trail EXCEPT !.handover = FALSE]
  /\ UNCHANGED <<fileVars, served, up, kitVars, click, post, workVars>>

LockHeld ==
  /\ preload # None /\ up
  /\ preload' = None
  /\ UNCHANGED <<fileVars, served, up, kitVars, click, post, workVars, spent, trail>>

\* Mutant: the 3.x store is imported at every start.
ImportsAlways == Legacy # {}

\* import_source_tokens copies the 3.x store's tokens once: as long as the
\* kit has no file of its own.
Imports == ~kitFile /\ Legacy # {}

TakeLock ==
  /\ preload # None /\ ~up
  /\ up' = TRUE /\ alive' = TRUE
  /\ served' = preload /\ preload' = None
  /\ clients' = IF Imports THEN Legacy ELSE clients
  /\ kitFile' = (kitFile \/ Imports)
  /\ trail' = [trail EXCEPT
       !.lagging = trail.handover, !.handover = FALSE,
       !.imported = IF Imports THEN Legacy ELSE @]
  /\ UNCHANGED <<fileVars, click, post, todo, wprof, spent>>

\* Mutant: the worker is taken to survive its process.
CrashSparingWorker ==
  /\ up
  /\ up' = FALSE
  /\ served' = Nothing /\ todo' = {} /\ wprof' = Nothing
  /\ click' = [c \in Clicks |-> Idle]
  /\ UNCHANGED <<fileVars, preload, kitVars, post, alive, spent, trail>>

\* The process ends wherever its requests stand: a crash, a power cut after
\* the kernel wrote everything back, or exit(1).
Crash ==
  /\ up
  /\ up' = FALSE /\ alive' = FALSE
  /\ served' = Nothing /\ todo' = {} /\ wprof' = Nothing
  /\ click' = [c \in Clicks |-> Idle]
  /\ post' = [p \in Posts |->
       IF post[p].pc = "posting" THEN [post[p] EXCEPT !.pc = "refused"] ELSE post[p]]
  /\ trail' = [trail EXCEPT
       !.lagging = FALSE, !.unread = FALSE,
       !.unpaired = @ \union {click[c].id : c \in
                       {d \in Clicks : click[d].op = "remove"}}]
  /\ UNCHANGED <<fileVars, preload, kitVars, spent>>

\* A person places, replaces or deletes a file by hand.
Edit(f, content) ==
  /\ Mishap
  /\ disk[f] # content
  /\ disk' = [disk EXCEPT ![f] = content]
  /\ click' = Outrun(click)
  /\ trail' = [trail EXCEPT
       !.handover = @ \/ preload # None,
       !.unread = up,
       !.placed = @ \union {content},
       !.edited = @ \union {x.id : x \in {disk[f], content} \ {NoFile}}
                    \union {id \in SafeIds : FileOf[id] = f}]
  /\ UNCHANGED <<tmp, served, procVars, kitVars, post, workVars>>

-----------------------------------------------------------------------------
ClickStep(c) ==
  \/ \E id \in Ids, cal \in Calendars : BeginCreate(c, id, cal)
  \/ \E id \in SafeIds : BeginRemove(c, id)
  \/ BeginReload(c)
  \/ \E f \in Files : BeginClean(c, f)
  \/ Check(c) \/ Create(c) \/ Write(c) \/ Rename(c) \/ WriteFails(c)
  \/ Load(c) \/ Set(c) \/ Issue(c) \/ IssueFails(c)
  \/ Unlink(c) \/ Forget(c) \/ RemoveFails(c)

PostStep(p) ==
  \/ \E id \in Ids, caller \in Ids \union {Admin}, body \in Bodies :
       Admit(p, id, caller, body)
  \/ Accept(p)

Next ==
  \/ \E c \in Clicks : ClickStep(c)
  \/ \E p \in Posts : PostStep(p) \/ Deliver(p)
  \/ BeginPass
  \/ BeginStart \/ LockHeld \/ TakeLock \/ Crash
  \/ \E f \in Files, content \in Handmade \union {NoFile} : Edit(f, content)

Spec == Init /\ [][Next]_vars
-----------------------------------------------------------------------------
\* Properties

\* The shape of the state; in particular a click that is at a file operation
\* knows its file, and no worker outlives its process.
ClickRecs ==
  [pc : {"idle", "check", "create", "write", "rename", "unlink", "load", "set",
         "issue", "forget"},
   op : {"none", "create", "remove", "reload", "clean"},
   id : Optional(Ids), file : Files \union {NoFile},
   content : Optional(Contents), fd : {"none", "tmp", "path", "gone"},
   seen : Optional(Maps), behind : BOOLEAN]

PostRecs ==
  [pc : {"new", "posting", "pending", "sent", "dead", "refused"},
   id : Optional(Ids), body : Optional(Bodies), profile : Optional(Contents)]

Trails ==
  [edited : SUBSET Texts, placed : SUBSET (Contents \union {NoFile}),
   twins : SUBSET Ids, crossed : SUBSET Posts, unpaired : SUBSET Optional(Ids),
   imported : SUBSET Ids, gone : SUBSET Ids,
   lagging : BOOLEAN, unread : BOOLEAN, handover : BOOLEAN]

Sound(r) ==
  /\ r.pc \in {"check", "create", "write", "rename", "unlink"} => r.file \in Files
  /\ r.pc \in {"check", "create", "write", "rename"}
     => r.id \in SafeIds /\ r.content \in Made
  /\ r.pc \in {"issue", "forget"} => r.id \in Ids
  /\ r.op \in {"create", "remove"} => r.id \in Ids
  /\ r.pc = "set" => r.seen \in Maps

TypeOK ==
  /\ disk \in [Files -> Contents \union {NoFile}]
  /\ tmp \in [Files -> Contents \union {NoFile}]
  /\ served \in Maps /\ wprof \in Maps
  /\ preload \in Optional(Maps)
  /\ up \in BOOLEAN /\ alive \in BOOLEAN /\ kitFile \in BOOLEAN
  /\ clients \subseteq Ids
  /\ click \in [Clicks -> ClickRecs]
  /\ \A c \in Clicks : Sound(click[c])
  /\ post \in [Posts -> PostRecs]
  /\ todo \subseteq Posts
  /\ spent \in [clicks : Nat, starts : Nat, mishaps : Nat]
  /\ trail \in Trails
  /\ alive => up

\* The map in memory is the directory (K21: every change reloads it): it
\* differs only while a request is between its change and its set_profiles, and
\* after a request stored what it had read before another one's change, after a
\* start that read the directory before the lock, and after an edit by hand
\* that nothing has read yet.
ServedIsDisk ==
  \/ ~up
  \/ trail.lagging \/ trail.unread \/ trail.twins # {}
  \/ \E c \in Clicks : click[c].pc \in {"load", "set"} /\ click[c].op # "reload"
  \/ served = MapOf(disk)

\* remove_source refuses while events wait: an entry is left without a profile
\* only when its post crossed the removal or a map behind the directory, or by
\* an edit of the files by hand.
OrphansOnlyFromRaces ==
  up => \A p \in Posts :
    post[p].pc = "pending" /\ served[post[p].id] = None
    => \/ p \in trail.crossed
       \/ trail.lagging
       \/ post[p].id \in trail.edited \union trail.twins

\* "A profile half-written by a crash" (write_atomically) is not found under a
\* profile's name, unless two requests made one source at the same time or a
\* person put such a file there.
NeverHalfWritten ==
  \A f \in Files :
    disk[f] \in Torn =>
      \/ disk[f] \in trail.placed
      \/ \E id \in trail.twins \intersect SafeIds : FileOf[id] = f

\* A file under a source's name stays as it is until that source is removed
\* ("the dashboard adds profiles, it does not replace them"): a cleaning up
\* deletes no file of a source either.  Two requests making one source at a
\* time, and hand edits, are the exceptions.
Excused(f) ==
  \/ \E id \in (trail.twins \union trail.edited) \intersect SafeIds : FileOf[id] = f
  \/ disk[f].id \in trail.edited

FilesKept ==
  [][\A f \in Files :
       disk'[f] # disk[f] /\ disk[f] # NoFile
       => \/ spent'.mishaps > spent.mishaps  \* by hand: no failure changes a file
          \/ Excused(f)
          \/ \E c \in Clicks :
               /\ click[c].pc = "unlink" /\ click[c].file = f
               /\ click[c].op = "remove" /\ disk[f].id = click[c].id]_vars

\* "A source is a name and a calendar, made in one go" (S1): a client in the
\* kit's store has a profile that is served, whatever failed or crashed while
\* it was made, unless a removal stopped half-way, two requests about the
\* source overlapped, the files were edited by hand, or the client is one that
\* was imported: a token of the 3.x store needs no profile to be copied.
IssuedWithProfile ==
  up => \A id \in clients :
    \/ served[id] # None
    \/ \E c \in Clicks : click[c].id = id
    \/ trail.lagging
    \/ id \in trail.unpaired \union trail.edited \union trail.twins
    \/ id \in trail.imported

\* A source removed stays removed: no restart copies its token from the 3.x
\* store again.
RemovedStaysOut == trail.gone \intersect clients = {}

\* must_be_mappable's promise: a payload let in at the door is not refused by
\* the mapping later, whatever profile its source has by then, so that no
\* accepted entry is set aside as unmappable.
AcceptedStaysMappable ==
  \A p \in Posts :
    /\ post[p].pc # "dead"
    /\ post[p].pc = "pending" /\ served[post[p].id] # None
       => Verdict(post[p].body.request, served[post[p].id]) # "refused"

\* What is delivered is an event Google takes and shows, under a marker that
\* finds it again.
GoogleShowsWhatIsSent ==
  \A p \in Posts :
    post[p].pc = "sent" =>
      LET event == Event(post[p].body.request, post[p].profile, post[p].body.header)
      IN GoogleShows(event) /\ event.marker # None

\* AR15: what two served sources send never ends up under one marker, whatever
\* ids the sources choose for their things.
KeysKeepSourcesApart ==
  \A i, j \in Ids :
    i # j /\ served[i] # None /\ served[j] # None =>
      \A a, b \in Bodies :
        /\ Admits(a.request, a.header, served[i])
        /\ Admits(b.request, b.header, served[j])
        => UpsertKey(a.request, served[i], a.header)
             # UpsertKey(b.request, served[j], b.header)

\* The worker outlives what the door lets in: it dies of a payload only when
\* the files of the payload's source were edited by hand, so that the profile
\* it is delivered under has another default length than the one it came in
\* under.
WorkerSurvives ==
  up /\ ~alive =>
    \E p \in Posts, file \in Made \union (trail.placed \ {NoFile}) :
      /\ post[p].pc = "pending" /\ post[p].id \in trail.edited
      /\ file.id = post[p].id
      /\ Verdict(post[p].body.request, file) = "panic"
=============================================================================
