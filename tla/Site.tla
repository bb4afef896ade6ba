---------------------------------- MODULE Site ----------------------------------
(***************************************************************************)
(* The process: its boot, the installation wizard, the handler tree that   *)
(* serves and its replacement while requests run, its shutdown, and the    *)
(* themes it renders with (cmd/ondolith/main.go, install/install.go,       *)
(* app/app.go New, theme/upload.go, admin/handlers.go SettingsSave,        *)
(* admin/handlers_rbac.go Theme*, admin/handlers_theme.go).                *)
(*                                                                         *)
(* A tree owns a database pool and loops; replacing it closes them while   *)
(* requests that entered through it are still running.  A theme is a       *)
(* directory, its name a setting, its renderer a pointer of the tree: no   *)
(* transaction covers them.                                                *)
(***************************************************************************)
EXTENDS Integers, FiniteSets

CONSTANTS
    Requests,      \* bound: requests that arrive, each once
    Themes,        \* names of uploaded themes
    Shipped,       \* those in the theme directory from the start
    MaxThemeItems,
    Emails,        \* addresses a wizard is given
    Minutes, HourMinutes, Keep,  \* A-604: minutes of a day, those of the hour set, backups kept
    MaxClock,      \* bound: minutes that pass
    Boot, Wizard, None

Versions == {"old", "new"}    \* a theme directory with its base.html

ASSUME SiteAssumption ==
    /\ Shipped \subseteq Themes
    /\ MaxThemeItems \in Nat \ {0} /\ MaxClock \in Nat
    /\ Keep \in Nat \ {0} /\ Minutes \in Nat \ {0} /\ HourMinutes \in 1..Minutes
    /\ Cardinality({Boot, Wizard, None}) = 3
    /\ Requests \cap {Boot, Wizard, None} = {}
    /\ None \notin Themes \cup Versions \cup {"part"} \cup [theme : Themes, version : Versions]

VARIABLES
    config,     \* the config file: None, or who wrote it
    main,       \* the main goroutine
    live,       \* root.t: the tree that serves; root.closed is `closed`
    closed,
    tree,       \* trees by who assembled them
    mu, done,   \* the wizard's mutex and its done flag
    users, verify, \* accounts, by whom; auth.email_verification_required
    setting,    \* site.type and theme.active
    dir,        \* theme directories; None when there is none
    tmp, aside, \* directories an upload unpacks into, and moved aside
    files, media, \* pictures stored, and their rows: named by the request that stored them
    screen,     \* a settings screen of the theme: its picture
    items,      \* rows of a collection screen, the picture of each
    clock,      \* minutes
    backupMu,   \* backup.Mu
    last, job,  \* each tree's scheduler: the day it attempted, what its Tick is at
    stored,     \* backups in the backup directory, named by their minute
    req         \* requests in flight

vars == <<config, main, live, closed, tree, mu, done, users, verify, setting, dir, tmp, aside,
          files, media, screen, items, clock, backupMu, last, job, stored, req>>
process   == <<main, live, closed, tree, mu, done>>
disk      == <<config, dir, tmp, aside, files>>
themes    == <<dir, tmp, aside>>
contents  == <<users, verify, setting, media, screen, items>>
backups   == <<clock, backupMu, last, job, stored>>

Makers    == Requests \cup {Boot}
SiteTypes == {"cms", "shop"}
NoTree    == [state |-> "none", type |-> "cms", theme |-> None]

Request ==
    [op : {"new", "done", "save config", "download"}]
    \cup [op : {"lock", "provision", "first admin"}, email : Emails]
    \cup [op : {"assemble", "swap", "recheck"}]
    \cup [op : {"close"}, old : Makers \cup {Wizard}]
    \cup [op : {"put type"}, tree : Makers, type : SiteTypes, changed : BOOLEAN]
    \cup [op : {"put theme", "change"}, tree : Makers, theme : Themes \cup {None}]
    \cup [op : {"stat"}, theme : Themes]
    \cup [op : {"mkdir", "extract"}, theme : Themes, existed : BOOLEAN]
    \cup [op : {"place", "move", "replace", "restore", "clean"}, theme : Themes]
    \cup [op : {"picture", "row", "write", "insert"}, tree : Makers,
          row : {"screen", "new", "body"} \cup Requests,
          prev : Requests \cup {None}, uploads : BOOLEAN]

Job == [op : {"idle"}] \cup [op : {"lock", "dump", "prune"}, now : 0..MaxClock]
       \cup [op : {"zip"}, now : 0..MaxClock, rows : SUBSET Requests]
       \cup [op : {"save"}, now : 0..MaxClock, whole : BOOLEAN]

TypeOK ==
    /\ config \in Requests \cup {Boot, None}
    /\ main \in [at : {"off", "serving", "draining", "closing", "closed"}]
               \cup [at : {"release"}, tree : Makers \cup {Wizard}]
    /\ live \in Makers \cup {Wizard, None} /\ closed \in BOOLEAN
    /\ tree \in [Makers -> [state : {"none", "open", "closed"}, type : SiteTypes,
                            theme : Themes \cup {None}]]
    /\ mu \in Requests \cup {None} /\ done \in BOOLEAN
    /\ setting \in [type : SiteTypes, theme : Themes \cup {None}]
    /\ dir \in [Themes -> Versions \cup {"part", None}]
    /\ aside \in [Requests -> [theme : Themes, version : Versions] \cup {None}]
    /\ users \subseteq [email : Emails, by : Makers] /\ verify \in BOOLEAN
    /\ tmp \in [Requests -> {"part", "new", None}]
    /\ files \subseteq Requests /\ media \subseteq Requests
    /\ screen \in Requests \cup {None}
    /\ \A i \in DOMAIN items : i \in Requests /\ items[i] \in Requests \cup {None}
    /\ clock \in 0..MaxClock /\ stored \subseteq [at : 0..MaxClock, whole : BOOLEAN]
    /\ backupMu \in Makers \cup {None}
    /\ last \in [Makers -> Int] /\ job \in [Makers -> Job]
    /\ req \in [Requests -> Request]

\* An empty computer, one installed before, or one that lost its config file.
Init ==
    /\ \/ config = None /\ users = {} /\ verify = FALSE
       \/ /\ config \in {None, Boot} /\ verify \in (IF config = None THEN BOOLEAN ELSE {TRUE})
          /\ \E e \in Emails : users = {[email |-> e, by |-> Boot]}
    /\ main = [at |-> "off"] /\ live = None /\ closed = FALSE
    /\ tree = [t \in Makers |-> NoTree]
    /\ mu = None /\ done = FALSE
    /\ setting = [type |-> "cms", theme |-> None]
    /\ dir = [n \in Themes |-> IF n \in Shipped THEN "old" ELSE None]
    /\ tmp = [r \in Requests |-> None] /\ aside = [r \in Requests |-> None]
    /\ files = {} /\ media = {} /\ screen = None /\ items = <<>>
    /\ clock = 0 /\ backupMu = None /\ stored = {}
    /\ last = [t \in Makers |-> -1] /\ job = [t \in Makers |-> [op |-> "idle"]]
    /\ req = [r \in Requests |-> [op |-> "new"]]

At(r, op)      == req[r].op = op
Start(r, what) == req' = [req EXCEPT ![r] = what]
Done(r)        == Start(r, [op |-> "done"])
\* mu.Unlock is deferred.
Return(r) == Done(r) /\ mu' = IF mu = r THEN None ELSE mu

\* ServeHTTP hands a request that arrives to the live tree.
Arrives(r) == At(r, "new") /\ main.at = "serving"
ServedBy(t) == live = t /\ t \in Makers
\* A statement on the pool of a tree that was replaced fails.
PoolOpen(r) == tree[req[r].tree].state = "open"

\* An error path that only returns: a refused form, a failed statement or read.
Fails(r) ==
    /\ req[r].op \in {"provision", "first admin", "save config", "assemble", "put type", "put theme",
                      "stat", "mkdir", "picture", "write", "insert"}
    /\ Return(r)
    /\ UNCHANGED <<main, live, closed, tree, done, disk, contents>>

-----------------------------------------------------------------------------
(* Boot, shutdown, crash.  Definitions commented "Mutant" are used by no     *)
(* other: each is a plausible bug of the one that follows it.                *)

decideBoot == IF config = None THEN "install" ELSE "operate"

\* One statement reads the keys a screen names.
Settings == setting
\* app.New: the settings a tree is assembled from are read once, here.
Assembled ==
    LET kv == Settings
    IN  [state |-> "open", type |-> kv.type,
         theme |-> IF kv.theme # None /\ dir[kv.theme] = None THEN None ELSE kv.theme]

run ==
    /\ main.at = "off"
    /\ IF decideBoot = "install"
       THEN live' = Wizard /\ UNCHANGED tree
       ELSE live' = Boot /\ tree' = [tree EXCEPT ![Boot] = Assembled]
    /\ main' = [at |-> "serving"]
    /\ UNCHANGED <<closed, mu, done, disk, contents, req>>

\* srv.Shutdown: nothing new is accepted.  It waits 15 s and no longer.
Shutdown ==
    /\ main.at = "serving"
    /\ main' = [at |-> "draining"]
    /\ UNCHANGED <<live, closed, tree, mu, done, disk, contents, req>>

\* tree.close, at most once; the wizard's tree owns nothing.
Close(t) == [tree EXCEPT ![t].state = "closed"]
CloseTree(t) == tree' = IF t \in Makers THEN Close(t) ELSE tree

\* root.close: the flag, then the load, then the close of what it loaded.
closeFlag ==
    /\ main.at = "draining"
    /\ main' = [at |-> "closing"] /\ closed' = TRUE
    /\ UNCHANGED <<live, tree, mu, done, disk, contents, req>>
closeLoad ==
    /\ main.at = "closing"
    /\ main' = [at |-> "release", tree |-> live]
    /\ UNCHANGED <<live, closed, tree, mu, done, disk, contents, req>>
close ==
    /\ main.at = "release"
    /\ CloseTree(main.tree)
    /\ main' = [at |-> "closed"]
    /\ UNCHANGED <<live, closed, mu, done, disk, contents, req>>

\* The process ends: run returned, or it was killed.  Files and rows stay.
Exit ==
    /\ main.at # "off"
    /\ main' = [at |-> "off"] /\ live' = None /\ closed' = FALSE
    /\ tree' = [t \in Makers |-> NoTree]
    /\ mu' = None /\ done' = FALSE
    /\ backupMu' = None
    /\ last' = [t \in Makers |-> -1] /\ job' = [t \in Makers |-> [op |-> "idle"]]
    /\ req' = [r \in Requests |-> IF At(r, "new") THEN req[r] ELSE [op |-> "done"]]
    /\ UNCHANGED <<disk, contents, clock, stored>>

-----------------------------------------------------------------------------
(* startOperating: assembly and swap, from the wizard and from A-201.        *)

startOperating(r) ==
    /\ At(r, "assemble")
    /\ tree' = [tree EXCEPT ![r] = Assembled]
    /\ Start(r, [op |-> "swap"])
    /\ UNCHANGED <<main, live, closed, mu, done, disk, contents>>
swap(r) ==
    /\ At(r, "swap")
    /\ live' = r
    /\ Start(r, [op |-> "close", old |-> live])
    /\ UNCHANGED <<main, closed, tree, mu, done, disk, contents>>
closeOld(r) ==
    /\ At(r, "close")
    /\ CloseTree(req[r].old)
    /\ Start(r, [op |-> "recheck"])
    /\ UNCHANGED <<main, live, closed, mu, done, disk, contents>>
\* Mutant: a swap that lands after root.close is not noticed.
recheckNever(r) ==
    /\ At(r, "recheck")
    /\ UNCHANGED tree
    /\ Return(r)
    /\ UNCHANGED <<main, live, closed, done, disk, contents>>
recheck(r) ==
    /\ At(r, "recheck")
    /\ IF closed THEN CloseTree(r) ELSE UNCHANGED tree
    /\ Return(r)
    /\ UNCHANGED <<main, live, closed, done, disk, contents>>

-----------------------------------------------------------------------------
(* The wizard: POST /install                                                 *)

submit(r) == \E e \in Emails :
    /\ Arrives(r) /\ live = Wizard
    /\ Start(r, [op |-> "lock", email |-> e])
    /\ UNCHANGED <<process, disk, contents>>
\* Mutant: the mutex alone, without the flag.
MayInstallAgain == TRUE
MayInstall == ~done
Lock(r) ==
    /\ At(r, "lock") /\ mu = None
    /\ IF MayInstall
       THEN mu' = r /\ Start(r, [req[r] EXCEPT !.op = "provision"])
       ELSE Done(r) /\ UNCHANGED mu
    /\ UNCHANGED <<main, live, closed, tree, done, disk, contents>>
\* Only where nobody has an account yet: a site's own choice is not overwritten.
SeedDefaultSettings == verify' = (verify \/ users = {})
\* Mutant: the default is left to the settings screens.
provisionBare(r) ==
    /\ At(r, "provision")
    /\ UNCHANGED verify
    /\ Start(r, [req[r] EXCEPT !.op = "first admin"])
    /\ UNCHANGED <<process, disk, users, setting, media, screen, items>>
\* Migrations, then the default settings: all of it re-runnable.
provision(r) ==
    /\ At(r, "provision")
    /\ SeedDefaultSettings
    /\ Start(r, [req[r] EXCEPT !.op = "first admin"])
    /\ UNCHANGED <<process, disk, users, setting, media, screen, items>>
\* The account with its role, unless the address has an account: then the form is refused.
CreateFirstAdmin(r) ==
    /\ At(r, "first admin")
    /\ IF \E u \in users : u.email = req[r].email
       THEN Return(r) /\ UNCHANGED users
       ELSE /\ users' = users \cup {[email |-> req[r].email, by |-> r]}
            /\ Start(r, [op |-> "save config"]) /\ UNCHANGED mu
    /\ UNCHANGED <<main, live, closed, tree, done, disk, verify, setting, media, screen, items>>
Save(r) ==
    /\ At(r, "save config")
    /\ config' = r /\ done' = TRUE
    /\ Start(r, [op |-> "assemble"])
    /\ UNCHANGED <<main, live, closed, tree, mu, themes, files, contents>>

-----------------------------------------------------------------------------
(* Site settings: A-201.  The refusal while orders are open is in Fails.     *)

SettingsSave(r) == \E t \in SiteTypes :
    /\ Arrives(r) /\ \E maker \in Makers :
        /\ ServedBy(maker)
        /\ Start(r, [op |-> "put type", tree |-> maker, type |-> t, changed |-> t # Settings.type])
    /\ UNCHANGED <<process, disk, contents>>
PutSetting(key, v) == setting' = [setting EXCEPT ![key] = v]
\* The rest of the form goes in the same transaction.
PutSettings(r) ==
    /\ At(r, "put type") /\ PoolOpen(r)
    /\ PutSetting("type", req[r].type)
    /\ IF req[r].changed THEN Start(r, [op |-> "assemble"]) ELSE Done(r)
    /\ UNCHANGED <<process, disk, users, verify, media, screen, items>>

-----------------------------------------------------------------------------
(* Themes: A-202 activates, A-203 uploads                                    *)

\* ValidateThemeDir: base.html is there.
ValidateTheme(n) == n # None => dir[n] \in Versions
ThemeActivate(r) == \E maker \in Makers, n \in Themes \cup {None} :
    /\ Arrives(r) /\ ServedBy(maker)
    /\ ValidateTheme(n)
    /\ Start(r, [op |-> "put theme", tree |-> maker, theme |-> n])
    /\ UNCHANGED <<process, disk, contents>>
PutActive(r) ==
    /\ At(r, "put theme") /\ PoolOpen(r)
    /\ PutSetting("theme", req[r].theme)
    /\ Start(r, [req[r] EXCEPT !.op = "change"])
    /\ UNCHANGED <<process, disk, users, verify, media, screen, items>>
\* The renderer of the tree the request came through.
OnThemeChange(r) ==
    /\ At(r, "change")
    /\ tree' = [tree EXCEPT ![req[r].tree].theme = req[r].theme]
    /\ Done(r)
    /\ UNCHANGED <<main, live, closed, mu, done, disk, contents>>

ThemeUpload(r) == \E n \in Themes :
    /\ Arrives(r) /\ ServedBy(live)
    /\ n # Settings.theme
    /\ Start(r, [op |-> "stat", theme |-> n])
    /\ UNCHANGED <<process, disk, contents>>
Install(r) ==
    /\ At(r, "stat")
    /\ Start(r, [op |-> "mkdir", theme |-> req[r].theme, existed |-> dir[req[r].theme] # None])
    /\ UNCHANGED <<process, disk, contents>>
\* Mutant: the archive is unpacked where the theme is.
extractInPlace(r) ==
    /\ At(r, "mkdir")
    /\ dir' = [dir EXCEPT ![req[r].theme] = "part"]
    /\ tmp' = [tmp EXCEPT ![r] = "part"]
    /\ Start(r, [req[r] EXCEPT !.op = "extract"])
    /\ UNCHANGED <<process, config, aside, files, contents>>
\* A temporary directory of its own, in which entry after entry arrives.
extract(r) ==
    /\ At(r, "mkdir")
    /\ tmp' = [tmp EXCEPT ![r] = "part"]
    /\ Start(r, [req[r] EXCEPT !.op = "extract"])
    /\ UNCHANGED <<process, config, dir, aside, files, contents>>
\* The last entry: all are written, within the limits, base.html among them.
extractOne(r) ==
    /\ At(r, "extract")
    /\ tmp' = [tmp EXCEPT ![r] = "new"]
    /\ Start(r, [op |-> IF req[r].existed THEN "move" ELSE "place", theme |-> req[r].theme])
    /\ UNCHANGED <<process, config, dir, aside, files, contents>>
\* The deferred removal, on every error return.
Discard(r) == tmp' = [tmp EXCEPT ![r] = None]
extractFails(r) ==
    /\ At(r, "extract")
    /\ Discard(r) /\ Done(r)
    /\ UNCHANGED <<process, config, dir, aside, files, contents>>
\* os.Rename onto a directory that is there fails.
Rename(n, v) == dir[n] = None /\ dir' = [dir EXCEPT ![n] = v]
place(r) ==
    /\ At(r, "place")
    /\ Rename(req[r].theme, tmp[r]) \/ UNCHANGED dir
    /\ Discard(r) /\ Done(r)
    /\ UNCHANGED <<process, config, aside, files, contents>>
\* Mutant: the old theme is removed, not moved aside.
moveAwayForGood(r) ==
    /\ At(r, "move") /\ dir[req[r].theme] # None
    /\ dir' = [dir EXCEPT ![req[r].theme] = None]
    /\ UNCHANGED aside
    /\ Start(r, [req[r] EXCEPT !.op = "replace"])
    /\ UNCHANGED <<process, config, tmp, files, contents>>
moveAside(r) ==
    /\ At(r, "move") /\ dir[req[r].theme] # None
    /\ dir' = [dir EXCEPT ![req[r].theme] = None]
    /\ aside' = [aside EXCEPT ![r] = [theme |-> req[r].theme, version |-> dir[req[r].theme]]]
    /\ Start(r, [req[r] EXCEPT !.op = "replace"])
    /\ UNCHANGED <<process, config, tmp, files, contents>>
\* Another upload moved it meanwhile.
moveFails(r) ==
    /\ At(r, "move") /\ dir[req[r].theme] = None
    /\ Discard(r) /\ Done(r)
    /\ UNCHANGED <<process, config, dir, aside, files, contents>>
replace(r) ==
    /\ At(r, "replace")
    /\ \/ /\ Rename(req[r].theme, tmp[r]) /\ Discard(r)
          /\ Start(r, [req[r] EXCEPT !.op = "clean"])
       \/ UNCHANGED <<dir, tmp>> /\ Start(r, [req[r] EXCEPT !.op = "restore"])
    /\ UNCHANGED <<process, config, aside, files, contents>>
\* Its own failure is ignored.
restore(r) ==
    /\ At(r, "restore")
    /\ \/ Rename(req[r].theme, aside[r].version) /\ aside' = [aside EXCEPT ![r] = None]
       \/ UNCHANGED <<dir, aside>>
    /\ Discard(r) /\ Done(r)
    /\ UNCHANGED <<process, config, files, contents>>
RemoveAll(r) ==
    /\ At(r, "clean")
    /\ aside' = [aside EXCEPT ![r] = None]
    /\ Done(r)
    /\ UNCHANGED <<process, config, dir, tmp, files, contents>>

-----------------------------------------------------------------------------
(* The screens a theme declares: A-212, and the editor's pictures.  The      *)
(* picture is what a form merges (Screen.Apply) into the values read before: *)
(* the other fields are replaced.                                            *)

ThemeSettings == screen
ThemeItems == DOMAIN items
ThemeItem(i) == items[i]

\* The form is checked, then its pictures are stored, then the rest is merged.
applyThemeForm(r, row, prev) == \E maker \in Makers, up \in BOOLEAN :
    /\ Arrives(r) /\ ServedBy(maker)
    /\ Start(r, [op |-> "picture", tree |-> maker, row |-> row, prev |-> prev, uploads |-> up])
    /\ UNCHANGED <<process, disk, contents>>
ThemeScreenSave(r) == applyThemeForm(r, "screen", ThemeSettings)
\* The row of the form's address, or a fresh one.
themeItemFor == {[row |-> "new", prev |-> None]} \cup {[row |-> i, prev |-> ThemeItem(i)] : i \in ThemeItems}
\* A new row is refused here when the collection is full, before its pictures.
ThemeItemSave(r) == \E item \in themeItemFor :
    /\ item.row = "new" => Cardinality(ThemeItems) < MaxThemeItems
    /\ applyThemeForm(r, item.row, item.prev)
\* P-214, A-310: a picture for the text that is being written.
EditorUpload(r) == \E maker \in Makers :
    /\ Arrives(r) /\ ServedBy(maker)
    /\ Start(r, [op |-> "picture", tree |-> maker, row |-> "body", prev |-> None, uploads |-> TRUE])
    /\ UNCHANGED <<process, disk, contents>>

\* Mutant: the row goes first, the files are left for later.
saveThemePicturesLate(r) ==
    /\ At(r, "picture")
    /\ UNCHANGED files
    /\ Start(r, [req[r] EXCEPT !.op = IF req[r].uploads THEN "row" ELSE "write"])
    /\ UNCHANGED <<process, config, themes, contents>>
\* The picture and its thumbnail, or neither.
WriteImage(r) == files' = files \cup {r}
\* The files before the row.
saveThemePictures(r) ==
    /\ At(r, "picture")
    /\ IF req[r].uploads
       THEN WriteImage(r) /\ Start(r, [req[r] EXCEPT !.op = "row"])
       ELSE UNCHANGED files /\ Start(r, [req[r] EXCEPT !.op = "write"])
    /\ UNCHANGED <<process, config, themes, contents>>
CreateMedia(r) ==
    /\ At(r, "row") /\ PoolOpen(r)
    /\ media' = media \cup {r}
    /\ IF req[r].row = "body" THEN Done(r) ELSE Start(r, [req[r] EXCEPT !.op = "write"])
    /\ UNCHANGED <<process, disk, users, verify, setting, screen, items>>
\* The files are removed again; that may fail too.
CreateMediaFails(r) ==
    /\ At(r, "row")
    /\ files' \in {files, files \ {r}}
    /\ Done(r)
    /\ UNCHANGED <<process, config, themes, contents>>
\* P-213: the row, then the file; without one of them the picture is not found.
MediaByID(p) == p \in media
mediaServe(p) == MediaByID(p) /\ p \in files

Apply(r) == IF req[r].uploads THEN r ELSE req[r].prev
SaveThemeSettings(r) ==
    /\ At(r, "write") /\ PoolOpen(r) /\ req[r].row = "screen"
    /\ screen' = Apply(r)
    /\ Done(r)
    /\ UNCHANGED <<process, disk, users, verify, setting, media, items>>
\* One statement counts and inserts; another's insert between its snapshot and
\* its own is not seen.
CountThemeItems(r) ==
    /\ At(r, "write") /\ PoolOpen(r) /\ req[r].row = "new"
    /\ IF Cardinality(ThemeItems) < MaxThemeItems
       THEN Start(r, [req[r] EXCEPT !.op = "insert"]) ELSE Done(r)
    /\ UNCHANGED <<process, disk, contents>>
CreateThemeItem(r) ==
    /\ At(r, "insert")
    /\ items' = [i \in ThemeItems \cup {r} |-> IF i = r THEN Apply(r) ELSE items[i]]
    /\ Done(r)
    /\ UNCHANGED <<process, disk, users, verify, setting, media, screen>>
\* No row, no update: 404.
UpdateRow(i, v) == items' = [j \in ThemeItems |-> IF j = i THEN v ELSE items[j]]
UpdateThemeItem(r) ==
    /\ At(r, "write") /\ PoolOpen(r) /\ req[r].row \in Requests
    /\ UpdateRow(req[r].row, Apply(r))
    /\ Done(r)
    /\ UNCHANGED <<process, disk, users, verify, setting, media, screen>>
DeleteRow(i) == items' = [j \in ThemeItems \ {i} |-> items[j]]
\* The picture's file stays.
ThemeItemDelete(r) == \E i \in ThemeItems :
    /\ Arrives(r) /\ ServedBy(live)
    /\ DeleteRow(i)
    /\ Done(r)
    /\ UNCHANGED <<process, disk, users, verify, setting, media, screen>>

-----------------------------------------------------------------------------
(* Backups: A-604 and the scheduler of each tree, which ticks once a minute  *)
(* while the tree is open and finishes the backup it is at when it closes.   *)

Day(m) == m \div Minutes
Turn(t, what) == job' = [job EXCEPT ![t] = what]

Minute ==
    /\ clock < MaxClock
    /\ clock' = clock + 1
    /\ UNCHANGED <<process, disk, contents, backupMu, last, job, stored, req>>
\* The day is done when a backup of it is listed.
Tick(t) ==
    /\ tree[t].state = "open" /\ job[t].op = "idle"
    /\ clock % Minutes < HourMinutes /\ last[t] # Day(clock)
    /\ IF \E b \in stored : Day(b.at) = Day(clock)
       THEN last' = [last EXCEPT ![t] = Day(clock)] /\ UNCHANGED job
       ELSE Turn(t, [op |-> "lock", now |-> clock]) /\ UNCHANGED last
    /\ UNCHANGED <<process, disk, contents, clock, backupMu, stored, req>>
\* Mu.TryLock: another backup goes first, the next minute looks again.
TryLock(t) ==
    /\ job[t].op = "lock"
    /\ IF backupMu = None
       THEN /\ backupMu' = t
            /\ last' = [last EXCEPT ![t] = Day(job[t].now)]
            /\ Turn(t, [job[t] EXCEPT !.op = "dump"])
       ELSE Turn(t, [op |-> "idle"]) /\ UNCHANGED <<backupMu, last>>
    /\ UNCHANGED <<process, disk, contents, clock, stored, req>>
Unlock(t) == backupMu' = None /\ Turn(t, [op |-> "idle"])
\* List sorts by name, which is by time; prune removes from the Keep-th on.
Newest(bs) == {b \in bs : Cardinality({c \in bs : c.at > b.at}) < Keep}
\* The rows of one snapshot.
Dump(t) ==
    /\ job[t].op = "dump"
    /\ Turn(t, [op |-> "zip", now |-> job[t].now, rows |-> media])
    /\ UNCHANGED <<process, disk, contents, clock, backupMu, last, stored, req>>
\* The dump, then the files of the upload folder as they are by now.
Write(t) ==
    /\ job[t].op = "zip"
    /\ Turn(t, [op |-> "save", now |-> job[t].now, whole |-> job[t].rows \subseteq files])
    /\ UNCHANGED <<process, disk, contents, clock, backupMu, last, stored, req>>
\* Mutant: room is made before the backup is written.
SaveFailsPruned(t) ==
    /\ job[t].op \in {"dump", "zip", "save"}
    /\ stored' = {b \in stored : \E c \in stored : c.at < b.at}
    /\ Unlock(t)
    /\ UNCHANGED <<process, disk, contents, clock, last, req>>
\* The dump or the archive failed: the day is not tried again.
SaveFails(t) ==
    /\ job[t].op \in {"dump", "zip", "save"}
    /\ Unlock(t)
    /\ UNCHANGED <<process, disk, contents, clock, last, stored, req>>
\* The archive, whole, gets its name.
SaveBackup(t) ==
    /\ job[t].op = "save"
    /\ stored' = {b \in stored : b.at # job[t].now} \cup {[at |-> job[t].now, whole |-> job[t].whole]}
    /\ Turn(t, [op |-> "prune", now |-> job[t].now])
    /\ UNCHANGED <<process, disk, contents, clock, backupMu, last, req>>
prune(t) ==
    /\ job[t].op = "prune"
    /\ stored' = Newest(stored)
    /\ Unlock(t)
    /\ UNCHANGED <<process, disk, contents, clock, last, req>>
BackupDownload(r) ==
    /\ Arrives(r) /\ ServedBy(live)
    /\ IF backupMu = None
       THEN backupMu' = r /\ Start(r, [op |-> "download"])
       ELSE Done(r) /\ UNCHANGED backupMu
    /\ UNCHANGED <<process, disk, contents, clock, last, job, stored>>
\* Sent, or given up at any point.
Downloaded(r) ==
    /\ At(r, "download")
    /\ backupMu' = None
    /\ Done(r)
    /\ UNCHANGED <<process, disk, contents, clock, last, job, stored>>

-----------------------------------------------------------------------------
Next ==
    \/ Exit \/ Minute
    \/ \E t \in Makers : 
          \/ Tick(t) \/ TryLock(t) \/ SaveFails(t) \/ Dump(t) \/ Write(t) \/ SaveBackup(t) \/ prune(t)
    \/ \E r \in Requests : BackupDownload(r) \/ Downloaded(r)
    \/ /\ \/ run \/ Shutdown \/ closeFlag \/ closeLoad \/ close
          \/ \E r \in Requests :
              \/ Fails(r)
              \/ startOperating(r) \/ swap(r) \/ closeOld(r) \/ recheck(r)
              \/ submit(r) \/ Lock(r) \/ provision(r) \/ CreateFirstAdmin(r) \/ Save(r)
              \/ SettingsSave(r) \/ PutSettings(r)
              \/ ThemeActivate(r) \/ PutActive(r) \/ OnThemeChange(r)
              \/ ThemeUpload(r) \/ Install(r) \/ extract(r) \/ extractOne(r) \/ extractFails(r) \/ place(r)
              \/ moveAside(r) \/ moveFails(r) \/ replace(r) \/ restore(r) \/ RemoveAll(r)
              \/ ThemeScreenSave(r) \/ ThemeItemSave(r) \/ EditorUpload(r)
              \/ saveThemePictures(r) \/ CreateMedia(r) \/ CreateMediaFails(r)
              \/ SaveThemeSettings(r) \/ CountThemeItems(r) \/ CreateThemeItem(r)
              \/ UpdateThemeItem(r) \/ ThemeItemDelete(r)
       /\ UNCHANGED backups

Spec == Init /\ [][Next]_vars

-----------------------------------------------------------------------------
(* Properties                                                                *)

\* A tree whose pool and loops run is the one that serves, or a swap or the
\* shutdown has yet to release it: no replacement leaves one behind, also when
\* it meets the shutdown.  And the tree that serves is never released
\* (main.go: "each tree is released exactly once no matter which side").
TreesReleased ==
    /\ \A t \in Makers : tree[t].state = "open" =>
         \/ t \in Requests /\ req[t].op \in {"swap", "close", "recheck"}
         \/ \E r \in Requests : At(r, "close") /\ req[r].old = t
         \/ live = t /\ main.at # "closed"
         \/ main = [at |-> "release", tree |-> t]
    /\ main.at \in {"serving", "draining"} /\ live \in Makers => tree[live].state = "open"

\* The config is written by one installation, whatever is submitted at once,
\* fails after it or is tried again after a restart: nobody re-points an
\* installed site (install.go: "One installation at a time, and only one ever").
\* Whoever wrote it has the account it was given, and a site that was empty asks
\* for verified addresses, also when an earlier try died halfway ("계정을 만든 뒤
\* 실패하면 ... 그 사이트는 인증 꺼짐으로 굳는다" is what must not be).
ConfigOnce ==
    [][/\ config = None
       /\ \E u \in users : u.by = config'
       /\ verify \/ \E u \in users : u.by = Boot]_config

\* A backup goes when there are newer ones enough: one that fails or dies, or two
\* trees that back up around a rebuild, cost none that was stored.  "도중에 실패하면
\* 잘린 백업이 목록에 오르지 않고, 이전 백업도 지우지 않는다" (backup/store.go).
\* And the pictures whose rows are in its dump are in its archive, whatever is
\* uploaded while it is made.
BackupsKept ==
    [][/\ \A b \in stored \ stored' : Cardinality({c \in stored' : c.at > b.at}) >= Keep
       /\ \A b \in stored' : b.whole]_stored

\* A shipped theme is whole where it belongs, or its directory stands aside:
\* uploads of it that overlap, fail or die do not destroy it.  "실패한 업로드가 멀쩡하던
\* 테마를 없앤 것이 된다" (theme/upload.go) is what must not be.  A picture a screen
\* shows, and any whose row is there, is served: "파일 없는 행은 깨진 사진으로 보이고"
\* (content/media.go).
ThemesWhole ==
    /\ TypeOK
    /\ \A n \in Themes : dir[n] # "part"
    /\ \A n \in Shipped : dir[n] = None =>
         \E r \in Requests : aside[r] # None /\ aside[r].theme = n
    /\ \A p \in (media \cup {screen} \cup {items[i] : i \in ThemeItems}) \ {None} : mediaServe(p)
================================================================================
