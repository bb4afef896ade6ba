------------------------------- MODULE SiteProofs -------------------------------
(***************************************************************************)
(* The properties of Site, for every value of its constants: what each     *)
(* request, each tree, each theme directory and each stored picture still  *)
(* stands for when a step that read something else uses it; and the two   *)
(* of Roles, which share nothing with them but this module.                *)
(***************************************************************************)
EXTENDS Site, Roles, Sums, TLAPS

\* Trees.  One that has served never comes back; one that is open serves, or will be
\* released by the one who holds it.
Installing == {"lock", "provision", "first admin", "save config"}
Served(t) == t \in Requests => req[t].op \in {"close", "recheck", "done"}
Released(t) ==
    \/ t \in Requests /\ At(t, "swap")
    \/ \E r \in Requests : At(r, "close") /\ req[r].old = t
    \/ live = t /\ main.at \in {"serving", "draining", "closing"}
    \/ main = [at |-> "release", tree |-> t]
    \/ closed /\ t \in Requests /\ req[t].op \in {"close", "recheck"}
TreesInv ==
    /\ \A t \in Makers : tree[t].state = "open" => Released(t)
    /\ main.at \in {"serving", "draining"} => ~closed
    /\ main.at \in {"closing", "release", "closed"} => closed
    /\ main.at # "off" => live # None
    /\ main.at = "off" => /\ live = None /\ ~closed
                          /\ \A r \in Requests : req[r].op \in {"new", "done"}
    /\ Served(live)
    /\ \A r \in Requests : At(r, "close") => req[r].old # live /\ Served(req[r].old)
    /\ main.at \in {"serving", "draining"} =>
         /\ \A t \in Makers : t = live \/ (t \in Requests /\ At(t, "swap")) => tree[t].state = "open"

\* The wizard: one request past its lock, and no config before it.
WizardInv ==
    /\ live = Wizard \/ (\E r \in Requests : At(r, "lock")) => config = None \/ done
    /\ \A r \in Requests : req[r].op \in {"provision", "first admin", "save config"} =>
         mu = r /\ config = None
    /\ users # {} => verify \/ \E u \in users : u.by = Boot
    /\ \A r \in Requests : req[r].op \in {"first admin", "save config"} =>
         verify \/ \E u \in users : u.by = Boot
    /\ \A r \in Requests : At(r, "save config") => \E u \in users : u.by = r

\* Theme directories: what an upload holds while it exchanges them.
Exchange(r) ==
    /\ req[r].op \in {"place", "move", "replace"} => tmp[r] = "new"
    /\ aside[r] # None =>
         /\ req[r].op \in {"replace", "restore", "clean", "done"}
         /\ req[r].op \in {"replace", "restore", "clean"} => aside[r].theme = req[r].theme
    /\ req[r].op \in {"replace", "restore"} => aside[r] # None
Stands(n) == dir[n] # None \/ \E r \in Requests : aside[r] # None /\ aside[r].theme = n /\ ~At(r, "clean")
ThemesInv ==
    /\ \A n \in Themes : dir[n] # "part"
    /\ \A r \in Requests : Exchange(r)
    /\ \A n \in Shipped : Stands(n)

\* Pictures: a file before its row, a row before its use.
Shown == {screen} \cup {items[i] : i \in ThemeItems}
Carrying == {"picture", "row", "write", "insert"}
Carries(r) ==
    /\ r \in media => req[r].op \in {"write", "insert", "done"}
    /\ At(r, "row") => r \in files
    /\ req[r].op \in Carrying => req[r].prev \in media \cup {None}
    /\ req[r].op \in {"write", "insert"} /\ req[r].uploads => r \in media
PicturesInv ==
    /\ media \subseteq files /\ Shown \subseteq media \cup {None}
    /\ \A r \in Requests : Carries(r)

\* Backups: what was dumped is there when the archive is made.
BackupsInv ==
    /\ \A b \in stored : b.whole
    /\ \A t \in Makers : job[t].op = "zip" => job[t].rows \subseteq media
    /\ \A t \in Makers : job[t].op = "save" => job[t].whole

SiteInv == TypeOK /\ TreesInv /\ WizardInv /\ ThemesInv /\ PicturesInv /\ BackupsInv
-----------------------------------------------------------------------------
(* Requests                                                                  *)

LEMMA RequestFields ==
    ASSUME NEW q \in Request
    PROVE  /\ q.op \in {"lock", "provision", "first admin"} => q \in [op : {q.op}, email : Emails]
           /\ q.op = "close" => q.old \in Makers \cup {Wizard}
           /\ q.op = "put type" => q.tree \in Makers /\ q.type \in SiteTypes /\ q.changed \in BOOLEAN
           /\ q.op \in {"put theme", "change"} => q \in [op : {q.op}, tree : Makers, theme : Themes \cup {None}]
           /\ q.op = "stat" => q.theme \in Themes
           /\ q.op \in {"mkdir", "extract"} => q \in [op : {q.op}, theme : Themes, existed : BOOLEAN]
           /\ q.op \in {"place", "move", "replace", "restore", "clean"} => q \in [op : {q.op}, theme : Themes]
           /\ q.op \in Carrying =>
                q \in [op : {q.op}, tree : Makers, row : {"screen", "new", "body"} \cup Requests,
                       prev : Requests \cup {None}, uploads : BOOLEAN]
BY DEF Request, Carrying

\* What a request goes on to keeps what it read.
Onto(q, o) == [q EXCEPT !.op = o]
Kept(q, p, o) ==
    /\ p \in Request /\ p.op = o
    /\ q.op \in Carrying => p.prev = q.prev /\ p.uploads = q.uploads /\ p.row = q.row /\ p.tree = q.tree
    /\ q.op \in {"move", "replace"} => p.theme = q.theme
LEMMA GoesOn ==
    ASSUME NEW q \in Request, NEW o,
           \/ q.op \in {"lock", "provision"} /\ o \in {"provision", "first admin"}
           \/ q.op = "put theme" /\ o = "change"
           \/ q.op = "mkdir" /\ o = "extract"
           \/ q.op \in {"move", "replace"} /\ o \in {"replace", "clean", "restore"}
           \/ q.op \in Carrying /\ o \in Carrying
    PROVE  Kept(q, Onto(q, o), o)
<1>0. SUFFICES ASSUME NEW p, p = Onto(q, o) PROVE Kept(q, p, o)
  OBVIOUS
<1>1. CASE q.op \in {"lock", "provision"} /\ o \in {"provision", "first admin"}
  <2>0. q \in [op : {q.op}, email : Emails]
    BY <1>1, RequestFields DEF Carrying
  <2>1. p = [op |-> o, email |-> q.email] /\ q.email \in Emails
    BY <1>0, <2>0 DEF Onto
  <2>2. [op |-> o, email |-> q.email] \in Request
    BY <1>1, <2>1 DEF Request
  <2>3. p \in Request /\ p.op = o
    BY <1>1, <2>1, <2>2
  <2> QED
    BY <1>1, <2>1, <2>3 DEF Kept, Carrying
<1>2. CASE q.op = "put theme" /\ o = "change"
  <2>0. q \in [op : {q.op}, tree : Makers, theme : Themes \cup {None}]
    BY <1>2, RequestFields DEF Carrying
  <2>1. p = [op |-> o, tree |-> q.tree, theme |-> q.theme] /\ q.tree \in Makers /\ q.theme \in Themes \cup {None}
    BY <1>0, <2>0 DEF Onto
  <2>2. [op |-> o, tree |-> q.tree, theme |-> q.theme] \in Request
    BY <1>2, <2>1 DEF Request
  <2>3. p \in Request /\ p.op = o
    BY <1>2, <2>1, <2>2
  <2> QED
    BY <1>2, <2>1, <2>3 DEF Kept, Carrying
<1>3. CASE q.op = "mkdir" /\ o = "extract"
  <2>0. q \in [op : {q.op}, theme : Themes, existed : BOOLEAN]
    BY <1>3, RequestFields DEF Carrying
  <2>1. p = [op |-> o, theme |-> q.theme, existed |-> q.existed] /\ q.theme \in Themes /\ q.existed \in BOOLEAN
    BY <1>0, <2>0 DEF Onto
  <2>2. [op |-> o, theme |-> q.theme, existed |-> q.existed] \in Request
    BY <1>3, <2>1 DEF Request
  <2>3. p \in Request /\ p.op = o
    BY <1>3, <2>1, <2>2
  <2> QED
    BY <1>3, <2>1, <2>3 DEF Kept, Carrying
<1>4. CASE q.op \in {"move", "replace"} /\ o \in {"replace", "clean", "restore"}
  <2>0. q \in [op : {q.op}, theme : Themes]
    BY <1>4, RequestFields DEF Carrying
  <2>1. p = [op |-> o, theme |-> q.theme] /\ q.theme \in Themes
    BY <1>0, <2>0 DEF Onto
  <2>2. [op |-> o, theme |-> q.theme] \in Request
    BY <1>4, <2>1 DEF Request
  <2>3. p \in Request /\ p.op = o
    BY <1>4, <2>1, <2>2
  <2> QED
    BY <1>4, <2>1, <2>3 DEF Kept, Carrying
<1>5. CASE q.op \in Carrying /\ o \in Carrying
  <2>0. q \in [op : {q.op}, tree : Makers, row : {"screen", "new", "body"} \cup Requests,
              prev : Requests \cup {None}, uploads : BOOLEAN]
    BY <1>5, RequestFields DEF Carrying
  <2>1. /\ p = [op |-> o, tree |-> q.tree, row |-> q.row, prev |-> q.prev, uploads |-> q.uploads]
        /\ q.tree \in Makers /\ q.row \in {"screen", "new", "body"} \cup Requests
        /\ q.prev \in Requests \cup {None} /\ q.uploads \in BOOLEAN
    BY <1>0, <2>0 DEF Onto
  <2>2. [op |-> o, tree |-> q.tree, row |-> q.row, prev |-> q.prev, uploads |-> q.uploads] \in Request
    BY <1>5, <2>1 DEF Request, Carrying
  <2>3. p \in Request /\ p.op = o
    BY <1>5, <2>1, <2>2
  <2> QED
    BY <1>5, <2>1, <2>3 DEF Kept, Carrying
<1> QED
  BY <1>1, <1>2, <1>3, <1>4, <1>5

\* A step of one request: from what to what, the others left alone.
Advances(r, from, to) ==
    /\ req[r].op \in from /\ req'[r].op \in to
    /\ req' \in [Requests -> Request]
    /\ \A s \in Requests : s # r => req'[s] = req[s]
    /\ At(r, "new") => main.at = "serving"
LEMMA Starts ==
    ASSUME req \in [Requests -> Request], NEW r \in Requests, NEW what \in Request, Start(r, what),
           At(r, "new") => main.at = "serving"
    PROVE  Advances(r, {req[r].op}, {what.op}) /\ req'[r] = what
BY DEF Start, Advances, At


\* Where the operations of requests lead.
Failing == {"provision", "first admin", "save config", "assemble", "put type", "put theme",
            "stat", "mkdir", "picture", "write", "insert"}
Hands(r) ==
    /\ Fails(r) => Advances(r, Failing, {"done"})
    /\ startOperating(r) => Advances(r, {"assemble"}, {"swap"})
    /\ swap(r) => Advances(r, {"swap"}, {"close"})
    /\ closeOld(r) => Advances(r, {"close"}, {"recheck"})
    /\ recheck(r) => Advances(r, {"recheck"}, {"done"})
    /\ submit(r) => Advances(r, {"new"}, {"lock"})
    /\ Lock(r) => Advances(r, {"lock"}, {"provision", "done"})
    /\ provision(r) => Advances(r, {"provision"}, {"first admin"})
    /\ CreateFirstAdmin(r) => Advances(r, {"first admin"}, {"save config", "done"})
    /\ Save(r) => Advances(r, {"save config"}, {"assemble"})
    /\ SettingsSave(r) => Advances(r, {"new"}, {"put type"})
    /\ PutSettings(r) => Advances(r, {"put type"}, {"assemble", "done"})
    /\ ThemeActivate(r) => Advances(r, {"new"}, {"put theme"})
    /\ PutActive(r) => Advances(r, {"put theme"}, {"change"})
    /\ OnThemeChange(r) => Advances(r, {"change"}, {"done"})
    /\ ThemeUpload(r) => Advances(r, {"new"}, {"stat"})
    /\ Install(r) => Advances(r, {"stat"}, {"mkdir"})
    /\ extract(r) => Advances(r, {"mkdir"}, {"extract"})
    /\ extractOne(r) => Advances(r, {"extract"}, {"move", "place"})
    /\ extractFails(r) => Advances(r, {"extract"}, {"done"})
    /\ place(r) => Advances(r, {"place"}, {"done"})
    /\ moveAside(r) => Advances(r, {"move"}, {"replace"})
    /\ moveFails(r) => Advances(r, {"move"}, {"done"})
    /\ replace(r) => Advances(r, {"replace"}, {"clean", "restore"})
    /\ restore(r) => Advances(r, {"restore"}, {"done"})
    /\ RemoveAll(r) => Advances(r, {"clean"}, {"done"})
    /\ ThemeScreenSave(r) => Advances(r, {"new"}, {"picture"})
    /\ ThemeItemSave(r) => Advances(r, {"new"}, {"picture"})
    /\ EditorUpload(r) => Advances(r, {"new"}, {"picture"})
    /\ saveThemePictures(r) => Advances(r, {"picture"}, {"row", "write"})
    /\ CreateMedia(r) => Advances(r, {"row"}, {"write", "done"})
    /\ CreateMediaFails(r) => Advances(r, {"row"}, {"done"})
    /\ SaveThemeSettings(r) => Advances(r, {"write"}, {"done"})
    /\ CountThemeItems(r) => Advances(r, {"write"}, {"insert", "done"})
    /\ CreateThemeItem(r) => Advances(r, {"insert"}, {"done"})
    /\ UpdateThemeItem(r) => Advances(r, {"write"}, {"done"})
    /\ ThemeItemDelete(r) => Advances(r, {"new"}, {"done"})
    /\ BackupDownload(r) => Advances(r, {"new"}, {"download", "done"})
    /\ Downloaded(r) => Advances(r, {"download"}, {"done"})
LEMMA Advance == ASSUME TypeOK, TreesInv, NEW r \in Requests PROVE Hands(r)
<1>0. req \in [Requests -> Request] /\ req[r] \in Request
  BY DEF TypeOK
<1> USE <1>0
<1>1. /\ [op |-> "done"] \in Request /\ [op |-> "save config"] \in Request /\ [op |-> "download"] \in Request
      /\ \A o \in {"assemble", "swap", "recheck"} : [op |-> o] \in Request
      /\ \A e \in Emails : [op |-> "lock", email |-> e] \in Request
      /\ \A old \in Makers \cup {Wizard} : [op |-> "close", old |-> old] \in Request
      /\ \A t \in Makers, ty \in SiteTypes, c \in BOOLEAN : [op |-> "put type", tree |-> t, type |-> ty, changed |-> c] \in Request
      /\ \A t \in Makers, n \in Themes \cup {None} : [op |-> "put theme", tree |-> t, theme |-> n] \in Request
      /\ \A n \in Themes : [op |-> "stat", theme |-> n] \in Request
      /\ \A n \in Themes, e \in BOOLEAN : [op |-> "mkdir", theme |-> n, existed |-> e] \in Request
      /\ \A n \in Themes, o \in {"move", "place"} : [op |-> o, theme |-> n] \in Request
      /\ \A t \in Makers, w \in {"screen", "new", "body"} \cup Requests, p \in Requests \cup {None}, u \in BOOLEAN :
           [op |-> "picture", tree |-> t, row |-> w, prev |-> p, uploads |-> u] \in Request
  BY ZenonT(60) DEF Request
<1>2. \A what \in Request : Start(r, what) /\ (At(r, "new") => main.at = "serving")
        => Advances(r, {req[r].op}, {what.op}) /\ req'[r] = what
  BY Starts
<1>3. Done(r) /\ (At(r, "new") => main.at = "serving") => Advances(r, {req[r].op}, {"done"})
  BY <1>1, <1>2 DEF Done
<1>4. Fails(r) => Advances(r, Failing, {"done"})
  BY <1>1, <1>2, <1>3 DEF Fails, Arrives, At, Advances, Return, Failing
<1>5. startOperating(r) => Advances(r, {"assemble"}, {"swap"})
  BY <1>1, <1>2, <1>3 DEF startOperating, Arrives, At, Advances, Return, Failing
<1>6. swap(r) => Advances(r, {"swap"}, {"close"})
  <2>0. SUFFICES ASSUME swap(r) PROVE Advances(r, {"swap"}, {"close"})
    OBVIOUS
  <2>1. [op |-> "close", old |-> live] \in Request
    <3>1. live \in Makers \cup {Wizard}
      BY <2>0 DEF swap, At, TreesInv, TypeOK
    <3> QED
      BY <1>1, <3>1
  <2> QED
    BY <1>2, <2>0, <2>1 DEF swap, At, Advances
<1>7. closeOld(r) => Advances(r, {"close"}, {"recheck"})
  BY <1>1, <1>2, <1>3 DEF closeOld, Arrives, At, Advances, Return, Failing
<1>8. recheck(r) => Advances(r, {"recheck"}, {"done"})
  BY <1>1, <1>2, <1>3 DEF recheck, Arrives, At, Advances, Return, Failing
<1>9. submit(r) => Advances(r, {"new"}, {"lock"})
  BY <1>1, <1>2, <1>3 DEF submit, Arrives, At, Advances, Return, Failing
<1>10. Lock(r) => Advances(r, {"lock"}, {"provision", "done"})
  <2>0. SUFFICES ASSUME Lock(r) PROVE Advances(r, {"lock"}, {"provision", "done"})
    OBVIOUS
  <2>1. req[r].op = "lock"
    BY <2>0 DEF Lock, At
  <2>2. PICK p : p = Onto(req[r], "provision")
    OBVIOUS
  <2>3. p \in Request /\ p.op = "provision"
    BY <1>0, <2>1, <2>2, GoesOn DEF Kept, Carrying
  <2>4. Start(r, p) \/ Done(r)
    BY <2>0, <2>2 DEF Lock, Onto
  <2> QED
    BY <1>2, <1>3, <2>1, <2>3, <2>4 DEF At, Advances
<1>11. provision(r) => Advances(r, {"provision"}, {"first admin"})
  <2>0. SUFFICES ASSUME provision(r) PROVE Advances(r, {"provision"}, {"first admin"})
    OBVIOUS
  <2>1. req[r].op = "provision"
    BY <2>0 DEF provision, At
  <2>2. PICK p : p = Onto(req[r], "first admin")
    OBVIOUS
  <2>3. p \in Request /\ p.op = "first admin"
    BY <1>0, <2>1, <2>2, GoesOn DEF Kept, Carrying
  <2>4. Start(r, p)
    BY <2>0, <2>2 DEF provision, Onto
  <2> QED
    BY <1>2, <2>1, <2>3, <2>4 DEF At, Advances
<1>12. CreateFirstAdmin(r) => Advances(r, {"first admin"}, {"save config", "done"})
  BY <1>1, <1>2, <1>3 DEF CreateFirstAdmin, Arrives, At, Advances, Return, Failing
<1>13. Save(r) => Advances(r, {"save config"}, {"assemble"})
  BY <1>1, <1>2, <1>3 DEF Save, Arrives, At, Advances, Return, Failing
<1>14. SettingsSave(r) => Advances(r, {"new"}, {"put type"})
  BY <1>1, <1>2, <1>3 DEF SettingsSave, Arrives, At, Advances, Return, Failing
<1>15. PutSettings(r) => Advances(r, {"put type"}, {"assemble", "done"})
  BY <1>1, <1>2, <1>3 DEF PutSettings, Arrives, At, Advances, Return, Failing
<1>16. ThemeActivate(r) => Advances(r, {"new"}, {"put theme"})
  BY <1>1, <1>2, <1>3 DEF ThemeActivate, Arrives, At, Advances, Return, Failing
<1>17. PutActive(r) => Advances(r, {"put theme"}, {"change"})
  <2>0. SUFFICES ASSUME PutActive(r) PROVE Advances(r, {"put theme"}, {"change"})
    OBVIOUS
  <2>1. req[r].op = "put theme"
    BY <2>0 DEF PutActive, At
  <2>2. PICK p : p = Onto(req[r], "change")
    OBVIOUS
  <2>3. p \in Request /\ p.op = "change"
    BY <1>0, <2>1, <2>2, GoesOn DEF Kept, Carrying
  <2>4. Start(r, p)
    BY <2>0, <2>2 DEF PutActive, Onto
  <2> QED
    BY <1>2, <2>1, <2>3, <2>4 DEF At, Advances
<1>18. OnThemeChange(r) => Advances(r, {"change"}, {"done"})
  BY <1>1, <1>2, <1>3 DEF OnThemeChange, Arrives, At, Advances, Return, Failing
<1>19. ThemeUpload(r) => Advances(r, {"new"}, {"stat"})
  BY <1>1, <1>2, <1>3 DEF ThemeUpload, Arrives, At, Advances, Return, Failing
<1>20. Install(r) => Advances(r, {"stat"}, {"mkdir"})
  <2>0. SUFFICES ASSUME Install(r) PROVE Advances(r, {"stat"}, {"mkdir"})
    OBVIOUS
  <2>1. PICK e \in BOOLEAN : Start(r, [op |-> "mkdir", theme |-> req[r].theme, existed |-> e])
    BY <2>0 DEF Install
  <2>2. req[r].theme \in Themes
    BY <1>0, <2>0, RequestFields DEF Install, At
  <2> QED
    BY <1>1, <1>2, <2>0, <2>1, <2>2 DEF Install, At, Advances
<1>21. extract(r) => Advances(r, {"mkdir"}, {"extract"})
  <2>0. SUFFICES ASSUME extract(r) PROVE Advances(r, {"mkdir"}, {"extract"})
    OBVIOUS
  <2>1. req[r].op = "mkdir"
    BY <2>0 DEF extract, At
  <2>2. PICK p : p = Onto(req[r], "extract")
    OBVIOUS
  <2>3. p \in Request /\ p.op = "extract"
    BY <1>0, <2>1, <2>2, GoesOn DEF Kept, Carrying
  <2>4. Start(r, p)
    BY <2>0, <2>2 DEF extract, Onto
  <2> QED
    BY <1>2, <2>1, <2>3, <2>4 DEF At, Advances
<1>22. extractOne(r) => Advances(r, {"extract"}, {"move", "place"})
  <2>0. SUFFICES ASSUME extractOne(r) PROVE Advances(r, {"extract"}, {"move", "place"})
    OBVIOUS
  <2>1. PICK o \in {"move", "place"} : Start(r, [op |-> o, theme |-> req[r].theme])
    BY <2>0 DEF extractOne
  <2>2. req[r].theme \in Themes
    BY <1>0, <2>0, RequestFields DEF extractOne, At
  <2> QED
    BY <1>1, <1>2, <2>0, <2>1, <2>2 DEF extractOne, At, Advances
<1>23. extractFails(r) => Advances(r, {"extract"}, {"done"})
  BY <1>1, <1>2, <1>3 DEF extractFails, Arrives, At, Advances, Return, Failing
<1>24. place(r) => Advances(r, {"place"}, {"done"})
  BY <1>1, <1>2, <1>3 DEF place, Arrives, At, Advances, Return, Failing
<1>25. moveAside(r) => Advances(r, {"move"}, {"replace"})
  <2>0. SUFFICES ASSUME moveAside(r) PROVE Advances(r, {"move"}, {"replace"})
    OBVIOUS
  <2>1. req[r].op = "move"
    BY <2>0 DEF moveAside, At
  <2>2. PICK p : p = Onto(req[r], "replace")
    OBVIOUS
  <2>3. p \in Request /\ p.op = "replace"
    BY <1>0, <2>1, <2>2, GoesOn DEF Kept, Carrying
  <2>4. Start(r, p)
    BY <2>0, <2>2 DEF moveAside, Onto
  <2> QED
    BY <1>2, <2>1, <2>3, <2>4 DEF At, Advances
<1>26. moveFails(r) => Advances(r, {"move"}, {"done"})
  BY <1>1, <1>2, <1>3 DEF moveFails, Arrives, At, Advances, Return, Failing
<1>27. replace(r) => Advances(r, {"replace"}, {"clean", "restore"})
  <2>0. SUFFICES ASSUME replace(r) PROVE Advances(r, {"replace"}, {"clean", "restore"})
    OBVIOUS
  <2>1. req[r].op = "replace"
    BY <2>0 DEF replace, At
  <2>5. PICK o \in {"clean", "restore"} : Start(r, Onto(req[r], o))
    BY <2>0 DEF replace, Onto
  <2>2. PICK p : p = Onto(req[r], o)
    OBVIOUS
  <2>3. p \in Request /\ p.op = o
    BY <1>0, <2>1, <2>2, <2>5, GoesOn DEF Kept, Carrying
  <2>4. Start(r, p)
    BY <2>2, <2>5
  <2> QED
    BY <1>2, <2>1, <2>3, <2>4, <2>5 DEF At, Advances
<1>28. restore(r) => Advances(r, {"restore"}, {"done"})
  BY <1>1, <1>2, <1>3 DEF restore, Arrives, At, Advances, Return, Failing
<1>29. RemoveAll(r) => Advances(r, {"clean"}, {"done"})
  BY <1>1, <1>2, <1>3 DEF RemoveAll, Arrives, At, Advances, Return, Failing
<1>30. ThemeScreenSave(r) => Advances(r, {"new"}, {"picture"})
  <2>0. SUFFICES ASSUME ThemeScreenSave(r) PROVE Advances(r, {"new"}, {"picture"})
    OBVIOUS
  <2>1. PICK maker \in Makers, up \in BOOLEAN, row \in {"screen", "body"}, prev \in Requests \cup {None} :
          Arrives(r) /\ Start(r, [op |-> "picture", tree |-> maker, row |-> row, prev |-> prev, uploads |-> up])
    BY <2>0 DEF ThemeScreenSave, applyThemeForm, ThemeSettings, TypeOK
  <2>2. PICK p : p = [op |-> "picture", tree |-> maker, row |-> row, prev |-> prev, uploads |-> up]
    OBVIOUS
  <2>3. p \in Request /\ p.op = "picture"
    BY <1>1, <2>2
  <2>4. Start(r, p) /\ At(r, "new") /\ main.at = "serving"
    BY <2>1, <2>2 DEF Arrives
  <2> QED
    BY <1>2, <2>3, <2>4 DEF At, Advances
<1>31. ThemeItemSave(r) => Advances(r, {"new"}, {"picture"})
  <2>0. SUFFICES ASSUME ThemeItemSave(r) PROVE Advances(r, {"new"}, {"picture"})
    OBVIOUS
  <2>1. PICK item \in themeItemFor : applyThemeForm(r, item.row, item.prev)
    BY <2>0 DEF ThemeItemSave
  <2>2. item.row \in {"screen", "new", "body"} \cup Requests /\ item.prev \in Requests \cup {None}
    BY DEF themeItemFor, ThemeItem, ThemeItems, TypeOK
  <2> QED
    BY <1>1, <1>2, <2>1, <2>2, ZenonT(60) DEF applyThemeForm, Arrives, At, Advances
<1>32. EditorUpload(r) => Advances(r, {"new"}, {"picture"})
  <2>0. SUFFICES ASSUME EditorUpload(r) PROVE Advances(r, {"new"}, {"picture"})
    OBVIOUS
  <2>1. PICK maker \in Makers, up \in BOOLEAN, row \in {"screen", "body"}, prev \in Requests \cup {None} :
          Arrives(r) /\ Start(r, [op |-> "picture", tree |-> maker, row |-> row, prev |-> prev, uploads |-> up])
    BY <2>0 DEF EditorUpload, applyThemeForm, ThemeSettings, TypeOK
  <2>2. PICK p : p = [op |-> "picture", tree |-> maker, row |-> row, prev |-> prev, uploads |-> up]
    OBVIOUS
  <2>3. p \in Request /\ p.op = "picture"
    BY <1>1, <2>2
  <2>4. Start(r, p) /\ At(r, "new") /\ main.at = "serving"
    BY <2>1, <2>2 DEF Arrives
  <2> QED
    BY <1>2, <2>3, <2>4 DEF At, Advances
<1>33. saveThemePictures(r) => Advances(r, {"picture"}, {"row", "write"})
  <2>0. SUFFICES ASSUME saveThemePictures(r) PROVE Advances(r, {"picture"}, {"row", "write"})
    OBVIOUS
  <2>1. req[r].op = "picture"
    BY <2>0 DEF saveThemePictures, At
  <2>5. PICK o \in {"row", "write"} : Start(r, Onto(req[r], o))
    BY <2>0 DEF saveThemePictures, Onto
  <2>2. PICK p : p = Onto(req[r], o)
    OBVIOUS
  <2>3. p \in Request /\ p.op = o
    BY <1>0, <2>1, <2>2, <2>5, GoesOn DEF Kept, Carrying
  <2>4. Start(r, p)
    BY <2>2, <2>5
  <2> QED
    BY <1>2, <2>1, <2>3, <2>4, <2>5 DEF At, Advances
<1>34. CreateMedia(r) => Advances(r, {"row"}, {"write", "done"})
  <2>0. SUFFICES ASSUME CreateMedia(r) PROVE Advances(r, {"row"}, {"write", "done"})
    OBVIOUS
  <2>1. req[r].op = "row"
    BY <2>0 DEF CreateMedia, At
  <2>2. PICK p : p = Onto(req[r], "write")
    OBVIOUS
  <2>3. p \in Request /\ p.op = "write"
    BY <1>0, <2>1, <2>2, GoesOn DEF Kept, Carrying
  <2>4. Start(r, p) \/ Done(r)
    BY <2>0, <2>2 DEF CreateMedia, Onto
  <2> QED
    BY <1>2, <1>3, <2>1, <2>3, <2>4 DEF At, Advances
<1>35. CreateMediaFails(r) => Advances(r, {"row"}, {"done"})
  BY <1>1, <1>2, <1>3 DEF CreateMediaFails, Arrives, At, Advances, Return, Failing
<1>36. SaveThemeSettings(r) => Advances(r, {"write"}, {"done"})
  BY <1>1, <1>2, <1>3 DEF SaveThemeSettings, Arrives, At, Advances, Return, Failing
<1>37. CountThemeItems(r) => Advances(r, {"write"}, {"insert", "done"})
  <2>0. SUFFICES ASSUME CountThemeItems(r) PROVE Advances(r, {"write"}, {"insert", "done"})
    OBVIOUS
  <2>1. req[r].op = "write"
    BY <2>0 DEF CountThemeItems, At
  <2>2. PICK p : p = Onto(req[r], "insert")
    OBVIOUS
  <2>3. p \in Request /\ p.op = "insert"
    BY <1>0, <2>1, <2>2, GoesOn DEF Kept, Carrying
  <2>4. Start(r, p) \/ Done(r)
    BY <2>0, <2>2 DEF CountThemeItems, Onto
  <2> QED
    BY <1>2, <1>3, <2>1, <2>3, <2>4 DEF At, Advances
<1>38. CreateThemeItem(r) => Advances(r, {"insert"}, {"done"})
  BY <1>1, <1>2, <1>3 DEF CreateThemeItem, Arrives, At, Advances, Return, Failing
<1>39. UpdateThemeItem(r) => Advances(r, {"write"}, {"done"})
  BY <1>1, <1>2, <1>3 DEF UpdateThemeItem, Arrives, At, Advances, Return, Failing
<1>40. ThemeItemDelete(r) => Advances(r, {"new"}, {"done"})
  BY <1>1, <1>2, <1>3 DEF ThemeItemDelete, Arrives, At, Advances, Return, Failing
<1>41. BackupDownload(r) => Advances(r, {"new"}, {"download", "done"})
  BY <1>1, <1>2, <1>3 DEF BackupDownload, Arrives, At, Advances, Return, Failing
<1>42. Downloaded(r) => Advances(r, {"download"}, {"done"})
  BY <1>1, <1>2, <1>3 DEF Downloaded, Arrives, At, Advances, Return, Failing
<1> QED
  BY <1>4, <1>5, <1>6, <1>7, <1>8, <1>9, <1>10, <1>11, <1>12, <1>13, <1>14, <1>15, <1>16, <1>17, <1>18, <1>19, <1>20, <1>21, <1>22, <1>23, <1>24, <1>25, <1>26, <1>27, <1>28, <1>29, <1>30, <1>31, <1>32, <1>33, <1>34, <1>35, <1>36, <1>37, <1>38, <1>39, <1>40, <1>41, <1>42 DEF Hands
\* What the steps of requests leave alone.
Leaves(r) ==
    /\ \/ submit(r) \/ SettingsSave(r) \/ ThemeActivate(r) \/ ThemeUpload(r) \/ Install(r)
       \/ ThemeScreenSave(r) \/ ThemeItemSave(r) \/ EditorUpload(r) \/ CountThemeItems(r)
       \/ BackupDownload(r) \/ Downloaded(r)
       => UNCHANGED <<process, disk, contents>>
    /\ Fails(r) => UNCHANGED <<main, live, closed, tree, done, disk, contents>>
    /\ startOperating(r) => UNCHANGED <<main, live, closed, mu, done, disk, contents>>
    /\ swap(r) => UNCHANGED <<main, closed, tree, mu, done, disk, contents>>
    /\ closeOld(r) => UNCHANGED <<main, live, closed, mu, done, disk, contents>>
    /\ recheck(r) => UNCHANGED <<main, live, closed, done, disk, contents>>
    /\ Lock(r) => UNCHANGED <<main, live, closed, tree, done, disk, contents>>
    /\ provision(r) => UNCHANGED <<process, disk, users, setting, media, screen, items>>
    /\ CreateFirstAdmin(r) =>
         UNCHANGED <<main, live, closed, tree, done, disk, verify, setting, media, screen, items>>
    /\ Save(r) => UNCHANGED <<main, live, closed, tree, mu, themes, files, contents>>
    /\ PutSettings(r) \/ PutActive(r) => UNCHANGED <<process, disk, users, verify, media, screen, items>>
    /\ OnThemeChange(r) => UNCHANGED <<main, live, closed, mu, done, disk, contents>>
    /\ \/ extract(r) \/ extractOne(r) \/ extractFails(r) \/ place(r) \/ moveAside(r) \/ moveFails(r)
       \/ replace(r) \/ restore(r) \/ RemoveAll(r)
       => UNCHANGED <<process, config, files, contents>>
    /\ saveThemePictures(r) \/ CreateMediaFails(r) => UNCHANGED <<process, config, themes, contents>>
    /\ CreateMedia(r) => UNCHANGED <<process, disk, users, verify, setting, screen, items>>
    /\ SaveThemeSettings(r) => UNCHANGED <<process, disk, users, verify, setting, media, items>>
    /\ CreateThemeItem(r) \/ UpdateThemeItem(r) \/ ThemeItemDelete(r)
         => UNCHANGED <<process, disk, users, verify, setting, media, screen>>
LEMMA Leave == ASSUME NEW r \in Requests PROVE Leaves(r)
<1>1. \/ submit(r) \/ SettingsSave(r) \/ ThemeActivate(r) \/ ThemeUpload(r) \/ Install(r)
      \/ ThemeScreenSave(r) \/ ThemeItemSave(r) \/ EditorUpload(r) \/ CountThemeItems(r)
      \/ BackupDownload(r) \/ Downloaded(r)
      => UNCHANGED <<process, disk, contents>>
  BY DEF submit, SettingsSave, ThemeActivate, ThemeUpload, Install, ThemeScreenSave, ThemeItemSave,
         EditorUpload, applyThemeForm, CountThemeItems, BackupDownload, Downloaded
<1>2. \/ extract(r) \/ extractOne(r) \/ extractFails(r) \/ place(r) \/ moveAside(r) \/ moveFails(r)
      \/ replace(r) \/ restore(r) \/ RemoveAll(r)
      => UNCHANGED <<process, config, files, contents>>
  BY DEF extract, extractOne, extractFails, place, moveAside, moveFails, replace, restore, RemoveAll,
         process, contents
<1> QED
  BY <1>1, <1>2 DEF Leaves, Fails, startOperating, swap, closeOld, recheck, Lock, provision, CreateFirstAdmin,
     Save, PutSettings, PutActive, OnThemeChange, saveThemePictures, CreateMediaFails, CreateMedia,
     SaveThemeSettings, CreateThemeItem, UpdateThemeItem, ThemeItemDelete

\* The steps of main, of the clock and of the backups leave the requests alone.
LEMMA Alone ==
    /\ run => UNCHANGED <<closed, mu, done, disk, contents, req>>
    /\ Shutdown => UNCHANGED <<live, closed, tree, mu, done, disk, contents, req>>
    /\ closeFlag => UNCHANGED <<live, tree, mu, done, disk, contents, req>>
    /\ closeLoad => UNCHANGED <<live, closed, tree, mu, done, disk, contents, req>>
    /\ close => UNCHANGED <<live, closed, mu, done, disk, contents, req>>
    /\ Exit => UNCHANGED <<disk, contents, clock, stored>>
    /\ Minute => UNCHANGED <<process, disk, contents, backupMu, last, job, stored, req>>
    /\ \A t \in Makers :
          Tick(t) \/ TryLock(t) \/ SaveFails(t) \/ Dump(t) \/ Write(t) \/ SaveBackup(t) \/ prune(t)
          => UNCHANGED <<process, disk, contents, clock, req>>
<1>1. ASSUME NEW t \in Makers
      PROVE  Tick(t) \/ TryLock(t) \/ SaveFails(t) \/ Dump(t) \/ Write(t) \/ SaveBackup(t) \/ prune(t)
             => UNCHANGED <<process, disk, contents, clock, req>>
  BY DEF Tick, TryLock, SaveFails, Dump, Write, SaveBackup, prune
<1> QED
  BY <1>1 DEF run, Shutdown, closeFlag, closeLoad, close, Exit, Minute
-----------------------------------------------------------------------------
(* Types                                                                     *)

LEMMA Names ==
    /\ Boot # Wizard /\ Boot # None /\ Wizard # None
    /\ Boot \notin Requests /\ Wizard \notin Requests /\ None \notin Requests
<1>1. ASSUME NEW a, NEW b PROVE IsFiniteSet({a, b}) /\ Cardinality({a, b}) <= 2
  <2>1. IsFiniteSet({a}) /\ Cardinality({a}) = 1 /\ {a} \cup {b} = {a, b}
    BY FS_Singleton
  <2>2. IsFiniteSet({a} \cup {b}) /\ Cardinality({a} \cup {b}) = IF b \in {a} THEN 1 ELSE 2
    BY <2>1, FS_AddElement
  <2> QED
    BY <2>1, <2>2
<1>2. ASSUME NEW a, NEW b, {Boot, Wizard, None} = {a, b} PROVE FALSE
  <2>1. Cardinality({Boot, Wizard, None}) = 3
    BY SiteAssumption
  <2>2. Cardinality({a, b}) = 3
    BY <1>2, <2>1, Zenon
  <2>3. Cardinality({a, b}) <= 2
    BY <1>1, Zenon
  <2>4. ~(3 <= 2)
    OBVIOUS
  <2> QED
    BY <2>2, <2>3, <2>4, Zenon
<1>3. Boot # Wizard
  <2>1. Boot = Wizard => {Boot, Wizard, None} = {Wizard, None}
    OBVIOUS
  <2> QED
    BY <1>2, <2>1
<1>4. Boot # None
  <2>1. Boot = None => {Boot, Wizard, None} = {Wizard, None}
    OBVIOUS
  <2> QED
    BY <1>2, <2>1
<1>5. Wizard # None
  <2>1. Wizard = None => {Boot, Wizard, None} = {Boot, None}
    OBVIOUS
  <2> QED
    BY <1>2, <2>1
<1> QED
  BY <1>3, <1>4, <1>5, SiteAssumption

ProcessTyped ==
    /\ main \in [at : {"off", "serving", "draining", "closing", "closed"}]
               \cup [at : {"release"}, tree : Makers \cup {Wizard}]
    /\ live \in Makers \cup {Wizard, None} /\ closed \in BOOLEAN
    /\ tree \in [Makers -> [state : {"none", "open", "closed"}, type : SiteTypes,
                            theme : Themes \cup {None}]]
    /\ mu \in Requests \cup {None} /\ done \in BOOLEAN
DiskTyped ==
    /\ config \in Requests \cup {Boot, None}
    /\ dir \in [Themes -> Versions \cup {"part", None}]
    /\ tmp \in [Requests -> {"part", "new", None}]
    /\ aside \in [Requests -> [theme : Themes, version : Versions] \cup {None}]
    /\ files \subseteq Requests
ContentsTyped ==
    /\ users \subseteq [email : Emails, by : Makers] /\ verify \in BOOLEAN
    /\ setting \in [type : SiteTypes, theme : Themes \cup {None}]
    /\ media \subseteq Requests
    /\ screen \in Requests \cup {None}
    /\ \A i \in DOMAIN items : i \in Requests /\ items[i] \in Requests \cup {None}
BackupsTyped ==
    /\ clock \in 0..MaxClock /\ stored \subseteq [at : 0..MaxClock, whole : BOOLEAN]
    /\ backupMu \in Makers \cup {None}
    /\ last \in [Makers -> Int] /\ job \in [Makers -> Job]
RequestsTyped == req \in [Requests -> Request]
LEMMA Typed == TypeOK <=> ProcessTyped /\ DiskTyped /\ ContentsTyped /\ BackupsTyped /\ RequestsTyped
BY DEF TypeOK, ProcessTyped, DiskTyped, ContentsTyped, BackupsTyped, RequestsTyped

LEMMA RequestsStep == TypeOK /\ TreesInv /\ Next => RequestsTyped'
<1> SUFFICES ASSUME TypeOK, TreesInv, Next PROVE RequestsTyped'
  OBVIOUS
<1>1. CASE Exit
  <2>1. [op |-> "done"] \in Request
    BY DEF Request
  <2> QED
    BY <1>1, <2>1 DEF Exit, TypeOK, RequestsTyped
<1>2. CASE UNCHANGED req
  BY <1>2 DEF TypeOK, RequestsTyped
<1>3. ASSUME NEW r \in Requests, NEW from, NEW to, Advances(r, from, to) PROVE RequestsTyped'
  BY <1>3 DEF Advances, RequestsTyped
<1>4. \A r \in Requests : Hands(r)
  BY Advance
<1> QED
  BY <1>1, <1>2, <1>3, <1>4, Alone, ZenonT(60) DEF Next, Hands

LEMMA AssembledTyped ==
    ASSUME TypeOK
    PROVE  Assembled \in [state : {"none", "open", "closed"}, type : SiteTypes, theme : Themes \cup {None}]
           /\ Assembled.state = "open"
BY DEF TypeOK, Assembled, Settings

LEMMA ProcessStep == TypeOK /\ TreesInv /\ Next => ProcessTyped'
<1> SUFFICES ASSUME TypeOK, TreesInv, Next PROVE ProcessTyped'
  OBVIOUS
<1>0. ProcessTyped /\ req \in [Requests -> Request] /\ \A r \in Requests : req[r] \in Request
  BY Typed DEF TypeOK
<1>1. CASE Exit
  <2>1. NoTree \in [state : {"none", "open", "closed"}, type : SiteTypes, theme : Themes \cup {None}]
    BY DEF NoTree, SiteTypes
  <2> QED
    BY <1>0, <1>1, <2>1 DEF Exit, ProcessTyped
<1>2. CASE run \/ Shutdown \/ closeFlag \/ closeLoad \/ close
  <2>1. CASE run
    BY <1>0, <2>1, AssembledTyped DEF run, ProcessTyped, Makers
  <2>2. CASE Shutdown
    BY <1>0, <2>2 DEF Shutdown, ProcessTyped
  <2>5. CASE closeFlag
    BY <1>0, <2>5 DEF closeFlag, ProcessTyped
  <2>3. CASE closeLoad
    <3>1. live \in Makers \cup {Wizard}
      BY <1>0, <2>3 DEF closeLoad, ProcessTyped, TreesInv
    <3> QED
      BY <1>0, <2>3, <3>1 DEF closeLoad, ProcessTyped
  <2>4. CASE close
    BY <1>0, <2>4 DEF close, CloseTree, Close, ProcessTyped
  <2> QED
    BY <1>2, <2>1, <2>2, <2>3, <2>4, <2>5
<1>3. ASSUME NEW r \in Requests,
             Fails(r) \/ startOperating(r) \/ swap(r) \/ closeOld(r) \/ recheck(r)
             \/ Lock(r) \/ CreateFirstAdmin(r) \/ Save(r) \/ OnThemeChange(r)
      PROVE  ProcessTyped'
  <2>1. CASE Fails(r) \/ CreateFirstAdmin(r) \/ Save(r)
    BY <1>0, <2>1 DEF Fails, CreateFirstAdmin, Save, Return, ProcessTyped
  <2>2. CASE Lock(r)
    BY <1>0, <2>2 DEF Lock, ProcessTyped
  <2>3. CASE startOperating(r)
    BY <1>0, <2>3, AssembledTyped DEF startOperating, ProcessTyped, Makers
  <2>4. CASE swap(r)
    BY <1>0, <2>4 DEF swap, ProcessTyped, Makers
  <2>5. CASE closeOld(r) \/ recheck(r)
    BY <1>0, <2>5 DEF closeOld, recheck, Return, CloseTree, Close, ProcessTyped, Makers
  <2>6. CASE OnThemeChange(r)
    <3>1. req[r].tree \in Makers /\ req[r].theme \in Themes \cup {None}
      BY <1>0, <2>6, RequestFields DEF OnThemeChange, At
    <3> QED
      BY <1>0, <2>6, <3>1 DEF OnThemeChange, ProcessTyped
  <2> QED
    BY <1>3, <2>1, <2>2, <2>3, <2>4, <2>5, <2>6
<1>4. CASE UNCHANGED process
  BY <1>0, <1>4 DEF ProcessTyped, process
<1> QED
  BY <1>1, <1>2, <1>3, <1>4, Leave, Alone DEF Next, Leaves
LEMMA DiskStep == TypeOK /\ TreesInv /\ ThemesInv /\ Next => DiskTyped'
<1> SUFFICES ASSUME TypeOK, TreesInv, ThemesInv, Next PROVE DiskTyped'
  OBVIOUS
<1>0. DiskTyped /\ req \in [Requests -> Request] /\ \A r \in Requests : req[r] \in Request
  BY Typed DEF TypeOK
<1>1. CASE UNCHANGED disk
  BY <1>0, <1>1 DEF DiskTyped, disk
<1>2. ASSUME NEW r \in Requests, Save(r) PROVE DiskTyped'
  BY <1>0, <1>2 DEF Save, themes, DiskTyped
<1>3. ASSUME NEW r \in Requests, saveThemePictures(r) \/ CreateMediaFails(r) PROVE DiskTyped'
  <2>1. CASE saveThemePictures(r)
    BY <1>0, <2>1 DEF saveThemePictures, WriteImage, themes, DiskTyped
  <2>2. CASE CreateMediaFails(r)
    BY <1>0, <2>2 DEF CreateMediaFails, themes, DiskTyped
  <2> QED
    BY <1>3, <2>1, <2>2
<1>4. ASSUME NEW r \in Requests,
             \/ extract(r) \/ extractOne(r) \/ extractFails(r) \/ place(r) \/ moveAside(r) \/ moveFails(r)
             \/ replace(r) \/ restore(r) \/ RemoveAll(r)
      PROVE  DiskTyped'
  <2>0. UNCHANGED <<config, files>>
    BY <1>4, Leave DEF Leaves
  <2>1. req[r].op \in {"place", "move", "replace", "restore", "clean"} => req[r].theme \in Themes
    BY <1>0, RequestFields
  <2>2. CASE extract(r) \/ extractOne(r) \/ extractFails(r) \/ moveFails(r)
    BY <1>0, <2>0, <2>2 DEF extract, extractOne, extractFails, moveFails, Discard, DiskTyped
  <2>3. CASE place(r)
    <3>1. \/ dir' = [dir EXCEPT ![req[r].theme] = tmp[r]] \/ UNCHANGED dir
      BY <2>3 DEF place, Rename
    <3>2. dir' \in [Themes -> Versions \cup {"part", None}]
      BY <1>0, <2>1, <2>3, <3>1 DEF DiskTyped, Versions
    <3> QED
      BY <1>0, <2>0, <2>3, <3>2 DEF place, Discard, DiskTyped
  <2>4. CASE moveAside(r)
    <3>1. dir[req[r].theme] \in Versions /\ req[r].theme \in Themes
      BY <1>0, <2>1, <2>4 DEF moveAside, At, ThemesInv, DiskTyped
    <3>2. PICK a : a = [theme |-> req[r].theme, version |-> dir[req[r].theme]]
      OBVIOUS
    <3>3. a \in [theme : Themes, version : Versions]
      BY <3>1, <3>2
    <3>4. dir' = [dir EXCEPT ![req[r].theme] = None] /\ aside' = [aside EXCEPT ![r] = a] /\ UNCHANGED tmp
      BY <2>4, <3>2 DEF moveAside
    <3> QED
      BY <1>0, <2>0, <3>3, <3>4 DEF DiskTyped
  <2>5. CASE replace(r)
    <3>1. \/ dir' = [dir EXCEPT ![req[r].theme] = tmp[r]] /\ tmp' = [tmp EXCEPT ![r] = None]
          \/ UNCHANGED <<dir, tmp>>
      BY <2>5 DEF replace, Rename, Discard
    <3>2. dir' \in [Themes -> Versions \cup {"part", None}] /\ tmp' \in [Requests -> {"part", "new", None}]
      BY <1>0, <2>1, <2>5, <3>1 DEF DiskTyped, Versions
    <3> QED
      BY <1>0, <2>0, <2>5, <3>2 DEF replace, DiskTyped
  <2>6. CASE restore(r)
    <3>1. aside[r] \in [theme : Themes, version : Versions]
      BY <1>0, <2>6 DEF restore, At, ThemesInv, Exchange, DiskTyped
    <3>2. \/ dir' = [dir EXCEPT ![req[r].theme] = aside[r].version] /\ aside' = [aside EXCEPT ![r] = None]
          \/ UNCHANGED <<dir, aside>>
      BY <2>6 DEF restore, Rename
    <3>3. tmp' = [tmp EXCEPT ![r] = None]
      BY <2>6 DEF restore, Discard
    <3>4. aside[r].version \in Versions
      BY <3>1
    <3>5. dir' \in [Themes -> Versions \cup {"part", None}]
      BY <1>0, <3>2, <3>4 DEF DiskTyped
    <3>6. aside' \in [Requests -> [theme : Themes, version : Versions] \cup {None}]
      BY <1>0, <3>2 DEF DiskTyped
    <3> QED
      BY <1>0, <2>0, <3>3, <3>5, <3>6 DEF DiskTyped
  <2>7. CASE RemoveAll(r)
    BY <1>0, <2>0, <2>7 DEF RemoveAll, DiskTyped
  <2> QED
    BY <1>4, <2>2, <2>3, <2>4, <2>5, <2>6, <2>7
<1> QED
  BY <1>1, <1>2, <1>3, <1>4, Leave, Alone DEF Next, Leaves, disk

LEMMA ContentsStep == TypeOK /\ TreesInv /\ Next => ContentsTyped'
<1> SUFFICES ASSUME TypeOK, TreesInv, Next PROVE ContentsTyped'
  OBVIOUS
<1>0. /\ ContentsTyped /\ req \in [Requests -> Request]
      /\ \A r \in Requests : req[r] \in Request /\ (req[r].op \in Carrying => Apply(r) \in Requests \cup {None})
  <2>1. ContentsTyped /\ req \in [Requests -> Request]
    BY Typed DEF TypeOK
  <2>2. ASSUME NEW r \in Requests, req[r].op \in Carrying PROVE Apply(r) \in Requests \cup {None}
    <3>1. req[r] \in Request
      BY <2>1
    <3>2. PICK q \in Request : q = req[r]
      BY <3>1
    <3>3. q.prev \in Requests \cup {None}
      BY <2>2, <3>2, RequestFields
    <3> QED
      BY <3>2, <3>3 DEF Apply
  <2> QED
    BY <2>1, <2>2
<1>1. CASE UNCHANGED contents
  BY <1>0, <1>1 DEF ContentsTyped, contents
<1>2. ASSUME NEW r \in Requests, provision(r) \/ CreateMedia(r) \/ SaveThemeSettings(r) PROVE ContentsTyped'
  <2>1. CASE provision(r)
    BY <1>0, <2>1 DEF provision, SeedDefaultSettings, ContentsTyped
  <2>2. CASE CreateMedia(r)
    BY <1>0, <2>2 DEF CreateMedia, ContentsTyped
  <2>3. CASE SaveThemeSettings(r)
    BY <1>0, <2>3 DEF SaveThemeSettings, At, Carrying, ContentsTyped
  <2> QED
    BY <1>2, <2>1, <2>2, <2>3
<1>3. ASSUME NEW r \in Requests, CreateFirstAdmin(r) PROVE ContentsTyped'
  <2>1. req[r].email \in Emails
    BY <1>0, <1>3, RequestFields DEF CreateFirstAdmin, At
  <2>2. [email |-> req[r].email, by |-> r] \in [email : Emails, by : Makers]
    BY <2>1 DEF Makers
  <2> QED
    BY <1>0, <1>3, <2>2 DEF CreateFirstAdmin, ContentsTyped
<1>4. ASSUME NEW r \in Requests, PutSettings(r) \/ PutActive(r) PROVE ContentsTyped'
  <2>1. CASE PutSettings(r)
    <3>1. req[r].type \in SiteTypes /\ setting' = [setting EXCEPT !["type"] = req[r].type]
      BY <1>0, <2>1, RequestFields DEF PutSettings, PutSetting, At
    <3>2. setting' \in [type : SiteTypes, theme : Themes \cup {None}]
      BY <1>0, <3>1 DEF ContentsTyped
    <3> QED
      BY <1>0, <2>1, <3>2 DEF PutSettings, ContentsTyped
  <2>2. CASE PutActive(r)
    <3>1. req[r].theme \in Themes \cup {None} /\ setting' = [setting EXCEPT !["theme"] = req[r].theme]
      BY <1>0, <2>2, RequestFields DEF PutActive, PutSetting, At
    <3>2. setting' \in [type : SiteTypes, theme : Themes \cup {None}]
      BY <1>0, <3>1 DEF ContentsTyped
    <3> QED
      BY <1>0, <2>2, <3>2 DEF PutActive, ContentsTyped
  <2> QED
    BY <1>4, <2>1, <2>2
<1>5. ASSUME NEW r \in Requests, CreateThemeItem(r) \/ UpdateThemeItem(r) \/ ThemeItemDelete(r) PROVE ContentsTyped'
  <2>1. CASE CreateThemeItem(r)
    BY <1>0, <2>1 DEF CreateThemeItem, At, Carrying, ThemeItems, ContentsTyped
  <2>2. CASE UpdateThemeItem(r)
    BY <1>0, <2>2 DEF UpdateThemeItem, UpdateRow, At, Carrying, ThemeItems, ContentsTyped
  <2>3. CASE ThemeItemDelete(r)
    BY <1>0, <2>3 DEF ThemeItemDelete, DeleteRow, ThemeItems, ContentsTyped
  <2> QED
    BY <1>5, <2>1, <2>2, <2>3
<1> QED
  BY <1>1, <1>2, <1>3, <1>4, <1>5, Leave, Alone DEF Next, Leaves, contents

LEMMA JobFields ==
    ASSUME NEW j \in Job
    PROVE  /\ j.op = "lock" => j \in [op : {"lock"}, now : 0..MaxClock]
           /\ j.op \in {"dump", "zip", "save", "prune"} => j.now \in 0..MaxClock
           /\ j.op = "zip" => j.rows \in SUBSET Requests
           /\ j.op = "save" => j.whole \in BOOLEAN
BY DEF Job
LEMMA DayInt == ASSUME NEW m \in 0..MaxClock PROVE Day(m) \in Int
BY SiteAssumption DEF Day
LEMMA BackupsStep == TypeOK /\ Next => BackupsTyped'
<1> SUFFICES ASSUME TypeOK, Next PROVE BackupsTyped'
  OBVIOUS
<1>0. BackupsTyped /\ \A t \in Makers : job[t] \in Job
  BY Typed DEF BackupsTyped
<1>1. CASE UNCHANGED backups
  BY <1>0, <1>1 DEF BackupsTyped, backups
<1>2. [op |-> "idle"] \in Job
  BY DEF Job
<1>3. CASE Exit \/ Minute
  <2>1. CASE Exit
    <3>1. /\ UNCHANGED <<clock, stored>> /\ backupMu' = None
          /\ last' = [t \in Makers |-> -1] /\ job' = [t \in Makers |-> [op |-> "idle"]]
      BY <2>1 DEF Exit
    <3>2. last' \in [Makers -> Int] /\ job' \in [Makers -> Job]
      BY <1>2, <3>1
    <3> QED
      BY <1>0, <3>1, <3>2 DEF BackupsTyped
  <2>2. CASE Minute
    BY <1>0, <2>2, SiteAssumption DEF Minute, BackupsTyped
  <2> QED
    BY <1>3, <2>1, <2>2
<1>4. ASSUME NEW r \in Requests, BackupDownload(r) \/ Downloaded(r) PROVE BackupsTyped'
  BY <1>0, <1>4 DEF BackupDownload, Downloaded, BackupsTyped, Makers
<1>5. ASSUME NEW t \in Makers,
             Tick(t) \/ TryLock(t) \/ SaveFails(t) \/ Dump(t) \/ Write(t) \/ SaveBackup(t) \/ prune(t)
      PROVE  BackupsTyped'
  <2>0. UNCHANGED clock
    BY <1>5, Alone
  <2>1. CASE Tick(t)
    <3>1. [op |-> "lock", now |-> clock] \in Job
      BY <1>0 DEF BackupsTyped, Job
    <3> QED
      BY <1>0, <2>0, <2>1, <3>1, DayInt DEF Tick, Turn, BackupsTyped
  <2>2. CASE TryLock(t)
    <3>1. job[t] \in [op : {"lock"}, now : 0..MaxClock]
      BY <1>0, <2>2, JobFields DEF TryLock
    <3>2. PICK j : j = [job[t] EXCEPT !.op = "dump"]
      OBVIOUS
    <3>3. j = [op |-> "dump", now |-> job[t].now] /\ job[t].now \in 0..MaxClock
      BY <3>1, <3>2
    <3>4. j \in Job
      BY <3>3 DEF Job
    <3>5. \/ backupMu' = t /\ last' = [last EXCEPT ![t] = Day(job[t].now)] /\ job' = [job EXCEPT ![t] = j]
          \/ job' = [job EXCEPT ![t] = [op |-> "idle"]] /\ UNCHANGED <<backupMu, last>>
      BY <2>2, <3>2 DEF TryLock, Turn
    <3>6. UNCHANGED stored
      BY <2>2 DEF TryLock
    <3>7. Day(job[t].now) \in Int
      BY <3>3, DayInt
    <3> QED
      BY <1>0, <1>2, <2>0, <3>4, <3>5, <3>6, <3>7 DEF BackupsTyped
  <2>3. CASE SaveFails(t)
    BY <1>0, <1>2, <2>0, <2>3 DEF SaveFails, Unlock, Turn, BackupsTyped
  <2>4. CASE Dump(t)
    <3>1. media \in SUBSET Requests /\ job[t].now \in 0..MaxClock
      BY <1>0, <2>4, JobFields DEF Dump, TypeOK
    <3>2. [op |-> "zip", now |-> job[t].now, rows |-> media] \in Job
      BY <3>1 DEF Job
    <3> QED
      BY <1>0, <2>0, <2>4, <3>2 DEF Dump, Turn, BackupsTyped
  <2>5. CASE Write(t)
    <3>1. job[t].now \in 0..MaxClock
      BY <1>0, <2>5, JobFields DEF Write
    <3>2. [op |-> "save", now |-> job[t].now, whole |-> job[t].rows \subseteq files] \in Job
      BY <3>1 DEF Job
    <3> QED
      BY <1>0, <2>0, <2>5, <3>2 DEF Write, Turn, BackupsTyped
  <2>6. CASE SaveBackup(t)
    <3>1. job[t].now \in 0..MaxClock /\ job[t].whole \in BOOLEAN
      BY <1>0, <2>6, JobFields DEF SaveBackup
    <3>2. [op |-> "prune", now |-> job[t].now] \in Job
      BY <3>1 DEF Job
    <3>3. [at |-> job[t].now, whole |-> job[t].whole] \in [at : 0..MaxClock, whole : BOOLEAN]
      BY <3>1
    <3> QED
      BY <1>0, <2>0, <2>6, <3>2, <3>3 DEF SaveBackup, Turn, BackupsTyped
  <2>7. CASE prune(t)
    <3>1. stored' \subseteq stored
      BY <2>7 DEF prune, Newest
    <3> QED
      BY <1>0, <1>2, <2>0, <2>7, <3>1 DEF prune, Unlock, Turn, BackupsTyped
  <2> QED
    BY <1>5, <2>1, <2>2, <2>3, <2>4, <2>5, <2>6, <2>7
<1> QED
  BY <1>1, <1>3, <1>4, <1>5 DEF Next

LEMMA TypesStep == TypeOK /\ TreesInv /\ ThemesInv /\ [Next]_vars => TypeOK'
<1>1. TypeOK /\ UNCHANGED vars => TypeOK'
  BY DEF TypeOK, vars
<1> QED
  BY <1>1, Typed, RequestsStep, ProcessStep, DiskStep, ContentsStep, BackupsStep
     DEF TypeOK, ProcessTyped, DiskTyped, ContentsTyped, BackupsTyped, RequestsTyped
-----------------------------------------------------------------------------
(* Trees                                                                     *)

\* A step that releases no tree and puts none in place.
TreesQuiet ==
    /\ UNCHANGED <<main, live, closed>>
    /\ \A t \in Makers : tree'[t].state = tree[t].state
    /\ \A s \in Requests :
          \/ req'[s] = req[s]
          \/ /\ req[s].op \notin {"swap", "close", "recheck", "done"} /\ main.at # "off"
             /\ req'[s].op \notin {"swap", "close", "recheck"}
LEMMA TreesLeft == TypeOK /\ TreesInv /\ TreesQuiet => TreesInv'
<1> SUFFICES ASSUME TypeOK, TreesInv, TreesQuiet PROVE TreesInv'
  OBVIOUS
<1>1. \A s \in Requests : \A o \in {"swap", "close", "recheck"} : At(s, o)' <=> At(s, o)
  BY DEF TreesQuiet, At
<1>2. \A s \in Requests : req[s].op = "done" => req'[s] = req[s]
  BY DEF TreesQuiet
<1>3. \A s \in Requests : At(s, "close") => req'[s] = req[s]
  BY DEF TreesQuiet, At
<1>4. \A t : Served(t) => Served(t)'
  BY <1>1, <1>2 DEF Served, At
<1>5. ASSUME NEW t \in Makers, Released(t) PROVE Released(t)'
  BY <1>1, <1>3, <1>5 DEF Released, TreesQuiet, At
<1>6. main' = main /\ live' = live /\ closed' = closed
  BY DEF TreesQuiet
<1>7. \A t \in Makers : tree'[t].state = "open" => Released(t)'
  BY <1>5 DEF TreesInv, TreesQuiet
<1>8. ASSUME NEW r \in Requests, At(r, "close")' PROVE (req[r].old # live /\ Served(req[r].old))'
  <2>1. PICK x : x = req[r].old
    OBVIOUS
  <2>2. req'[r] = req[r] /\ x # live /\ Served(x)
    BY <1>1, <1>3, <1>8, <2>1 DEF TreesInv
  <2>3. Served(x)' /\ x = req'[r].old
    BY <1>4, <2>1, <2>2
  <2> QED
    BY <1>6, <2>2, <2>3 DEF Served
<1>9. main.at = "off" => \A r \in Requests : req'[r].op \in {"new", "done"}
  BY DEF TreesInv, TreesQuiet
<1>10. main.at \in {"serving", "draining"} =>
         \A t \in Makers : t = live \/ (t \in Requests /\ At(t, "swap")') => tree'[t].state = "open"
  BY <1>1 DEF TreesInv, TreesQuiet
<1> QED
  BY <1>4, <1>6, <1>7, <1>8, <1>9, <1>10 DEF TreesInv
LEMMA Assembles == ASSUME TypeOK, TreesInv, NEW r \in Requests, startOperating(r) PROVE TreesInv'
<1>1. /\ UNCHANGED <<main, live, closed>> /\ tree' = [tree EXCEPT ![r] = Assembled]
      /\ At(r, "assemble") /\ req' = [req EXCEPT ![r] = [op |-> "swap"]]
  BY DEF startOperating, Start
<1>2. req'[r] = [op |-> "swap"] /\ \A s \in Requests : s # r => req'[s] = req[s]
  BY <1>1 DEF TypeOK
<1>3. /\ tree'[r].state = "open" /\ \A t \in Makers : t # r => tree'[t] = tree[t]
      /\ r \in Makers
  BY <1>1, AssembledTyped DEF TypeOK, Makers
<1>4. ASSUME NEW t, Served(t) PROVE Served(t)' /\ t # r
  BY <1>1, <1>2, <1>4 DEF Served, At
<1>5. ASSUME NEW t \in Makers, t # r, Released(t) PROVE Released(t)'
  BY <1>1, <1>2, <1>5 DEF Released, At
<1>6. Released(r)'
  BY <1>2 DEF Released, At
<1>7. ASSUME NEW s \in Requests, At(s, "close")' PROVE (req[s].old # live /\ Served(req[s].old))'
  <2>1. PICK x : x = req[s].old
    OBVIOUS
  <2>2. req'[s] = req[s] /\ x # live /\ Served(x)
    BY <1>2, <1>7, <2>1 DEF TreesInv, At
  <2>3. Served(x)' /\ x = req'[s].old
    BY <1>4, <2>1, <2>2
  <2> QED
    BY <1>1, <2>2, <2>3 DEF Served
<1>8. Served(live)' /\ live # r
  BY <1>1, <1>4 DEF TreesInv
<1>9. main.at # "off"
  BY <1>1 DEF TreesInv, At
<1>10. \A t \in Makers : tree'[t].state = "open" => Released(t)'
  BY <1>3, <1>5, <1>6 DEF TreesInv
<1>11. main.at \in {"serving", "draining"} =>
         \A t \in Makers : t = live \/ (t \in Requests /\ At(t, "swap")') => tree'[t].state = "open"
  BY <1>2, <1>3 DEF TreesInv, At
<1> QED
  BY <1>1, <1>7, <1>8, <1>9, <1>10, <1>11 DEF TreesInv

LEMMA Swaps == ASSUME TypeOK, TreesInv, NEW r \in Requests, swap(r) PROVE TreesInv'
<1>1. /\ UNCHANGED <<main, closed, tree>> /\ live' = r
      /\ At(r, "swap") /\ req' = [req EXCEPT ![r] = [op |-> "close", old |-> live]]
  BY DEF swap, Start
<1>2. req'[r] = [op |-> "close", old |-> live] /\ \A s \in Requests : s # r => req'[s] = req[s]
  BY <1>1 DEF TypeOK
<1>3. main.at # "off" /\ r \in Makers
  BY <1>1 DEF TreesInv, At, Makers
<1>4. ASSUME NEW t, Served(t) PROVE Served(t)' /\ t # r
  BY <1>1, <1>2, <1>4 DEF Served, At
<1>5. main.at \in {"serving", "draining", "closing"} \/ closed
  BY <1>3 DEF TypeOK, TreesInv
<1>6. ASSUME NEW t \in Makers, Released(t) PROVE Released(t)'
  <2>1. CASE t = r
    BY <1>1, <1>2, <1>5, <2>1 DEF Released, At
  <2>2. CASE t # r
    BY <1>1, <1>2, <1>6, <2>2 DEF Released, At
  <2> QED
    BY <2>1, <2>2
<1>7. ASSUME NEW s \in Requests, At(s, "close")' PROVE (req[s].old # live /\ Served(req[s].old))'
  <2>1. PICK x : x = req'[s].old
    OBVIOUS
  <2>2. Served(x)
    BY <1>2, <1>7, <2>1 DEF TreesInv, At
  <2>3. Served(x)' /\ x # r
    BY <1>4, <2>2
  <2> QED
    BY <1>1, <2>1, <2>3 DEF Served
<1>8. Served(live)'
  BY <1>1, <1>2 DEF Served
<1>9. \A t \in Makers : tree'[t].state = "open" => Released(t)'
  BY <1>1, <1>6 DEF TreesInv
<1>10. main.at \in {"serving", "draining"} =>
         \A t \in Makers : t = r \/ (t \in Requests /\ At(t, "swap")') => tree'[t].state = "open"
  BY <1>1, <1>2 DEF TreesInv, At
<1> QED
  BY <1>1, <1>3, <1>7, <1>8, <1>9, <1>10, Names DEF TreesInv

LEMMA ClosesOld == ASSUME TypeOK, TreesInv, NEW r \in Requests, closeOld(r) PROVE TreesInv'
<1>1. /\ UNCHANGED <<main, live, closed>> /\ CloseTree(req[r].old)
      /\ At(r, "close") /\ req' = [req EXCEPT ![r] = [op |-> "recheck"]]
  BY DEF closeOld, Start
<1>2. PICK old : old = req[r].old
  OBVIOUS
<1>3. req'[r] = [op |-> "recheck"] /\ \A s \in Requests : s # r => req'[s] = req[s]
  BY <1>1 DEF TypeOK
<1>4. /\ old \in Makers => tree'[old].state = "closed"
      /\ \A t \in Makers : t # old => tree'[t] = tree[t]
  BY <1>1, <1>2 DEF CloseTree, Close, TypeOK
<1>5. ASSUME NEW t, Served(t) PROVE Served(t)'
  BY <1>1, <1>3, <1>5 DEF Served, At
<1>6. ASSUME NEW t \in Makers, t # old, Released(t) PROVE Released(t)'
  BY <1>1, <1>2, <1>3, <1>6 DEF Released, At
<1>7. ASSUME NEW s \in Requests, At(s, "close")' PROVE (req[s].old # live /\ Served(req[s].old))'
  <2>1. PICK x : x = req[s].old
    OBVIOUS
  <2>2. req'[s] = req[s] /\ x # live /\ Served(x)
    BY <1>3, <1>7, <2>1 DEF TreesInv, At
  <2>3. Served(x)' /\ x = req'[s].old
    BY <1>5, <2>1, <2>2
  <2> QED
    BY <1>1, <2>2, <2>3 DEF Served
<1>8. Served(live)'
  BY <1>1, <1>5 DEF TreesInv, Served
<1>9. \A t \in Makers : tree'[t].state = "open" => Released(t)'
  BY <1>4, <1>6 DEF TreesInv
<1>10. old # live /\ Served(old) /\ main.at # "off"
  BY <1>1, <1>2 DEF TreesInv, At
<1>11. main.at \in {"serving", "draining"} =>
         \A t \in Makers : t = live \/ (t \in Requests /\ At(t, "swap")') => tree'[t].state = "open"
  <2>1. \A t \in Requests : At(t, "swap")' => At(t, "swap") /\ t # old
    BY <1>1, <1>3, <1>10 DEF At, Served
  <2> QED
    BY <1>4, <1>10, <2>1 DEF TreesInv
<1> QED
  BY <1>1, <1>7, <1>8, <1>9, <1>10, <1>11 DEF TreesInv

LEMMA Rechecks == ASSUME TypeOK, TreesInv, NEW r \in Requests, recheck(r) PROVE TreesInv'
<1>1. /\ UNCHANGED <<main, live, closed>> /\ IF closed THEN CloseTree(r) ELSE UNCHANGED tree
      /\ At(r, "recheck") /\ req' = [req EXCEPT ![r] = [op |-> "done"]]
  BY DEF recheck, Return, Done, Start
<1>2. req'[r] = [op |-> "done"] /\ \A s \in Requests : s # r => req'[s] = req[s]
  BY <1>1 DEF TypeOK
<1>3. /\ closed => tree'[r].state = "closed" /\ \A t \in Makers : t # r => tree'[t] = tree[t]
      /\ ~closed => tree' = tree
  BY <1>1 DEF CloseTree, Close, TypeOK, Makers
<1>4. ASSUME NEW t, Served(t) PROVE Served(t)'
  BY <1>1, <1>2, <1>4 DEF Served, At
<1>5. ASSUME NEW t \in Makers, t # r \/ ~closed, Released(t) PROVE Released(t)'
  BY <1>1, <1>2, <1>5 DEF Released, At
<1>6. ASSUME NEW s \in Requests, At(s, "close")' PROVE (req[s].old # live /\ Served(req[s].old))'
  <2>1. PICK x : x = req[s].old
    OBVIOUS
  <2>2. req'[s] = req[s] /\ x # live /\ Served(x)
    BY <1>2, <1>6, <2>1 DEF TreesInv, At
  <2>3. Served(x)' /\ x = req'[s].old
    BY <1>4, <2>1, <2>2
  <2> QED
    BY <1>1, <2>2, <2>3 DEF Served
<1>7. Served(live)'
  BY <1>1, <1>4 DEF TreesInv, Served
<1>8. \A t \in Makers : tree'[t].state = "open" => Released(t)'
  BY <1>3, <1>5 DEF TreesInv
<1>9. main.at # "off"
  BY <1>1 DEF TreesInv, At
<1>10. main.at \in {"serving", "draining"} =>
         \A t \in Makers : t = live \/ (t \in Requests /\ At(t, "swap")') => tree'[t].state = "open"
  BY <1>2, <1>3 DEF TreesInv, At
<1> QED
  BY <1>1, <1>6, <1>7, <1>8, <1>9, <1>10 DEF TreesInv
LEMMA MainMoves ==
    TypeOK /\ TreesInv /\ (Exit \/ run \/ Shutdown \/ closeFlag \/ closeLoad \/ close) => TreesInv'
<1> SUFFICES ASSUME TypeOK, TreesInv, Exit \/ run \/ Shutdown \/ closeFlag \/ closeLoad \/ close PROVE TreesInv'
  OBVIOUS
<1>1. CASE Exit
  <2>1. /\ main' = [at |-> "off"] /\ live' = None /\ closed' = FALSE
        /\ \A t \in Makers : tree'[t].state = "none"
        /\ \A r \in Requests : req'[r].op \in {"new", "done"}
    BY <1>1 DEF Exit, NoTree, At
  <2> QED
    BY <2>1, Names DEF TreesInv, Served, At
<1>2. CASE run
  <2>1. /\ main.at = "off" /\ main' = [at |-> "serving"] /\ UNCHANGED <<closed, req>> /\ ~closed
        /\ \A r \in Requests : req[r].op \in {"new", "done"}
    BY <1>2 DEF run, TreesInv
  <2>2. \A t \in Makers : tree[t].state # "open"
    BY <2>1, Names DEF TreesInv, Released, At
  <2>3. CASE live' = Wizard /\ UNCHANGED tree
    BY <2>1, <2>2, <2>3, Names DEF TreesInv, Served, At, Makers
  <2>4. CASE live' = Boot /\ tree' = [tree EXCEPT ![Boot] = Assembled]
    <3>1. tree'[Boot].state = "open" /\ \A t \in Makers : t # Boot => tree'[t].state # "open"
      BY <2>2, <2>4, AssembledTyped DEF TypeOK, Makers
    <3>2. Released(Boot)'
      BY <2>1, <2>4 DEF Released
    <3> QED
      BY <2>1, <2>4, <3>1, <3>2, Names DEF TreesInv, Served, At
  <2> QED
    BY <1>2, <2>3, <2>4 DEF run
<1>3. ASSUME UNCHANGED req PROVE \A t : Served(t) => Served(t)'
  BY <1>3 DEF Served
<1>4. CASE Shutdown
  <2>1. /\ main.at = "serving" /\ main' = [at |-> "draining"] /\ UNCHANGED <<live, closed, tree, req>>
    BY <1>4 DEF Shutdown
  <2>2. \A t \in Makers : Released(t) => Released(t)'
    BY <2>1 DEF Released, At
  <2> QED
    BY <1>3, <2>1, <2>2 DEF TreesInv, At, Served
<1>5. CASE closeFlag
  <2>1. /\ main.at = "draining" /\ main' = [at |-> "closing"] /\ closed' = TRUE
        /\ UNCHANGED <<live, tree, req>>
    BY <1>5 DEF closeFlag
  <2>2. \A t \in Makers : Released(t) => Released(t)'
    BY <2>1 DEF Released, At
  <2> QED
    BY <1>3, <2>1, <2>2 DEF TreesInv, At, Served
<1>6. CASE closeLoad
  <2>1. /\ main.at = "closing" /\ main' = [at |-> "release", tree |-> live]
        /\ UNCHANGED <<live, closed, tree, req>>
    BY <1>6 DEF closeLoad
  <2>2. \A t \in Makers : Released(t) => Released(t)'
    BY <2>1 DEF Released, At
  <2>3. closed
    BY <2>1 DEF TreesInv
  <2> QED
    BY <1>3, <2>1, <2>2, <2>3 DEF TreesInv, At, Served
<1>7. CASE close
  <2>1. /\ main.at = "release" /\ main' = [at |-> "closed"] /\ CloseTree(main.tree)
        /\ UNCHANGED <<live, closed, req>>
    BY <1>7 DEF close
  <2>2. \A t \in Makers : IF t = main.tree THEN tree'[t].state = "closed" ELSE tree'[t] = tree[t]
    BY <2>1 DEF CloseTree, Close, TypeOK
  <2>3. \A t \in Makers : Released(t) /\ t # main.tree => Released(t)'
    BY <2>1 DEF Released, At
  <2> QED
    BY <1>3, <2>1, <2>2, <2>3 DEF TreesInv, At, Served
<1> QED
  BY <1>1, <1>2, <1>4, <1>5, <1>6, <1>7

LEMMA TreesStep == TypeOK /\ TreesInv /\ Next => TreesInv'
<1> SUFFICES ASSUME TypeOK, TreesInv, Next PROVE TreesInv'
  OBVIOUS
<1>1. CASE Exit \/ run \/ Shutdown \/ closeFlag \/ closeLoad \/ close
  BY <1>1, MainMoves
<1>2. ASSUME UNCHANGED req, UNCHANGED process PROVE TreesQuiet
  BY <1>2 DEF TreesQuiet, process
<1>3. ASSUME NEW r \in Requests, UNCHANGED <<main, live, closed, tree>>,
             \A s \in Requests : s # r => req'[s] = req[s],
             At(r, "new") => main.at = "serving",
             req[r].op \notin {"swap", "close", "recheck", "done"},
             req'[r].op \notin {"swap", "close", "recheck"}
      PROVE  TreesQuiet
  <2>1. main.at # "off"
    <3>1. CASE req[r].op = "new"
      BY <1>3, <3>1 DEF At
    <3>2. CASE req[r].op # "new"
      BY <1>3, <3>2 DEF TreesInv
    <3> QED
      BY <3>1, <3>2
  <2> QED
    BY <1>3, <2>1 DEF TreesQuiet
<1>4. ASSUME NEW r \in Requests, OnThemeChange(r) PROVE TreesQuiet
  <2>1. Advances(r, {"change"}, {"done"}) /\ UNCHANGED <<main, live, closed>>
    BY <1>4, Advance, Leave DEF Hands, Leaves
  <2>2. \A t \in Makers : tree'[t].state = tree[t].state
    BY <1>4 DEF OnThemeChange, TypeOK
  <2>3. main.at # "off"
    BY <2>1 DEF Advances, TreesInv
  <2> QED
    BY <2>1, <2>2, <2>3 DEF TreesQuiet, Advances
<1>5. ASSUME NEW r \in Requests,
             \/ Fails(r) \/ submit(r) \/ Lock(r) \/ provision(r) \/ CreateFirstAdmin(r) \/ Save(r)
             \/ SettingsSave(r) \/ PutSettings(r) \/ ThemeActivate(r) \/ PutActive(r)
             \/ ThemeUpload(r) \/ Install(r)
      PROVE  TreesQuiet
  <2>1. /\ \A s \in Requests : s # r => req'[s] = req[s]
        /\ At(r, "new") => main.at = "serving"
        /\ req[r].op \notin {"swap", "close", "recheck", "done"}
        /\ req'[r].op \notin {"swap", "close", "recheck"}
    BY <1>5, Advance, ZenonT(60) DEF Hands, Advances, Failing
  <2>2. UNCHANGED <<main, live, closed, tree>>
    BY <1>5, Leave DEF Leaves, process
  <2> QED
    BY <1>3, <2>1, <2>2
<1>6. ASSUME NEW r \in Requests,
             \/ extract(r) \/ extractOne(r) \/ extractFails(r) \/ place(r) \/ moveAside(r) \/ moveFails(r)
             \/ replace(r) \/ restore(r) \/ RemoveAll(r)
             \/ ThemeScreenSave(r) \/ ThemeItemSave(r) \/ EditorUpload(r)
      PROVE  TreesQuiet
  <2>1. /\ \A s \in Requests : s # r => req'[s] = req[s]
        /\ At(r, "new") => main.at = "serving"
        /\ req[r].op \notin {"swap", "close", "recheck", "done"}
        /\ req'[r].op \notin {"swap", "close", "recheck"}
    BY <1>6, Advance, ZenonT(60) DEF Hands, Advances, Failing
  <2>2. UNCHANGED <<main, live, closed, tree>>
    BY <1>6, Leave DEF Leaves, process
  <2> QED
    BY <1>3, <2>1, <2>2
<1>7. ASSUME NEW r \in Requests,
             \/ saveThemePictures(r) \/ CreateMedia(r) \/ CreateMediaFails(r)
             \/ SaveThemeSettings(r) \/ CountThemeItems(r) \/ CreateThemeItem(r)
             \/ UpdateThemeItem(r) \/ ThemeItemDelete(r) \/ BackupDownload(r) \/ Downloaded(r)
      PROVE  TreesQuiet
  <2>1. /\ \A s \in Requests : s # r => req'[s] = req[s]
        /\ At(r, "new") => main.at = "serving"
        /\ req[r].op \notin {"swap", "close", "recheck", "done"}
        /\ req'[r].op \notin {"swap", "close", "recheck"}
    BY <1>7, Advance, ZenonT(60) DEF Hands, Advances, Failing
  <2>2. UNCHANGED <<main, live, closed, tree>>
    BY <1>7, Leave DEF Leaves, process
  <2> QED
    BY <1>3, <2>1, <2>2
<1>8. TreesQuiet => TreesInv'
  BY TreesLeft
<1>9. ASSUME NEW r \in Requests, startOperating(r) \/ swap(r) \/ closeOld(r) \/ recheck(r) PROVE TreesInv'
  BY <1>9, Assembles, Swaps, ClosesOld, Rechecks
<1> QED
  BY <1>1, <1>2, <1>4, <1>5, <1>6, <1>7, <1>8, <1>9, Alone DEF Next
LEMMA TreesHold == TreesInv => TreesReleased
BY DEF TreesInv, TreesReleased, Released, At

-----------------------------------------------------------------------------
(* The wizard                                                                *)

\* A step that has no part in an installation, or gives one up.
WizardQuiet ==
    /\ live' = live \/ live' # Wizard
    /\ UNCHANGED <<config, done, users, verify>>
    /\ \A s \in Requests :
          /\ req'[s] = req[s] \/ req'[s].op \notin Installing
          /\ req'[s].op \in Installing => mu' = mu \/ mu # s
LEMMA WizardLeft == TypeOK /\ WizardInv /\ WizardQuiet => WizardInv'
<1> SUFFICES ASSUME TypeOK, WizardInv, WizardQuiet PROVE WizardInv'
  OBVIOUS
<1>1. \A s \in Requests : req'[s].op \in Installing => req'[s].op = req[s].op
  BY DEF WizardQuiet
<1>2. /\ config' = config /\ done' = done /\ users' = users /\ verify' = verify
      /\ live' = Wizard => live = Wizard
  BY DEF WizardQuiet
<1>3. \A s \in Requests : req'[s].op \in {"provision", "first admin", "save config"} => mu' = s
  BY <1>1 DEF WizardQuiet, WizardInv, Installing
<1> QED
  BY <1>1, <1>2, <1>3 DEF WizardInv, Installing, At

LEMMA Locks == ASSUME TypeOK, TreesInv, WizardInv, NEW r \in Requests, Lock(r) PROVE WizardInv'
<1>1. /\ Advances(r, {"lock"}, {"provision", "done"}) /\ mu = None /\ At(r, "lock")
      /\ UNCHANGED <<live, config, done, users, verify>>
  BY Advance, Leave DEF Hands, Leaves, disk, contents, Lock
<1>2. (~done /\ mu' = r) \/ Done(r)
  BY DEF Lock, MayInstall
<1>3. \A s \in Requests : req[s].op \notin {"provision", "first admin", "save config"}
  BY <1>1, Names DEF WizardInv
<1>4. CASE ~done /\ mu' = r
  <2>1. config = None
    BY <1>1, <1>4 DEF WizardInv
  <2>2. \A s \in Requests : s # r => req'[s] = req[s]
    BY <1>1 DEF Advances
  <2>3. req'[r].op \in {"provision", "done"}
    BY <1>1 DEF Advances
  <2> QED
    BY <1>1, <1>3, <1>4, <2>1, <2>2, <2>3 DEF WizardInv, At
<1>5. CASE Done(r)
  <2>1. req'[r].op = "done" /\ \A s \in Requests : s # r => req'[s] = req[s]
    BY <1>5 DEF Done, Start, TypeOK
  <2> QED
    BY <1>1, <1>3, <2>1 DEF WizardInv, At
<1> QED
  BY <1>2, <1>4, <1>5

LEMMA Installs ==
    ASSUME TypeOK, TreesInv, WizardInv, NEW r \in Requests, provision(r) \/ CreateFirstAdmin(r) \/ Save(r)
    PROVE  WizardInv'
<1>0. \A s \in Requests : s # r => req'[s] = req[s]
  BY Advance DEF Hands, Advances
<1>1. /\ mu = r /\ config = None
      /\ \A s \in Requests : s # r => req'[s].op \notin {"provision", "first admin", "save config"}
  <2>1. req[r].op \in {"provision", "first admin", "save config"}
    BY Advance DEF Hands, Advances
  <2> QED
    BY <1>0, <2>1 DEF WizardInv
<1>2. CASE provision(r)
  <2>1. /\ UNCHANGED <<live, config, done, users, mu>> /\ verify' = (verify \/ users = {})
        /\ req'[r].op = "first admin"
    BY <1>2, Advance, Leave DEF Hands, Advances, Leaves, process, disk, provision, SeedDefaultSettings
  <2>2. verify' \/ \E u \in users : u.by = Boot
    BY <2>1 DEF WizardInv
  <2> QED
    BY <1>0, <1>1, <2>1, <2>2 DEF WizardInv, At
<1>3. CASE CreateFirstAdmin(r)
  <2>1. /\ UNCHANGED <<live, config, done, verify>> /\ At(r, "first admin")
        /\ req'[r].op \in {"save config", "done"}
    BY <1>3, Advance, Leave DEF Hands, Advances, Leaves, disk, CreateFirstAdmin
  <2>2. verify \/ \E u \in users : u.by = Boot
    BY <2>1 DEF WizardInv, At
  <2>3. CASE Done(r) /\ users' = users
    <3>1. req'[r].op = "done"
      BY <2>3 DEF Done, Start, TypeOK
    <3> QED
      BY <1>0, <1>1, <2>1, <2>2, <2>3, <3>1 DEF WizardInv, At
  <2>4. CASE mu' = mu /\ users' = users \cup {[email |-> req[r].email, by |-> r]}
    <3>0. PICK u : u = [email |-> req[r].email, by |-> r]
      OBVIOUS
    <3>1. u.by = r /\ u \in users' /\ users \subseteq users'
      BY <2>4, <3>0
    <3>2. verify \/ \E w \in users' : w.by = Boot
      BY <2>2, <3>1
    <3>3. mu' = r /\ \E w \in users' : w.by = r
      BY <1>1, <2>4, <3>1
    <3> QED
      BY <1>0, <1>1, <2>1, <3>2, <3>3 DEF WizardInv, At
  <2> QED
    BY <1>3, <2>3, <2>4 DEF CreateFirstAdmin, Return
<1>4. CASE Save(r)
  <2>1. UNCHANGED <<live, mu, users, verify>> /\ done' = TRUE /\ req'[r].op = "assemble"
    BY <1>4, Advance, Leave DEF Hands, Advances, Leaves, contents, Save
  <2> QED
    BY <1>0, <1>1, <2>1 DEF WizardInv, At
<1> QED
  BY <1>2, <1>3, <1>4

LEMMA WizardStep == TypeOK /\ TreesInv /\ WizardInv /\ Next => WizardInv'
<1> SUFFICES ASSUME TypeOK, TreesInv, WizardInv, Next PROVE WizardInv'
  OBVIOUS
<1>1. CASE Exit
  <2>1. live' = None /\ UNCHANGED <<config, users, verify>> /\ \A r \in Requests : req'[r].op \in {"new", "done"}
    BY <1>1 DEF Exit, At, disk, contents
  <2> QED
    BY <2>1, Names DEF WizardInv, At
<1>2. CASE run
  <2>1. /\ UNCHANGED <<config, done, mu, users, verify, req>>
        /\ live' = Wizard => config = None
    BY <1>2, Names DEF run, decideBoot, disk, contents
  <2> QED
    BY <2>1 DEF WizardInv, At
<1>3. CASE Shutdown \/ closeFlag \/ closeLoad \/ close \/ Minute \/ UNCHANGED <<req, process, config, users, verify>>
  <2>1. UNCHANGED <<live, config, done, mu, users, verify, req>>
    BY <1>3, Alone DEF disk, contents, process
  <2> QED
    BY <2>1 DEF WizardInv, At
<1>4. ASSUME NEW r \in Requests, submit(r) PROVE WizardInv'
  <2>1. /\ Advances(r, {"new"}, {"lock"}) /\ live = Wizard
        /\ UNCHANGED <<live, config, done, mu, users, verify>>
    BY <1>4, Advance, Leave DEF Hands, Leaves, process, disk, contents, submit
  <2> QED
    BY <2>1 DEF Advances, WizardInv, At
<1>5. ASSUME NEW r \in Requests, Fails(r) \/ recheck(r) PROVE WizardQuiet
  <2>1. /\ UNCHANGED <<live, config, done, users, verify>>
        /\ mu' = IF mu = r THEN None ELSE mu
    BY <1>5, Leave DEF Leaves, disk, contents, Fails, recheck, Return
  <2>2. req'[r].op = "done" /\ \A s \in Requests : s # r => req'[s] = req[s]
    BY <1>5, Advance DEF Hands, Advances
  <2> QED
    BY <2>1, <2>2 DEF WizardQuiet, Installing
<1>6. ASSUME NEW r \in Requests, live' = live \/ live' = r, UNCHANGED <<config, done, mu, users, verify>>,
             \A s \in Requests : s # r => req'[s] = req[s], req'[r].op \notin Installing
      PROVE  WizardQuiet
  BY <1>6, Names DEF WizardQuiet
<1>7. ASSUME NEW r \in Requests,
             \/ startOperating(r) \/ swap(r) \/ closeOld(r)
             \/ SettingsSave(r) \/ PutSettings(r) \/ ThemeActivate(r) \/ PutActive(r) \/ OnThemeChange(r)
             \/ ThemeUpload(r) \/ Install(r)
      PROVE  WizardQuiet
  <2>1. (\A s \in Requests : s # r => req'[s] = req[s]) /\ req'[r].op \notin Installing
    BY <1>7, Advance DEF Hands, Advances, Installing
  <2>2. (live' = live \/ live' = r) /\ UNCHANGED <<config, done, mu, users, verify>>
    BY <1>7, Leave DEF Leaves, process, disk, contents, swap
  <2> QED
    BY <1>6, <2>1, <2>2
<1>8. ASSUME NEW r \in Requests,
             \/ extract(r) \/ extractOne(r) \/ extractFails(r) \/ place(r) \/ moveAside(r) \/ moveFails(r)
             \/ replace(r) \/ restore(r) \/ RemoveAll(r)
             \/ ThemeScreenSave(r) \/ ThemeItemSave(r) \/ EditorUpload(r)
      PROVE  WizardQuiet
  <2>1. (\A s \in Requests : s # r => req'[s] = req[s]) /\ req'[r].op \notin Installing
    BY <1>8, Advance, ZenonT(60) DEF Hands, Advances, Installing
  <2>2. live' = live /\ UNCHANGED <<config, done, mu, users, verify>>
    BY <1>8, Leave DEF Leaves, process, disk, contents
  <2> QED
    BY <1>6, <2>1, <2>2
<1>9. ASSUME NEW r \in Requests,
             \/ saveThemePictures(r) \/ CreateMedia(r) \/ CreateMediaFails(r)
             \/ SaveThemeSettings(r) \/ CountThemeItems(r) \/ CreateThemeItem(r)
             \/ UpdateThemeItem(r) \/ ThemeItemDelete(r) \/ BackupDownload(r) \/ Downloaded(r)
      PROVE  WizardQuiet
  <2>1. (\A s \in Requests : s # r => req'[s] = req[s]) /\ req'[r].op \notin Installing
    BY <1>9, Advance DEF Hands, Advances, Installing
  <2>2. live' = live /\ UNCHANGED <<config, done, mu, users, verify>>
    BY <1>9, Leave DEF Leaves, process, disk, contents
  <2> QED
    BY <1>6, <2>1, <2>2
<1>10. \A t \in Makers :
          Tick(t) \/ TryLock(t) \/ SaveFails(t) \/ Dump(t) \/ Write(t) \/ SaveBackup(t) \/ prune(t)
          => UNCHANGED <<req, process, config, users, verify>>
  BY Alone DEF disk, contents
<1>11. \A r \in Requests : Lock(r) \/ provision(r) \/ CreateFirstAdmin(r) \/ Save(r) => WizardInv'
  BY Locks, Installs
<1>12. WizardQuiet => WizardInv'
  BY WizardLeft
<1> QED
  BY <1>1, <1>2, <1>3, <1>4, <1>5, <1>7, <1>8, <1>9, <1>10, <1>11, <1>12 DEF Next
-----------------------------------------------------------------------------
(* Theme directories                                                         *)

\* A step that exchanges no directory, or gives the exchange up.
ThemesQuiet ==
    /\ UNCHANGED themes
    /\ \A s \in Requests :
          \/ req'[s] = req[s] \/ req'[s].op = "done"
          \/ aside[s] = None /\ req'[s].op \notin {"place", "move", "replace", "restore", "clean"}
LEMMA ThemesLeft == TypeOK /\ ThemesInv /\ ThemesQuiet => ThemesInv'
<1> SUFFICES ASSUME TypeOK, ThemesInv, ThemesQuiet PROVE ThemesInv'
  OBVIOUS
<1>1. dir' = dir /\ tmp' = tmp /\ aside' = aside
  BY DEF ThemesQuiet, themes
<1>2. ASSUME NEW r \in Requests PROVE Exchange(r)'
  BY <1>1 DEF ThemesInv, Exchange, ThemesQuiet
<1>3. ASSUME NEW n \in Shipped PROVE Stands(n)'
  <2>1. \A r \in Requests : aside[r] # None /\ At(r, "clean")' => At(r, "clean")
    BY DEF ThemesQuiet, At
  <2> QED
    BY <1>1, <2>1 DEF ThemesInv, Stands
<1> QED
  BY <1>1, <1>2, <1>3 DEF ThemesInv

\* A step of one upload, of the theme m.
Exchanges(r, m) ==
    /\ \A s \in Requests : s # r => req'[s] = req[s] /\ tmp'[s] = tmp[s] /\ aside'[s] = aside[s]
    /\ \A n \in Themes : n # m => dir'[n] = dir[n]
    /\ dir'[m] # "part"
    /\ aside[r] # None => aside[r].theme = m
LEMMA ThemesMove ==
    ASSUME TypeOK, ThemesInv, NEW r \in Requests, NEW m \in Themes, Exchanges(r, m), Exchange(r)',
           Stands(m) => Stands(m)'
    PROVE  ThemesInv'
<1>1. \A s \in Requests : Exchange(s)'
  BY DEF ThemesInv, Exchanges, Exchange
<1>2. ASSUME NEW n \in Shipped PROVE Stands(n)'
  <2>1. CASE n = m
    BY <2>1 DEF ThemesInv
  <2>2. CASE n # m
    BY <2>2, SiteAssumption DEF ThemesInv, Exchanges, Stands, At
  <2> QED
    BY <2>1, <2>2
<1> QED
  BY <1>1, <1>2 DEF ThemesInv, Exchanges

LEMMA Unpacks ==
    ASSUME TypeOK, TreesInv, ThemesInv, NEW r \in Requests, extract(r) \/ extractOne(r) \/ extractFails(r)
    PROVE  ThemesInv'
<1>1. /\ \A s \in Requests : s # r => req'[s] = req[s]
      /\ req[r].op \in {"mkdir", "extract"} /\ req'[r].op \in {"extract", "move", "place", "done"}
  BY Advance DEF Hands, Advances
<1>2. UNCHANGED <<dir, aside>>
  BY DEF extract, extractOne, extractFails
<1>3. /\ \A s \in Requests : s # r => tmp'[s] = tmp[s]
      /\ req'[r].op \in {"move", "place"} => tmp'[r] = "new"
  <2>1. CASE extract(r) \/ extractFails(r)
    <3>1. req'[r].op \in {"extract", "done"}
      BY <2>1, Advance DEF Hands, Advances
    <3> QED
      BY <2>1, <3>1 DEF extract, extractFails, Discard, TypeOK
  <2>2. CASE extractOne(r)
    BY <2>2 DEF extractOne, TypeOK
  <2> QED
    BY <2>1, <2>2
<1>4. aside[r] = None
  BY <1>1 DEF ThemesInv, Exchange
<1>5. \A s \in Requests : Exchange(s)'
  BY <1>1, <1>2, <1>3, <1>4 DEF ThemesInv, Exchange
<1>6. \A n \in Shipped : Stands(n)'
  BY <1>1, <1>2, <1>4 DEF ThemesInv, Stands, At
<1> QED
  BY <1>2, <1>5, <1>6 DEF ThemesInv

LEMMA Moves ==
    ASSUME TypeOK, TreesInv, ThemesInv, NEW r \in Requests,
           place(r) \/ moveAside(r) \/ moveFails(r) \/ replace(r) \/ restore(r) \/ RemoveAll(r)
    PROVE  ThemesInv'
<1>1. /\ \A s \in Requests : s # r => req'[s] = req[s]
      /\ req[r].op \in {"place", "move", "replace", "restore", "clean"}
      /\ req'[r].op \in {"replace", "restore", "clean", "done"}
  BY Advance DEF Hands, Advances
<1>2. PICK m \in Themes : m = req[r].theme
  BY <1>1, RequestFields DEF TypeOK
<1>3. /\ Exchange(r) /\ dir[m] # "part"
      /\ dir \in [Themes -> Versions \cup {"part", None}] /\ tmp \in [Requests -> {"part", "new", None}]
      /\ aside \in [Requests -> [theme : Themes, version : Versions] \cup {None}]
      /\ req \in [Requests -> Request] /\ req[r] \in Request
  BY DEF ThemesInv, TypeOK
<1>4. /\ aside[r] # None => aside[r].theme = m /\ aside[r].version \in Versions
      /\ None \notin Versions /\ "new" # None /\ None \notin [theme : Themes, version : Versions]
  BY <1>1, <1>2, <1>3, SiteAssumption DEF Exchange, Versions
<1>5. CASE place(r)
  <2>1. /\ req[r].op = "place" /\ req'[r].op = "done" /\ aside' = aside
        /\ tmp' = [tmp EXCEPT ![r] = None]
        /\ \/ dir' = [dir EXCEPT ![m] = tmp[r]]
           \/ dir' = dir
    BY <1>2, <1>5, Advance DEF Hands, Advances, place, Discard, Rename
  <2>2. tmp[r] = "new" /\ aside[r] = None
    BY <1>3, <2>1 DEF Exchange
  <2>3. dir'[m] \in {"new", dir[m]} /\ \A n \in Themes : n # m => dir'[n] = dir[n]
    BY <1>3, <2>1, <2>2
  <2>4. Exchanges(r, m) /\ Exchange(r)'
    BY <1>1, <1>3, <1>4, <2>1, <2>2, <2>3 DEF Exchanges, Exchange
  <2>5. Stands(m) => Stands(m)'
    BY <1>1, <1>4, <2>1, <2>2, <2>3 DEF Stands, At
  <2> QED
    BY <2>4, <2>5, ThemesMove
<1>6. CASE moveAside(r)
  <2>1. /\ req[r].op = "move" /\ req'[r].op = "replace" /\ dir[m] # None /\ tmp' = tmp
        /\ dir' = [dir EXCEPT ![m] = None]
        /\ aside' = [aside EXCEPT ![r] = [theme |-> m, version |-> dir[m]]]
    BY <1>2, <1>6, Advance DEF Hands, Advances, moveAside
  <2>2. tmp[r] = "new" /\ aside[r] = None /\ dir[m] \in Versions
    BY <1>3, <2>1 DEF Exchange
  <2>3. PICK a : a = [theme |-> m, version |-> dir[m]]
    OBVIOUS
  <2>4. a \in [theme : Themes, version : Versions] /\ a.theme = m
    BY <2>2, <2>3
  <2>5. aside'[r] = a /\ \A s \in Requests : s # r => aside'[s] = aside[s]
    BY <1>3, <2>1, <2>3
  <2>6. dir'[m] = None /\ \A n \in Themes : n # m => dir'[n] = dir[n]
    BY <1>3, <2>1
  <2>7. req'[r].theme = m
    <3>1. PICK p : p = Onto(req[r], "replace")
      OBVIOUS
    <3>2. Kept(req[r], p, "replace")
      BY <1>3, <2>1, <3>1, GoesOn
    <3>3. req'[r] = p
      BY <1>3, <1>6, <3>1 DEF moveAside, Start, Onto
    <3> QED
      BY <1>2, <2>1, <3>2, <3>3 DEF Kept
  <2>8. None # "part"
    BY SiteAssumption
  <2>9. Exchanges(r, m) /\ Exchange(r)'
    BY <1>1, <1>3, <1>4, <2>1, <2>2, <2>4, <2>5, <2>6, <2>7, <2>8 DEF Exchanges, Exchange
  <2>10. Stands(m)'
    BY <1>4, <2>1, <2>4, <2>5 DEF Stands, At
  <2> QED
    BY <2>9, <2>10, ThemesMove
<1>7. CASE moveFails(r)
  <2>1. /\ req[r].op = "move" /\ req'[r].op = "done" /\ aside' = aside /\ dir' = dir
        /\ tmp' = [tmp EXCEPT ![r] = None]
    BY <1>7, Advance DEF Hands, Advances, moveFails, Discard
  <2>2. aside[r] = None
    BY <1>3, <2>1 DEF Exchange
  <2>3. Exchanges(r, m) /\ Exchange(r)'
    BY <1>1, <1>3, <2>1, <2>2 DEF Exchanges, Exchange
  <2>4. Stands(m) => Stands(m)'
    BY <1>1, <2>1, <2>2 DEF Stands, At
  <2> QED
    BY <2>3, <2>4, ThemesMove
<1>8. CASE replace(r)
  <2>1. req[r].op = "replace" /\ aside' = aside /\ aside[r] # None /\ tmp[r] = "new"
    BY <1>3, <1>8 DEF replace, At, Exchange
  <2>2. ASSUME NEW o \in {"clean", "restore"}, Start(r, Onto(req[r], o))
        PROVE  req'[r].op = o /\ req'[r].theme = m
    <3>1. PICK p : p = Onto(req[r], o)
      OBVIOUS
    <3>2. Kept(req[r], p, o)
      BY <1>3, <2>1, <3>1, GoesOn
    <3>3. req'[r] = p
      BY <1>3, <2>2, <3>1 DEF Start
    <3> QED
      BY <1>2, <2>1, <3>2, <3>3 DEF Kept
  <2>3. CASE dir' = [dir EXCEPT ![m] = tmp[r]] /\ Discard(r) /\ Start(r, Onto(req[r], "clean"))
    <3>1. dir'[m] = "new" /\ \A n \in Themes : n # m => dir'[n] = dir[n]
      BY <1>3, <2>1, <2>3
    <3>2. \A s \in Requests : s # r => tmp'[s] = tmp[s]
      BY <1>3, <2>3 DEF Discard
    <3>3. Exchanges(r, m) /\ Exchange(r)'
      BY <1>1, <1>4, <2>1, <2>2, <2>3, <3>1, <3>2 DEF Exchanges, Exchange
    <3>4. Stands(m)'
      BY <1>4, <3>1 DEF Stands
    <3> QED
      BY <3>3, <3>4, ThemesMove
  <2>4. CASE UNCHANGED <<dir, tmp>> /\ Start(r, Onto(req[r], "restore"))
    <3>1. Exchanges(r, m) /\ Exchange(r)'
      BY <1>1, <1>3, <1>4, <2>1, <2>2, <2>4 DEF Exchanges, Exchange
    <3>2. Stands(m) => Stands(m)'
      BY <1>1, <2>1, <2>2, <2>4 DEF Stands, At
    <3> QED
      BY <3>1, <3>2, ThemesMove
  <2> QED
    BY <1>2, <1>8, <2>3, <2>4 DEF replace, Rename, Onto
<1>9. CASE restore(r)
  <2>1. /\ req[r].op = "restore" /\ req'[r].op = "done" /\ tmp' = [tmp EXCEPT ![r] = None]
        /\ aside[r] # None
    BY <1>3, <1>9, Advance DEF Hands, Advances, restore, Discard, Exchange
  <2>2. CASE dir' = [dir EXCEPT ![m] = aside[r].version] /\ aside' = [aside EXCEPT ![r] = None]
    <3>1. dir'[m] \in Versions /\ \A n \in Themes : n # m => dir'[n] = dir[n]
      BY <1>3, <1>4, <2>1, <2>2
    <3>2. aside'[r] = None /\ \A s \in Requests : s # r => tmp'[s] = tmp[s] /\ aside'[s] = aside[s]
      BY <1>3, <2>1, <2>2
    <3>3. Exchanges(r, m) /\ Exchange(r)'
      BY <1>1, <1>4, <2>1, <3>1, <3>2 DEF Exchanges, Exchange, Versions
    <3>4. Stands(m)'
      BY <1>4, <3>1 DEF Stands
    <3> QED
      BY <3>3, <3>4, ThemesMove
  <2>3. CASE UNCHANGED <<dir, aside>>
    <3>1. Exchanges(r, m) /\ Exchange(r)'
      BY <1>1, <1>3, <1>4, <2>1, <2>3 DEF Exchanges, Exchange
    <3>2. Stands(m) => Stands(m)'
      BY <1>1, <2>1, <2>3 DEF Stands, At
    <3> QED
      BY <3>1, <3>2, ThemesMove
  <2> QED
    BY <1>2, <1>9, <2>2, <2>3 DEF restore, Rename
<1>10. CASE RemoveAll(r)
  <2>1. /\ req[r].op = "clean" /\ req'[r].op = "done" /\ dir' = dir /\ tmp' = tmp
        /\ aside' = [aside EXCEPT ![r] = None]
    BY <1>10, Advance DEF Hands, Advances, RemoveAll
  <2>2. aside'[r] = None /\ \A s \in Requests : s # r => aside'[s] = aside[s]
    BY <1>3, <2>1
  <2>3. Exchanges(r, m) /\ Exchange(r)'
    BY <1>1, <1>3, <1>4, <2>1, <2>2 DEF Exchanges, Exchange
  <2>4. Stands(m) => Stands(m)'
    BY <1>1, <2>1, <2>2 DEF Stands, At
  <2> QED
    BY <2>3, <2>4, ThemesMove
<1> QED
  BY <1>5, <1>6, <1>7, <1>8, <1>9, <1>10

LEMMA ThemesStep == TypeOK /\ TreesInv /\ ThemesInv /\ Next => ThemesInv'
<1> SUFFICES ASSUME TypeOK, TreesInv, ThemesInv, Next PROVE ThemesInv'
  OBVIOUS
<1>1. CASE Exit
  <2>1. UNCHANGED themes /\ \A s \in Requests : req'[s] = req[s] \/ req'[s].op = "done"
    BY <1>1 DEF Exit, disk, themes, At
  <2> QED
    BY <2>1, ThemesLeft DEF ThemesQuiet
<1>2. CASE UNCHANGED <<dir, tmp, aside, req>>
  BY <1>2, ThemesLeft DEF ThemesQuiet, themes
<1>3. run \/ Shutdown \/ closeFlag \/ closeLoad \/ close \/ Minute => UNCHANGED <<dir, tmp, aside, req>>
  BY Alone DEF disk
<1>4. \A t \in Makers :
         Tick(t) \/ TryLock(t) \/ SaveFails(t) \/ Dump(t) \/ Write(t) \/ SaveBackup(t) \/ prune(t)
         => UNCHANGED <<dir, tmp, aside, req>>
  BY Alone DEF disk
<1>5. ASSUME NEW r \in Requests, UNCHANGED <<dir, tmp, aside>>,
             \A s \in Requests : s # r => req'[s] = req[s],
             req[r].op \notin {"replace", "restore", "clean", "done"},
             req'[r].op \notin {"place", "move", "replace", "restore", "clean"}
      PROVE  ThemesInv'
  <2>1. aside[r] = None
    BY <1>5 DEF ThemesInv, Exchange
  <2> QED
    BY <1>5, <2>1, ThemesLeft DEF ThemesQuiet, themes
<1>6. ASSUME NEW r \in Requests,
             \/ Fails(r) \/ startOperating(r) \/ swap(r) \/ closeOld(r) \/ recheck(r)
             \/ submit(r) \/ Lock(r) \/ provision(r) \/ CreateFirstAdmin(r) \/ Save(r)
             \/ SettingsSave(r) \/ PutSettings(r)
      PROVE  ThemesInv'
  <2>1. /\ \A s \in Requests : s # r => req'[s] = req[s]
        /\ req[r].op \notin {"replace", "restore", "clean", "done"}
        /\ req'[r].op \notin {"place", "move", "replace", "restore", "clean"}
    BY <1>6, Advance, ZenonT(60) DEF Hands, Advances, Failing
  <2>2. UNCHANGED <<dir, tmp, aside>>
    BY <1>6, Leave DEF Leaves, disk, themes
  <2> QED
    BY <1>5, <2>1, <2>2
<1>7. ASSUME NEW r \in Requests,
             \/ ThemeActivate(r) \/ PutActive(r) \/ OnThemeChange(r) \/ ThemeUpload(r) \/ Install(r)
             \/ ThemeScreenSave(r) \/ ThemeItemSave(r) \/ EditorUpload(r)
             \/ saveThemePictures(r) \/ CreateMedia(r) \/ CreateMediaFails(r)
             \/ SaveThemeSettings(r) \/ CountThemeItems(r) \/ CreateThemeItem(r)
             \/ UpdateThemeItem(r) \/ ThemeItemDelete(r) \/ BackupDownload(r) \/ Downloaded(r)
      PROVE  ThemesInv'
  <2>1. /\ \A s \in Requests : s # r => req'[s] = req[s]
        /\ req[r].op \notin {"replace", "restore", "clean", "done"}
        /\ req'[r].op \notin {"place", "move", "replace", "restore", "clean"}
    BY <1>7, Advance, ZenonT(60) DEF Hands, Advances
  <2>2. UNCHANGED <<dir, tmp, aside>>
    BY <1>7, Leave DEF Leaves, disk, themes
  <2> QED
    BY <1>5, <2>1, <2>2
<1>8. \A r \in Requests :
         \/ extract(r) \/ extractOne(r) \/ extractFails(r) \/ place(r)
         \/ moveAside(r) \/ moveFails(r) \/ replace(r) \/ restore(r) \/ RemoveAll(r)
         => ThemesInv'
  BY Unpacks, Moves
<1> QED
  BY <1>1, <1>2, <1>3, <1>4, <1>6, <1>7, <1>8 DEF Next
-----------------------------------------------------------------------------
(* Pictures                                                                  *)

\* A step of one request that stores, records or shows a picture.
Handles(r) ==
    /\ \A s \in Requests : s # r =>
         req'[s] = req[s] /\ (s \in media' <=> s \in media) /\ (s \in files => s \in files')
    /\ media \subseteq media' /\ media' \subseteq files'
LEMMA PicturesMove ==
    ASSUME TypeOK, PicturesInv, NEW r \in Requests, Handles(r),
           Shown' \subseteq media' \cup {None}, Carries(r)'
    PROVE  PicturesInv'
<1>1. \A s \in Requests : Carries(s)'
  BY DEF PicturesInv, Handles, Carries, At
<1> QED
  BY <1>1 DEF PicturesInv, Handles
LEMMA SameShown == UNCHANGED <<screen, items>> => Shown' = Shown
BY DEF Shown, ThemeItems

\* A form that goes on to one of its next steps.
LEMMA FormGoesOn ==
    ASSUME TypeOK, NEW r \in Requests, req[r].op \in Carrying, NEW o \in Carrying, Start(r, Onto(req[r], o))
    PROVE  req'[r].op = o /\ req'[r].prev = req[r].prev /\ req'[r].uploads = req[r].uploads
<1>1. PICK p : p = Onto(req[r], o)
  OBVIOUS
<1>2. Kept(req[r], p, o)
  BY <1>1, GoesOn DEF TypeOK
<1> QED
  BY <1>1, <1>2 DEF Kept, Start, TypeOK

\* What a form makes of the picture it found.
LEMMA AppliesAPicture ==
    ASSUME PicturesInv, NEW r \in Requests, req[r].op \in {"write", "insert"}
    PROVE  Apply(r) \in media \cup {None}
BY DEF PicturesInv, Carries, Apply, Carrying

LEMMA FormsStart ==
    ASSUME TypeOK, TreesInv, PicturesInv, NEW r \in Requests,
           ThemeScreenSave(r) \/ ThemeItemSave(r) \/ EditorUpload(r)
    PROVE  PicturesInv'
<1>1. /\ Advances(r, {"new"}, {"picture"}) /\ UNCHANGED <<media, files, screen, items>>
  BY Advance, Leave DEF Hands, Leaves, disk, contents
<1>2. req'[r].prev \in Shown \cup {None}
  <2>1. CASE ThemeScreenSave(r)
    BY <2>1 DEF ThemeScreenSave, applyThemeForm, ThemeSettings, Start, TypeOK, Shown
  <2>2. CASE ThemeItemSave(r)
    <3>1. PICK item \in themeItemFor : applyThemeForm(r, item.row, item.prev)
      BY <2>2 DEF ThemeItemSave
    <3>2. req'[r].prev = item.prev
      BY <3>1 DEF applyThemeForm, Start, TypeOK
    <3>3. item.prev \in {None} \cup {items[i] : i \in ThemeItems}
      BY DEF themeItemFor, ThemeItem
    <3> QED
      BY <3>2, <3>3 DEF Shown
  <2>3. CASE EditorUpload(r)
    BY <2>3 DEF EditorUpload, Start, TypeOK
  <2> QED
    BY <2>1, <2>2, <2>3
<1>3. r \notin media
  BY <1>1 DEF PicturesInv, Carries, Advances
<1>4. Carries(r)'
  BY <1>1, <1>2, <1>3 DEF Advances, Carries, At, PicturesInv
<1>5. Handles(r)
  BY <1>1 DEF Advances, Handles, PicturesInv
<1> QED
  BY <1>1, <1>4, <1>5, SameShown, PicturesMove DEF PicturesInv

LEMMA Stores ==
    ASSUME TypeOK, TreesInv, PicturesInv, NEW r \in Requests,
           saveThemePictures(r) \/ CreateMedia(r) \/ CreateMediaFails(r) \/ CountThemeItems(r)
    PROVE  PicturesInv'
<1>0. \A s \in Requests : s # r => req'[s] = req[s]
  BY Advance DEF Hands, Advances
<1>1. UNCHANGED <<screen, items>> /\ Carries(r)
  BY Leave DEF Leaves, contents, PicturesInv
<1>2. Shown \subseteq media \cup {None} /\ media \subseteq files /\ Shown' = Shown
  BY <1>1, SameShown DEF PicturesInv
<1>3. CASE saveThemePictures(r)
  <2>1. /\ req[r].op = "picture" /\ UNCHANGED media /\ r \notin media
    BY <1>1, <1>3 DEF saveThemePictures, At, contents, Carries
  <2>2. \/ req[r].uploads /\ files' = files \cup {r} /\ Start(r, Onto(req[r], "row"))
        \/ ~req[r].uploads /\ files' = files /\ Start(r, Onto(req[r], "write"))
    BY <1>3 DEF saveThemePictures, WriteImage, Onto
  <2>3. /\ req'[r].prev = req[r].prev /\ req'[r].uploads = req[r].uploads
        /\ req'[r].op = IF req[r].uploads THEN "row" ELSE "write"
    BY <2>1, <2>2, FormGoesOn DEF Carrying
  <2>4. Carries(r)'
    BY <1>1, <2>1, <2>2, <2>3 DEF Carries, At, Carrying
  <2>5. Handles(r)
    BY <1>0, <1>2, <2>1, <2>2 DEF Handles
  <2> QED
    BY <1>2, <2>1, <2>4, <2>5, PicturesMove
<1>4. CASE CreateMedia(r)
  <2>1. /\ req[r].op = "row" /\ UNCHANGED files /\ media' = media \cup {r} /\ r \in files
    BY <1>1, <1>4 DEF CreateMedia, At, disk, Carries
  <2>2. Done(r) \/ Start(r, Onto(req[r], "write"))
    BY <1>4 DEF CreateMedia, Onto
  <2>3. Carries(r)'
    <3>1. CASE Done(r)
      BY <3>1 DEF Done, Start, TypeOK, Carries, At, Carrying
    <3>2. CASE Start(r, Onto(req[r], "write"))
      <4>1. req'[r].op = "write" /\ req'[r].prev = req[r].prev
        BY <2>1, <3>2, FormGoesOn DEF Carrying
      <4> QED
        BY <1>1, <2>1, <4>1 DEF Carries, At, Carrying
    <3> QED
      BY <2>2, <3>1, <3>2
  <2>4. Handles(r)
    BY <1>0, <1>2, <2>1 DEF Handles
  <2> QED
    BY <1>2, <2>1, <2>3, <2>4, PicturesMove
<1>5. CASE CreateMediaFails(r)
  <2>1. /\ req[r].op = "row" /\ UNCHANGED media /\ files' \in {files, files \ {r}} /\ r \notin media
    BY <1>1, <1>5 DEF CreateMediaFails, At, contents, Carries
  <2>2. req'[r].op = "done"
    BY <1>5 DEF CreateMediaFails, Done, Start, TypeOK
  <2>3. Carries(r)' /\ Handles(r)
    BY <1>0, <1>2, <2>1, <2>2 DEF Handles, Carries, At, Carrying
  <2> QED
    BY <1>2, <2>1, <2>3, PicturesMove
<1>6. CASE CountThemeItems(r)
  <2>1. /\ req[r].op = "write" /\ UNCHANGED <<files, media>>
    BY <1>6 DEF CountThemeItems, At, contents, disk
  <2>2. Done(r) \/ Start(r, Onto(req[r], "insert"))
    BY <1>6 DEF CountThemeItems, Onto
  <2>3. Carries(r)'
    <3>1. CASE Done(r)
      BY <3>1 DEF Done, Start, TypeOK, Carries, At, Carrying
    <3>2. CASE Start(r, Onto(req[r], "insert"))
      <4>1. req'[r].op = "insert" /\ req'[r].prev = req[r].prev /\ req'[r].uploads = req[r].uploads
        BY <2>1, <3>2, FormGoesOn DEF Carrying
      <4> QED
        BY <1>1, <2>1, <4>1 DEF Carries, At, Carrying
    <3> QED
      BY <2>2, <3>1, <3>2
  <2>4. Handles(r)
    BY <1>0, <1>2, <2>1 DEF Handles
  <2> QED
    BY <1>2, <2>1, <2>3, <2>4, PicturesMove
<1> QED
  BY <1>3, <1>4, <1>5, <1>6

LEMMA Shows ==
    ASSUME TypeOK, TreesInv, PicturesInv, NEW r \in Requests,
           SaveThemeSettings(r) \/ CreateThemeItem(r) \/ UpdateThemeItem(r) \/ ThemeItemDelete(r)
    PROVE  PicturesInv'
<1>1. /\ \A s \in Requests : s # r => req'[s] = req[s]
      /\ req'[r].op = "done" /\ UNCHANGED <<media, files>>
  BY Advance, Leave DEF Hands, Advances, Leaves, disk
<1>2. Carries(r)' /\ Handles(r)
  BY <1>1 DEF Carries, At, Carrying, Handles, PicturesInv
<1>3. Shown \subseteq media \cup {None}
  BY DEF PicturesInv
<1>4. ASSUME ~ThemeItemDelete(r) PROVE Apply(r) \in media \cup {None}
  BY <1>4, AppliesAPicture DEF SaveThemeSettings, CreateThemeItem, UpdateThemeItem, At
<1>5. Shown' \subseteq media \cup {None}
  <2>1. CASE SaveThemeSettings(r)
    <3>1. screen' = Apply(r) /\ items' = items /\ ~ThemeItemDelete(r)
      BY <1>1, <2>1 DEF SaveThemeSettings, ThemeItemDelete, At, Arrives
    <3> QED
      BY <1>3, <1>4, <3>1 DEF Shown, ThemeItems
  <2>2. CASE CreateThemeItem(r)
    <3>1. /\ items' = [i \in ThemeItems \cup {r} |-> IF i = r THEN Apply(r) ELSE items[i]]
          /\ screen' = screen /\ ~ThemeItemDelete(r)
      BY <2>2 DEF CreateThemeItem, ThemeItemDelete, At, Arrives
    <3> QED
      BY <1>3, <1>4, <3>1 DEF Shown, ThemeItems
  <2>3. CASE UpdateThemeItem(r)
    <3>1. /\ items' = [j \in ThemeItems |-> IF j = req[r].row THEN Apply(r) ELSE items[j]]
          /\ screen' = screen /\ ~ThemeItemDelete(r)
      BY <2>3 DEF UpdateThemeItem, UpdateRow, ThemeItemDelete, At, Arrives
    <3> QED
      BY <1>3, <1>4, <3>1 DEF Shown, ThemeItems
  <2>4. CASE ThemeItemDelete(r)
    <3>1. PICK i \in ThemeItems : items' = [j \in ThemeItems \ {i} |-> items[j]] /\ screen' = screen
      BY <2>4 DEF ThemeItemDelete, DeleteRow
    <3> QED
      BY <1>3, <3>1 DEF Shown, ThemeItems
  <2> QED
    BY <2>1, <2>2, <2>3, <2>4
<1> QED
  BY <1>1, <1>2, <1>5, PicturesMove

LEMMA PicturesStep == TypeOK /\ TreesInv /\ PicturesInv /\ Next => PicturesInv'
<1> SUFFICES ASSUME TypeOK, TreesInv, PicturesInv, Next PROVE PicturesInv'
  OBVIOUS
<1>1. ASSUME UNCHANGED <<media, files, screen, items>>,
             \A s \in Requests : req'[s] = req[s] \/ req'[s].op = "done"
                                 \/ (s \notin media /\ req'[s].op \notin Carrying)
      PROVE  PicturesInv'
  <2>1. \A s \in Requests : Carries(s)'
    BY <1>1 DEF PicturesInv, Carries, At, Carrying
  <2> QED
    BY <1>1, <2>1, SameShown DEF PicturesInv
<1>2. CASE Exit
  <2>1. UNCHANGED <<media, files, screen, items>> /\ \A s \in Requests : req'[s] = req[s] \/ req'[s].op = "done"
    BY <1>2 DEF Exit, disk, contents, At
  <2> QED
    BY <1>1, <2>1
<1>3. CASE UNCHANGED <<media, files, screen, items, req>>
  BY <1>1, <1>3
<1>4. run \/ Shutdown \/ closeFlag \/ closeLoad \/ close \/ Minute
        => UNCHANGED <<media, files, screen, items, req>>
  BY Alone DEF disk, contents
<1>5. \A t \in Makers :
         Tick(t) \/ TryLock(t) \/ SaveFails(t) \/ Dump(t) \/ Write(t) \/ SaveBackup(t) \/ prune(t)
         => UNCHANGED <<media, files, screen, items, req>>
  BY Alone DEF disk, contents
<1>6. ASSUME NEW r \in Requests, UNCHANGED <<media, files, screen, items>>,
             \A s \in Requests : s # r => req'[s] = req[s],
             req'[r].op = "done" \/ (req[r].op \notin {"write", "insert", "done"} /\ req'[r].op \notin Carrying)
      PROVE  PicturesInv'
  BY <1>1, <1>6 DEF PicturesInv, Carries
<1>7. ASSUME NEW r \in Requests,
             \/ startOperating(r) \/ swap(r) \/ closeOld(r) \/ recheck(r)
             \/ submit(r) \/ Lock(r) \/ provision(r) \/ CreateFirstAdmin(r) \/ Save(r)
             \/ SettingsSave(r) \/ PutSettings(r)
             \/ ThemeActivate(r) \/ PutActive(r) \/ OnThemeChange(r) \/ ThemeUpload(r) \/ Install(r)
      PROVE  PicturesInv'
  <2>1. /\ \A s \in Requests : s # r => req'[s] = req[s]
        /\ req[r].op \notin {"write", "insert", "done"}
        /\ req'[r].op \notin Carrying
    BY <1>7, Advance, ZenonT(60) DEF Hands, Advances, Carrying
  <2>2. UNCHANGED <<media, files, screen, items>>
    BY <1>7, Leave DEF Leaves, disk, contents
  <2> QED
    BY <1>6, <2>1, <2>2
<1>8. ASSUME NEW r \in Requests,
             \/ extract(r) \/ extractOne(r) \/ extractFails(r) \/ place(r) \/ moveAside(r) \/ moveFails(r)
             \/ replace(r) \/ restore(r) \/ RemoveAll(r) \/ Fails(r) \/ BackupDownload(r) \/ Downloaded(r)
      PROVE  PicturesInv'
  <2>1. /\ \A s \in Requests : s # r => req'[s] = req[s]
        /\ req'[r].op = "done" \/ (req[r].op \notin {"write", "insert", "done"} /\ req'[r].op \notin Carrying)
    BY <1>8, Advance, ZenonT(60) DEF Hands, Advances, Carrying
  <2>2. UNCHANGED <<media, files, screen, items>>
    BY <1>8, Leave DEF Leaves, disk, contents
  <2> QED
    BY <1>6, <2>1, <2>2
<1>9. \A r \in Requests :
         \/ ThemeScreenSave(r) \/ ThemeItemSave(r) \/ EditorUpload(r)
         \/ saveThemePictures(r) \/ CreateMedia(r) \/ CreateMediaFails(r) \/ CountThemeItems(r)
         \/ SaveThemeSettings(r) \/ CreateThemeItem(r) \/ UpdateThemeItem(r) \/ ThemeItemDelete(r)
         => PicturesInv'
  BY FormsStart, Stores, Shows
<1> QED
  BY <1>2, <1>3, <1>4, <1>5, <1>7, <1>8, <1>9 DEF Next
-----------------------------------------------------------------------------
(* Backups                                                                   *)

LEMMA BackupStep == TypeOK /\ PicturesInv /\ BackupsInv /\ Next => BackupsInv'
<1> SUFFICES ASSUME TypeOK, PicturesInv, BackupsInv, Next PROVE BackupsInv'
  OBVIOUS
<1>0. /\ job \in [Makers -> Job]
      /\ \A b \in stored : b.whole
      /\ \A t \in Makers : /\ job[t].op = "zip" => job[t].rows \subseteq media
                           /\ job[t].op = "save" => job[t].whole
  BY DEF TypeOK, BackupsInv
<1>1. media \subseteq media'
  <2>1. \A r \in Requests : CreateMedia(r) => media \subseteq media'
    BY DEF CreateMedia
  <2> QED
    BY <2>1, Leave, Alone DEF Next, Leaves, contents
<1>2. CASE UNCHANGED <<job, stored>>
  BY <1>0, <1>1, <1>2 DEF BackupsInv
<1>3. CASE Exit
  BY <1>0, <1>3 DEF Exit, BackupsInv
<1>4. ASSUME NEW t \in Makers, stored' \subseteq stored, NEW j, job' = [job EXCEPT ![t] = j],
             j.op = "zip" => j.rows \subseteq media, j.op = "save" => j.whole
      PROVE  BackupsInv'
  <2>1. job'[t] = j /\ \A s \in Makers : s # t => job'[s] = job[s]
    BY <1>0, <1>4
  <2> QED
    BY <1>0, <1>1, <1>4, <2>1 DEF BackupsInv
<1>5. ASSUME NEW t \in Makers, stored' \subseteq stored, NEW j, job' = [job EXCEPT ![t] = j],
             j.op \notin {"zip", "save"}
      PROVE  BackupsInv'
  BY <1>4, <1>5
<1>6. PICK idle : idle = [op |-> "idle"]
  OBVIOUS
<1>7. ASSUME NEW t \in Makers, Tick(t) \/ TryLock(t) \/ SaveFails(t) \/ Dump(t) \/ prune(t) PROVE BackupsInv'
  <2>1. CASE Tick(t)
    <3>1. PICK j : j = [op |-> "lock", now |-> clock]
      OBVIOUS
    <3>2. (job' = [job EXCEPT ![t] = j] \/ UNCHANGED job) /\ UNCHANGED stored
      BY <2>1, <3>1 DEF Tick, Turn
    <3> QED
      BY <1>2, <1>5, <3>1, <3>2
  <2>2. CASE TryLock(t)
    <3>1. PICK j : j = [job[t] EXCEPT !.op = "dump"]
      OBVIOUS
    <3>2. (job' = [job EXCEPT ![t] = j] \/ job' = [job EXCEPT ![t] = idle]) /\ UNCHANGED stored
      BY <1>6, <2>2, <3>1 DEF TryLock, Turn
    <3>3. job[t] \in [op : {"lock"}, now : 0..MaxClock]
      BY <1>0, <2>2, JobFields DEF TryLock
    <3>4. j.op = "dump"
      BY <3>1, <3>3
    <3> QED
      BY <1>5, <1>6, <3>2, <3>4
  <2>3. CASE SaveFails(t)
    BY <1>5, <1>6, <2>3 DEF SaveFails, Unlock, Turn
  <2>4. CASE Dump(t)
    <3>1. PICK j : j = [op |-> "zip", now |-> job[t].now, rows |-> media]
      OBVIOUS
    <3>2. job' = [job EXCEPT ![t] = j] /\ UNCHANGED stored
      BY <2>4, <3>1 DEF Dump, Turn
    <3> QED
      BY <1>4, <3>1, <3>2
  <2>5. CASE prune(t)
    <3>1. stored' \subseteq stored /\ job' = [job EXCEPT ![t] = idle]
      BY <1>6, <2>5 DEF prune, Newest, Unlock, Turn
    <3> QED
      BY <1>5, <1>6, <3>1
  <2> QED
    BY <1>7, <2>1, <2>2, <2>3, <2>4, <2>5
<1>8. ASSUME NEW t \in Makers, Write(t) PROVE BackupsInv'
  <2>1. PICK j : j = [op |-> "save", now |-> job[t].now, whole |-> job[t].rows \subseteq files]
    OBVIOUS
  <2>2. job' = [job EXCEPT ![t] = j] /\ UNCHANGED stored /\ job[t].op = "zip"
    BY <1>8, <2>1 DEF Write, Turn
  <2>3. job[t].rows \subseteq files
    BY <1>0, <2>2 DEF PicturesInv
  <2> QED
    BY <1>4, <2>1, <2>2, <2>3
<1>9. ASSUME NEW t \in Makers, SaveBackup(t) PROVE BackupsInv'
  <2>1. PICK j, b : j = [op |-> "prune", now |-> job[t].now] /\ b = [at |-> job[t].now, whole |-> job[t].whole]
    OBVIOUS
  <2>2. /\ job' = [job EXCEPT ![t] = j] /\ job[t].op = "save"
        /\ stored' = {c \in stored : c.at # job[t].now} \cup {b}
    BY <1>9, <2>1 DEF SaveBackup, Turn
  <2>3. \A c \in stored' : c.whole
    BY <1>0, <2>1, <2>2
  <2>4. \A s \in Makers : job'[s].op \in {"zip", "save"} => job'[s] = job[s]
    BY <1>0, <2>1, <2>2
  <2> QED
    BY <1>0, <1>1, <2>3, <2>4 DEF BackupsInv
<1>10. \A r \in Requests : BackupDownload(r) \/ Downloaded(r) => UNCHANGED <<job, stored>>
  BY DEF BackupDownload, Downloaded
<1> QED
  BY <1>2, <1>3, <1>7, <1>8, <1>9, <1>10 DEF Next, Minute, backups

\* Of the backups that are not among the newest, the last has enough newer ones, and
\* those are all among the newest.
LEMMA NewestHolds ==
    ASSUME NEW S, S \subseteq [at : 0..MaxClock, whole : {TRUE}], NEW b \in S \ Newest(S)
    PROVE  Cardinality({c \in Newest(S) : c.at > b.at}) >= Keep
<1> DEFINE Above(x) == {c \in S : c.at > x.at}
           Rest == S \ Newest(S)
           B == {MaxClock - x.at : x \in Rest}
<1>0. MaxClock \in Nat /\ Keep \in Nat
  BY SiteAssumption
<1>r. \A x \in S : x.at \in 0..MaxClock /\ x = [at |-> x.at, whole |-> TRUE]
  <2> TAKE x \in S
  <2>1. x \in [at : 0..MaxClock, whole : {TRUE}]
    OBVIOUS
  <2> QED
    BY <2>1
<1>m. \A x \in S : x.at \in Nat /\ MaxClock - x.at \in Nat
  BY <1>0, <1>r
<1>1. IsFiniteSet(S)
  <2>1. IsFiniteSet(0..MaxClock)
    BY <1>0, FS_Interval
  <2> DEFINE f == [x \in S |-> x.at]
  <2>2. \A x, y \in S : f[x] = f[y] => x = y
    BY <1>r
  <2>3. f \in [S -> 0..MaxClock]
    BY <1>r
  <2>4. f \in Injection(S, 0..MaxClock)
    BY <2>2, <2>3 DEF Injection, IsInjective
  <2> QED
    BY <2>1, <2>4, FS_Injection
<1>2. PICK c \in Rest : \A x \in Rest : x.at <= c.at
  <2>1. B \subseteq Nat /\ B # {}
    BY <1>m
  <2>2. PICK n \in B : \A m \in B : n <= m
    BY <2>1, LeastNumber
  <2>3. PICK c \in Rest : n = MaxClock - c.at
    OBVIOUS
  <2>4. ASSUME NEW x \in Rest PROVE x.at <= c.at
    <3>1. MaxClock - c.at <= MaxClock - x.at
      BY <2>2, <2>3
    <3> QED
      BY <1>0, <1>m, <3>1
  <2> QED
    BY <2>4
<1>3. /\ \A x \in S : IsFiniteSet(Above(x)) /\ Cardinality(Above(x)) \in Nat
      /\ IsFiniteSet({x \in Newest(S) : x.at > b.at}) /\ Cardinality({x \in Newest(S) : x.at > b.at}) \in Nat
  <2>1. {x \in Newest(S) : x.at > b.at} \in SUBSET S /\ \A x \in S : Above(x) \in SUBSET S
    BY DEF Newest
  <2> QED
    BY <1>1, <2>1, FS_Subset, FS_CardinalityType
<1>4. ~(Cardinality(Above(c)) < Keep)
  BY DEF Newest
<1>5. Above(c) \in SUBSET {x \in Newest(S) : x.at > b.at}
  <2>1. ASSUME NEW x \in Above(c) PROVE x \in Newest(S) /\ x.at > b.at
    <3>1. x \in S /\ x.at > c.at /\ b.at <= c.at
      BY <1>2, <2>1
    <3>2. x.at \in Nat /\ c.at \in Nat /\ b.at \in Nat
      BY <1>m, <1>2, <3>1
    <3>3. x \notin Rest
      BY <1>2, <3>1, <3>2
    <3> QED
      BY <3>1, <3>2, <3>3
  <2> QED
    BY <2>1
<1>6. Cardinality(Above(c)) <= Cardinality({x \in Newest(S) : x.at > b.at})
  BY <1>3, <1>5, FS_Subset
<1>7. Cardinality(Above(c)) \in Nat
  BY <1>2, <1>3
<1> QED
  BY <1>0, <1>3, <1>4, <1>6, <1>7

-----------------------------------------------------------------------------
(* The theorems                                                              *)

LEMMA InitHolds == Init => SiteInv
<1> SUFFICES ASSUME Init PROVE SiteInv
  OBVIOUS
<1>0. /\ "old" # None /\ "old" # "part" /\ "part" # None /\ Wizard # None
      /\ None \notin Requests /\ Boot # None
  BY Names, SiteAssumption DEF Versions
<1>1. DOMAIN items = {}
  BY DEF Init
<1>u. users = {} \/ \E e \in Emails : users = {[email |-> e, by |-> Boot]}
  BY DEF Init
<1>v. users \subseteq [email : Emails, by : Makers]
  BY <1>u DEF Makers
<1>2. TypeOK
  <2>1. ProcessTyped
    BY DEF Init, ProcessTyped, NoTree, SiteTypes
  <2>2. DiskTyped
    BY DEF Init, DiskTyped, Versions
  <2>3. ContentsTyped
    <3>1. users \subseteq [email : Emails, by : Makers] /\ verify \in BOOLEAN
      BY <1>v DEF Init
    <3>2. setting \in [type : SiteTypes, theme : Themes \cup {None}] /\ media \subseteq Requests /\ screen = None
      BY DEF Init, SiteTypes
    <3> QED
      BY <1>1, <3>1, <3>2 DEF ContentsTyped
  <2>4. BackupsTyped
    <3>1. [op |-> "idle"] \in Job
      BY DEF Job
    <3>2. job \in [Makers -> Job] /\ last \in [Makers -> Int]
      BY <3>1 DEF Init
    <3> QED
      BY <3>2, SiteAssumption DEF Init, BackupsTyped
  <2>5. RequestsTyped
    BY DEF Init, RequestsTyped, Request
  <2> QED
    BY <2>1, <2>2, <2>3, <2>4, <2>5, Typed
<1>3. \A r \in Requests : req[r].op = "new"
  BY DEF Init
<1>4. TreesInv
  BY <1>0, <1>3 DEF Init, TreesInv, NoTree, Served, At
<1>5. WizardInv
  <2>1. users = {} \/ \E u \in users : u.by = Boot
    <3>1. ASSUME NEW e \in Emails, users = {[email |-> e, by |-> Boot]} PROVE \E u \in users : u.by = Boot
      <4>1. PICK u : u = [email |-> e, by |-> Boot]
        OBVIOUS
      <4>2. u \in users /\ u.by = Boot
        BY <3>1, <4>1
      <4> QED
        BY <4>2
    <3> QED
      BY <1>u, <3>1
  <2> QED
    BY <1>0, <1>3, <2>1 DEF Init, WizardInv, At
<1>6. ThemesInv
  BY <1>0, <1>3, SiteAssumption DEF Init, ThemesInv, Exchange, Stands
<1>7. PicturesInv
  BY <1>0, <1>1, <1>3 DEF Init, PicturesInv, Carries, Carrying, Shown, ThemeItems, At
<1>8. BackupsInv
  BY DEF Init, BackupsInv
<1> QED
  BY <1>2, <1>4, <1>5, <1>6, <1>7, <1>8 DEF SiteInv

LEMMA SiteStep == SiteInv /\ [Next]_vars => SiteInv'
<1> SUFFICES ASSUME SiteInv, [Next]_vars PROVE SiteInv'
  OBVIOUS
<1>1. CASE UNCHANGED vars
  <2>1. TypeOK'
    BY <1>1, TypesStep DEF SiteInv
  <2>2. TreesInv' /\ WizardInv'
    BY <1>1 DEF SiteInv, TreesInv, WizardInv, Released, Served, At, vars
  <2>3. ThemesInv' /\ PicturesInv'
    BY <1>1 DEF SiteInv, ThemesInv, Exchange, Stands, PicturesInv, Carries, Shown, ThemeItems, At, vars
  <2>4. BackupsInv'
    BY <1>1 DEF SiteInv, BackupsInv, vars
  <2> QED
    BY <2>1, <2>2, <2>3, <2>4 DEF SiteInv
<1>2. CASE Next
  BY <1>2, TypesStep, TreesStep, WizardStep, ThemesStep, PicturesStep, BackupStep DEF SiteInv
<1> QED
  BY <1>1, <1>2

\* The invariant holds throughout.
THEOREM SiteInductive == Spec => []SiteInv
BY InitHolds, SiteStep, PTL DEF Spec

\* No replacement of the handler tree leaves one open that nobody will release, and
\* none releases the one that serves (main.go startOperating and root.close).
THEOREM TreesReleasedSafe == Spec => []TreesReleased
<1>1. SiteInv => TreesReleased
  BY TreesHold DEF SiteInv
<1> QED
  BY <1>1, SiteInductive, PTL

\* A shipped theme is whole where it belongs or stands aside (theme/upload.go Install),
\* and every picture shown is served (admin/handlers_theme.go: the files before the rows).
THEOREM ThemesWholeSafe == Spec => []ThemesWhole
<1>1. SiteInv => ThemesWhole
  BY DEF SiteInv, ThemesWhole, ThemesInv, Stands, PicturesInv, Shown, mediaServe, MediaByID
<1> QED
  BY <1>1, SiteInductive, PTL

\* What holds when the config is written.
Written ==
    /\ config = None
    /\ \E u \in users : u.by = config'
    /\ verify \/ \E u \in users : u.by = Boot
\* The config is written once, by the installation whose account is there, and never
\* over another's (install.go: the mutex, the flag and the order of its steps).
THEOREM ConfigOnceSafe == Spec => ConfigOnce
<1>1. SiteInv /\ [Next]_vars => [Written]_config
  <2> SUFFICES ASSUME SiteInv, [Next]_vars, config' # config PROVE Written
    OBVIOUS
  <2>1. ~UNCHANGED vars
    BY DEF vars
  <2>2. \E r \in Requests : Save(r)
    BY <2>1, Leave, Alone DEF Next, Leaves, disk
  <2>3. PICK r \in Requests : Save(r)
    BY <2>2
  <2>4. At(r, "save config") /\ config' = r
    BY <2>3 DEF Save
  <2> QED
    BY <2>4 DEF Written, SiteInv, WizardInv, At
<1>2. SiteInv /\ [Next]_vars
      => [/\ config = None
          /\ \E u \in users : u.by = config'
          /\ verify \/ \E u \in users : u.by = Boot]_config
  BY <1>1 DEF Written
<1> QED
  BY <1>2, SiteInductive, PTL DEF Spec, ConfigOnce

\* No backup goes before there are enough newer ones, and each that is stored has the
\* pictures of its dump (backup/store.go Save and prune).
THEOREM BackupsKeptSafe == Spec => BackupsKept
<1>1. SiteInv /\ [Next]_vars
      => [/\ \A b \in stored \ stored' : Cardinality({c \in stored' : c.at > b.at}) >= Keep
          /\ \A b \in stored' : b.whole]_stored
  <2> SUFFICES ASSUME SiteInv, [Next]_vars, stored' # stored
               PROVE  /\ \A b \in stored \ stored' : Cardinality({c \in stored' : c.at > b.at}) >= Keep
                      /\ \A b \in stored' : b.whole
    OBVIOUS
  <2>1. \A b \in stored' : b.whole
    BY SiteStep DEF SiteInv, BackupsInv
  <2>2. stored \subseteq [at : 0..MaxClock, whole : {TRUE}]
    BY DEF SiteInv, TypeOK, BackupsInv
  <2>3. \E t \in Makers : SaveBackup(t) \/ prune(t)
    <3>1. ~UNCHANGED vars /\ Next
      BY DEF vars
    <3> QED
      BY <3>1 DEF Next, backups, Exit, Minute, Tick, TryLock, SaveFails, Dump, Write, BackupDownload, Downloaded
  <2>4. ASSUME NEW t \in Makers, SaveBackup(t) PROVE stored \ stored' = {}
    <3>1. PICK b : b = [at |-> job[t].now, whole |-> job[t].whole]
      OBVIOUS
    <3>2. stored' = {c \in stored : c.at # job[t].now} \cup {b}
      BY <2>4, <3>1 DEF SaveBackup
    <3>3. job[t].whole = TRUE
      BY <2>4, JobFields DEF SaveBackup, SiteInv, BackupsInv, TypeOK
    <3>4. ASSUME NEW c \in stored, c.at = job[t].now PROVE c = b
      <4>1. c = [at |-> c.at, whole |-> TRUE]
        BY <2>2
      <4> QED
        BY <3>1, <3>3, <3>4, <4>1
    <3> QED
      BY <3>2, <3>4
  <2>5. ASSUME NEW t \in Makers, prune(t) PROVE stored' = Newest(stored)
    BY <2>5 DEF prune
  <2>6. \A b \in stored \ stored' : Cardinality({c \in stored' : c.at > b.at}) >= Keep
    <3>1. CASE \E t \in Makers : SaveBackup(t)
      BY <2>4, <3>1
    <3>2. CASE \E t \in Makers : prune(t)
      <4>1. PICK S, N : S = stored /\ N = Newest(S)
        OBVIOUS
      <4>2. \A b \in S \ N : Cardinality({c \in N : c.at > b.at}) >= Keep
        BY <2>2, <4>1, NewestHolds
      <4>3. stored' = N
        BY <2>5, <3>2, <4>1
      <4> QED
        BY <4>1, <4>2, <4>3
    <3> QED
      BY <2>3, <3>1, <3>2
  <2> QED
    BY <2>1, <2>6
<1> QED
  BY <1>1, SiteInductive, PTL DEF Spec, BackupsKept

-----------------------------------------------------------------------------
(* Roles: what administrators may make of each other.  Between the judgement *)
(* of a request and its write others write: the invariant says what of a     *)
(* judgement is still true when it is used.                                  *)

Covered(h) == h \in endowed \/ <<h[1], Global>> \in endowed
Leaving(r) == asked[r].op \in {"deactivating", "deleting"}
Holder(u)  == state[u] = "active" /\ isSuperuser(u)

\* Whoever is a superuser was made one by a superuser.
Crowned == \A u \in Users : isSuperuser(u) => u \in crowned
\* What a role gives that everyone has, or someone who is no superuser, is covered.
Spread == {r \in Roles : r \in Everyones \/ \E u \in Users : r \in roles[u] /\ ~isSuperuser(u)}
SpreadCovered == \A role \in Spread : \A h \in LoadRolePermissions(role) : Covered(h)
\* What an operator was allowed to hand out is covered when it is handed out.
AssignsCovered ==
    \A r \in Calls : asked[r].op = "assign" /\ ~asked[r].bySuper =>
        /\ asked[r].role # Superuser
        /\ \A h \in LoadRolePermissions(asked[r].role) : Covered(h)
GrantsCovered ==
    \A r \in Calls : asked[r].op = "grant" /\ ~asked[r].bySuper =>
        <<asked[r].grant[2], Global>> \in endowed
\* One request at a time is past the guard, and it leaves a superuser behind.
OneLeaves == \A r, q \in Calls : Leaving(r) /\ Leaving(q) => r = q
OneStays ==
    \A r \in Calls : Leaving(r) => \E u \in Users : u # asked[r].target /\ Holder(u)
SomeHolder == \E u \in Users : Holder(u)

Given == Crowned /\ SpreadCovered /\ AssignsCovered /\ GrantsCovered
SuperuserKept == OneLeaves /\ OneStays /\ SomeHolder
RolesInv == RolesTypeOK /\ Given /\ SuperuserKept

-----------------------------------------------------------------------------
(* Types                                                                     *)

\* What a request in flight remembers.
LEMMA RoleRequestFields ==
    ASSUME RolesTypeOK, NEW r \in Calls
    PROVE  /\ asked[r].op = "assign" =>
                asked[r] \in [op : {"assign"}, bySuper : BOOLEAN, target : Users, role : Roles]
           /\ asked[r].op = "grant" =>
                asked[r] \in [op : {"grant"}, bySuper : BOOLEAN, grant : Triples]
           /\ asked[r].op \in {"deactivate", "activate", "delete", "deactivating", "deleting"} =>
                asked[r] \in [op : {asked[r].op}, target : Users]
<1>1. asked[r] \in Call
  BY DEF RolesTypeOK
<1> QED
  BY <1>1 DEF Call, Idle

\* A request enters the transaction that looks for the last superuser.
LEMMA GuardPassed ==
    ASSUME RolesTypeOK, NEW r \in Calls, asked[r].op \in {"deactivate", "delete"},
           asked' = [asked EXCEPT ![r].op = IF @ = "delete" THEN "deleting" ELSE "deactivating"]
    PROVE  /\ asked' \in [Calls -> Call]
           /\ asked'[r].op \in {"deactivating", "deleting"}
           /\ asked'[r].target = asked[r].target
           /\ \A q \in Calls : q # r => asked'[q] = asked[q]
<1>1. asked[r] \in [op : {asked[r].op}, target : Users]
  BY RoleRequestFields
<1>2. PICK what \in {"deactivating", "deleting"} : asked' = [asked EXCEPT ![r].op = what]
  BY DEF RolesTypeOK
<1>3. asked' = [asked EXCEPT ![r] = [op |-> what, target |-> asked[r].target]]
  BY <1>1, <1>2 DEF RolesTypeOK
<1>4. [op |-> what, target |-> asked[r].target] \in Call
  BY <1>1 DEF Call
<1> QED
  BY <1>3, <1>4, ZenonT(60) DEF RolesTypeOK

LEMMA RolesTypeStep == RolesTypeOK /\ [RolesNext]_rolesVars => RolesTypeOK'
<1> SUFFICES ASSUME RolesTypeOK, [RolesNext]_rolesVars PROVE RolesTypeOK'
  OBVIOUS
<1> USE RolesAssumption DEF RolesTypeOK
<1>1. ASSUME NEW u \in Users, CreateUser(u) PROVE RolesTypeOK'
  BY <1>1 DEF CreateUser
<1>2. ASSUME NEW r \in Calls, NEW u \in Users, deleteAccount(r, u) PROVE RolesTypeOK'
  BY <1>2 DEF deleteAccount, Ask, Call
<1>3. ASSUME NEW r \in Calls, NEW u \in Users, NEW a \in Assignments,
             RoleAssign(r, u, a[1], a[2])
      PROVE RolesTypeOK'
  <2>1. [op |-> "assign", bySuper |-> isSuperuser(u), target |-> a[1], role |-> a[2]] \in Call
    <3>1. a[1] \in Users /\ a[2] \in Roles
      OBVIOUS
    <3>2. isSuperuser(u) \in BOOLEAN
      BY DEF isSuperuser
    <3> QED
      BY <3>1, <3>2 DEF Call
  <2> QED
    BY <1>3, <2>1 DEF RoleAssign, Ask
<1>4. ASSUME NEW r \in Calls, NEW u \in Users, NEW g \in Grants,
             RoleGrantPermission(r, u, g)
      PROVE RolesTypeOK'
  <2>1. [op |-> "grant", bySuper |-> isSuperuser(u), grant |-> g] \in Call
    BY DEF Call, isSuperuser
  <2> QED
    BY <1>4, <2>1 DEF RoleGrantPermission, Ask
<1>5. ASSUME NEW r \in Calls, NEW u \in Users, NEW t \in Users,
             NEW op \in {"deactivate", "activate", "delete"}, NEW p,
             guardAccountOp(r, u, t, op, p)
      PROVE RolesTypeOK'
  BY <1>5 DEF guardAccountOp, Ask, Call
<1>6. ASSUME NEW r \in Calls, RoleAssigned(r) PROVE RolesTypeOK'
  <2>1. asked[r].target \in Users /\ asked[r].role \in Roles
    BY <1>6, RoleRequestFields DEF RoleAssigned
  <2>2. asked' \in [Calls -> Call]
    BY <1>6 DEF RoleAssigned, Ended, Ask, Call
  <2>3. /\ roles' \in [Users -> SUBSET (Roles \ Everyones)]
        /\ \A u \in Users : state[u] \in {"new", "deleted"} => roles'[u] = {}
    BY <1>6, <2>1 DEF RoleAssigned, AssignRole, Exists
  <2>4. endowed' \subseteq Rights /\ crowned' \subseteq Users
    BY <1>6, <2>1 DEF RoleAssigned, LoadRolePermissions
  <2> QED
    BY <1>6, <2>2, <2>3, <2>4 DEF RoleAssigned
<1>7. ASSUME NEW r \in Calls, RoleGranted(r) PROVE RolesTypeOK'
  <2>1. asked[r].grant \in Triples
    BY <1>7, RoleRequestFields DEF RoleGranted
  <2>2. <<asked[r].grant[2], asked[r].grant[3]>> \in Rights
    BY <2>1 DEF Triples, Rights
  <2> QED
    BY <1>7, <2>1, <2>2 DEF RoleGranted, GrantPermission, Ended, Ask, Call
<1>8. ASSUME NEW r \in Calls, withLastSuperuserGuard(r) PROVE RolesTypeOK'
  <2>1. CASE Ended(r)
    BY <1>8, <2>1 DEF withLastSuperuserGuard, Ended, Ask, Call
  <2>2. CASE ~Ended(r)
    BY <1>8, <2>2, GuardPassed DEF withLastSuperuserGuard
  <2> QED
    BY <2>1, <2>2
<1>9. ASSUME NEW r \in Calls, DeactivateUser(r) PROVE RolesTypeOK'
  BY <1>9, RoleRequestFields DEF DeactivateUser, Exists, Ended, Ask, Call
<1>10. ASSUME NEW r \in Calls, DeleteUser(r) PROVE RolesTypeOK'
  BY <1>10, RoleRequestFields DEF DeleteUser, DeleteUserRow, Exists, Ended, Ask, Call
<1>11. ASSUME NEW r \in Calls, ActivateUser(r) PROVE RolesTypeOK'
  BY <1>11, RoleRequestFields DEF ActivateUser, Exists, Ended, Ask, Call
<1>12. ASSUME NEW r \in Calls, RolledBack(r) PROVE RolesTypeOK'
  BY <1>12 DEF RolledBack, Ended, Ask, Call
<1>13. CASE UNCHANGED rolesVars
  BY <1>13 DEF rolesVars
<1> QED
  BY <1>1, <1>2, <1>3, <1>4, <1>5, <1>6, <1>7, <1>8, <1>9, <1>10, <1>11, <1>12, <1>13
  DEF RolesNext, UserDeactivate, UserActivate, UserDelete
-----------------------------------------------------------------------------
(* Nobody comes to more than was given                                       *)

\* A permission an operator holds globally is covered for every scope.
LEMMA OperatorCovered ==
    ASSUME RolesTypeOK, SpreadCovered, NEW u \in Users, ~isSuperuser(u),
           NEW p \in Permissions, Can(u, p)
    PROVE  <<p, Global>> \in endowed
<1>1. PICK r \in EffectiveRoles(u) : <<r, p, Global>> \in grants
  BY DEF Can, CanOn
<1>2. r \in Spread
  BY RolesAssumption DEF RolesTypeOK, EffectiveRoles, Spread
<1>3. <<p, Global>> \in LoadRolePermissions(r)
  BY <1>1 DEF LoadRolePermissions, Rights
<1> QED
  BY <1>2, <1>3 DEF SpreadCovered, Covered

\* A request that only remembers a judgement gives nothing away.
LEMMA GivenByJudging ==
    ASSUME RolesTypeOK, Given, NEW r \in Calls, NEW what \in Call, Ask(r, what),
           what.op = "assign" /\ ~what.bySuper =>
               /\ what.role # Superuser
               /\ \A h \in LoadRolePermissions(what.role) : Covered(h),
           what.op = "grant" /\ ~what.bySuper => <<what.grant[2], Global>> \in endowed,
           UNCHANGED <<roles, grants, endowed, crowned>>
    PROVE  Given'
<1>1. \A q \in Calls : asked'[q] = IF q = r THEN what ELSE asked[q]
  BY DEF Ask, RolesTypeOK
<1>2. Crowned' /\ SpreadCovered'
  BY DEF Given, Crowned, Spread, SpreadCovered, Covered, LoadRolePermissions, isSuperuser
<1>3. AssignsCovered'
  BY <1>1 DEF Given, AssignsCovered, Covered, LoadRolePermissions
<1>4. GrantsCovered'
  BY <1>1 DEF Given, GrantsCovered
<1> QED
  BY <1>2, <1>3, <1>4 DEF Given

\* A request that ends remembers nothing.
LEMMA Forgotten ==
    ASSUME RolesTypeOK, NEW r \in Calls, Ended(r)
    PROVE  \A q \in Calls : asked'[q] = IF q = r THEN [op |-> "idle"] ELSE asked[q]
BY DEF Ended, Ask, RolesTypeOK, Idle

LEMMA AssignJudged ==
    ASSUME RolesInv, NEW r \in Calls, NEW u \in Users, NEW a \in Assignments,
           RoleAssign(r, u, a[1], a[2])
    PROVE  Given'
<1> DEFINE what == [op |-> "assign", bySuper |-> isSuperuser(u),
                    target |-> a[1], role |-> a[2]]
<1>1. a[1] \in Users /\ a[2] \in Roles /\ isSuperuser(u) \in BOOLEAN
  BY RolesAssumption DEF isSuperuser
<1>2. what \in Call
  BY <1>1 DEF Call
<1>3. ASSUME ~isSuperuser(u)
      PROVE  a[2] # Superuser /\ \A h \in LoadRolePermissions(a[2]) : Covered(h)
  <2>1. a[2] # Superuser /\ \A p \in RoleByKey(a[2]) : Can(u, p)
    BY <1>3 DEF RoleAssign, CanAssignRole
  <2>2. ASSUME NEW h \in LoadRolePermissions(a[2]) PROVE Covered(h)
    <3>1. h[1] \in Permissions /\ h[1] \in RoleByKey(a[2])
      BY DEF LoadRolePermissions, RoleByKey, Rights
    <3>2. <<h[1], Global>> \in endowed
      BY <1>3, <2>1, <3>1, OperatorCovered DEF RolesInv, Given
    <3> QED
      BY <3>2 DEF Covered
  <2> QED
    BY <2>1, <2>2
<1>4. Ask(r, what) /\ UNCHANGED <<roles, grants, endowed, crowned>>
  BY DEF RoleAssign
<1>5. what.op = "assign" /\ ~what.bySuper =>
          /\ what.role # Superuser
          /\ \A h \in LoadRolePermissions(what.role) : Covered(h)
  BY <1>3
<1>6. what.op # "grant"
  OBVIOUS
<1> HIDE DEF what
<1> QED
  BY <1>2, <1>4, <1>5, <1>6, GivenByJudging DEF RolesInv

LEMMA GrantJudged ==
    ASSUME RolesInv, NEW r \in Calls, NEW u \in Users, NEW g \in Grants,
           RoleGrantPermission(r, u, g)
    PROVE  Given'
<1> DEFINE what == [op |-> "grant", bySuper |-> isSuperuser(u), grant |-> g]
<1>1. g \in Triples /\ g[2] \in Permissions /\ isSuperuser(u) \in BOOLEAN
  BY RolesAssumption DEF Triples, isSuperuser
<1>2. what \in Call
  BY <1>1 DEF Call
<1>3. ~isSuperuser(u) => <<g[2], Global>> \in endowed
  BY <1>1, OperatorCovered DEF RoleGrantPermission, CanAddPermissionToRole, RolesInv, Given
<1>4. Ask(r, what) /\ UNCHANGED <<roles, grants, endowed, crowned>>
  BY DEF RoleGrantPermission
<1>5. what.op = "grant" /\ ~what.bySuper => <<what.grant[2], Global>> \in endowed
  BY <1>3
<1>6. what.op # "assign"
  OBVIOUS
<1> HIDE DEF what
<1> QED
  BY <1>2, <1>4, <1>5, <1>6, GivenByJudging DEF RolesInv

\* The role that is written was covered when it was judged, or a superuser gives it.
LEMMA AssignWritten ==
    ASSUME RolesInv, NEW r \in Calls, RoleAssigned(r)
    PROVE  Given'
<1> DEFINE t == asked[r].target
           role == asked[r].role
<1>1. /\ asked[r].op = "assign" /\ Ended(r) /\ grants' = grants
      /\ roles' = [roles EXCEPT ![t] =
                     IF Exists(t) /\ role \notin Everyones THEN @ \cup {role} ELSE @]
      /\ t \in Users /\ role \in Roles /\ asked[r].bySuper \in BOOLEAN
  BY RoleRequestFields DEF RoleAssigned, AssignRole, RolesInv
<1>2. endowed \subseteq endowed' /\ crowned \subseteq crowned'
  BY DEF RoleAssigned
<1>3. \A x \in Roles : LoadRolePermissions(x)' = LoadRolePermissions(x)
  BY <1>1 DEF LoadRolePermissions
<1>4. \A h : Covered(h) => Covered(h)'
  BY <1>2 DEF Covered
<1>5. \A h \in LoadRolePermissions(role) : role # Superuser => Covered(h)'
  <2>1. CASE asked[r].bySuper
    BY <2>1 DEF RoleAssigned, Covered
  <2>2. CASE ~asked[r].bySuper
    BY <1>1, <1>4, <2>2 DEF RolesInv, Given, AssignsCovered
  <2> QED
    BY <2>1, <2>2
<1>6. \A u \in Users : roles'[u] = roles[u] \/ (u = t /\ roles'[u] = roles[u] \cup {role})
  BY <1>1 DEF RolesInv, RolesTypeOK
<1>7. Crowned'
  <2>1. SUFFICES ASSUME NEW u \in Users, isSuperuser(u)' PROVE u \in crowned'
    BY DEF Crowned
  <2>2. CASE isSuperuser(u)
    BY <1>2, <2>2 DEF RolesInv, Given, Crowned
  <2>3. CASE ~isSuperuser(u)
    <3>1. u = t /\ role = Superuser
      BY <1>6, <2>1, <2>3 DEF isSuperuser
    <3>2. asked[r].bySuper
      BY <1>1, <3>1 DEF RolesInv, Given, AssignsCovered
    <3> QED
      BY <3>1, <3>2 DEF RoleAssigned
  <2> QED
    BY <2>2, <2>3
<1>8. SpreadCovered'
  <2>1. SUFFICES ASSUME NEW x \in Spread', NEW h \in LoadRolePermissions(x)'
                 PROVE  Covered(h)'
    BY DEF SpreadCovered
  <2>2. x \in Roles /\ h \in LoadRolePermissions(x)
    BY <1>3 DEF Spread
  <2>3. CASE x \in Spread
    BY <1>4, <2>2, <2>3 DEF RolesInv, Given, SpreadCovered
  <2>4. CASE x \notin Spread
    <3>1. PICK u \in Users : x \in roles'[u] /\ ~isSuperuser(u)'
      BY <2>2, <2>4 DEF Spread
    <3>2. ~isSuperuser(u)
      BY <1>6, <3>1 DEF isSuperuser
    <3>3. x = role /\ x # Superuser
      BY <1>6, <2>2, <2>4, <3>1, <3>2 DEF Spread, isSuperuser
    <3> QED
      BY <1>5, <2>2, <3>3
  <2> QED
    BY <2>3, <2>4
<1>9. AssignsCovered' /\ GrantsCovered'
  <2>1. \A q \in Calls : asked'[q] = IF q = r THEN [op |-> "idle"] ELSE asked[q]
    BY <1>1, Forgotten DEF RolesInv
  <2>2. AssignsCovered'
    BY <1>1, <1>4, <2>1 DEF RolesInv, Given, AssignsCovered, LoadRolePermissions
  <2>3. GrantsCovered'
    BY <1>2, <2>1 DEF RolesInv, Given, GrantsCovered
  <2> QED
    BY <2>2, <2>3
<1> QED
  BY <1>7, <1>8, <1>9 DEF Given

\* The permission that is written is covered globally, or a superuser gives it.
LEMMA GrantWritten ==
    ASSUME RolesInv, NEW r \in Calls, RoleGranted(r)
    PROVE  Given'
<1>0. PICK g \in Triples : g = asked[r].grant
  BY RoleRequestFields DEF RoleGranted, RolesInv
<1>1. /\ asked[r].op = "grant" /\ Ended(r) /\ grants' = grants \cup {g}
      /\ roles' = roles /\ crowned' = crowned
      /\ endowed' = IF asked[r].bySuper THEN endowed \cup {<<g[2], g[3]>>} ELSE endowed
  BY <1>0 DEF RoleGranted, GrantPermission
<1>2. endowed \subseteq endowed'
  BY <1>1
<1>3. Covered(<<g[2], g[3]>>)'
  <2>1. CASE asked[r].bySuper
    BY <1>1, <2>1 DEF Covered
  <2>2. CASE ~asked[r].bySuper
    <3>1. <<g[2], Global>> \in endowed
      BY <1>0, <1>1, <2>2 DEF RolesInv, Given, GrantsCovered
    <3> QED
      BY <1>2, <3>1 DEF Covered
  <2> QED
    BY <2>1, <2>2
<1>4. \A h : Covered(h) => Covered(h)'
  BY <1>2 DEF Covered
<1>5. \A x \in Roles : \A h \in LoadRolePermissions(x)' :
         h \in LoadRolePermissions(x) \/ Covered(h)'
  <2>1. SUFFICES ASSUME NEW x \in Roles, NEW h \in LoadRolePermissions(x)',
                        h \notin LoadRolePermissions(x)
                 PROVE  Covered(h)'
    OBVIOUS
  <2>2. h \in Rights /\ <<x, h[1], h[2]>> = g
    BY <1>1, <2>1 DEF LoadRolePermissions
  <2>3. h = <<g[2], g[3]>>
    BY <2>2 DEF Rights
  <2> QED
    BY <1>3, <2>3
<1>6. \A q \in Calls : asked'[q] = IF q = r THEN [op |-> "idle"] ELSE asked[q]
  BY <1>1, Forgotten DEF RolesInv
<1>7. Crowned'
  BY <1>1 DEF RolesInv, Given, Crowned, isSuperuser
<1>8. SpreadCovered'
  <2>1. Spread' = Spread /\ Spread \subseteq Roles
    BY <1>1 DEF Spread, isSuperuser
  <2> QED
    BY <1>4, <1>5, <2>1 DEF RolesInv, Given, SpreadCovered
<1>9. AssignsCovered'
  <2>1. SUFFICES ASSUME NEW q \in Calls, NEW role, role = asked'[q].role,
                        asked'[q].op = "assign", ~asked'[q].bySuper
                 PROVE  /\ role # Superuser
                        /\ \A h \in LoadRolePermissions(role)' : Covered(h)'
    BY DEF AssignsCovered, LoadRolePermissions
  <2>2. asked'[q] = asked[q] /\ role \in Roles
    BY <1>6, <2>1, RoleRequestFields DEF RolesInv
  <2>3. role # Superuser /\ \A h \in LoadRolePermissions(role) : Covered(h)
    BY <2>1, <2>2 DEF RolesInv, Given, AssignsCovered, LoadRolePermissions
  <2> QED
    BY <1>4, <1>5, <2>2, <2>3
<1>10. GrantsCovered'
  BY <1>2, <1>6 DEF RolesInv, Given, GrantsCovered
<1> QED
  BY <1>7, <1>8, <1>9, <1>10 DEF Given

\* The roles of an account go with its row, and those who stay keep theirs.
LEMMA DeletionGivesNothing ==
    ASSUME RolesInv, NEW r \in Calls, DeleteUser(r)
    PROVE  Given'
<1>1. /\ Ended(r) /\ UNCHANGED <<grants, endowed, crowned>>
      /\ \A u \in Users : roles'[u] = roles[u] \/ roles'[u] = {}
  BY DEF DeleteUser, DeleteUserRow, RolesInv, RolesTypeOK
<1>2. \A q \in Calls : asked'[q] = IF q = r THEN [op |-> "idle"] ELSE asked[q]
  BY <1>1, Forgotten DEF RolesInv
<1>3. Crowned'
  BY <1>1 DEF RolesInv, Given, Crowned, isSuperuser
<1>4. SpreadCovered'
  <2>1. Spread' \subseteq Spread
    BY <1>1 DEF Spread, isSuperuser
  <2> QED
    BY <1>1, <2>1 DEF RolesInv, Given, SpreadCovered, Covered, LoadRolePermissions
<1>5. AssignsCovered'
  BY <1>1, <1>2 DEF RolesInv, Given, AssignsCovered, Covered, LoadRolePermissions
<1>6. GrantsCovered'
  BY <1>1, <1>2 DEF RolesInv, Given, GrantsCovered
<1> QED
  BY <1>3, <1>4, <1>5, <1>6 DEF Given

LEMMA GivenStep == RolesInv /\ [RolesNext]_rolesVars => Given'
<1> SUFFICES ASSUME RolesInv, [RolesNext]_rolesVars PROVE Given'
  OBVIOUS
<1>0. RolesTypeOK /\ Given
  BY DEF RolesInv
<1>1. ASSUME UNCHANGED <<roles, grants, asked, endowed, crowned>> PROVE Given'
  BY <1>0, <1>1 DEF Given, Crowned, Spread, SpreadCovered, AssignsCovered, GrantsCovered,
     Covered, LoadRolePermissions, isSuperuser
<1>2. ASSUME NEW r \in Calls, Ended(r), UNCHANGED <<roles, grants, endowed, crowned>>
      PROVE Given'
  BY <1>0, <1>2, GivenByJudging DEF Ended, Idle, Call
<1>3. ASSUME NEW r \in Calls, NEW t \in Users,
             NEW op \in {"deactivate", "activate", "delete"},
             Ask(r, [op |-> op, target |-> t]),
             UNCHANGED <<roles, grants, endowed, crowned>>
      PROVE Given'
  BY <1>0, <1>3, GivenByJudging DEF Call
<1>4. ASSUME NEW r \in Calls, withLastSuperuserGuard(r) PROVE Given'
  <2>1. CASE Ended(r)
    BY <1>2, <1>4, <2>1 DEF withLastSuperuserGuard
  <2>2. CASE ~Ended(r)
    <3>1. /\ asked'[r].op \in {"deactivating", "deleting"}
          /\ \A q \in Calls : q # r => asked'[q] = asked[q]
      BY <1>0, <1>4, <2>2, GuardPassed DEF withLastSuperuserGuard
    <3>2. UNCHANGED <<roles, grants, endowed, crowned>>
      BY <1>4 DEF withLastSuperuserGuard
    <3>3. Crowned' /\ SpreadCovered'
      BY <1>0, <3>2 DEF Given, Crowned, Spread, SpreadCovered, Covered,
         LoadRolePermissions, isSuperuser
    <3>4. AssignsCovered'
      BY <1>0, <3>1, <3>2 DEF Given, AssignsCovered, Covered, LoadRolePermissions
    <3>5. GrantsCovered'
      BY <1>0, <3>1, <3>2 DEF Given, GrantsCovered
    <3> QED
      BY <3>3, <3>4, <3>5 DEF Given
  <2> QED
    BY <2>1, <2>2
<1>5. ASSUME NEW u \in Users, CreateUser(u) PROVE Given'
  BY <1>1, <1>5 DEF CreateUser
<1>6. ASSUME NEW r \in Calls, NEW u \in Users, deleteAccount(r, u) PROVE Given'
  BY <1>3, <1>6 DEF deleteAccount
<1>7. ASSUME NEW r \in Calls, NEW u \in Users, NEW t \in Users,
             NEW op \in {"deactivate", "activate", "delete"}, NEW p,
             guardAccountOp(r, u, t, op, p)
      PROVE Given'
  BY <1>3, <1>7 DEF guardAccountOp
<1>8. ASSUME NEW r \in Calls,
             DeactivateUser(r) \/ ActivateUser(r) \/ RolledBack(r)
      PROVE Given'
  BY <1>2, <1>8 DEF DeactivateUser, ActivateUser, RolledBack
<1>9. CASE UNCHANGED rolesVars
  BY <1>1, <1>9 DEF rolesVars
<1> QED
  BY <1>4, <1>5, <1>6, <1>7, <1>8, <1>9, AssignJudged, GrantJudged, AssignWritten,
     GrantWritten, DeletionGivesNothing
  DEF RolesNext, UserDeactivate, UserActivate, UserDelete
-----------------------------------------------------------------------------
(* A superuser remains                                                       *)

\* What leaves the active superusers as they are and lets nobody past the guard.
LEMMA KeptByOthers ==
    ASSUME SuperuserKept,
           \A u \in Users : Holder(u) => Holder(u)',
           \A q \in Calls : asked'[q] = asked[q] \/ ~Leaving(q)'
    PROVE  SuperuserKept'
<1>1. OneLeaves'
  BY DEF SuperuserKept, OneLeaves, Leaving
<1>2. OneStays'
  <2>1. SUFFICES ASSUME NEW q \in Calls, Leaving(q)'
                 PROVE  \E u \in Users : u # asked'[q].target /\ Holder(u)'
    BY DEF OneStays
  <2>2. asked'[q] = asked[q] /\ Leaving(q)
    BY <2>1 DEF Leaving
  <2> QED
    BY <2>2 DEF SuperuserKept, OneStays
<1>3. SomeHolder'
  BY DEF SuperuserKept, SomeHolder
<1> QED
  BY <1>1, <1>2, <1>3 DEF SuperuserKept

\* The guard: nobody else is past it, and the target is not the last one.
LEMMA KeptByGuard ==
    ASSUME RolesInv, NEW r \in Calls, withLastSuperuserGuard(r), ~Ended(r)
    PROVE  SuperuserKept'
<1>1. /\ asked'[r].target = asked[r].target
      /\ \A q \in Calls : q # r => asked'[q] = asked[q] /\ ~Leaving(q)
  BY GuardPassed DEF RolesInv, withLastSuperuserGuard, HoldersUnlocked, Leaving
<1>2. \A u : Holder(u)' <=> Holder(u)
  BY DEF withLastSuperuserGuard, Holder, isSuperuser
<1>3. \A q \in Calls : Leaving(q)' => q = r
  BY <1>1 DEF Leaving
<1>4. PICK u \in Users : u # asked[r].target /\ Holder(u)
  <2>1. LockSuperuserHolders # {asked[r].target}
    BY DEF withLastSuperuserGuard
  <2>2. LockSuperuserHolders = {u \in Users : Holder(u)}
    BY DEF LockSuperuserHolders, Holder
  <2>3. LockSuperuserHolders # {}
    BY <2>2 DEF RolesInv, SuperuserKept, SomeHolder
  <2> QED
    BY <2>1, <2>2, <2>3
<1>5. OneLeaves'
  BY <1>3 DEF OneLeaves
<1>6. OneStays'
  BY <1>1, <1>2, <1>3, <1>4 DEF OneStays
<1>7. SomeHolder'
  BY <1>2, <1>4 DEF SomeHolder
<1> QED
  BY <1>5, <1>6, <1>7 DEF SuperuserKept

\* Whoever leaves, the one the guard saw stays.
LEMMA KeptByLeaving ==
    ASSUME RolesInv, NEW r \in Calls, DeactivateUser(r) \/ DeleteUser(r)
    PROVE  SuperuserKept'
<1>1. /\ Leaving(r) /\ Ended(r)
      /\ \A u \in Users : u # asked[r].target => state'[u] = state[u] /\ roles'[u] = roles[u]
  BY DEF Leaving, DeactivateUser, DeleteUser, DeleteUserRow, RolesInv, RolesTypeOK
<1>2. \A q \in Calls : asked'[q] = IF q = r THEN [op |-> "idle"] ELSE asked[q]
  BY <1>1, Forgotten DEF RolesInv
<1>3. \A q \in Calls : ~Leaving(q)'
  BY <1>1, <1>2 DEF RolesInv, SuperuserKept, OneLeaves, Leaving
<1>4. PICK u \in Users : u # asked[r].target /\ Holder(u)
  BY <1>1 DEF RolesInv, SuperuserKept, OneStays
<1>5. Holder(u)'
  BY <1>1, <1>4 DEF Holder, isSuperuser
<1> QED
  BY <1>3, <1>5 DEF SuperuserKept, OneLeaves, OneStays, SomeHolder

LEMMA KeptStep == RolesInv /\ [RolesNext]_rolesVars => SuperuserKept'
<1> SUFFICES ASSUME RolesInv, [RolesNext]_rolesVars PROVE SuperuserKept'
  OBVIOUS
<1>0. RolesTypeOK /\ SuperuserKept
  BY DEF RolesInv
<1>1. ASSUME NEW r \in Calls, NEW what, what.op \notin {"deactivating", "deleting"},
             Ask(r, what), \A u \in Users : Holder(u) => Holder(u)'
      PROVE SuperuserKept'
  <2>1. \A q \in Calls : asked'[q] = IF q = r THEN what ELSE asked[q]
    BY <1>0, <1>1 DEF Ask, RolesTypeOK
  <2>2. \A q \in Calls : asked'[q] = asked[q] \/ ~Leaving(q)'
    BY <1>1, <2>1 DEF Leaving
  <2> QED
    BY <1>0, <1>1, <2>2, KeptByOthers
<1>2. ASSUME NEW r \in Calls, Ended(r), \A u \in Users : Holder(u) => Holder(u)'
      PROVE SuperuserKept'
  BY <1>1, <1>2 DEF Ended, Idle
<1>3. ASSUME NEW u \in Users, CreateUser(u) PROVE SuperuserKept'
  <2>1. \A v \in Users : Holder(v) => Holder(v)'
    BY <1>0, <1>3 DEF CreateUser, Holder, isSuperuser, RolesTypeOK
  <2> QED
    BY <1>0, <1>3, <2>1, KeptByOthers DEF CreateUser
<1>4. ASSUME NEW r \in Calls, NEW u \in Users, deleteAccount(r, u) PROVE SuperuserKept'
  BY <1>1, <1>4 DEF deleteAccount, Holder, isSuperuser
<1>5. ASSUME NEW r \in Calls, NEW u \in Users, NEW a \in Assignments,
             RoleAssign(r, u, a[1], a[2])
      PROVE SuperuserKept'
  BY <1>1, <1>5 DEF RoleAssign, Holder, isSuperuser
<1>6. ASSUME NEW r \in Calls, NEW u \in Users, NEW g \in Grants,
             RoleGrantPermission(r, u, g)
      PROVE SuperuserKept'
  BY <1>1, <1>6 DEF RoleGrantPermission, Holder, isSuperuser
<1>7. ASSUME NEW r \in Calls, NEW u \in Users, NEW t \in Users,
             NEW op \in {"deactivate", "activate", "delete"}, NEW p,
             guardAccountOp(r, u, t, op, p)
      PROVE SuperuserKept'
  BY <1>1, <1>7 DEF guardAccountOp, Holder, isSuperuser
<1>8. ASSUME NEW r \in Calls, RoleAssigned(r) PROVE SuperuserKept'
  <2>1. \A u \in Users : Holder(u) => Holder(u)'
    BY <1>0, <1>8 DEF RoleAssigned, AssignRole, Holder, isSuperuser, RolesTypeOK
  <2> QED
    BY <1>2, <1>8, <2>1 DEF RoleAssigned
<1>9. ASSUME NEW r \in Calls, RoleGranted(r) PROVE SuperuserKept'
  BY <1>2, <1>9 DEF RoleGranted, Holder, isSuperuser
<1>10. ASSUME NEW r \in Calls, withLastSuperuserGuard(r) PROVE SuperuserKept'
  <2>1. CASE Ended(r)
    BY <1>2, <1>10, <2>1 DEF withLastSuperuserGuard, Holder, isSuperuser
  <2>2. CASE ~Ended(r)
    BY <1>10, <2>2, KeptByGuard
  <2> QED
    BY <2>1, <2>2
<1>11. ASSUME NEW r \in Calls, ActivateUser(r) PROVE SuperuserKept'
  <2>1. \A u \in Users : Holder(u) => Holder(u)'
    BY <1>0, <1>11 DEF ActivateUser, Holder, isSuperuser, RolesTypeOK
  <2> QED
    BY <1>2, <1>11, <2>1 DEF ActivateUser
<1>12. ASSUME NEW r \in Calls, RolledBack(r) PROVE SuperuserKept'
  BY <1>2, <1>12 DEF RolledBack, Holder, isSuperuser
<1>13. CASE UNCHANGED rolesVars
  BY <1>0, <1>13 DEF rolesVars, SuperuserKept, OneLeaves, OneStays, SomeHolder, Leaving, Holder, isSuperuser
<1> QED
  BY <1>3, <1>4, <1>5, <1>6, <1>7, <1>8, <1>9, <1>10, <1>11, <1>12, <1>13, KeptByLeaving
  DEF RolesNext, UserDeactivate, UserActivate, UserDelete

-----------------------------------------------------------------------------
(* The theorems                                                              *)

LEMMA InitRoles == RolesInit => RolesInv
<1> SUFFICES ASSUME RolesInit PROVE RolesInv
  OBVIOUS
<1>1. \A r \in Calls : asked[r] = [op |-> "idle"]
  BY DEF RolesInit, Idle
<1>2. endowed \subseteq Rights
  <2>1. \A x : LoadRolePermissions(x) \subseteq Rights
    BY DEF LoadRolePermissions
  <2>2. \A u : Held(u) \subseteq Rights
    BY <2>1 DEF Held
  <2> QED
    BY <2>1, <2>2 DEF RolesInit
<1>3. RolesTypeOK
  <2>1. /\ state \in [Users -> {"new", "active", "inactive", "deleted"}]
        /\ roles \in [Users -> SUBSET (Roles \ Everyones)]
        /\ grants \subseteq Triples
    BY RolesAssumption DEF RolesInit
  <2>2. \A u \in Users : state[u] \in {"new", "deleted"} => roles[u] = {}
    BY RolesAssumption DEF RolesInit
  <2>3. asked \in [Calls -> Call]
    BY DEF RolesInit, Call
  <2>4. crowned \subseteq Users
    BY RolesAssumption DEF RolesInit
  <2> QED
    BY <1>2, <2>1, <2>2, <2>3, <2>4 DEF RolesTypeOK
<1>4. \A u \in Users : u \notin Founders => roles[u] = {}
  BY RolesAssumption DEF RolesInit
<1>5. Crowned
  BY <1>4 DEF RolesInit, Crowned, isSuperuser
<1>6. SpreadCovered
  <2>1. SUFFICES ASSUME NEW x \in Spread, NEW h \in LoadRolePermissions(x)
                 PROVE  h \in endowed
    BY DEF SpreadCovered, Covered
  <2>2. CASE x \in Everyones
    BY <2>2 DEF RolesInit
  <2>3. CASE x \notin Everyones
    <3>1. PICK u \in Users : x \in roles[u] /\ ~isSuperuser(u)
      BY <2>3 DEF Spread
    <3>2. u \in Founders
      BY <1>4, <3>1
    <3>3. h \in Held(u)
      BY <3>1 DEF Held, EffectiveRoles
    <3> QED
      BY <3>1, <3>2, <3>3 DEF RolesInit
  <2> QED
    BY <2>2, <2>3
<1>7. AssignsCovered /\ GrantsCovered /\ OneLeaves /\ OneStays
  BY <1>1 DEF AssignsCovered, GrantsCovered, OneLeaves, OneStays, Leaving
<1>8. SomeHolder
  BY RolesAssumption DEF RolesInit, SomeHolder, Holder, isSuperuser
<1> QED
  BY <1>3, <1>5, <1>6, <1>7, <1>8 DEF RolesInv, Given, SuperuserKept

\* What a judgement says is still so when it is used, whatever was written between.
THEOREM RolesInductive == RolesSpec => []RolesInv
<1>1. RolesInv /\ [RolesNext]_rolesVars => RolesInv'
  BY RolesTypeStep, GivenStep, KeptStep DEF RolesInv
<1> QED
  BY <1>1, InitRoles, PTL DEF RolesSpec

\* However many leave, deactivate and delete each other at the same time, an
\* active superuser remains (store.go:266-273).
THEOREM SuperuserSafe == RolesSpec => []SuperuserRemains
<1>1. RolesInv => SuperuserRemains
  BY DEF RolesInv, SuperuserKept, SomeHolder, Holder, SuperuserRemains
<1> QED
  BY <1>1, RolesInductive, PTL

\* Operators together never come to hold more than they held at first and what a
\* superuser gave, and only a superuser makes another one (escalation.go).
THEOREM EscalationSafe == RolesSpec => []NoEscalation
<1>1. RolesInv => NoEscalation
  <2>1. SUFFICES ASSUME RolesInv, NEW u \in Users, ~isSuperuser(u), NEW h \in Held(u)
                 PROVE  Covered(h)
    BY DEF RolesInv, Given, Crowned, NoEscalation, Covered
  <2>2. PICK x \in EffectiveRoles(u) : h \in LoadRolePermissions(x)
    BY <2>1 DEF Held
  <2>3. x \in Spread
    BY <2>1, <2>2, RolesAssumption DEF RolesInv, RolesTypeOK, EffectiveRoles, Spread
  <2> QED
    BY <2>1, <2>2, <2>3 DEF RolesInv, Given, SpreadCovered
<1> QED
  BY <1>1, RolesInductive, PTL
================================================================================
