----------------------------- MODULE ContentProofs -----------------------------
(***************************************************************************)
(* The properties of Content, for every value of its constants.  A file is *)
(* owned by the upload that gave it its name until its row is there, and   *)
(* dropped when it has no row and no owner any more: only what is dropped  *)
(* is removed, however old the list is that a request works from.          *)
(* The last part is about Navigation, which shares nothing with Content.   *)
(***************************************************************************)
EXTENDS Content, Navigation, FiniteSetTheorems, TLAPS

\* Replies stay on their comment's post, those being written too.
Threads ==
    /\ \A c \in Threaded : Parent[c] # None => On[Parent[c]] = On[c]
    /\ \A r \in Requests : At(r, "reply") /\ Parent[req[r].comment] # None =>
          On[Parent[req[r].comment]] = On[req[r].comment]

\* An upload owns its file from the first byte to the row.
Owns(q, f)  == q.op \in {"stored", "put", "sent"} /\ q.post # None /\ q.file = f
Owned(f)    == \E r \in Requests : Owns(req[r], f)
Wanted(f)   == row[f] # None \/ Owned(f)
Dropped(f)  == f \in used /\ ~Wanted(f)
Owners ==
    /\ \A r, s \in Requests, f \in Files : Owns(req[r], f) /\ Owns(req[s], f) => r = s
    /\ \A f \in Files : Owned(f) => f \in used /\ row[f] = None
    /\ \A f \in Files : row[f] # None => f \in used /\ f \in local \cup bucket
    /\ bucket # {} => backend # "none"

\* What a request carries names no file that is owned by another; what it is about
\* to remove is dropped; and a file it sent to the bucket, or looks for there, is
\* there while it is wanted.
Carries(q, f) == f \in used /\ ~Owned(f)
Sound(q) ==
    /\ q.op = "delete post" => \A f \in q.files : Carries(q, f) /\ row[f] \in {q.post, None}
    /\ q.op = "delete board" => \A f \in q.files : Carries(q, f)
    /\ q.op \in {"reset", "remove"} => \A f \in q.files : Dropped(f)
    /\ q.op \in {"delete file", "open", "open remote"} => Carries(q, q.file)
    /\ q.op = "open remote" /\ row[q.file] # None => q.file \in bucket
    /\ q.op = "stored" => q.post # None /\ q.file \in local \cup bucket
    /\ q.op \in {"put", "sent"} => q.file \in used /\ backend # "none"
    /\ q.op = "sent" /\ Wanted(q.file) => q.file \in bucket
FilesInv == Owners /\ \A r \in Requests : Sound(req[r])

\* A count that was read and is still fresh is the board's, or a reset is to come.
ResetDue  == \E r \in Requests : At(r, "reset")
CountsInv ==
    /\ CountsCurrent
    /\ \A r \in Requests : At(r, "counted") /\ req[r].fresh =>
          req[r].n = Cardinality(ListPosts) \/ ResetDue

ContentInv == TypeOK /\ Threads /\ FilesInv /\ CountsInv

-----------------------------------------------------------------------------
(* Types                                                                     *)

RowsTyped ==
    /\ board \in {"none", "open", "closed", "gone"}
    /\ post \in [Posts -> {"none", "published", "hidden", "gone"}]
    /\ comment \in [Comments -> {"none", "live", "removed", "gone"}]
    /\ row \in [Files -> Posts \cup {None}]
    /\ ~BoardBySlug => Standing = {}
    /\ \A f \in Files : row[f] \in Standing \cup {None}
    /\ \A c \in Threaded : On[c] \in Standing /\ Parent[c] \in Threaded \cup {None}
FilesTyped ==
    /\ backend \in {"none", "local", "s3"}
    /\ used \subseteq Files /\ local \subseteq used /\ bucket \subseteq used
CountsTyped == counts \in 0..Cardinality(Posts) \cup {None}
RequestsTyped == req \in [Requests -> Request]
ThreadsKept == \A c \in Threaded : Parent[c] # None => On[Parent[c]] = On[c]

LEMMA TypesSplit ==
    /\ TypeOK <=> RowsTyped /\ FilesTyped /\ CountsTyped /\ RequestsTyped
    /\ TypeOK' <=> RowsTyped' /\ FilesTyped' /\ CountsTyped' /\ RequestsTyped'
BY DEF TypeOK, RowsTyped, FilesTyped, CountsTyped, RequestsTyped, BoardBySlug, Standing, Threaded

\* What a request of each kind carries.
LEMMA RequestFields ==
    ASSUME NEW q \in Request
    PROVE  /\ q.op \in {"counting", "counted"} => q.fresh \in BOOLEAN
           /\ q.op = "counted" => q.n \in 0..Cardinality(Posts)
           /\ q.op = "reset" => q.post \in Posts \cup {None} /\ q.files \subseteq Files
           /\ q.op \in {"uploading", "storing", "delete post"} => q.post \in Posts
           /\ q.op \in {"stored", "put", "sent"} =>
                 q.post \in Posts \cup {None} /\ q.file \in Files /\ q.s3 \in BOOLEAN
           /\ q.op \in {"delete post", "delete board", "remove"} => q.files \subseteq Files
           /\ q.op = "delete board" => q.force \in BOOLEAN
           /\ q.op \in {"delete file", "open", "open remote"} => q.file \in Files
           /\ q.op \in {"reply", "edit", "delete comment", "tombstone"} => q.comment \in Comments
<1>1. CASE q = Idle
  BY <1>1 DEF Idle
<1>2. CASE q \in [op : {"counting"}, fresh : BOOLEAN]
  BY <1>2
<1>3. CASE q \in [op : {"counted"}, fresh : BOOLEAN, n : 0..Cardinality(Posts)]
  BY <1>3
<1>4. CASE q \in [op : {"reset"}, post : Posts \cup {None}, files : SUBSET Files]
  BY <1>4
<1>5. CASE q \in [op : {"uploading", "storing"}, post : Posts]
  BY <1>5
<1>6. CASE q \in [op : {"stored", "put", "sent"}, post : Posts \cup {None}, file : Files, s3 : BOOLEAN]
  BY <1>6
<1>7. CASE q \in [op : {"delete post"}, post : Posts, files : SUBSET Files]
  BY <1>7
<1>8. CASE q \in [op : {"delete board"}, force : BOOLEAN, files : SUBSET Files]
  BY <1>8
<1>9. CASE q \in [op : {"delete file", "open", "open remote"}, file : Files]
  BY <1>9
<1>10. CASE q \in [op : {"remove"}, files : SUBSET Files]
  BY <1>10
<1>11. CASE q \in [op : {"reply", "edit", "delete comment", "tombstone"}, comment : Comments]
  BY <1>11
<1> QED
  BY <1>1, <1>2, <1>3, <1>4, <1>5, <1>6, <1>7, <1>8, <1>9, <1>10, <1>11 DEF Request

\* The record of a request of each kind that moves on by a field.
LEMMA RequestForms ==
    ASSUME NEW q \in Request
    PROVE  /\ q.op = "counting" => q = [op |-> "counting", fresh |-> q.fresh]
           /\ q.op = "counted" => q = [op |-> "counted", fresh |-> q.fresh, n |-> q.n]
           /\ q.op = "uploading" => q = [op |-> "uploading", post |-> q.post]
           /\ q.op \in {"put", "sent"} =>
                 q = [op |-> q.op, post |-> q.post, file |-> q.file, s3 |-> q.s3]
           /\ q.op = "delete board" =>
                 q = [op |-> "delete board", force |-> q.force, files |-> q.files]
           /\ q.op = "open" => q = [op |-> "open", file |-> q.file]
           /\ q.op = "remove" => q = [op |-> "remove", files |-> q.files]
           /\ q.op = "delete comment" => q = [op |-> "delete comment", comment |-> q.comment]
<1>1. CASE q = Idle
  BY <1>1 DEF Idle
<1>2. CASE q \in [op : {"counting"}, fresh : BOOLEAN]
  BY <1>2
<1>3. CASE q \in [op : {"counted"}, fresh : BOOLEAN, n : 0..Cardinality(Posts)]
  BY <1>3
<1>4. CASE q \in [op : {"reset"}, post : Posts \cup {None}, files : SUBSET Files]
  BY <1>4
<1>5. CASE q \in [op : {"uploading", "storing"}, post : Posts]
  BY <1>5
<1>6. CASE q \in [op : {"stored", "put", "sent"}, post : Posts \cup {None}, file : Files, s3 : BOOLEAN]
  BY <1>6
<1>7. CASE q \in [op : {"delete post"}, post : Posts, files : SUBSET Files]
  BY <1>7
<1>8. CASE q \in [op : {"delete board"}, force : BOOLEAN, files : SUBSET Files]
  BY <1>8
<1>9. CASE q \in [op : {"delete file", "open", "open remote"}, file : Files]
  BY <1>9
<1>10. CASE q \in [op : {"remove"}, files : SUBSET Files]
  BY <1>10
<1>11. CASE q \in [op : {"reply", "edit", "delete comment", "tombstone"}, comment : Comments]
  BY <1>11
<1> QED
  BY <1>1, <1>2, <1>3, <1>4, <1>5, <1>6, <1>7, <1>8, <1>9, <1>10, <1>11 DEF Request

\* A field of a request that moves on, by the record it makes.
LEMMA FieldMoves ==
    ASSUME NEW q \in Request
    PROVE  /\ q.op = "uploading" => [q EXCEPT !.op = "storing"] = [op |-> "storing", post |-> q.post]
           /\ q.op = "open" => [q EXCEPT !.op = "open remote"] = [op |-> "open remote", file |-> q.file]
           /\ q.op = "put" => [q EXCEPT !.op = "sent"] =
                 [op |-> "sent", post |-> q.post, file |-> q.file, s3 |-> q.s3]
           /\ q.op = "sent" => [q EXCEPT !.op = "stored"] =
                 [op |-> "stored", post |-> q.post, file |-> q.file, s3 |-> q.s3]
           /\ q.op = "delete comment" =>
                 [q EXCEPT !.op = "tombstone"] = [op |-> "tombstone", comment |-> q.comment]
           /\ q.op = "delete board" => [q EXCEPT !.force = TRUE] =
                 [op |-> "delete board", force |-> TRUE, files |-> q.files]
           /\ q.op = "remove" => \A fs : [q EXCEPT !.files = fs] = [op |-> "remove", files |-> fs]
           /\ q.op = "counting" =>
                 [q EXCEPT !.fresh = FALSE] = [op |-> "counting", fresh |-> FALSE]
           /\ q.op = "counted" =>
                 [q EXCEPT !.fresh = FALSE] = [op |-> "counted", fresh |-> FALSE, n |-> q.n]
<1>1. ASSUME NEW x, NEW y, NEW op, q = [op |-> x, post |-> y]
      PROVE  [q EXCEPT !.op = op] = [op |-> op, post |-> y]
  BY <1>1
<1>2. ASSUME NEW x, NEW y, NEW op, q = [op |-> x, file |-> y]
      PROVE  [q EXCEPT !.op = op] = [op |-> op, file |-> y]
  BY <1>2
<1>3. ASSUME NEW w, NEW x, NEW y, NEW z, NEW op, q = [op |-> w, post |-> x, file |-> y, s3 |-> z]
      PROVE  [q EXCEPT !.op = op] = [op |-> op, post |-> x, file |-> y, s3 |-> z]
  BY <1>3
<1>4. ASSUME NEW x, NEW y, NEW op, q = [op |-> x, comment |-> y]
      PROVE  [q EXCEPT !.op = op] = [op |-> op, comment |-> y]
  BY <1>4
<1>5. ASSUME NEW x, NEW y, NEW z, NEW v, q = [op |-> x, force |-> y, files |-> z]
      PROVE  [q EXCEPT !.force = v] = [op |-> x, force |-> v, files |-> z]
  BY <1>5
<1>6. ASSUME NEW x, NEW y, NEW v, q = [op |-> x, files |-> y]
      PROVE  [q EXCEPT !.files = v] = [op |-> x, files |-> v]
  BY <1>6
<1>7. ASSUME NEW x, NEW y, NEW v, q = [op |-> x, fresh |-> y]
      PROVE  [q EXCEPT !.fresh = v] = [op |-> x, fresh |-> v]
  BY <1>7
<1>8. ASSUME NEW x, NEW y, NEW z, NEW v, q = [op |-> x, fresh |-> y, n |-> z]
      PROVE  [q EXCEPT !.fresh = v] = [op |-> x, fresh |-> v, n |-> z]
  BY <1>8
<1>9. ASSUME q.op = "counting"
      PROVE  [q EXCEPT !.fresh = FALSE] = [op |-> "counting", fresh |-> FALSE]
  BY <1>7, <1>9, RequestForms, ZenonT(60)
<1>10. ASSUME q.op = "counted"
       PROVE  [q EXCEPT !.fresh = FALSE] = [op |-> "counted", fresh |-> FALSE, n |-> q.n]
  BY <1>8, <1>10, RequestForms, ZenonT(60)
<1>11. q.op = "uploading" => [q EXCEPT !.op = "storing"] = [op |-> "storing", post |-> q.post]
  BY <1>1, RequestForms
<1>12. q.op = "open" => [q EXCEPT !.op = "open remote"] = [op |-> "open remote", file |-> q.file]
  BY <1>2, RequestForms
<1>13. ASSUME q.op \in {"put", "sent"}, NEW op
       PROVE  [q EXCEPT !.op = op] = [op |-> op, post |-> q.post, file |-> q.file, s3 |-> q.s3]
  <2> PICK w, x, y, z : w = q.op /\ x = q.post /\ y = q.file /\ z = q.s3
    OBVIOUS
  <2>1. q = [op |-> w, post |-> x, file |-> y, s3 |-> z]
    BY <1>13, RequestForms
  <2> QED
    BY <1>3, <2>1
<1>14. q.op = "delete comment" =>
          [q EXCEPT !.op = "tombstone"] = [op |-> "tombstone", comment |-> q.comment]
  BY <1>4, RequestForms
<1>15. q.op = "delete board" => [q EXCEPT !.force = TRUE] =
          [op |-> "delete board", force |-> TRUE, files |-> q.files]
  BY <1>5, RequestForms, ZenonT(60)
<1>16. ASSUME q.op = "remove", NEW fs
       PROVE  [q EXCEPT !.files = fs] = [op |-> "remove", files |-> fs]
  BY <1>6, <1>16, RequestForms
<1> QED
  BY <1>9, <1>10, <1>11, <1>12, <1>13, <1>14, <1>15, <1>16

\* A request goes on to its next step.
Moves(r, q) ==
    /\ req' \in [Requests -> Request]
    /\ req'[r] = q
    /\ \A s \in Requests \ {r} :
          \/ req'[s] = req[s]
          \/ req'[s].op = req[s].op /\ req[s].op \in {"counting", "counted"}
LEMMA StartMoves ==
    ASSUME TypeOK, NEW r \in Requests, NEW q \in Request, Start(r, q)
    PROVE  Moves(r, q) /\ \A s \in Requests \ {r} : req'[s] = req[s]
BY DEF TypeOK, Start, Moves

-----------------------------------------------------------------------------
(* Files                                                                     *)

\* What a step may do to the files that have a name: nothing comes to be wanted
\* again, and nothing that is wanted goes.
Onward ==
    /\ used \subseteq used'
    /\ \A f \in used :
          /\ Owned(f)' => Owned(f)
          /\ Wanted(f)' => Wanted(f)
          /\ ~Owned(f) => row'[f] \in {row[f], None}
          /\ Wanted(f)' /\ f \in bucket => f \in bucket'
          /\ Wanted(f)' /\ f \in local \cup bucket => f \in local' \cup bucket'
    /\ backend # "none" => backend' # "none"

\* What was sound to carry stays sound.
LEMMA SoundStays ==
    ASSUME TypeOK, Onward, NEW q \in Request, Sound(q),
           q.op = "stored" => q.file \in used /\ Wanted(q.file)'
    PROVE  Sound(q)'
<1>1. q \in Request /\ Sound(q)
  OBVIOUS
<1>2. \A f : f \in used /\ ~Owned(f) => f \in used' /\ ~Owned(f)'
  BY DEF Onward
<1>3. \A f : Dropped(f) => Dropped(f)'
  BY DEF Onward, Dropped
<1>4. CASE q.op \in {"delete post", "delete board"}
  <2>1. \A f \in q.files : f \in used /\ ~Owned(f)
    BY <1>1, <1>4 DEF Sound, Carries
  <2>2. q.op = "delete post" => \A f \in q.files : row'[f] \in {q.post, None}
    BY <1>1, <1>4, <2>1 DEF Sound, Onward
  <2> QED
    BY <1>2, <1>4, <2>1, <2>2 DEF Sound, Carries
<1>5. CASE q.op \in {"reset", "remove"}
  BY <1>1, <1>3, <1>5 DEF Sound
<1>6. CASE q.op \in {"delete file", "open", "open remote"}
  <2>1. q.file \in used /\ ~Owned(q.file)
    BY <1>1, <1>6 DEF Sound, Carries
  <2>2. ASSUME q.op = "open remote", row'[q.file] # None PROVE q.file \in bucket'
    BY <1>1, <2>1, <2>2 DEF Sound, Onward, Wanted
  <2> QED
    BY <1>2, <1>6, <2>1, <2>2 DEF Sound, Carries
<1>7. CASE q.op = "stored"
  <2>1. q.post # None /\ q.file \in local \cup bucket /\ q.file \in used
    BY <1>1, <1>7 DEF Sound
  <2> QED
    BY <1>7, <2>1 DEF Sound, Onward
<1>8. CASE q.op \in {"put", "sent"}
  <2>1. q.file \in used /\ backend # "none" /\ (q.op = "sent" /\ Wanted(q.file) => q.file \in bucket)
    BY <1>1, <1>8 DEF Sound
  <2> QED
    BY <1>8, <2>1 DEF Sound, Onward
<1> QED
  BY <1>4, <1>5, <1>6, <1>7, <1>8 DEF Sound

\* The step of one request leaves every request sound.
LEMMA FilesMove ==
    ASSUME TypeOK, FilesInv, Onward, Owners', NEW r \in Requests, NEW q, Moves(r, q), Sound(q)'
    PROVE  FilesInv'
<1>1. ASSUME NEW s \in Requests PROVE Sound(req[s])'
  <2>1. CASE s = r
    <3>1. req'[s] = q
      BY <2>1 DEF Moves
    <3> QED
      BY <3>1 DEF Sound, Carries, Dropped, Wanted, Owned
  <2>2. CASE s # r /\ req'[s] = req[s]
    <3>1. req[s] \in Request /\ Sound(req[s])
      BY DEF TypeOK, FilesInv
    <3>2. PICK x \in Request : x = req[s]
      BY <3>1
    <3>3. ASSUME x.op = "stored" PROVE x.file \in used /\ Wanted(x.file)'
      <4>1. x.post # None /\ x.file \in local \cup bucket
        BY <3>1, <3>2, <3>3 DEF Sound
      <4> QED
        BY <2>2, <3>2, <3>3, <4>1 DEF TypeOK, Wanted, Owned, Owns
    <3>4. Sound(x)'
      BY <3>1, <3>2, <3>3, SoundStays
    <3> QED
      BY <2>2, <3>2, <3>4 DEF Sound, Carries, Dropped, Wanted, Owned
  <2>3. CASE req'[s].op \in {"counting", "counted"}
    BY <2>3 DEF Sound
  <2> QED
    BY <2>1, <2>2, <2>3 DEF Moves
<1> QED
  BY <1>1 DEF FilesInv

\* No file gets a name or a row, and no request takes one over: what is not wanted
\* may go.
OwnsNoMore(r, q) == \A f : Owns(q, f) => Owns(req[r], f)
RowsGo == \A f \in Files : row'[f] \in {row[f], None}
WantedStays ==
    /\ \A f \in used : Wanted(f)' => /\ f \in bucket => f \in bucket'
                                     /\ f \in local \cup bucket => f \in local' \cup bucket'
    /\ backend # "none" \/ bucket' # {} => backend' # "none"
LEMMA WantedBefore ==
    ASSUME TypeOK, NEW r \in Requests, NEW q, Moves(r, q), OwnsNoMore(r, q), RowsGo
    PROVE  /\ \A s \in Requests : \A f : Owns(req'[s], f) => Owns(req[s], f)
           /\ \A f : Owned(f)' => Owned(f)
           /\ \A f \in Files : Wanted(f)' => Wanted(f)
<1>1. \A s \in Requests : \A f : Owns(req'[s], f) => Owns(req[s], f)
  <2> SUFFICES ASSUME NEW s \in Requests, NEW f, Owns(req'[s], f) PROVE Owns(req[s], f)
    OBVIOUS
  <2>1. CASE s = r
    BY <2>1 DEF Moves, OwnsNoMore
  <2>2. CASE s # r
    BY <2>2 DEF Moves, Owns
  <2> QED
    BY <2>1, <2>2
<1>2. \A f : Owned(f)' => Owned(f)
  BY <1>1 DEF Owned, Owns
<1>3. \A f \in Files : Wanted(f)' => Wanted(f)
  BY <1>2 DEF RowsGo, Wanted
<1> QED
  BY <1>1, <1>2, <1>3

LEMMA QuietFiles ==
    ASSUME TypeOK, FilesInv, NEW r \in Requests, NEW q, Moves(r, q), OwnsNoMore(r, q),
           UNCHANGED used, RowsGo, WantedStays
    PROVE  Onward /\ Owners'
<1>1. /\ \A s \in Requests : \A f : Owns(req'[s], f) => Owns(req[s], f)
      /\ \A f : Owned(f)' => Owned(f)
      /\ \A f \in Files : Wanted(f)' => Wanted(f)
  BY WantedBefore
<1>2. used \subseteq Files
  BY DEF TypeOK
<1>3. Onward
  BY <1>1, <1>2 DEF RowsGo, WantedStays, Onward
<1>4. \A s, t \in Requests, f \in Files : Owns(req'[s], f) /\ Owns(req'[t], f) => s = t
  BY <1>1 DEF FilesInv, Owners
<1>5. \A f \in Files : Owned(f)' => f \in used' /\ row'[f] = None
  BY <1>1 DEF FilesInv, Owners, RowsGo
<1>6. \A f \in Files : row'[f] # None => f \in used' /\ f \in local' \cup bucket'
  BY DEF FilesInv, Owners, RowsGo, WantedStays, Wanted
<1> QED
  BY <1>3, <1>4, <1>5, <1>6 DEF Owners, Owns, WantedStays

\* A step of the requests alone.
LEMMA FilesSame ==
    ASSUME TypeOK, FilesInv, NEW r \in Requests, NEW q, Moves(r, q), OwnsNoMore(r, q),
           UNCHANGED <<row, used, local, bucket, backend>>
    PROVE  Onward /\ Owners'
<1>1. RowsGo /\ WantedStays
  BY DEF RowsGo, WantedStays, FilesInv, Owners
<1> QED
  BY <1>1, QuietFiles

-----------------------------------------------------------------------------
(* Counts                                                                    *)

\* A write that changes the posts has its reset to come.
LEMMA CountsDue ==
    ASSUME NEW r \in Requests, NEW q, Moves(r, q), q.op = "reset"
    PROVE  CountsInv'
BY DEF CountsInv, CountsCurrent, ResetDue, At, Moves

\* Any other step leaves the posts; a count it read is the board's.
LEMMA CountsSame ==
    ASSUME CountsInv, NEW r \in Requests, NEW q, Moves(r, q), ~At(r, "reset"),
           \A s \in Requests \ {r} : req'[s] = req[s],
           q.op = "counted" /\ q.fresh => q.n = Cardinality(ListPosts),
           UNCHANGED <<post, counts>>
    PROVE  CountsInv'
<1>1. ListPosts' = ListPosts
  BY DEF ListPosts
<1>2. ResetDue => ResetDue'
  BY DEF ResetDue, At, Moves
<1>3. CountsCurrent'
  BY <1>1, <1>2 DEF CountsInv, CountsCurrent, ResetDue
<1>4. \A s \in Requests : At(s, "counted")' /\ req'[s].fresh =>
          req'[s].n = Cardinality(ListPosts)' \/ ResetDue'
  BY <1>1, <1>2 DEF CountsInv, Moves, At
<1> QED
  BY <1>3, <1>4 DEF CountsInv

-----------------------------------------------------------------------------
(* Steps that write no row and no file                                       *)

LEMMA RowsSame ==
    ASSUME TypeOK, Threads, NEW r \in Requests, NEW q, Moves(r, q),
           q.op = "reply" /\ Parent[q.comment] # None => On[Parent[q.comment]] = On[q.comment],
           UNCHANGED <<board, comment, post, row>>
    PROVE  RowsTyped' /\ Threads'
<1>1. RowsTyped'
  BY TypesSplit DEF RowsTyped, BoardBySlug, Standing, Threaded
<1>2. Threads'
  BY DEF Threads, Threaded, Moves, At
<1> QED
  BY <1>1, <1>2

\* A request goes on, and nothing else.
LEMMA OnlyRequest ==
    ASSUME ContentInv, NEW r \in Requests, NEW q \in Request, Start(r, q),
           UNCHANGED <<rows, files, backend, counts>>, OwnsNoMore(r, q), Sound(q)',
           ~At(r, "reset"), q.op = "counted" /\ q.fresh => q.n = Cardinality(ListPosts),
           q.op = "reply" /\ Parent[q.comment] # None => On[Parent[q.comment]] = On[q.comment]
    PROVE  ContentInv'
<1>1. TypeOK /\ Threads /\ FilesInv /\ CountsInv
  BY DEF ContentInv
<1>2. /\ Moves(r, q) /\ \A s \in Requests \ {r} : req'[s] = req[s]
      /\ UNCHANGED <<board, comment, post, row>> /\ UNCHANGED <<row, used, local, bucket, backend>>
      /\ UNCHANGED <<post, counts>>
  BY <1>1, StartMoves DEF rows, files
<1>3. RowsTyped' /\ Threads'
  BY <1>1, <1>2, RowsSame
<1>4. FilesInv'
  BY <1>1, <1>2, FilesSame, FilesMove
<1>5. CountsInv'
  BY <1>1, <1>2, CountsSame
<1>6. FilesTyped' /\ CountsTyped' /\ RequestsTyped'
  BY <1>1, <1>2, TypesSplit DEF FilesTyped, CountsTyped, RequestsTyped, Moves
<1> QED
  BY <1>3, <1>4, <1>5, <1>6, TypesSplit DEF ContentInv

\* What the request takes along was sound before the step.
LEMMA OnlyRequestSound ==
    ASSUME ContentInv, NEW r \in Requests, NEW q \in Request, Start(r, q),
           UNCHANGED <<rows, files, backend, counts>>, OwnsNoMore(r, q), Sound(q), q.op # "stored",
           ~At(r, "reset"), q.op = "counted" /\ q.fresh => q.n = Cardinality(ListPosts),
           q.op = "reply" /\ Parent[q.comment] # None => On[Parent[q.comment]] = On[q.comment]
    PROVE  ContentInv'
<1>1. TypeOK /\ FilesInv /\ Moves(r, q) /\ UNCHANGED <<row, used, local, bucket, backend>>
  BY StartMoves DEF ContentInv, rows, files
<1>2. Sound(q)'
  BY <1>1, FilesSame, SoundStays
<1> QED
  BY <1>2, OnlyRequest

\* Steps after which a request carries nothing that Sound speaks of.
Light == {"idle", "counting", "counted", "uploading", "storing", "reply", "edit",
          "delete comment", "tombstone"}
LEMMA OnlyRequestLight ==
    ASSUME ContentInv, NEW r \in Requests, NEW q \in Request, Start(r, q), q.op \in Light,
           UNCHANGED <<rows, files, backend, counts>>, ~At(r, "reset"),
           q.op = "counted" /\ q.fresh => q.n = Cardinality(ListPosts),
           q.op = "reply" /\ Parent[q.comment] # None => On[Parent[q.comment]] = On[q.comment]
    PROVE  ContentInv'
<1>1. OwnsNoMore(r, q) /\ Sound(q) /\ q.op # "stored"
  BY DEF Light, OwnsNoMore, Owns, Sound
<1> QED
  BY <1>1, OnlyRequestSound

LEMMA RequestDone ==
    ASSUME ContentInv, NEW r \in Requests, Done(r), ~At(r, "reset"),
           UNCHANGED <<rows, files, backend, counts>>
    PROVE  ContentInv'
<1>1. Idle \in Request /\ Idle.op = "idle"
  BY DEF Idle, Request
<1> QED
  BY <1>1, OnlyRequestLight DEF Light, Done

LEMMA CountTyped == CountPosts \in 0..Cardinality(Posts)
<1>1. {p \in Posts : post[p] = "published"} \subseteq Posts
  OBVIOUS
<1>2. /\ Cardinality({p \in Posts : post[p] = "published"}) \in Nat /\ Cardinality(Posts) \in Nat
      /\ Cardinality({p \in Posts : post[p] = "published"}) <= Cardinality(Posts)
  BY <1>1, FS_Subset, FS_CardinalityType, ContentAssumption
<1> QED
  BY <1>2 DEF CountPosts

\* Reads, refusals and failures.
LEMMA ReadsKeep ==
    ASSUME ContentInv, NEW r \in Requests,
           \/ Abandon(r) \/ get(r) \/ boardList(r) \/ (\E p \in Posts : postUpdate(r, p))
           \/ Save(r) \/ Open(r) \/ OpenRemote(r)
    PROVE  ContentInv'
<1>0. req[r] \in Request /\ TypeOK
  BY DEF ContentInv, TypeOK
<1>1. CASE Abandon(r)
  BY <1>1, RequestDone DEF Abandon, At
<1>2. CASE get(r)
  <2>1. PICK q \in Request : q = [op |-> "counting", fresh |-> TRUE] /\ Start(r, q)
    BY <1>2 DEF get, Request
  <2>2. ~At(r, "reset") /\ UNCHANGED <<rows, files, backend, counts>>
    BY <1>2 DEF get, At, Idle
  <2> QED
    BY <2>1, <2>2, OnlyRequestLight DEF Light
<1>3. CASE boardList(r)
  <2>1. req[r].fresh \in BOOLEAN
    BY <1>0, <1>3, RequestFields DEF boardList, At
  <2>2. PICK q \in Request :
           q = [op |-> "counted", fresh |-> req[r].fresh, n |-> CountPosts] /\ Start(r, q)
    BY <1>3, <2>1, CountTyped DEF boardList, Request
  <2>3. q.n = Cardinality(ListPosts)
    BY <2>2 DEF CountPosts, ListPosts
  <2> QED
    BY <1>3, <2>2, <2>3, OnlyRequestLight DEF boardList, Light, At
<1>4. CASE \E p \in Posts : postUpdate(r, p)
  <2>1. PICK p \in Posts : postUpdate(r, p)
    BY <1>4
  <2>2. PICK q \in Request : q = [op |-> "uploading", post |-> p] /\ Start(r, q)
    BY <2>1 DEF postUpdate, Request
  <2>3. ~At(r, "reset") /\ UNCHANGED <<rows, files, backend, counts>>
    BY <2>1 DEF postUpdate, At, Idle
  <2> QED
    BY <2>2, <2>3, OnlyRequestLight DEF Light
<1>5. CASE Save(r)
  <2>1. CASE CountAttachments(req[r].post) < MaxPerPost
    <3>1. req[r].post \in Posts /\ [req[r] EXCEPT !.op = "storing"] = [op |-> "storing", post |-> req[r].post]
      BY <1>0, <1>5, RequestFields, FieldMoves DEF Save, At
    <3>2. PICK q \in Request : q = [op |-> "storing", post |-> req[r].post] /\ Start(r, q)
      BY <1>5, <2>1, <3>1 DEF Save, Start, Request
    <3> QED
      BY <1>5, <3>2, OnlyRequestLight DEF Save, Light, At
  <2>2. CASE ~(CountAttachments(req[r].post) < MaxPerPost)
    BY <1>5, <2>2, RequestDone DEF Save, At
  <2> QED
    BY <2>1, <2>2
<1>6. CASE Open(r)
  <2>1. CASE req[r].file \in local
    BY <1>6, <2>1, RequestDone DEF Open, At
  <2>2. CASE req[r].file \notin local
    <3>1. /\ req[r].file \in Files
          /\ [req[r] EXCEPT !.op = "open remote"] = [op |-> "open remote", file |-> req[r].file]
      BY <1>0, <1>6, RequestFields, FieldMoves DEF Open, At
    <3>2. PICK q \in Request : q = [op |-> "open remote", file |-> req[r].file] /\ Start(r, q)
      BY <1>6, <2>2, <3>1 DEF Open, Start, Request
    <3>3. q.op = "open remote" /\ q.file = req[r].file /\ q.file \in Files
      BY <3>1, <3>2
    <3>4. Sound(q)
      <4>1. Sound(req[r]) /\ Owners
        BY DEF ContentInv, FilesInv
      <4> QED
        BY <1>6, <2>2, <3>3, <4>1 DEF Sound, Carries, Open, At, Owners
    <3> QED
      BY <1>6, <3>2, <3>3, <3>4, OnlyRequestSound DEF Open, At, OwnsNoMore, Owns
  <2> QED
    BY <2>1, <2>2
<1>7. CASE OpenRemote(r)
  BY <1>7, RequestDone DEF OpenRemote, At
<1> QED
  BY <1>1, <1>2, <1>3, <1>4, <1>5, <1>6, <1>7

LEMMA IdleNoReset == \A r : req[r] = Idle => ~At(r, "reset")
BY DEF Idle, At

\* Lists made, jobs begun, refusals.
LEMMA RefusalKeeps ==
    ASSUME ContentInv, NEW r \in Requests, Reset(r, None, {}), ~At(r, "reset"),
           UNCHANGED <<rows, files, backend, counts>>
    PROVE  ContentInv'
<1>1. PICK q \in Request : q = [op |-> "reset", post |-> None, files |-> {}] /\ Start(r, q)
  BY DEF Reset, Request
<1>2. OwnsNoMore(r, q) /\ Sound(q) /\ q.op = "reset"
  BY <1>1 DEF OwnsNoMore, Owns, Sound
<1> QED
  BY <1>1, <1>2, OnlyRequestSound

LEMMA ListsKeep ==
    ASSUME ContentInv, NEW r \in Requests,
           \/ WriteFails(r) \/ (\E p \in Posts : postDelete(r, p))
           \/ (\E force \in BOOLEAN : BoardDelete(r, force)) \/ CountBoardPosts(r)
           \/ migrateStorage(r) \/ RowFails(r)
    PROVE  ContentInv'
<1>0. /\ req[r] \in Request /\ TypeOK /\ Owners /\ Sound(req[r])
      /\ \A f \in Files : row[f] # None => f \in used /\ ~Owned(f)
  BY DEF ContentInv, TypeOK, FilesInv, Owners
<1>1. CASE WriteFails(r)
  <2>1. ~At(r, "reset") /\ Reset(r, None, {}) /\ UNCHANGED <<rows, files, backend, counts>>
    BY <1>1, IdleNoReset DEF WriteFails, At
  <2> QED
    BY <2>1, RefusalKeeps
<1>2. CASE \E p \in Posts : postDelete(r, p)
  <2>1. PICK p \in Posts : postDelete(r, p)
    BY <1>2
  <2>2. PICK q \in Request :
           q = [op |-> "delete post", post |-> p, files |-> AttachmentPaths(p)] /\ Start(r, q)
    BY <2>1 DEF postDelete, Request, AttachmentPaths
  <2>3. ~At(r, "reset") /\ UNCHANGED <<rows, files, backend, counts>>
    BY <2>1, IdleNoReset DEF postDelete
  <2>4. \A f \in AttachmentPaths(p) : f \in used /\ ~Owned(f) /\ row[f] = p
    BY <1>0, ContentAssumption DEF AttachmentPaths
  <2>5. OwnsNoMore(r, q) /\ Sound(q) /\ q.op = "delete post"
    BY <2>2, <2>4 DEF OwnsNoMore, Owns, Sound, Carries
  <2> QED
    BY <2>2, <2>3, <2>5, OnlyRequestSound
<1>3. CASE \E force \in BOOLEAN : BoardDelete(r, force)
  <2>1. PICK force \in BOOLEAN : BoardDelete(r, force)
    BY <1>3
  <2>2. PICK q \in Request :
           /\ q = [op |-> "delete board", force |-> force, files |-> BoardAttachmentPaths]
           /\ Start(r, q)
    BY <2>1 DEF BoardDelete, Request, BoardAttachmentPaths
  <2>3. ~At(r, "reset") /\ UNCHANGED <<rows, files, backend, counts>>
    BY <2>1, IdleNoReset DEF BoardDelete
  <2>4. \A f \in BoardAttachmentPaths : f \in used /\ ~Owned(f)
    BY <1>0 DEF BoardAttachmentPaths
  <2>5. OwnsNoMore(r, q) /\ Sound(q) /\ q.op = "delete board"
    BY <2>2, <2>4 DEF OwnsNoMore, Owns, Sound, Carries
  <2> QED
    BY <2>2, <2>3, <2>5, OnlyRequestSound
<1>4. CASE CountBoardPosts(r)
  <2>1. ~At(r, "reset") /\ UNCHANGED <<rows, files, backend, counts>> /\ req[r].op = "delete board"
    BY <1>4 DEF CountBoardPosts, At
  <2>2. CASE Standing # {}
    BY <1>4, <2>1, <2>2, RefusalKeeps DEF CountBoardPosts
  <2>3. CASE Standing = {}
    <3>1. /\ req[r].files \subseteq Files
          /\ [req[r] EXCEPT !.force = TRUE] =
                [op |-> "delete board", force |-> TRUE, files |-> req[r].files]
      BY <1>0, <2>1, RequestFields, FieldMoves
    <3>2. PICK q \in Request :
             /\ q = [op |-> "delete board", force |-> TRUE, files |-> req[r].files]
             /\ Start(r, q)
      BY <1>4, <2>3, <3>1 DEF CountBoardPosts, Start, Request
    <3>3. q.op = "delete board" /\ q.files = req[r].files
      BY <3>2
    <3>4. OwnsNoMore(r, q) /\ Sound(q)
      BY <1>0, <2>1, <3>3 DEF OwnsNoMore, Owns, Sound, Carries
    <3> QED
      BY <2>1, <3>2, <3>3, <3>4, OnlyRequestSound
  <2> QED
    BY <2>2, <2>3
<1>5. CASE migrateStorage(r)
  <2>1. PICK f \in Files : Migrate(r, f)
    BY <1>5 DEF migrateStorage
  <2>2. PICK q \in Request : q = [op |-> "put", post |-> None, file |-> f, s3 |-> TRUE] /\ Start(r, q)
    BY <2>1 DEF Migrate, Request
  <2>3. /\ ~At(r, "reset") /\ UNCHANGED <<rows, files, backend, counts>>
        /\ backend = "s3" /\ f \in used
    BY <1>0, <2>1 DEF Migrate, At, Idle, TypeOK
  <2>4. OwnsNoMore(r, q) /\ Sound(q) /\ q.op = "put"
    BY <2>2, <2>3 DEF OwnsNoMore, Owns, Sound
  <2> QED
    BY <2>2, <2>3, <2>4, OnlyRequestSound
<1>6. CASE RowFails(r)
  <2>1. PICK f \in Files : f = req[r].file
    BY <1>0, <1>6, RequestFields DEF RowFails, At
  <2>2. PICK q \in Request : q = [op |-> "remove", files |-> {f}] /\ Start(r, q)
    BY <1>6, <2>1 DEF RowFails, Request
  <2>3. /\ ~At(r, "reset") /\ UNCHANGED <<rows, files, backend, counts>>
        /\ UNCHANGED <<row, used>> /\ req[r].op = "stored"
    BY <1>6 DEF RowFails, At, rows, files
  <2>4. Owns(req[r], f)
    BY <1>0, <2>1, <2>3 DEF Sound, Owns
  <2>5. f \in used /\ row[f] = None /\ \A s \in Requests \ {r} : ~Owns(req[s], f)
    BY <1>0, <2>4 DEF Owners, Owned
  <2>6. /\ req'[r] = q /\ \A s \in Requests \ {r} : req'[s] = req[s]
        /\ OwnsNoMore(r, q) /\ q.op = "remove"
    BY <1>0, <2>2, StartMoves DEF Moves, OwnsNoMore, Owns
  <2>7. \A s \in Requests : ~Owns(req'[s], f)
    BY <2>5, <2>6, <2>2 DEF Owns
  <2>8. Dropped(f)'
    BY <2>3, <2>5, <2>7 DEF Dropped, Wanted, Owned, Owns
  <2>9. Sound(q)'
    BY <2>2, <2>8 DEF Sound
  <2> QED
    BY <2>2, <2>3, <2>6, <2>9, OnlyRequest
<1> QED
  BY <1>1, <1>2, <1>3, <1>4, <1>5, <1>6

\* What a visitor or an author begins.
LEMMA BeginsKeep ==
    ASSUME ContentInv, NEW r \in Requests,
           \/ (\E f \in Files : AttachmentDelete(r, f) \/ attachmentDownload(r, f))
           \/ (\E c \in Comments : \/ commentCreate(r, c) \/ CommentModerate(r, c)
                                   \/ \E op \in {"edit", "delete comment"} : ownComment(r, c, op))
    PROVE  ContentInv'
<1>0. \A f \in Files : row[f] # None => f \in used /\ ~Owned(f)
  BY DEF ContentInv, TypeOK, FilesInv, Owners
<1>1. ASSUME NEW f \in Files, AttachmentDelete(r, f) \/ attachmentDownload(r, f)
      PROVE  ContentInv'
  <2>1. PICK op \in {"delete file", "open"} : Start(r, [op |-> op, file |-> f])
    BY <1>1 DEF AttachmentDelete, attachmentDownload
  <2>2. PICK q \in Request : q = [op |-> op, file |-> f] /\ Start(r, q)
    BY <2>1 DEF Request
  <2>3. ~At(r, "reset") /\ UNCHANGED <<rows, files, backend, counts>> /\ row[f] # None
    BY <1>1, IdleNoReset DEF AttachmentDelete, attachmentDownload, AttachmentByID
  <2>4. q.op \in {"delete file", "open"} /\ q.file = f
    BY <2>2
  <2>5. OwnsNoMore(r, q) /\ Sound(q) /\ q.op \notin {"stored", "counted", "reply"}
    BY <1>0, <2>3, <2>4 DEF OwnsNoMore, Owns, Sound, Carries
  <2> QED
    BY <2>2, <2>3, <2>5, OnlyRequestSound
<1>2. ASSUME NEW c \in Comments,
             \/ commentCreate(r, c) \/ CommentModerate(r, c)
             \/ \E op \in {"edit", "delete comment"} : ownComment(r, c, op)
      PROVE  ContentInv'
  <2>1. PICK op \in {"reply", "edit", "delete comment"} :
           /\ Start(r, [op |-> op, comment |-> c])
           /\ op = "reply" /\ Parent[c] # None => On[Parent[c]] = On[c]
    BY <1>2 DEF commentCreate, CommentModerate, ownComment, commentBelongsTo
  <2>2. PICK q \in Request : q = [op |-> op, comment |-> c] /\ Start(r, q)
    BY <2>1 DEF Request
  <2>3. ~At(r, "reset") /\ UNCHANGED <<rows, files, backend, counts>>
    BY <1>2, IdleNoReset DEF commentCreate, CommentModerate, ownComment
  <2>4. q.op = op /\ q.comment = c
    BY <2>2
  <2>5. q.op \in Light /\ q.op # "counted"
    BY <2>4 DEF Light
  <2> QED
    BY <2>1, <2>2, <2>3, <2>4, <2>5, OnlyRequestLight
<1> QED
  BY <1>1, <1>2

-----------------------------------------------------------------------------
(* Steps that write                                                          *)

\* What is to be shown of a step that writes a row, a file or a comment.
LEMMA WritesKeep ==
    ASSUME ContentInv, NEW r \in Requests, NEW q \in Request, Start(r, q), q.op # "reply",
           RowsTyped', ThreadsKept', FilesTyped', CountsTyped', CountsInv',
           Onward, Owners', Sound(q)'
    PROVE  ContentInv'
<1>1. TypeOK /\ Threads /\ FilesInv /\ Moves(r, q)
  BY StartMoves DEF ContentInv
<1>2. Threads'
  BY <1>1 DEF Threads, ThreadsKept, Moves, At
<1>3. FilesInv'
  BY <1>1, FilesMove
<1>4. RequestsTyped'
  BY <1>1 DEF RequestsTyped, Moves
<1> QED
  BY <1>2, <1>3, <1>4, TypesSplit DEF ContentInv

\* The rows do not change: neither does what the counts say.
LEMMA FileWritesKeep ==
    ASSUME ContentInv, NEW r \in Requests, NEW q \in Request, Start(r, q),
           q.op \notin {"reply", "counted"}, ~At(r, "reset"),
           UNCHANGED <<board, post, comment, counts>>,
           row' \in [Files -> Posts \cup {None}], \A f \in Files : row'[f] \in Standing \cup {None},
           FilesTyped', Onward, Owners', Sound(q)'
    PROVE  ContentInv'
<1>1. TypeOK /\ Threads /\ CountsInv /\ Moves(r, q) /\ \A s \in Requests \ {r} : req'[s] = req[s]
  BY StartMoves DEF ContentInv
<1>2. RowsTyped' /\ CountsTyped'
  BY <1>1, TypesSplit DEF RowsTyped, CountsTyped, BoardBySlug, Standing, Threaded
<1>3. ThreadsKept'
  BY <1>1 DEF Threads, ThreadsKept, Threaded
<1>4. UNCHANGED <<post, counts>>
  OBVIOUS
<1>5. CountsInv'
  BY <1>1, <1>4, CountsSame
<1> QED
  BY <1>2, <1>3, <1>5, WritesKeep

\* A new name: nobody has it, no row names it.
LEMMA StoreKeeps ==
    ASSUME ContentInv, NEW r \in Requests, NEW f \in Files, Store(r, f)
    PROVE  ContentInv'
<1>0. /\ TypeOK /\ Owners /\ req[r] \in Request /\ req[r].op = "storing" /\ ~At(r, "reset")
      /\ f \notin used /\ used' = used \cup {f} /\ local' = local \cup {f}
      /\ UNCHANGED <<board, post, comment, counts>> /\ UNCHANGED <<row, bucket, backend>>
  BY DEF ContentInv, TypeOK, FilesInv, Store, At, rows
<1>1. PICK p \in Posts : p = req[r].post
  BY <1>0, RequestFields
<1>2. PICK op \in {"put", "stored"} :
         /\ op = IF backend = "s3" THEN "put" ELSE "stored"
         /\ Start(r, [op |-> op, post |-> p, file |-> f, s3 |-> backend = "s3"])
  BY <1>1 DEF Store
<1>3. PICK b \in BOOLEAN : b = (backend = "s3")
  OBVIOUS
<1>4. PICK q \in Request : q = [op |-> op, post |-> p, file |-> f, s3 |-> b] /\ Start(r, q)
  BY <1>2, <1>3 DEF Request
<1>5. q.op = op /\ q.post = p /\ q.file = f
  BY <1>4
<1>6. \A g : Owns(q, g) => g = f
  BY <1>5 DEF Owns
<1>7. req'[r] = q /\ \A s \in Requests \ {r} : req'[s] = req[s]
  BY <1>0, <1>4, StartMoves DEF Moves
<1>8. \A s \in Requests, g \in Files : Owns(req'[s], g) => (s = r /\ g = f) \/ Owns(req[s], g)
  BY <1>6, <1>7 DEF Owns
<1>9. \A s \in Requests : ~Owns(req[s], f)
  BY <1>0 DEF Owners, Owned
<1>10. \A g \in used : Owned(g)' => Owned(g)
  BY <1>0, <1>8 DEF TypeOK, Owned, Owns
<1>11. Onward
  BY <1>0, <1>10 DEF Onward, Wanted
<1>12. Owners'
  <2>1. \A s, t \in Requests, g \in Files : Owns(req'[s], g) /\ Owns(req'[t], g) => s = t
    BY <1>0, <1>8, <1>9 DEF Owners
  <2>2. \A g \in Files : Owned(g)' => g \in used' /\ row'[g] = None
    <3> SUFFICES ASSUME NEW g \in Files, Owned(g)' PROVE g \in used' /\ row'[g] = None
      OBVIOUS
    <3>1. PICK s \in Requests : Owns(req'[s], g)
      BY DEF Owned, Owns
    <3>2. CASE g = f
      BY <1>0, <3>2 DEF Owners
    <3>3. CASE Owns(req[s], g)
      BY <1>0, <3>3 DEF Owners, Owned
    <3> QED
      BY <1>8, <3>1, <3>2, <3>3
  <2>3. \A g \in Files : row'[g] # None => g \in used' /\ g \in local' \cup bucket'
    BY <1>0 DEF Owners
  <2>4. bucket' # {} => backend' # "none"
    BY <1>0 DEF Owners
  <2> QED
    BY <2>1, <2>2, <2>3, <2>4 DEF Owners, Owns
<1>13. Sound(q)'
  BY <1>0, <1>2, <1>5, ContentAssumption DEF Sound
<1>14. FilesTyped'
  BY <1>0 DEF TypeOK, FilesTyped
<1>15. row' \in [Files -> Posts \cup {None}] /\ \A g \in Files : row'[g] \in Standing \cup {None}
  BY <1>0 DEF TypeOK
<1>16. q.op \notin {"reply", "counted"}
  BY <1>5
<1> QED
  BY <1>0, <1>4, <1>11, <1>12, <1>13, <1>14, <1>15, <1>16, FileWritesKeep

\* A request that owns no more than it did.
LEMMA QuietWritesKeep ==
    ASSUME ContentInv, NEW r \in Requests, NEW q \in Request, Start(r, q), OwnsNoMore(r, q),
           q.op \notin {"reply", "counted"}, ~At(r, "reset"),
           UNCHANGED <<board, post, comment, counts>>, UNCHANGED used,
           row' \in [Files -> Posts \cup {None}], RowsGo, WantedStays, FilesTyped', Sound(q)'
    PROVE  ContentInv'
<1>1. TypeOK /\ FilesInv /\ Moves(r, q)
  BY StartMoves DEF ContentInv
<1>2. Onward /\ Owners'
  BY <1>1, QuietFiles
<1>3. \A f \in Files : row'[f] \in Standing \cup {None}
  BY <1>1 DEF TypeOK, RowsGo
<1> QED
  BY <1>2, <1>3, FileWritesKeep

\* The object is there before the local copy goes.
LEMMA PutKeeps ==
    ASSUME ContentInv, NEW r \in Requests, Put(r)
    PROVE  ContentInv'
<1>0. /\ TypeOK /\ Owners /\ Sound(req[r]) /\ req[r] \in Request /\ req[r].op = "put" /\ ~At(r, "reset")
      /\ bucket' = bucket \cup {req[r].file} /\ req' = [req EXCEPT ![r].op = "sent"]
      /\ UNCHANGED <<board, post, comment, counts>> /\ UNCHANGED <<row, used, local, backend>>
  BY DEF ContentInv, TypeOK, FilesInv, Put, At, rows
<1>1. /\ req[r].post \in Posts \cup {None} /\ req[r].file \in Files /\ req[r].s3 \in BOOLEAN
      /\ [req[r] EXCEPT !.op = "sent"] =
            [op |-> "sent", post |-> req[r].post, file |-> req[r].file, s3 |-> req[r].s3]
  BY <1>0, RequestFields, FieldMoves
<1>2. PICK q \in Request :
         /\ q = [op |-> "sent", post |-> req[r].post, file |-> req[r].file, s3 |-> req[r].s3]
         /\ Start(r, q)
  BY <1>0, <1>1 DEF Start, Request
<1>3. q.op = "sent" /\ q.post = req[r].post /\ q.file = req[r].file
  BY <1>2
<1>4. OwnsNoMore(r, q)
  BY <1>0, <1>3 DEF OwnsNoMore, Owns
<1>5. q.file \in used /\ backend # "none"
  BY <1>0, <1>3 DEF Sound
<1>6. RowsGo /\ WantedStays /\ FilesTyped'
  BY <1>0, <1>3, <1>5 DEF RowsGo, WantedStays, FilesTyped, TypeOK
<1>7. Sound(q)'
  BY <1>0, <1>3, <1>5 DEF Sound
<1> QED
  BY <1>0, <1>2, <1>3, <1>4, <1>6, <1>7, QuietWritesKeep DEF TypeOK

LEMMA PushKeeps ==
    ASSUME ContentInv, NEW r \in Requests, push(r)
    PROVE  ContentInv'
<1>0. /\ TypeOK /\ Owners /\ Sound(req[r]) /\ req[r] \in Request /\ req[r].op = "sent" /\ ~At(r, "reset")
      /\ local' = local \ {req[r].file}
      /\ UNCHANGED <<board, post, comment, counts>> /\ UNCHANGED <<row, used, bucket, backend>>
  BY DEF ContentInv, TypeOK, FilesInv, push, At, rows
<1>1. /\ req[r].post \in Posts \cup {None} /\ req[r].file \in Files /\ req[r].s3 \in BOOLEAN
      /\ [req[r] EXCEPT !.op = "stored"] =
            [op |-> "stored", post |-> req[r].post, file |-> req[r].file, s3 |-> req[r].s3]
  BY <1>0, RequestFields, FieldMoves
<1>2. RowsGo /\ FilesTyped'
  BY <1>0 DEF RowsGo, FilesTyped, TypeOK
<1>3. ASSUME NEW q, Moves(r, q), OwnsNoMore(r, q) PROVE WantedStays
  <2>1. \A f \in Files : Wanted(f)' => Wanted(f)
    BY <1>0, <1>2, <1>3, WantedBefore
  <2>2. Wanted(req[r].file) => req[r].file \in bucket
    BY <1>0 DEF Sound
  <2>3. \A f \in used : Wanted(f)' /\ f \in local \cup bucket => f \in local' \cup bucket'
    BY <1>0, <2>1, <2>2 DEF TypeOK
  <2> QED
    BY <1>0, <2>3 DEF WantedStays, Owners
<1>4. CASE req[r].post # None /\ req[r].file \in local
  <2>1. PICK q \in Request :
           /\ q = [op |-> "stored", post |-> req[r].post, file |-> req[r].file, s3 |-> req[r].s3]
           /\ Start(r, q)
    BY <1>1, <1>4 DEF push, Start, Request
  <2>2. q.op = "stored" /\ q.post = req[r].post /\ q.file = req[r].file
    BY <2>1
  <2>3. OwnsNoMore(r, q)
    BY <1>0, <2>2 DEF OwnsNoMore, Owns
  <2>4. Wanted(req[r].file)
    BY <1>0, <1>4 DEF Wanted, Owned, Owns
  <2>5. Sound(q)'
    BY <1>0, <1>4, <2>2, <2>4 DEF Sound
  <2>6. WantedStays
    BY <1>0, <1>3, <2>1, <2>3, StartMoves
  <2> QED
    BY <1>0, <1>2, <2>1, <2>2, <2>3, <2>5, <2>6, QuietWritesKeep DEF TypeOK
<1>5. CASE ~(req[r].post # None /\ req[r].file \in local)
  <2>1. PICK q \in Request : q.op = "idle" /\ Start(r, q)
    BY <1>5 DEF push, Done, Request, Idle
  <2>2. OwnsNoMore(r, q) /\ Sound(q)'
    BY <2>1 DEF OwnsNoMore, Owns, Sound
  <2>3. WantedStays
    BY <1>0, <1>3, <2>1, <2>2, StartMoves
  <2> QED
    BY <1>0, <1>2, <2>1, <2>2, <2>3, QuietWritesKeep DEF TypeOK
<1> QED
  BY <1>4, <1>5

\* What the bucket refused is the upload's own, and nobody's any more.
LEMMA PutFailsKeeps ==
    ASSUME ContentInv, NEW r \in Requests, PutFails(r)
    PROVE  ContentInv'
<1>0. /\ TypeOK /\ Owners /\ Sound(req[r]) /\ req[r] \in Request /\ req[r].op = "put" /\ ~At(r, "reset")
      /\ local' = IF req[r].post # None THEN local \ {req[r].file} ELSE local
      /\ UNCHANGED <<board, post, comment, counts>> /\ UNCHANGED <<row, used, bucket, backend>>
  BY DEF ContentInv, TypeOK, FilesInv, PutFails, At, rows
<1>1. PICK q \in Request : q.op = "idle" /\ Start(r, q)
  BY DEF PutFails, Done, Request, Idle
<1>2. OwnsNoMore(r, q) /\ Sound(q)'
  BY <1>1 DEF OwnsNoMore, Owns, Sound
<1>3. RowsGo /\ FilesTyped'
  BY <1>0 DEF RowsGo, FilesTyped, TypeOK
<1>4. Moves(r, q)
  BY <1>0, <1>1, StartMoves
<1>5. \A s \in Requests : \A f : Owns(req'[s], f) => s # r /\ Owns(req[s], f)
  BY <1>0, <1>1, <1>2, <1>3, <1>4, WantedBefore DEF Owns, Moves
<1>6. ASSUME NEW f \in Files, f = req[r].file, req[r].post # None PROVE ~Wanted(f)'
  <2>1. Owns(req[r], f)
    BY <1>0, <1>6 DEF Owns
  <2>2. row[f] = None /\ \A s \in Requests \ {r} : ~Owns(req[s], f)
    BY <1>0, <2>1 DEF Owners, Owned
  <2>3. \A s \in Requests : ~Owns(req'[s], f)
    BY <1>5, <2>2
  <2> QED
    BY <1>0, <2>2, <2>3 DEF Wanted, Owned, Owns
<1>7. WantedStays
  BY <1>0, <1>6 DEF WantedStays, Owners, TypeOK
<1> QED
  BY <1>0, <1>1, <1>2, <1>3, <1>7, QuietWritesKeep DEF TypeOK

\* The row is there: the upload is over, and the file the row's.
LEMMA SaveUploadsKeeps ==
    ASSUME ContentInv, NEW r \in Requests, saveUploads(r)
    PROVE  ContentInv'
<1>0. /\ TypeOK /\ Owners /\ Sound(req[r]) /\ req[r] \in Request /\ req[r].op = "stored" /\ ~At(r, "reset")
      /\ req[r].post \in Standing /\ row' = [row EXCEPT ![req[r].file] = req[r].post]
      /\ UNCHANGED <<board, post, comment, counts>> /\ UNCHANGED <<used, local, bucket, backend>>
  BY DEF ContentInv, TypeOK, FilesInv, saveUploads, CreateAttachment, At, files
<1>1. PICK f \in Files, p \in Posts : f = req[r].file /\ p = req[r].post
  BY <1>0, RequestFields DEF Standing
<1>2. PICK q \in Request : q = [op |-> "uploading", post |-> p] /\ Start(r, q)
  BY <1>1 DEF saveUploads, Request
<1>3. q.op = "uploading" /\ req'[r] = q /\ \A s \in Requests \ {r} : req'[s] = req[s]
  BY <1>0, <1>2, StartMoves DEF Moves
<1>4. Owns(req[r], f)
  BY <1>0, <1>1, ContentAssumption DEF Owns
<1>5. \A s \in Requests : \A g : Owns(req'[s], g) => s # r /\ Owns(req[s], g)
  BY <1>3 DEF Owns
<1>6. /\ row[f] = None /\ f \in used /\ f \in local \cup bucket
      /\ \A s \in Requests \ {r} : ~Owns(req[s], f)
  BY <1>0, <1>1, <1>4 DEF Owners, Owned, Sound
<1>7. ~Owned(f)' /\ \A g : Owned(g)' => Owned(g)
  BY <1>5, <1>6 DEF Owned, Owns
<1>8. row'[f] = p /\ \A g \in Files \ {f} : row'[g] = row[g]
  BY <1>0, <1>1 DEF TypeOK
<1>9. Owned(f)
  BY <1>4 DEF Owned
<1>10. used \subseteq Files
  BY <1>0 DEF TypeOK
<1>11. Onward
  BY <1>0, <1>7, <1>8, <1>9, <1>10 DEF Onward, Wanted
<1>12. Owners'
  <2>1. \A s, t \in Requests, g \in Files : Owns(req'[s], g) /\ Owns(req'[t], g) => s = t
    BY <1>0, <1>5 DEF Owners
  <2>2. \A g \in Files : Owned(g)' => g \in used' /\ row'[g] = None
    BY <1>0, <1>7, <1>8 DEF Owners
  <2>3. \A g \in Files : row'[g] # None => g \in used' /\ g \in local' \cup bucket'
    BY <1>0, <1>6, <1>8 DEF Owners
  <2>4. bucket' # {} => backend' # "none"
    BY <1>0 DEF Owners
  <2> QED
    BY <2>1, <2>2, <2>3, <2>4 DEF Owners, Owns
<1>13. Sound(q)'
  BY <1>3 DEF Sound
<1>14. FilesTyped'
  BY <1>0 DEF TypeOK, FilesTyped
<1>15. row' \in [Files -> Posts \cup {None}] /\ \A g \in Files : row'[g] \in Standing \cup {None}
  BY <1>0, <1>1, <1>8 DEF TypeOK
<1>16. q.op \notin {"reply", "counted"}
  BY <1>3
<1> QED
  BY <1>0, <1>2, <1>11, <1>12, <1>13, <1>14, <1>15, <1>16, FileWritesKeep

\* The row goes first: what is to be removed is nobody's.
LEMMA DeleteKeeps ==
    ASSUME ContentInv, NEW r \in Requests, Delete(r)
    PROVE  ContentInv'
<1>0. /\ TypeOK /\ Owners /\ Sound(req[r]) /\ req[r] \in Request /\ req[r].op = "delete file"
      /\ ~At(r, "reset") /\ row' = [row EXCEPT ![req[r].file] = None]
      /\ UNCHANGED <<board, post, comment, counts>> /\ UNCHANGED <<used, local, bucket, backend>>
  BY DEF ContentInv, TypeOK, FilesInv, Delete, DeleteAttachment, At, files
<1>1. PICK f \in Files : f = req[r].file
  BY <1>0, RequestFields
<1>2. RowsGo /\ WantedStays /\ FilesTyped' /\ row'[f] = None /\ row' \in [Files -> Posts \cup {None}]
  BY <1>0, <1>1 DEF RowsGo, WantedStays, FilesTyped, TypeOK, Owners
<1>3. f \in used /\ ~Owned(f)
  BY <1>0, <1>1 DEF Sound, Carries
<1>4. CASE row[f] # None
  <2>1. PICK q \in Request : q = [op |-> "remove", files |-> {f}] /\ Start(r, q)
    BY <1>1, <1>4 DEF Delete, Request
  <2>2. q.op = "remove" /\ q.files = {f}
    BY <2>1
  <2>3. OwnsNoMore(r, q) /\ Moves(r, q)
    BY <1>0, <2>1, <2>2, StartMoves DEF OwnsNoMore, Owns
  <2>4. Dropped(f)'
    BY <1>0, <1>2, <1>3, <2>3, WantedBefore DEF Dropped, Wanted
  <2>5. Sound(q)'
    BY <2>2, <2>4 DEF Sound
  <2> QED
    BY <1>0, <1>2, <2>1, <2>2, <2>3, <2>5, QuietWritesKeep
<1>5. CASE row[f] = None
  <2>1. PICK q \in Request : q.op = "idle" /\ Start(r, q)
    BY <1>1, <1>5 DEF Delete, Done, Request, Idle
  <2>2. OwnsNoMore(r, q) /\ Sound(q)'
    BY <2>1 DEF OwnsNoMore, Owns, Sound
  <2> QED
    BY <1>0, <1>2, <2>1, <2>2, QuietWritesKeep
<1> QED
  BY <1>4, <1>5

\* Only what is dropped is removed.
LEMMA RemoveAllKeeps ==
    ASSUME ContentInv, NEW r \in Requests, RemoveAll(r)
    PROVE  ContentInv'
<1>0. /\ TypeOK /\ Owners /\ FilesInv /\ Sound(req[r]) /\ req[r] \in Request /\ req[r].op = "remove"
      /\ ~At(r, "reset")
      /\ UNCHANGED <<board, post, comment, counts>> /\ UNCHANGED <<row, used, backend>>
  BY DEF ContentInv, TypeOK, FilesInv, RemoveAll, At, rows
<1>1. PICK f \in req[r].files, here, there \in BOOLEAN :
         /\ removeFrom(f, here, there)
         /\ IF req[r].files = {f} THEN Done(r) ELSE req' = [req EXCEPT ![r].files = @ \ {f}]
  BY DEF RemoveAll
<1>2. req[r].files \subseteq Files /\ \A g \in req[r].files : Dropped(g)
  BY <1>0, RequestFields DEF Sound
<1>3. /\ local' \subseteq local /\ bucket' \subseteq bucket
      /\ local \ {f} \subseteq local' /\ bucket \ {f} \subseteq bucket'
  BY <1>1 DEF removeFrom
<1>4. RowsGo /\ FilesTyped'
  BY <1>0, <1>3 DEF RowsGo, FilesTyped, TypeOK
<1>5. PICK q \in Request :
         /\ Start(r, q) /\ q.op \in {"idle", "remove"}
         /\ q.op = "remove" => q.files \subseteq req[r].files
  <2>1. CASE req[r].files = {f}
    <3>1. Idle \in Request /\ Idle.op = "idle"
      BY DEF Idle, Request
    <3> QED
      BY <1>1, <2>1, <3>1 DEF Done
  <2>2. CASE req[r].files # {f}
    <3>1. req' = [req EXCEPT ![r] = [req[r] EXCEPT !.files = req[r].files \ {f}]]
      BY <1>1, <2>2
    <3>2. [req[r] EXCEPT !.files = req[r].files \ {f}] = [op |-> "remove", files |-> req[r].files \ {f}]
      BY <1>0, FieldMoves
    <3>3. PICK q \in Request : q = [op |-> "remove", files |-> req[r].files \ {f}] /\ Start(r, q)
      BY <1>2, <3>1, <3>2 DEF Start, Request
    <3>4. q.op = "remove" /\ q.files = req[r].files \ {f}
      BY <3>3
    <3> QED
      BY <3>3, <3>4
  <2> QED
    BY <2>1, <2>2
<1>6. OwnsNoMore(r, q) /\ Moves(r, q)
  BY <1>0, <1>5, StartMoves DEF OwnsNoMore, Owns
<1>7. WantedStays
  <2>1. ~Wanted(f)'
    <3>1. PICK g \in Files : g = f
      BY <1>1, <1>2
    <3>2. ~Wanted(g)'
      BY <1>0, <1>1, <1>2, <1>4, <1>6, <3>1, WantedBefore DEF Dropped
    <3> QED
      BY <3>1, <3>2 DEF Wanted, Owned
  <2>2. \A g \in used : Wanted(g)' => g # f
    BY <2>1 DEF Wanted, Owned
  <2> QED
    BY <1>0, <1>3, <2>2 DEF WantedStays, Owners
<1>8. Sound(q)
  BY <1>2, <1>5 DEF Sound
<1>9. Onward
  BY <1>0, <1>4, <1>6, <1>7, QuietFiles
<1>10. Sound(q)'
  BY <1>0, <1>5, <1>8, <1>9, SoundStays
<1> QED
  BY <1>0, <1>4, <1>5, <1>6, <1>7, <1>10, QuietWritesKeep DEF TypeOK

\* A count that is still fresh is the board's, or its reset is to come.
LEMMA PutCountKeeps ==
    ASSUME ContentInv, NEW r \in Requests, put(r)
    PROVE  ContentInv'
<1>0. /\ TypeOK /\ Threads /\ FilesInv /\ CountsInv /\ req[r] \in Request /\ req[r].op = "counted"
      /\ counts' = IF req[r].fresh THEN req[r].n ELSE counts
      /\ UNCHANGED <<board, comment, post, row>> /\ UNCHANGED <<row, used, local, bucket, backend>>
  BY DEF ContentInv, TypeOK, put, At, rows, files
<1>1. PICK q \in Request : q.op = "idle" /\ Start(r, q)
  BY DEF put, Done, Request, Idle
<1>2. OwnsNoMore(r, q) /\ Sound(q)'
  BY <1>1 DEF OwnsNoMore, Owns, Sound
<1>3. Moves(r, q) /\ \A s \in Requests \ {r} : req'[s] = req[s]
  BY <1>0, <1>1, StartMoves
<1>4. Onward /\ Owners'
  BY <1>0, <1>2, <1>3, FilesSame
<1>5. RowsTyped' /\ Threads'
  BY <1>0, <1>1, <1>3, RowsSame
<1>6. ThreadsKept'
  BY <1>5 DEF Threads, ThreadsKept
<1>7. FilesTyped' /\ CountsTyped'
  BY <1>0, TypesSplit, RequestFields DEF FilesTyped, CountsTyped
<1>8. CountsInv'
  <2>1. ListPosts' = ListPosts
    BY <1>0 DEF ListPosts
  <2>2. ResetDue => ResetDue'
    BY <1>0, <1>3 DEF ResetDue, At
  <2>3. counts' # None => counts' = Cardinality(ListPosts) \/ ResetDue
    BY <1>0 DEF CountsInv, CountsCurrent, ResetDue, At
  <2>4. \A s \in Requests : At(s, "counted")' /\ req'[s].fresh =>
            req'[s].n = Cardinality(ListPosts) \/ ResetDue
    BY <1>0, <1>1, <1>3 DEF CountsInv, Moves, At
  <2> QED
    BY <2>1, <2>2, <2>3, <2>4 DEF CountsInv, CountsCurrent, ResetDue
<1> QED
  BY <1>1, <1>2, <1>4, <1>5, <1>6, <1>7, <1>8, WritesKeep

\* After it no count in flight is fresh.
LEMMA ResetKeeps ==
    ASSUME ContentInv, NEW r \in Requests, reset(r)
    PROVE  ContentInv'
<1>0. /\ TypeOK /\ Threads /\ FilesInv /\ Sound(req[r]) /\ req[r] \in Request /\ req[r].op = "reset"
      /\ counts' = None
      /\ UNCHANGED <<board, comment, post, row>> /\ UNCHANGED <<row, used, local, bucket, backend>>
  BY DEF ContentInv, TypeOK, FilesInv, reset, At, rows, files
<1>1. req[r].post \in Posts \cup {None} /\ req[r].files \subseteq Files
  BY <1>0, RequestFields
<1>2. PICK q \in Request :
         /\ q = AfterReset(req[r]) /\ q.op \in {"uploading", "remove", "idle"}
         /\ q.op = "remove" => q.files = req[r].files
  <2>1. CASE req[r].post # None
    <3>1. PICK q \in Request : q = [op |-> "uploading", post |-> req[r].post]
      BY <1>1, <2>1 DEF Request
    <3>2. q.op = "uploading" /\ q = AfterReset(req[r])
      BY <2>1, <3>1 DEF AfterReset
    <3> QED
      BY <3>2
  <2>2. CASE req[r].post = None /\ req[r].files # {}
    <3>1. PICK q \in Request : q = [op |-> "remove", files |-> req[r].files]
      BY <1>1, <2>2 DEF Request
    <3>2. q.op = "remove" /\ q.files = req[r].files /\ q = AfterReset(req[r])
      BY <2>2, <3>1 DEF AfterReset
    <3> QED
      BY <3>2
  <2>3. CASE req[r].post = None /\ req[r].files = {}
    <3>1. Idle \in Request /\ Idle.op = "idle" /\ Idle = AfterReset(req[r])
      BY <2>3 DEF Idle, Request, AfterReset
    <3> QED
      BY <3>1
  <2> QED
    BY <2>1, <2>2, <2>3
<1>3. req'[r] = q
  BY <1>2 DEF reset
<1>4. ASSUME NEW s \in Requests \ {r}
      PROVE  /\ req'[s] \in Request
             /\ \/ req'[s] = req[s] /\ req[s].op \notin {"counting", "counted"}
                \/ req'[s].op = req[s].op /\ req[s].op \in {"counting", "counted"} /\ ~req'[s].fresh
  <2>0. req[s] \in Request
    BY <1>0 DEF TypeOK
  <2>1. CASE req[s].op = "counting"
    <3>1. req'[s] = [req[s] EXCEPT !.fresh = FALSE]
      BY <2>1 DEF reset
    <3>2. PICK x \in Request : x = [op |-> "counting", fresh |-> FALSE]
      BY DEF Request
    <3>3. req'[s] = x
      BY <2>0, <2>1, <3>1, <3>2, FieldMoves
    <3> QED
      BY <2>1, <3>2, <3>3
  <2>2. CASE req[s].op = "counted"
    <3>1. req'[s] = [req[s] EXCEPT !.fresh = FALSE]
      BY <2>2 DEF reset
    <3>2. PICK n \in 0..Cardinality(Posts) : n = req[s].n
      BY <2>0, <2>2, RequestFields
    <3>3. PICK x \in Request : x = [op |-> "counted", fresh |-> FALSE, n |-> n]
      BY DEF Request
    <3>4. req'[s] = x
      BY <2>0, <2>2, <3>1, <3>2, <3>3, FieldMoves
    <3> QED
      BY <2>2, <3>3, <3>4
  <2>3. CASE req[s].op \notin {"counting", "counted"}
    BY <2>0, <2>3 DEF reset
  <2> QED
    BY <2>1, <2>2, <2>3
<1>5. Moves(r, q)
  <2>1. DOMAIN req' = Requests /\ req' = [s \in Requests |-> req'[s]]
    BY DEF reset
  <2>2. \A s \in Requests : req'[s] \in Request
    BY <1>3, <1>4
  <2> QED
    BY <1>3, <1>4, <2>1, <2>2 DEF Moves
<1>6. OwnsNoMore(r, q) /\ Sound(q)
  BY <1>0, <1>2 DEF OwnsNoMore, Owns, Sound
<1>7. Onward /\ Owners'
  BY <1>0, <1>5, <1>6, FilesSame
<1>8. FilesInv'
  <2>1. Sound(q)'
    BY <1>0, <1>2, <1>6, <1>7, SoundStays
  <2> QED
    BY <1>0, <1>5, <1>7, <2>1, FilesMove
<1>9. RowsTyped' /\ Threads'
  BY <1>0, <1>2, <1>5, RowsSame
<1>10. FilesTyped' /\ CountsTyped' /\ RequestsTyped'
  BY <1>0, <1>5, TypesSplit DEF FilesTyped, CountsTyped, RequestsTyped, Moves
<1>11. CountsInv'
  <2>1. \A s \in Requests : ~(At(s, "counted")' /\ req'[s].fresh)
    BY <1>2, <1>3, <1>4 DEF At
  <2> QED
    BY <1>0, <2>1 DEF CountsInv, CountsCurrent
<1> QED
  BY <1>8, <1>9, <1>10, <1>11, TypesSplit DEF ContentInv

-----------------------------------------------------------------------------
(* Posts and the board                                                       *)

LEMMA RowWritesKeep ==
    ASSUME ContentInv, NEW r \in Requests, NEW q \in Request, Start(r, q), q.op = "reset",
           UNCHANGED <<files, backend, counts>>, RowsGo, RowsTyped', ThreadsKept',
           \A f \in q.files : f \in used /\ ~Owned(f) /\ row'[f] = None
    PROVE  ContentInv'
<1>1. TypeOK /\ FilesInv /\ Owners /\ Moves(r, q) /\ UNCHANGED <<used, local, bucket>> /\ UNCHANGED used
  BY StartMoves DEF ContentInv, FilesInv, files
<1>2. OwnsNoMore(r, q)
  BY DEF OwnsNoMore, Owns
<1>3. WantedStays
  BY <1>1 DEF WantedStays, Owners
<1>4. Onward /\ Owners'
  BY <1>1, <1>2, <1>3, QuietFiles
<1>5. \A f : Owned(f)' => Owned(f)
  BY <1>1, <1>2, WantedBefore
<1>6. Sound(q)'
  BY <1>1, <1>5 DEF Sound, Dropped, Wanted
<1>7. FilesTyped' /\ CountsTyped'
  BY <1>1, TypesSplit DEF FilesTyped, CountsTyped
<1>8. CountsInv'
  BY <1>1, CountsDue
<1> QED
  BY <1>4, <1>6, <1>7, <1>8, WritesKeep

\* What goes with the posts: the replies with their comments, for they are on the same post.
LEMMA CascadeKeeps ==
    ASSUME RowsTyped, ThreadsKept, NEW ps \in SUBSET Posts, Cascade(ps),
           board' \in {"none", "open", "closed", "gone"},
           (UNCHANGED board) \/ ps = Posts
    PROVE  /\ RowsTyped' /\ ThreadsKept' /\ RowsGo
           /\ \A f \in Files : row[f] \in ps => row'[f] = None
<1>1. /\ post' \in [Posts -> {"none", "published", "hidden", "gone"}]
      /\ comment' \in [Comments -> {"none", "live", "removed", "gone"}]
      /\ row' \in [Files -> Posts \cup {None}]
  BY DEF RowsTyped, Cascade
<1>2. Standing' = Standing \ ps
  BY DEF RowsTyped, Cascade, Standing
<1>3. Threaded' = {c \in Threaded : On[c] \notin ps}
  BY DEF RowsTyped, Cascade, Threaded
<1>4. RowsGo /\ \A f \in Files : row[f] \in ps => row'[f] = None
  BY DEF RowsTyped, Cascade, RowsGo
<1>5. \A f \in Files : row'[f] \in Standing' \cup {None}
  BY <1>2 DEF RowsTyped, Cascade
<1>6. \A c \in Threaded' : On[c] \in Standing' /\ Parent[c] \in Threaded' \cup {None}
  BY <1>2, <1>3 DEF RowsTyped, ThreadsKept
<1>7. ~BoardBySlug' => Standing' = {}
  <2>1. CASE UNCHANGED board
    BY <1>2, <2>1 DEF RowsTyped, BoardBySlug
  <2>2. CASE ps = Posts
    BY <1>2, <2>2 DEF Standing
  <2> QED
    BY <2>1, <2>2
<1>8. ThreadsKept'
  BY <1>3 DEF ThreadsKept
<1> QED
  BY <1>1, <1>4, <1>5, <1>6, <1>7, <1>8 DEF RowsTyped

LEMMA PostsKeep ==
    ASSUME ContentInv, NEW r \in Requests,
           \/ \E p \in Posts : \/ postCreate(r, p)
                               \/ \E status \in {"published", "hidden"} : PostModerate(r, p, status)
           \/ DeletePost(r) \/ DeleteBoard(r)
    PROVE  ContentInv'
<1>0. TypeOK /\ RowsTyped /\ ThreadsKept /\ req[r] \in Request /\ Sound(req[r])
  BY TypesSplit DEF ContentInv, TypeOK, Threads, ThreadsKept, FilesInv
<1>1. ASSUME NEW p \in Posts, postCreate(r, p) PROVE ContentInv'
  <2>0. /\ UNCHANGED <<board, comment, row>> /\ UNCHANGED <<files, backend, counts>>
        /\ BoardBySlug /\ post' = [post EXCEPT ![p] = "published"]
    BY <1>1 DEF postCreate, CreatePost
  <2>1. PICK a \in Posts \cup {None} : a = IF board = "open" THEN p ELSE None
    OBVIOUS
  <2>2. PICK q \in Request : q = [op |-> "reset", post |-> a, files |-> {}] /\ Start(r, q)
    BY <1>1, <2>1 DEF postCreate, Reset, Request
  <2>3. q.op = "reset" /\ q.files = {}
    BY <2>2
  <2>4. RowsTyped' /\ ThreadsKept' /\ RowsGo
    <3>1. Standing \subseteq Standing' /\ Threaded' = Threaded /\ BoardBySlug'
      BY <1>0, <2>0 DEF RowsTyped, Standing, Threaded, BoardBySlug
    <3>2. post' \in [Posts -> {"none", "published", "hidden", "gone"}]
      BY <1>0, <2>0 DEF RowsTyped
    <3> QED
      BY <1>0, <2>0, <3>1, <3>2 DEF RowsTyped, ThreadsKept, RowsGo
  <2> QED
    BY <2>0, <2>2, <2>3, <2>4, RowWritesKeep
<1>2. ASSUME NEW p \in Posts, NEW status \in {"published", "hidden"}, PostModerate(r, p, status)
      PROVE  ContentInv'
  <2>0. /\ UNCHANGED <<board, comment, row>> /\ UNCHANGED <<files, backend, counts>>
        /\ p \in Standing /\ post' = [post EXCEPT ![p] = status]
    BY <1>2 DEF PostModerate, SetPostFlags
  <2>1. PICK q \in Request : q = [op |-> "reset", post |-> None, files |-> {}] /\ Start(r, q)
    BY <1>2 DEF PostModerate, Reset, Request
  <2>2. q.op = "reset" /\ q.files = {}
    BY <2>1
  <2>3. RowsTyped' /\ ThreadsKept' /\ RowsGo
    <3>1. Standing' = Standing /\ Threaded' = Threaded /\ BoardBySlug' = BoardBySlug
      BY <1>0, <2>0 DEF RowsTyped, Standing, Threaded, BoardBySlug
    <3>2. post' \in [Posts -> {"none", "published", "hidden", "gone"}]
      BY <1>0, <2>0 DEF RowsTyped
    <3> QED
      BY <1>0, <2>0, <3>1, <3>2 DEF RowsTyped, ThreadsKept, RowsGo
  <2> QED
    BY <2>0, <2>1, <2>2, <2>3, RowWritesKeep
<1>3. CASE DeletePost(r)
  <2>0. /\ UNCHANGED board /\ UNCHANGED <<files, backend, counts>> /\ req[r].op = "delete post"
        /\ req[r].post \in Posts /\ req[r].files \subseteq Files /\ Cascade({req[r].post})
    BY <1>0, <1>3, RequestFields DEF DeletePost, DeletePostRow, At
  <2>1. PICK q \in Request : q = [op |-> "reset", post |-> None, files |-> req[r].files] /\ Start(r, q)
    BY <1>3, <2>0 DEF DeletePost, Reset, Request
  <2>2. q.op = "reset" /\ q.files = req[r].files
    BY <2>1
  <2>3. PICK ps \in SUBSET Posts : ps = {req[r].post} /\ Cascade(ps)
    BY <2>0
  <2>4. board' \in {"none", "open", "closed", "gone"} /\ ((UNCHANGED board) \/ ps = Posts)
    BY <1>0, <2>0 DEF RowsTyped
  <2>5. /\ RowsTyped' /\ ThreadsKept' /\ RowsGo
        /\ \A f \in Files : row[f] \in ps => row'[f] = None
    BY <1>0, <2>3, <2>4, CascadeKeeps
  <2>6. \A f \in q.files : f \in used /\ ~Owned(f) /\ row'[f] = None
    BY <1>0, <2>0, <2>2, <2>3, <2>5 DEF Sound, Carries, RowsGo
  <2> QED
    BY <2>0, <2>1, <2>2, <2>5, <2>6, RowWritesKeep
<1>4. CASE DeleteBoard(r)
  <2>0. /\ board' = "gone" /\ UNCHANGED <<files, backend, counts>> /\ req[r].op = "delete board"
        /\ req[r].files \subseteq Files /\ Cascade(Posts)
    BY <1>0, <1>4, RequestFields DEF DeleteBoard, At
  <2>1. PICK q \in Request : q = [op |-> "reset", post |-> None, files |-> req[r].files] /\ Start(r, q)
    BY <1>4, <2>0 DEF DeleteBoard, Reset, Request
  <2>2. q.op = "reset" /\ q.files = req[r].files
    BY <2>1
  <2>3. PICK ps \in SUBSET Posts : ps = Posts /\ Cascade(ps)
    BY <2>0
  <2>4. board' \in {"none", "open", "closed", "gone"} /\ ((UNCHANGED board) \/ ps = Posts)
    BY <2>0, <2>3
  <2>5. /\ RowsTyped' /\ ThreadsKept' /\ RowsGo
        /\ \A f \in Files : row[f] \in ps => row'[f] = None
    BY <1>0, <2>3, <2>4, CascadeKeeps
  <2>6. \A f \in q.files : f \in used /\ ~Owned(f) /\ row'[f] = None
    BY <1>0, <2>0, <2>2, <2>3, <2>5 DEF Sound, Carries, RowsGo, RowsTyped
  <2> QED
    BY <2>0, <2>1, <2>2, <2>5, <2>6, RowWritesKeep
<1> QED
  BY <1>1, <1>2, <1>3, <1>4

-----------------------------------------------------------------------------
(* Comments                                                                  *)

LEMMA CommentWritesKeep ==
    ASSUME ContentInv, NEW r \in Requests, NEW q \in Request, Start(r, q),
           q.op \in {"idle", "tombstone"}, ~At(r, "reset"),
           UNCHANGED <<board, post, row, files, backend, counts>>,
           comment' \in [Comments -> {"none", "live", "removed", "gone"}],
           \A c \in Threaded' : /\ On[c] \in Standing /\ Parent[c] \in Threaded' \cup {None}
                                /\ Parent[c] # None => On[Parent[c]] = On[c]
    PROVE  ContentInv'
<1>1. /\ TypeOK /\ FilesInv /\ CountsInv /\ Moves(r, q) /\ \A s \in Requests \ {r} : req'[s] = req[s]
      /\ UNCHANGED <<row, used, local, bucket, backend>> /\ UNCHANGED <<post, counts>> /\ UNCHANGED board
  BY StartMoves DEF ContentInv, files
<1>2. OwnsNoMore(r, q) /\ Sound(q)'
  BY DEF OwnsNoMore, Owns, Sound
<1>3. Onward /\ Owners'
  BY <1>1, <1>2, FilesSame
<1>4. CountsInv'
  BY <1>1, CountsSame
<1>5. RowsTyped'
  BY <1>1, TypesSplit DEF RowsTyped, BoardBySlug, Standing
<1>6. ThreadsKept'
  BY DEF ThreadsKept
<1>7. FilesTyped' /\ CountsTyped'
  BY <1>1, TypesSplit DEF FilesTyped, CountsTyped
<1> QED
  BY <1>2, <1>3, <1>4, <1>5, <1>6, <1>7, WritesKeep

LEMMA CommentsKeep ==
    ASSUME ContentInv, NEW r \in Requests,
           CreateComment(r) \/ commentUpdate(r) \/ DeleteComment(r) \/ TombstoneComment(r)
    PROVE  ContentInv'
<1>0. /\ req[r] \in Request /\ ~At(r, "reset")
      /\ req[r].op \in {"reply", "edit", "delete comment", "tombstone"}
      /\ UNCHANGED <<board, post, row, files, backend, counts>>
      /\ comment \in [Comments -> {"none", "live", "removed", "gone"}]
      /\ \A c \in Threaded : /\ On[c] \in Standing /\ Parent[c] \in Threaded \cup {None}
                             /\ Parent[c] # None => On[Parent[c]] = On[c]
  BY DEF ContentInv, TypeOK, Threads, CreateComment, commentUpdate, DeleteComment, TombstoneComment, At
<1>1. PICK c \in Comments : c = req[r].comment
  BY <1>0, RequestFields
<1>2. Idle \in Request /\ Idle.op = "idle"
  BY DEF Idle, Request
<1>3. CASE CreateComment(r)
  <2>1. /\ Start(r, Idle) /\ comment' = [comment EXCEPT ![c] = "live"]
        /\ On[c] \in Standing /\ Parent[c] \in Threaded \cup {None} /\ req[r].op = "reply"
    BY <1>1, <1>3 DEF CreateComment, Done, At
  <2>2. Parent[c] # None => On[Parent[c]] = On[c]
    BY <1>1, <2>1 DEF ContentInv, Threads, At
  <2>3. Threaded' = Threaded \cup {c}
    BY <1>0, <2>1 DEF Threaded
  <2>4. \A d \in Threaded' : /\ On[d] \in Standing /\ Parent[d] \in Threaded' \cup {None}
                             /\ Parent[d] # None => On[Parent[d]] = On[d]
    BY <1>0, <2>1, <2>2, <2>3
  <2> QED
    BY <1>0, <1>2, <2>1, <2>4, CommentWritesKeep
<1>4. CASE commentUpdate(r)
  <2>1. Start(r, Idle) /\ comment' = comment
    BY <1>0, <1>1, <1>4 DEF commentUpdate, Done, UpdateComment
  <2>2. Threaded' = Threaded
    BY <2>1 DEF Threaded
  <2> QED
    BY <1>0, <1>2, <2>1, <2>2, CommentWritesKeep
<1>5. CASE DeleteComment(r)
  <2>0. req[r].op = "delete comment"
    BY <1>5 DEF DeleteComment, At
  <2>1. CASE \E d \in Threaded : Parent[d] = c
    <3>1. [req[r] EXCEPT !.op = "tombstone"] = [op |-> "tombstone", comment |-> c]
      BY <1>0, <1>1, <2>0, FieldMoves
    <3>2. comment' = comment /\ req' = [req EXCEPT ![r] = [op |-> "tombstone", comment |-> c]]
      BY <1>1, <1>5, <2>1, <3>1 DEF DeleteComment
    <3>3. PICK q \in Request : q = [op |-> "tombstone", comment |-> c] /\ Start(r, q)
      BY <3>2 DEF Start, Request
    <3>4. q.op \in {"idle", "tombstone"} /\ Threaded' = Threaded
      BY <3>2, <3>3 DEF Threaded
    <3> QED
      BY <1>0, <3>2, <3>3, <3>4, CommentWritesKeep
  <2>2. CASE ~\E d \in Threaded : Parent[d] = c
    <3>1. Start(r, Idle) /\ comment' = [comment EXCEPT ![c] = IF c \in Threaded THEN "gone" ELSE @]
      BY <1>1, <1>5, <2>2 DEF DeleteComment, DeleteCommentRow, Done
    <3>2. Threaded' = Threaded \ {c}
      BY <1>0, <3>1 DEF Threaded
    <3>3. comment' \in [Comments -> {"none", "live", "removed", "gone"}]
      BY <1>0, <3>1
    <3>4. \A d \in Threaded' : /\ On[d] \in Standing /\ Parent[d] \in Threaded' \cup {None}
                               /\ Parent[d] # None => On[Parent[d]] = On[d]
      BY <1>0, <2>2, <3>2
    <3> QED
      BY <1>0, <1>2, <3>1, <3>3, <3>4, CommentWritesKeep
  <2> QED
    BY <2>1, <2>2
<1>6. CASE TombstoneComment(r)
  <2>1. Start(r, Idle) /\ comment' = [comment EXCEPT ![c] = IF @ = "live" THEN "removed" ELSE @]
    BY <1>1, <1>6 DEF TombstoneComment, Done
  <2>2. Threaded' = Threaded
    BY <1>0, <2>1 DEF Threaded
  <2>3. comment' \in [Comments -> {"none", "live", "removed", "gone"}]
    BY <1>0, <2>1
  <2> QED
    BY <1>0, <1>2, <2>1, <2>2, <2>3, CommentWritesKeep
<1> QED
  BY <1>3, <1>4, <1>5, <1>6

-----------------------------------------------------------------------------
(* Steps of no request                                                       *)

LEMMA AdminKeeps ==
    ASSUME ContentInv, UNCHANGED <<post, comment, row, used, local, bucket, req>>,
           UNCHANGED board \/ (board' \in {"open", "closed"}),
           UNCHANGED counts \/ counts' = None,
           UNCHANGED backend \/ backend' \in {"local", "s3"}
    PROVE  ContentInv'
<1>1. TypeOK'
  BY DEF ContentInv, TypeOK, BoardBySlug, Standing, Threaded
<1>2. Threads'
  BY DEF ContentInv, Threads, Threaded, At
<1>3. Owners'
  BY DEF ContentInv, FilesInv, Owners, Owned, Owns
<1>4. \A r \in Requests : Sound(req[r])'
  <2>1. \A f : /\ Owned(f)' <=> Owned(f)
               /\ Wanted(f)' <=> Wanted(f)
    BY DEF Wanted, Owned, Owns
  <2>2. backend # "none" => backend' # "none"
    OBVIOUS
  <2> QED
    BY <2>1, <2>2 DEF ContentInv, FilesInv, Sound, Carries, Dropped
<1>5. CountsInv'
  BY DEF ContentInv, CountsInv, CountsCurrent, ResetDue, At, ListPosts
<1> QED
  BY <1>1, <1>2, <1>3, <1>4, <1>5 DEF ContentInv, FilesInv

LEMMA CrashKeeps ==
    ASSUME ContentInv, Crash
    PROVE  ContentInv'
<1>0. /\ TypeOK /\ Owners /\ counts' = None /\ req' = [r \in Requests |-> Idle]
      /\ UNCHANGED <<board, post, comment, row, used, local, bucket, backend>>
  BY DEF ContentInv, FilesInv, Crash, rows, files
<1>1. Idle \in Request /\ Idle.op = "idle"
  BY DEF Idle, Request
<1>2. \A r \in Requests : req'[r] \in Request /\ req'[r].op = "idle"
  BY <1>0, <1>1
<1>3. TypeOK'
  BY <1>0, <1>1 DEF TypeOK, BoardBySlug, Standing, Threaded
<1>4. Threads'
  BY <1>0, <1>2 DEF ContentInv, Threads, Threaded, At
<1>5. \A f : ~Owned(f)'
  BY <1>2 DEF Owned, Owns
<1>6. Owners'
  BY <1>0, <1>2, <1>5 DEF Owners, Owns
<1>7. \A r \in Requests : Sound(req[r])'
  BY <1>2 DEF Sound
<1>8. CountsInv'
  BY <1>0, <1>2 DEF CountsInv, CountsCurrent, At
<1> QED
  BY <1>3, <1>4, <1>6, <1>7, <1>8 DEF ContentInv, FilesInv

LEMMA InitKeeps == Init => ContentInv
<1> SUFFICES ASSUME Init PROVE ContentInv
  OBVIOUS
<1>1. Idle \in Request /\ Idle.op = "idle"
  BY DEF Idle, Request
<1>2. \A r \in Requests : req[r] = Idle /\ req[r].op = "idle"
  BY <1>1 DEF Init
<1>3. Standing = {} /\ Threaded = {}
  BY DEF Init, Standing, Threaded
<1>4. TypeOK
  BY <1>1, <1>3 DEF Init, TypeOK
<1>5. Threads
  BY <1>2, <1>3 DEF Threads, At
<1>6. Owners
  BY <1>2 DEF Init, Owners, Owned, Owns
<1>7. \A r \in Requests : Sound(req[r])
  BY <1>2 DEF Sound
<1>8. CountsInv
  BY <1>2 DEF Init, CountsInv, CountsCurrent, At
<1> QED
  BY <1>4, <1>5, <1>6, <1>7, <1>8 DEF ContentInv, FilesInv

-----------------------------------------------------------------------------

\* The invariant of every request's every step, of the settings and of a crash.
THEOREM ContentInductive == Spec => []ContentInv
<1>1. ContentInv /\ [Next]_vars => ContentInv'
  <2> SUFFICES ASSUME ContentInv, [Next]_vars PROVE ContentInv'
    OBVIOUS
  <2>1. CASE UNCHANGED vars
    BY <2>1, AdminKeeps DEF vars
  <2>2. CASE Expire
    BY <2>2, AdminKeeps DEF Expire, rows, files
  <2>3. CASE Crash
    BY <2>3, CrashKeeps
  <2>4. ASSUME NEW b \in {"local", "s3"}, StorageSettingsSave(b) PROVE ContentInv'
    BY <2>4, AdminKeeps DEF StorageSettingsSave, rows, files
  <2>5. ASSUME NEW r \in Requests, NEW settings \in {"open", "closed"}, BoardSave(r, settings)
        PROVE  ContentInv'
    BY <2>5, AdminKeeps DEF BoardSave, CreateBoard, UpdateBoard, files
  <2>6. ASSUME NEW r \in Requests,
               \/ Abandon(r) \/ get(r) \/ boardList(r) \/ (\E p \in Posts : postUpdate(r, p))
               \/ Save(r) \/ Open(r) \/ OpenRemote(r)
        PROVE  ContentInv'
    BY <2>6, ReadsKeep
  <2>7. ASSUME NEW r \in Requests,
               \/ WriteFails(r) \/ (\E p \in Posts : postDelete(r, p))
               \/ (\E force \in BOOLEAN : BoardDelete(r, force)) \/ CountBoardPosts(r)
               \/ migrateStorage(r) \/ RowFails(r)
        PROVE  ContentInv'
    BY <2>7, ListsKeep
  <2>8. ASSUME NEW r \in Requests,
               \/ (\E f \in Files : AttachmentDelete(r, f) \/ attachmentDownload(r, f))
               \/ (\E c \in Comments : \/ commentCreate(r, c) \/ CommentModerate(r, c)
                                       \/ \E op \in {"edit", "delete comment"} : ownComment(r, c, op))
        PROVE  ContentInv'
    BY <2>8, BeginsKeep
  <2>9. ASSUME NEW r \in Requests, NEW f \in Files, Store(r, f) PROVE ContentInv'
    BY <2>9, StoreKeeps
  <2>10. ASSUME NEW r \in Requests,
                \/ Put(r) \/ push(r) \/ PutFails(r) \/ saveUploads(r) \/ Delete(r) \/ RemoveAll(r)
                \/ put(r) \/ reset(r)
         PROVE  ContentInv'
    BY <2>10, PutKeeps, PushKeeps, PutFailsKeeps, SaveUploadsKeeps, DeleteKeeps, RemoveAllKeeps,
       PutCountKeeps, ResetKeeps
  <2>11. ASSUME NEW r \in Requests,
                \/ \E p \in Posts : \/ postCreate(r, p)
                                    \/ \E status \in {"published", "hidden"} : PostModerate(r, p, status)
                \/ DeletePost(r) \/ DeleteBoard(r)
         PROVE  ContentInv'
    BY <2>11, PostsKeep
  <2>12. ASSUME NEW r \in Requests,
                CreateComment(r) \/ commentUpdate(r) \/ DeleteComment(r) \/ TombstoneComment(r)
         PROVE  ContentInv'
    BY <2>12, CommentsKeep
  <2> QED
    BY <2>1, <2>2, <2>3, <2>4, <2>5, <2>6, <2>7, <2>8, <2>9, <2>10, <2>11, <2>12 DEF Next
<1> QED
  BY <1>1, InitKeeps, PTL DEF Spec

\* A row never outlives its file, and a download that found no local copy of a
\* standing row finds the bucket's, whatever fails, dies or is moved meanwhile
\* (saveUploads, push, Delete, RemoveAll, Open).
THEOREM FilesReachableSafe == Spec => []FilesReachable
<1>1. ContentInv => FilesReachable
  <2> SUFFICES ASSUME ContentInv PROVE FilesReachable
    OBVIOUS
  <2>1. TypeOK /\ Owners /\ \A r \in Requests : Sound(req[r])
    BY DEF ContentInv, FilesInv
  <2>2. ASSUME NEW r \in Requests, At(r, "open remote"), row[req[r].file] # None
        PROVE  req[r].file \in bucket /\ backend # "none"
    BY <2>1, <2>2 DEF Sound, Owners, At
  <2> QED
    BY <2>1, <2>2 DEF FilesReachable, Owners
<1> QED
  BY <1>1, ContentInductive, PTL

\* A remembered count is how many posts the list shows, unless a write has committed
\* and its reset is still to come (get, put, reset of postcount.go).
THEOREM CountsCurrentSafe == Spec => []CountsCurrent
<1>1. ContentInv => CountsCurrent
  BY DEF ContentInv, CountsInv
<1> QED
  BY <1>1, ContentInductive, PTL

\* A body its author removed never comes back (commentUpdate, TombstoneComment).
THEOREM RemovedStaysRemovedSafe == Spec => RemovedStaysRemoved
<1> DEFINE Stays == \A c \in Comments : comment[c] \in {"removed", "gone"} =>
                      comment'[c] \in {comment[c], "gone"}
<1>1. ContentInv /\ [Next]_vars => [Stays]_vars
  <2> SUFFICES ASSUME ContentInv, Next PROVE Stays
    OBVIOUS
  <2>1. /\ comment \in [Comments -> {"none", "live", "removed", "gone"}]
        /\ \A r \in Requests : req[r] \in Request
    BY DEF ContentInv, TypeOK
  <2>2. CASE UNCHANGED comment
    BY <2>2
  <2>3. ASSUME NEW r \in Requests, CreateComment(r) PROVE Stays
    BY <2>1, <2>3 DEF CreateComment
  <2>4. ASSUME NEW r \in Requests, commentUpdate(r) PROVE Stays
    BY <2>1, <2>4 DEF commentUpdate, UpdateComment
  <2>5. ASSUME NEW r \in Requests, DeleteComment(r) PROVE Stays
    BY <2>1, <2>5 DEF DeleteComment, DeleteCommentRow
  <2>6. ASSUME NEW r \in Requests, TombstoneComment(r) PROVE Stays
    BY <2>1, <2>6 DEF TombstoneComment
  <2>7. ASSUME NEW ps, Cascade(ps) PROVE Stays
    BY <2>1, <2>7 DEF Cascade
  <2>8. \/ UNCHANGED comment
        \/ \E r \in Requests : \/ CreateComment(r) \/ commentUpdate(r) \/ DeleteComment(r)
                               \/ TombstoneComment(r) \/ DeletePost(r) \/ DeleteBoard(r)
    BY ZenonT(60) DEF Next, Expire, Crash, StorageSettingsSave, Abandon, WriteFails, BoardSave, get, boardList,
           put, reset, postCreate, postUpdate, postDelete, PostModerate, CountBoardPosts, BoardDelete,
           Save, Put, push, PutFails, saveUploads, RowFails, migrateStorage, Migrate, Delete, RemoveAll,
           Open, OpenRemote, Store, AttachmentDelete, attachmentDownload, commentCreate,
           CommentModerate, ownComment, rows
  <2> QED
    BY <2>2, <2>3, <2>4, <2>5, <2>6, <2>7, <2>8 DEF DeletePost, DeletePostRow, DeleteBoard
<1> QED
  BY <1>1, ContentInductive, PTL DEF Spec, RemovedStaysRemoved

-----------------------------------------------------------------------------
(* Navigation: trees kept as rows that name a parent.  A move past its check *)
(* holds the lock, and what it found apart others leave apart; a deletion    *)
(* past its lift is the page's only one, and what it lifted others leave.    *)

\* A move past its check holds the lock, and some of the tree, closed downward, has its
\* category and not the parent.
MovesAlone == \A r \in Edits : edit[r].op \in {"judge", "place"} => advisory = r
Apart(c, parent) ==
    /\ \E cs \in SUBSET Categories : c \in cs /\ parent \notin cs /\ Closed(categoryParents, cs)
    /\ parent # Top => category[parent] # Nothing
MovesSound == \A r \in Edits : Doing(r, "place") => Apart(edit[r].child, edit[r].parent)
MovesInv == Forest(categoryParents) /\ MovesAlone /\ MovesSound
\* What a deletion lifted stays, and so does where it lifted it; a page has one deletion.
LiftsHeld ==
    \A r \in Edits : Doing(r, "lifted") =>
        \A e \in DOMAIN edit[r].lift :
            e \in There(menu) /\ edit[r].lift[e] \in There(menu) \cup {Top}
OneDeletes ==
    \A r, q \in Edits :
        /\ edit[r].op \in {"delete page", "lifted"} /\ edit[q].op \in {"delete page", "lifted"}
        /\ edit[r].page = edit[q].page
        => r = q
NavigationInv == NavigationTypeOK /\ MovesInv /\ LiftsHeld /\ OneDeletes

\* What a request in flight remembers.
LEMMA EditFields ==
    ASSUME NavigationTypeOK, NEW r \in Edits
    PROVE  /\ Doing(r, "move status") =>
                edit[r] \in [op : {"move status"}, page : Pages, from : PageStatuses, to : PageStatuses]
           /\ Doing(r, "delete page") => edit[r] \in [op : {"delete page"}, page : Pages]
           /\ Doing(r, "lifted") => edit[r] \in [op : {"lifted"}, page : Pages, lift : Lifts]
           /\ Doing(r, "update entry") =>
                edit[r] \in [op : {"update entry"}, entry : Entries, item : MenuItem]
           /\ edit[r].op \in {"reparent", "judge", "place"} =>
                edit[r] \in [op : {edit[r].op}, child : Categories, parent : Categories \cup {Top}]
           /\ Doing(r, "tag") =>
                edit[r] \in [op : {"tag"}, product : Products, tags : SUBSET Categories]
<1>1. edit[r] \in Edit
  BY DEF NavigationTypeOK
<1> QED
  BY <1>1 DEF Edit, Doing

-----------------------------------------------------------------------------
(* Trees                                                                     *)

\* In a forest, and only there, some row of any rows has its parent outside of them.
LEMMA Rooted ==
    ASSUME NEW parents, Top \notin DOMAIN parents
    PROVE  /\ Forest(parents) =>
                \A W \in SUBSET DOMAIN parents : W # {} => \E e \in W : parents[e] \notin W
           /\ (/\ \A e \in DOMAIN parents : parents[e] \in DOMAIN parents \cup {Top}
               /\ \A W \in SUBSET DOMAIN parents : W # {} => \E e \in W : parents[e] \notin W)
              => Forest(parents)
<1>1. ASSUME Forest(parents), NEW W \in SUBSET DOMAIN parents, W # {},
             \A e \in W : parents[e] \in W
      PROVE  FALSE
  <2> DEFINE more == DOMAIN parents \ W
  <2>1. more \in SUBSET (DOMAIN parents \ {Top})
    OBVIOUS
  <2>2. Closed(parents, {Top} \cup more)
    BY <1>1 DEF Closed
  <2>3. PICK e \in W : TRUE
    BY <1>1
  <2>4. e \in Under(parents, {Top})
    BY <1>1, <2>3 DEF Forest
  <2>5. e \in {Top} \cup more
    BY <2>1, <2>2, <2>4 DEF Under
  <2> QED
    BY <2>3, <2>5
<1>2. ASSUME \A e \in DOMAIN parents : parents[e] \in DOMAIN parents \cup {Top},
             \A W \in SUBSET DOMAIN parents : W # {} => \E e \in W : parents[e] \notin W,
             NEW x \in DOMAIN parents,
             NEW more \in SUBSET (DOMAIN parents \ {Top}), Closed(parents, {Top} \cup more)
      PROVE  x \in {Top} \cup more
  <2> DEFINE W == DOMAIN parents \ more
  <2>1. SUFFICES ASSUME x \in W PROVE FALSE
    OBVIOUS
  <2>2. PICK e \in W : parents[e] \notin W
    BY <1>2, <2>1
  <2>3. parents[e] \in {Top} \cup more
    BY <1>2, <2>2
  <2> QED
    BY <1>2, <2>2, <2>3 DEF Closed
<1> QED
  BY <1>1, <1>2 DEF Forest, Under

\* What hangs under some rows has them, and is closed.
LEMMA UnderCloses ==
    ASSUME NEW parents, NEW es
    PROVE  es \subseteq Under(parents, es) /\ Closed(parents, Under(parents, es))
<1>1. ASSUME NEW e \in DOMAIN parents, parents[e] \in Under(parents, es),
             NEW more \in SUBSET (DOMAIN parents \ es), Closed(parents, es \cup more)
      PROVE  e \in es \cup more
  BY <1>1 DEF Under, Closed
<1>2. Closed(parents, Under(parents, es))
  BY <1>1 DEF Under, Closed
<1> QED
  BY <1>2 DEF Under

\* Without what hangs under some entries, every entry still names one, or the top.
LEMMA WithoutTyped ==
    ASSUME NEW items, MenuTyped(items), NEW es \in SUBSET Entries
    PROVE  /\ MenuTyped(Without(items, es))
           /\ There(Without(items, es)) = There(items) \ WithChildren(items, es)
           /\ \A e \in There(items) \ WithChildren(items, es) : Without(items, es)[e] = items[e]
<1> DEFINE gone == WithChildren(items, es)
           left == Without(items, es)
<1>1. left \in [Entries -> MenuItem \cup {Nothing, Gone}]
  BY DEF Without, MenuTyped
<1>2. \A e \in Entries : left[e] = IF e \in gone THEN Gone ELSE items[e]
  BY DEF Without, MenuTyped
<1>3. There(left) = There(items) \ gone
  BY <1>1, <1>2 DEF There, Is, MenuTyped
<1>4. \A e \in There(items) : items[e].parent \in gone => e \in gone
  BY UnderCloses DEF WithChildren, Closed
<1>5. ASSUME NEW e \in There(left) PROVE left[e].parent \in There(left) \cup {Top}
  BY <1>2, <1>3, <1>4 DEF MenuTyped, There
<1> HIDE DEF gone, left
<1>6. MenuTyped(left)
  BY <1>1, <1>5 DEF MenuTyped
<1>7. \A e \in There(items) \ gone : left[e] = items[e]
  BY <1>2 DEF There, MenuTyped
<1> QED
  BY <1>3, <1>6, <1>7 DEF gone, left

-----------------------------------------------------------------------------
(* Types                                                                     *)

\* A request becomes what `what` says, or ends; the others stay what they were.
Becomes(r, what) == what \in Edit /\ edit' = [edit EXCEPT ![r] = what]
LEMMA Turns ==
    ASSUME NavigationTypeOK, NEW r \in Edits, NEW what, Becomes(r, what)
    PROVE  /\ edit' \in [Edits -> Edit]
           /\ edit'[r] = what
           /\ \A q \in Edits : q # r => edit'[q] = edit[q]
BY DEF Becomes, NavigationTypeOK

LEMMA Ends == ASSUME NEW r, Over(r) PROVE Becomes(r, [op |-> "done"])
BY DEF Over, Turn, Becomes, Edit

LEMMA LiftsTyped ==
    ASSUME NavigationTypeOK, NEW p
    PROVE  /\ LiftsOf(p) \in Lifts
           /\ \A e \in DOMAIN LiftsOf(p) :
                e \in There(menu) /\ LiftsOf(p)[e] \in There(menu) \cup {Top}
<1> DEFINE es == {x \in There(menu) : menu[x].parent \in Pointing(p)}
<1>1. \A e \in es : menu[e].parent \in There(menu)
  BY DEF Pointing, PointsAt, There, NavigationTypeOK, MenuTyped
<1>2. \A e \in es : menu[menu[e].parent].parent \in There(menu) \cup {Top}
  BY <1>1 DEF NavigationTypeOK, MenuTyped
<1>3. There(menu) \subseteq Entries
  BY DEF There, NavigationTypeOK, MenuTyped
<1>4. es \in SUBSET Entries
  BY <1>3
<1>5. LiftsOf(p) \in [es -> Entries \cup {Top}]
  BY <1>2, <1>3 DEF LiftsOf
<1> QED
  BY <1>2, <1>4, <1>5 DEF Lifts, LiftsOf

\* The next step, of request r.
Acts(r) ==
    \/ Fails(r) \/ CreatePage(r) \/ UpdatePage(r) \/ PagePublish(r) \/ SetPageStatus(r)
    \/ PageDelete(r) \/ LiftMenuChildren(r) \/ DeleteMenusFor(r)
    \/ MenuCreate(r) \/ MenuUpdate(r) \/ UpdateMenuItem(r) \/ MenuDelete(r)
    \/ CategoryCreate(r) \/ CategoryDelete(r)
    \/ CategoryReparent(r) \/ AdvisoryXactLock(r) \/ Reparent(r) \/ ReparentCommit(r)
    \/ ProductSave(r) \/ setProductCategories(r) \/ DeleteProduct(r)

LEMMA EditStep ==
    ASSUME NavigationTypeOK, NEW r \in Edits, Acts(r)
    PROVE  \E what : Becomes(r, what)
<1>1. CASE Over(r)
  BY <1>1, Ends
<1>2. CASE PagePublish(r)
  <2>1. PICK p \in There(page), to \in PageStatuses :
            Turn(r, [op |-> "move status", page |-> p, from |-> PageStatus(p), to |-> to])
    BY <1>2 DEF PagePublish
  <2>2. p \in Pages /\ PageStatus(p) \in PageStatuses
    BY DEF There, Is, PageStatus, NavigationTypeOK, PagesTyped, Page
  <2> QED
    BY <2>1, <2>2 DEF Turn, Becomes, Edit
<1>3. CASE PageDelete(r)
  <2>1. PICK p \in There(page) : Turn(r, [op |-> "delete page", page |-> p])
    BY <1>3 DEF PageDelete
  <2>2. p \in Pages
    BY DEF There, NavigationTypeOK, PagesTyped
  <2> QED
    BY <2>1, <2>2 DEF Turn, Becomes, Edit
<1>4. CASE LiftMenuChildren(r)
  <2>1. Turn(r, [op |-> "lifted", page |-> edit[r].page, lift |-> LiftsOf(edit[r].page)])
    BY <1>4 DEF LiftMenuChildren
  <2>2. edit[r].page \in Pages
    BY <1>4, EditFields DEF LiftMenuChildren
  <2>3. LiftsOf(edit[r].page) \in Lifts
    BY LiftsTyped
  <2> QED
    BY <2>1, <2>2, <2>3 DEF Turn, Becomes, Edit
<1>5. CASE MenuUpdate(r)
  <2>1. PICK e \in There(menu), item \in MenuItem :
            Turn(r, [op |-> "update entry", entry |-> e, item |-> item])
    BY <1>5 DEF MenuUpdate
  <2>2. e \in Entries
    BY DEF There, NavigationTypeOK, MenuTyped
  <2> QED
    BY <2>1, <2>2 DEF Turn, Becomes, Edit
<1>6. CASE CategoryReparent(r)
  BY <1>6 DEF CategoryReparent, Turn, Becomes, Edit
<1>7. CASE AdvisoryXactLock(r) \/ Reparent(r)
  <2>1. PICK to \in {"judge", "place"} : Turn(r, [edit[r] EXCEPT !.op = to])
    BY <1>7 DEF AdvisoryXactLock, Reparent
  <2>2. edit[r] \in [op : {edit[r].op}, child : Categories, parent : Categories \cup {Top}]
    BY <1>7, EditFields DEF AdvisoryXactLock, Reparent, Doing
  <2>3. [edit[r] EXCEPT !.op = to] = [op |-> to, child |-> edit[r].child, parent |-> edit[r].parent]
    BY <2>2
  <2>4. [op |-> to, child |-> edit[r].child, parent |-> edit[r].parent] \in Edit
    BY <2>2 DEF Edit
  <2> QED
    BY <2>1, <2>3, <2>4 DEF Turn, Becomes
<1>8. CASE ProductSave(r)
  <2>1. PICK p \in There(tags) \cup New(tags), cs \in SUBSET Categories :
            Turn(r, [op |-> "tag", product |-> p, tags |-> cs])
    BY <1>8 DEF ProductSave
  <2>2. p \in Products
    BY DEF There, New, NavigationTypeOK, TagsTyped
  <2> QED
    BY <2>1, <2>2 DEF Turn, Becomes, Edit
<1> QED
  BY <1>1, <1>2, <1>3, <1>4, <1>5, <1>6, <1>7, <1>8
     DEF Acts, Fails, CreatePage, UpdatePage, SetPageStatus, DeleteMenusFor, MenuCreate,
         UpdateMenuItem, MenuDelete, CategoryCreate, CategoryDelete, ReparentCommit, setProductCategories,
         DeleteProduct

\* Nothing and Gone are no rows.
LEMMA Rows ==
    /\ \A x \in Page \cup MenuItem \cup Categories \cup {Top} : Is(x)
    /\ Top \notin Categories
    /\ NavigationTypeOK =>
              /\ There(menu) = {e \in Entries : menu[e] \in MenuItem}
              /\ There(page) = {p \in Pages : page[p] \in Page}
              /\ There(category) = {c \in Categories : category[c] \in Categories \cup {Top}}
BY NavigationAssumption DEF Is, There, NavigationTypeOK, PagesTyped, MenuTyped, CategoriesTyped

LEMMA PagesStep ==
    ASSUME NavigationTypeOK, NEW r \in Edits, Acts(r)
    PROVE  PagesTyped(page)'
<1>1. PagesTyped(page) /\ There(page) = {p \in Pages : page[p] \in Page}
  BY Rows DEF NavigationTypeOK
<1>2. CASE UNCHANGED page
  BY <1>1, <1>2
<1>3. CASE CreatePage(r) \/ UpdatePage(r)
  <2>1. PICK p \in Pages, s \in Slugs, changed \in Page :
            ~SlugTaken(p, s) /\ changed.slug = s /\ page' = [page EXCEPT ![p] = changed]
    <3>1. CASE CreatePage(r)
      <4>1. PICK p \in New(page), s \in Slugs : InsertPage(p, s)
        BY <3>1 DEF CreatePage
      <4>2. p \in Pages /\ [status |-> "draft", slug |-> s] \in Page
        BY <1>1 DEF New, PagesTyped, Page, PageStatuses
      <4> QED
        BY <4>1, <4>2 DEF InsertPage
    <3>2. CASE UpdatePage(r)
      <4>1. PICK p \in There(page), s \in Slugs :
                ~SlugTaken(p, s) /\ page' = [page EXCEPT ![p].slug = s]
        BY <3>2 DEF UpdatePage
      <4>2. p \in Pages /\ page[p] \in Page
        BY <1>1
      <4>3. [page[p] EXCEPT !.slug = s] \in Page /\ [page[p] EXCEPT !.slug = s].slug = s
        BY <4>2 DEF Page
      <4>4. page' = [page EXCEPT ![p] = [page[p] EXCEPT !.slug = s]]
        BY <4>1
      <4> QED
        BY <4>1, <4>2, <4>3, <4>4
    <3> QED
      BY <1>3, <3>1, <3>2
  <2>2. page' \in [Pages -> Page \cup {Nothing, Gone}]
    BY <1>1, <2>1 DEF PagesTyped
  <2>3. /\ page'[p] = changed
        /\ \A q \in Pages : q # p => page'[q] = page[q]
    BY <1>1, <2>1 DEF PagesTyped
  <2>4. There(page') \subseteq There(page) \cup {p}
    BY <1>1, <2>2, <2>3 DEF There, PagesTyped
  <2>5. \A q \in There(page) : q # p => page[q].slug # changed.slug
    BY <2>1 DEF SlugTaken
  <2>6. \A q \in There(page') : q # p => page'[q].slug = page[q].slug
    BY <1>1, <2>3, <2>4
  <2> QED
    BY <1>1, <2>2, <2>3, <2>4, <2>5, <2>6 DEF PagesTyped
<1>4. CASE SetPageStatus(r)
  <2>1. /\ edit[r].page \in Pages /\ edit[r].to \in PageStatuses
        /\ MoveStatus(edit[r].page, edit[r].from, edit[r].to)
    BY <1>4, EditFields DEF SetPageStatus
  <2>2. ASSUME edit[r].page \in There(page),
               page' = [page EXCEPT ![edit[r].page].status = edit[r].to]
        PROVE  PagesTyped(page')
    <3> DEFINE p == edit[r].page
               changed == [page[p] EXCEPT !.status = edit[r].to]
    <3>1. changed \in Page /\ changed.slug = page[p].slug
      BY <1>1, <2>1, <2>2 DEF Page
    <3>2. page' = [page EXCEPT ![p] = changed]
      BY <2>2
    <3> HIDE DEF changed
    <3>3. page' \in [Pages -> Page \cup {Nothing, Gone}]
      BY <1>1, <3>1, <3>2 DEF PagesTyped
    <3>4. /\ There(page') \subseteq There(page)
          /\ \A q \in There(page) : page'[q].slug = page[q].slug
      BY <1>1, <2>2, <3>1, <3>2, <3>3 DEF There, PagesTyped
    <3> QED
      BY <1>1, <3>3, <3>4 DEF PagesTyped
  <2>3. Is(page[edit[r].page]) => edit[r].page \in There(page)
    BY <1>1, <2>1 DEF There, PagesTyped
  <2> QED
    BY <1>2, <2>1, <2>2, <2>3 DEF MoveStatus
<1>5. CASE DeleteMenusFor(r)
  <2>1. edit[r].page \in Pages /\ page' = [page EXCEPT ![edit[r].page] = Gone]
    BY <1>5, EditFields DEF DeleteMenusFor
  <2>2. page' \in [Pages -> Page \cup {Nothing, Gone}]
    BY <1>1, <2>1 DEF PagesTyped
  <2>3. \A q \in There(page') : q \in There(page) /\ page'[q] = page[q]
    BY <1>1, <2>1 DEF There, Is, PagesTyped
  <2> QED
    BY <1>1, <2>2, <2>3 DEF PagesTyped
<1> QED
  BY <1>2, <1>3, <1>4, <1>5
     DEF Acts, Fails, PagePublish, PageDelete, LiftMenuChildren, MenuCreate, MenuUpdate,
         UpdateMenuItem, MenuDelete, CategoryCreate, CategoryDelete, CategoryReparent,
         AdvisoryXactLock, Reparent, ReparentCommit, ProductSave, setProductCategories,
         DeleteProduct, navigation

\* An entry is made or changed: what was there stays, the rest of it as it was.
LEMMA ItemTyped ==
    ASSUME NavigationTypeOK, NEW e \in Entries, NEW item \in MenuItem,
           item.parent \in There(menu) \cup {Top}, menu' = [menu EXCEPT ![e] = item]
    PROVE  MenuTyped(menu') /\ There(menu) \subseteq There(menu')
<1>1. menu \in [Entries -> MenuItem \cup {Nothing, Gone}]
  BY DEF NavigationTypeOK, MenuTyped
<1>2. menu' \in [Entries -> MenuItem \cup {Nothing, Gone}]
  BY <1>1
<1>3. There(menu') = There(menu) \cup {e}
  BY <1>1, <1>2, Rows DEF There
<1>4. \A x \in There(menu') : menu'[x].parent \in There(menu) \cup {Top}
  <2>1. \A x \in There(menu) : menu[x].parent \in There(menu) \cup {Top}
    BY DEF NavigationTypeOK, MenuTyped
  <2>2. menu'[e] = item /\ \A x \in Entries \ {e} : menu'[x] = menu[x]
    BY <1>1
  <2>3. There(menu) \subseteq Entries
    BY <1>1 DEF There
  <2> QED
    BY <1>3, <2>1, <2>2, <2>3
<1> QED
  BY <1>2, <1>3, <1>4 DEF MenuTyped

\* The menu as a deletion sees it has the entries that are there, where they are named.
LEMMA LiftedTyped ==
    ASSUME NavigationTypeOK, LiftsHeld, NEW r \in Edits, Doing(r, "lifted")
    PROVE  /\ MenuTyped(Lifted(r)) /\ There(Lifted(r)) = There(menu)
           /\ \A e \in DOMAIN edit[r].lift : Lifted(r)[e] = [menu[e] EXCEPT !.parent = edit[r].lift[e]]
           /\ \A e \in Entries \ DOMAIN edit[r].lift : Lifted(r)[e] = menu[e]
<1> DEFINE lift == edit[r].lift
           items == Lifted(r)
<1>1. /\ menu \in [Entries -> MenuItem \cup {Nothing, Gone}]
      /\ There(menu) = {e \in Entries : menu[e] \in MenuItem}
      /\ \A e \in There(menu) : menu[e].parent \in There(menu) \cup {Top}
  BY Rows DEF NavigationTypeOK, MenuTyped
<1>2. \A e \in DOMAIN lift : e \in There(menu) /\ lift[e] \in There(menu) \cup {Top}
  BY DEF LiftsHeld
<1>3. /\ \A e \in DOMAIN lift : items[e] = [menu[e] EXCEPT !.parent = lift[e]]
      /\ \A e \in Entries \ DOMAIN lift : items[e] = menu[e]
  BY <1>1, <1>2 DEF Lifted, There
<1>4. \A e \in DOMAIN lift : items[e] \in MenuItem /\ items[e].parent = lift[e]
  BY <1>1, <1>2, <1>3, ZenonT(60) DEF MenuItem
<1>5. items \in [Entries -> MenuItem \cup {Nothing, Gone}]
  <2>1. items = [e \in Entries |-> items[e]]
    BY DEF Lifted
  <2>2. \A e \in Entries : items[e] \in MenuItem \cup {Nothing, Gone}
    BY <1>1, <1>3, <1>4
  <2> HIDE DEF items
  <2> QED
    BY <2>1, <2>2
<1> HIDE DEF items
<1>6. There(items) = There(menu)
  BY <1>1, <1>2, <1>3, <1>4, <1>5, Rows DEF There
<1>7. MenuTyped(items)
  BY <1>1, <1>2, <1>3, <1>4, <1>5, <1>6 DEF MenuTyped, There
<1> QED
  BY <1>3, <1>6, <1>7 DEF items

LEMMA MenuStep ==
    ASSUME NavigationTypeOK, LiftsHeld, NEW r \in Edits, Acts(r)
    PROVE  MenuTyped(menu)'
<1>1. CASE UNCHANGED menu
  BY <1>1 DEF NavigationTypeOK
<1>2. CASE MenuCreate(r)
  <2>1. PICK e \in New(menu), item \in MenuItem : CreateMenuItem(e, item)
    BY <1>2 DEF MenuCreate
  <2>2. e \in Entries
    BY DEF New, NavigationTypeOK, MenuTyped
  <2> QED
    BY <2>1, <2>2, ItemTyped DEF CreateMenuItem
<1>3. CASE UpdateMenuItem(r)
  <2>1. edit[r].entry \in Entries /\ edit[r].item \in MenuItem
    BY <1>3, EditFields DEF UpdateMenuItem
  <2> QED
    BY <1>1, <1>3, <2>1, ItemTyped DEF UpdateMenuItem
<1>4. CASE MenuDelete(r)
  <2>1. PICK e \in There(menu) : menu' = Without(menu, {e})
    BY <1>4 DEF MenuDelete
  <2>2. {e} \in SUBSET Entries
    BY DEF There, NavigationTypeOK, MenuTyped
  <2> QED
    BY <2>1, <2>2, WithoutTyped DEF NavigationTypeOK
<1>5. CASE DeleteMenusFor(r)
  <2>1. Pointing(edit[r].page) \in SUBSET Entries
    BY DEF Pointing
  <2> QED
    BY <1>5, <2>1, LiftedTyped, WithoutTyped DEF DeleteMenusFor
<1> QED
  BY <1>1, <1>2, <1>3, <1>4, <1>5
     DEF Acts, Fails, CreatePage, UpdatePage, PagePublish, SetPageStatus, PageDelete,
         LiftMenuChildren, MenuUpdate, CategoryCreate, CategoryDelete, CategoryReparent,
         AdvisoryXactLock, Reparent, ReparentCommit, ProductSave, setProductCategories,
         DeleteProduct, navigation

LEMMA CatalogueStep ==
    ASSUME NavigationTypeOK, NEW r \in Edits, Acts(r)
    PROVE  /\ CategoriesTyped(category)' /\ TagsTyped(tags, category)'
           /\ (advisory \in Edits \cup {Nothing})'
<1>1. /\ CategoriesTyped(category) /\ TagsTyped(tags, category)
      /\ There(category) = {c \in Categories : category[c] \in Categories \cup {Top}}
  BY Rows DEF NavigationTypeOK
<1>2. CASE UNCHANGED <<category, tags>>
  <2>1. (advisory \in Edits \cup {Nothing})'
    BY <1>2 DEF Acts, Fails, CreatePage, UpdatePage, PagePublish, SetPageStatus, PageDelete,
                LiftMenuChildren, DeleteMenusFor, MenuCreate, MenuUpdate, UpdateMenuItem,
                MenuDelete, CategoryCreate, CategoryDelete, CategoryReparent, AdvisoryXactLock,
                Reparent, ReparentCommit, ProductSave, setProductCategories, DeleteProduct,
                catalogue, NavigationTypeOK
  <2> QED
    BY <1>1, <1>2, <2>1
<1>3. CASE CategoryCreate(r)
  <2>1. PICK n \in New(category), up \in Categories \cup {Top} : InsertCategory(n, up)
    BY <1>3 DEF CategoryCreate
  <2>2. n \in Categories /\ n \notin There(category)
    BY <1>1 DEF New, There, Is, CategoriesTyped
  <2>3. category' \in [Categories -> Categories \cup {Top, Nothing, Gone}]
    BY <1>1, <2>1 DEF InsertCategory, CategoriesTyped
  <2>4. /\ There(category') = There(category) \cup {n}
        /\ category'[n] = up /\ \A c \in Categories \ {n} : category'[c] = category[c]
    BY <1>1, <2>1, <2>2, <2>3, Rows DEF InsertCategory, There, CategoriesTyped
  <2>5. CategoriesTyped(category')
    BY <1>1, <2>1, <2>2, <2>3, <2>4 DEF CategoriesTyped, InsertCategory
  <2>6. UNCHANGED <<tags, advisory>>
    BY <1>3 DEF CategoryCreate
  <2> QED
    BY <1>1, <2>4, <2>5, <2>6 DEF TagsTyped, NavigationTypeOK
<1>4. CASE CategoryDelete(r)
  <2>1. PICK d \in There(category) : DeleteCategory(d)
    BY <1>4 DEF CategoryDelete
  <2>2. category' \in [Categories -> Categories \cup {Top, Nothing, Gone}]
    BY <1>1, <2>1 DEF DeleteCategory, CategoriesTyped
  <2>3. /\ There(category') = There(category) \ {d}
        /\ \A c \in There(category') : category'[c] = category[c]
    BY <1>1, <2>1, <2>2 DEF DeleteCategory, There, Is, CategoriesTyped
  <2>4. CategoriesTyped(category')
    BY <1>1, <2>1, <2>2, <2>3 DEF CategoriesTyped, DeleteCategory
  <2>5. UNCHANGED <<tags, advisory>>
    BY <1>4 DEF CategoryDelete
  <2>6. \A p \in There(tags) : tags[p] \subseteq There(category')
    BY <1>1, <2>1, <2>3 DEF TagsTyped, DeleteCategory
  <2>7. TagsTyped(tags, category')
    BY <1>1, <2>6 DEF TagsTyped
  <2> QED
    BY <2>4, <2>5, <2>7 DEF NavigationTypeOK
<1>5. CASE ReparentCommit(r)
  <2> DEFINE c == edit[r].child
             up == edit[r].parent
  <2>1. /\ c \in Categories /\ up \in Categories \cup {Top}
        /\ SetCategoryParent(c, up) /\ advisory' = Nothing /\ tags' = tags
    BY <1>5, EditFields DEF ReparentCommit, Doing
  <2>2. CASE category' = category
    BY <1>1, <2>1, <2>2
  <2>3. CASE category' = [category EXCEPT ![c] = up] /\ Is(category[c])
    <3>1. category' \in [Categories -> Categories \cup {Top, Nothing, Gone}]
      BY <1>1, <2>1, <2>3 DEF CategoriesTyped
    <3>2. c \in There(category)
      BY <1>1, <2>1, <2>3 DEF There, CategoriesTyped
    <3>3. /\ There(category') = There(category)
          /\ category'[c] = up /\ \A x \in Categories \ {c} : category'[x] = category[x]
      BY <1>1, <2>1, <2>3, <3>1, <3>2, Rows DEF There, CategoriesTyped
    <3>4. CategoriesTyped(category')
      BY <1>1, <2>1, <3>1, <3>3 DEF CategoriesTyped, SetCategoryParent
    <3> QED
      BY <1>1, <2>1, <3>3, <3>4 DEF TagsTyped
  <2> QED
    BY <2>1, <2>2, <2>3 DEF SetCategoryParent
<1>6. CASE setProductCategories(r)
  BY <1>1, <1>6, EditFields
     DEF setProductCategories, AddProductCategories, TagsTyped, There, NavigationTypeOK
<1>7. CASE DeleteProduct(r)
  BY <1>1, <1>7 DEF DeleteProduct, TagsTyped, There, Is, NavigationTypeOK
<1> QED
  BY <1>2, <1>3, <1>4, <1>5, <1>6, <1>7
     DEF Acts, Fails, CreatePage, UpdatePage, PagePublish, SetPageStatus, PageDelete,
         LiftMenuChildren, DeleteMenusFor, MenuCreate, MenuUpdate, UpdateMenuItem, MenuDelete,
         CategoryReparent, AdvisoryXactLock, Reparent, ProductSave, catalogue

LEMMA NavigationTypesStep ==
    NavigationTypeOK /\ LiftsHeld /\ [NavigationNext]_navigationVars => NavigationTypeOK'
<1> SUFFICES ASSUME NavigationTypeOK, LiftsHeld, [NavigationNext]_navigationVars
             PROVE  NavigationTypeOK'
  OBVIOUS
<1>1. ASSUME NEW r \in Edits, Acts(r) PROVE NavigationTypeOK'
  <2>1. PICK what : Becomes(r, what)
    BY <1>1, EditStep
  <2>2. (edit \in [Edits -> Edit])'
    BY <2>1, Turns
  <2> QED
    BY <1>1, <2>2, PagesStep, MenuStep, CatalogueStep DEF NavigationTypeOK
<1>2. CASE UNCHANGED navigationVars
  BY <1>2 DEF navigationVars, NavigationTypeOK
<1> QED
  BY <1>1, <1>2 DEF NavigationNext, Acts

-----------------------------------------------------------------------------
(* Categories                                                                *)

LEMMA CategoriesRooted ==
    ASSUME NEW parents, CategoriesTyped(parents)
    PROVE  Forest([c \in There(parents) |-> parents[c]]) <=>
             \A W \in SUBSET There(parents) : W # {} => \E c \in W : parents[c] \notin W
<1> DEFINE tree == [c \in There(parents) |-> parents[c]]
<1>1. Top \notin DOMAIN tree
  BY Rows DEF There, CategoriesTyped
<1>2. \A c \in DOMAIN tree : tree[c] \in DOMAIN tree \cup {Top}
  BY DEF CategoriesTyped
<1>3. DOMAIN tree = There(parents) /\ \A c \in There(parents) : tree[c] = parents[c]
  OBVIOUS
<1> HIDE DEF tree
<1>4. Forest(tree) <=>
        \A W \in SUBSET DOMAIN tree : W # {} => \E c \in W : tree[c] \notin W
  BY <1>1, <1>2, Rooted
<1>5. Forest(tree) <=>
        \A W \in SUBSET There(parents) : W # {} => \E c \in W : parents[c] \notin W
  BY <1>3, <1>4
<1> QED
  BY <1>5 DEF tree

\* A category is made, or one that is nobody's parent is deleted: what was apart still
\* is, and the tree a forest.
LEMMA Grown ==
    ASSUME NavigationTypeOK, CategoriesTyped(category'), Forest(categoryParents),
           NEW n \in New(category), NEW up \in Categories \cup {Top}, InsertCategory(n, up)
    PROVE  /\ Forest(categoryParents)'
           /\ \A c \in Categories, parent \in Categories \cup {Top} :
                Apart(c, parent) => Apart(c, parent)'
<1>1. /\ CategoriesTyped(category)
      /\ There(category) = {c \in Categories : category[c] \in Categories \cup {Top}}
  BY Rows DEF NavigationTypeOK
<1>2. n \in Categories /\ n \notin There(category) /\ category[n] = Nothing /\ n # Top
  BY <1>1, Rows DEF New, There, Is, CategoriesTyped
<1>3. /\ There(category') = There(category) \cup {n}
      /\ category'[n] = up /\ \A c \in Categories \ {n} : category'[c] = category[c]
      /\ up \in There(category) \cup {Top}
      /\ There(category) \subseteq Categories
      /\ \A c \in There(category) : category[c] \in There(category) \cup {Top}
  BY <1>1, <1>2, Rows DEF InsertCategory, There, CategoriesTyped
<1>4. ASSUME NEW W \in SUBSET There(category'), W # {} PROVE \E c \in W : category'[c] \notin W
  <2>1. CASE W = {n}
    BY <1>2, <1>3, <2>1
  <2>2. CASE W \ {n} # {}
    <3>1. PICK c \in W \ {n} : category[c] \notin W \ {n}
      BY <1>1, <1>3, <2>2, CategoriesRooted DEF categoryParents
    <3> QED
      BY <1>2, <1>3, <3>1
  <2> QED
    BY <1>4, <2>1, <2>2
<1>5. Forest(categoryParents)'
  BY <1>4, CategoriesRooted DEF categoryParents
<1>6. ASSUME NEW c \in Categories, NEW parent \in Categories \cup {Top}, Apart(c, parent)
      PROVE  Apart(c, parent)'
  <2>1. PICK cs \in SUBSET Categories :
            c \in cs /\ parent \notin cs /\ Closed(categoryParents, cs)
    BY <1>6 DEF Apart
  <2>2. \A x \in There(category) : category[x] \in cs => x \in cs
    BY <2>1 DEF Closed, categoryParents
  <2> DEFINE more == IF up \in cs THEN cs \cup {n} ELSE cs
  <2>3. parent # n
    BY <1>2, <1>6 DEF Apart
  <2>4. more \in SUBSET Categories /\ c \in more /\ parent \notin more
    BY <1>2, <2>1, <2>3
  <2>5. \A x \in There(category') : category'[x] \in more => x \in more
    BY <1>2, <1>3, <2>2
  <2>6. Closed(categoryParents', more)
    BY <2>5 DEF Closed, categoryParents
  <2>7. parent # Top => category'[parent] # Nothing
    BY <1>3, <1>6, <2>3 DEF Apart
  <2> QED
    BY <2>4, <2>6, <2>7 DEF Apart
<1> QED
  BY <1>5, <1>6

LEMMA Pruned ==
    ASSUME NavigationTypeOK, CategoriesTyped(category'), Forest(categoryParents),
           NEW d \in There(category), DeleteCategory(d)
    PROVE  /\ Forest(categoryParents)'
           /\ \A c \in Categories, parent \in Categories \cup {Top} :
                Apart(c, parent) => Apart(c, parent)'
<1>1. CategoriesTyped(category) /\ d \in Categories
  BY DEF NavigationTypeOK, There, CategoriesTyped
<1>2. /\ There(category') = There(category) \ {d}
      /\ \A c \in Categories : category'[c] = IF c = d THEN Gone ELSE category[c]
  BY <1>1 DEF DeleteCategory, There, Is, CategoriesTyped
<1>3. ASSUME NEW W \in SUBSET There(category'), W # {} PROVE \E c \in W : category'[c] \notin W
  <2>1. PICK c \in W : category[c] \notin W
    BY <1>1, <1>2, <1>3, CategoriesRooted DEF categoryParents
  <2>2. c # d /\ c \in Categories
    BY <1>1, <1>2, <2>1 DEF There, CategoriesTyped
  <2> QED
    BY <1>2, <2>1, <2>2
<1>4. Forest(categoryParents)'
  BY <1>3, CategoriesRooted DEF categoryParents
<1>5. ASSUME NEW c \in Categories, NEW parent \in Categories \cup {Top}, Apart(c, parent)
      PROVE  Apart(c, parent)'
  <2>1. PICK cs \in SUBSET Categories :
            c \in cs /\ parent \notin cs /\ Closed(categoryParents, cs)
    BY <1>5 DEF Apart
  <2>2. \A x \in There(category) : category[x] \in cs => x \in cs
    BY <2>1 DEF Closed, categoryParents
  <2>3. \A x \in There(category') : category'[x] = category[x]
    BY <1>1, <1>2 DEF There, CategoriesTyped
  <2>4. Closed(categoryParents', cs)
    BY <1>2, <2>2, <2>3 DEF Closed, categoryParents
  <2>5. parent # Top => category'[parent] # Nothing
    BY <1>2, <1>5, NavigationAssumption DEF Apart
  <2> QED
    BY <2>1, <2>4, <2>5 DEF Apart
<1> QED
  BY <1>4, <1>5

\* A move puts a category where nothing hangs under it.
LEMMA Moved ==
    ASSUME NavigationTypeOK, CategoriesTyped(category'), Forest(categoryParents),
           NEW c \in Categories, NEW parent \in Categories \cup {Top}, Apart(c, parent),
           SetCategoryParent(c, parent)
    PROVE  Forest(categoryParents)'
<1>1. CategoriesTyped(category)
  BY DEF NavigationTypeOK
<1>2. CASE category' = category
  BY <1>2 DEF categoryParents
<1>3. CASE category' = [category EXCEPT ![c] = parent] /\ Is(category[c])
  <2>1. /\ There(category') = There(category)
        /\ category'[c] = parent /\ \A x \in Categories \ {c} : category'[x] = category[x]
    BY <1>1, <1>3, Rows DEF There, CategoriesTyped
  <2>2. PICK cs \in SUBSET Categories :
            c \in cs /\ parent \notin cs /\ Closed(categoryParents, cs)
    BY DEF Apart
  <2>3. \A x \in There(category) : category[x] \in cs => x \in cs
    BY <2>2 DEF Closed, categoryParents
  <2>4. ASSUME NEW W \in SUBSET There(category'), W # {}, \A x \in W : category'[x] \in W
        PROVE  FALSE
    <3>1. W \subseteq There(category) /\ There(category) \subseteq Categories
      BY <1>1, <2>1 DEF There, CategoriesTyped
    <3>2. CASE c \notin W
      <4>1. PICK x \in W : category[x] \notin W
        BY <1>1, <2>4, <3>1, CategoriesRooted DEF categoryParents
      <4> QED
        BY <2>1, <2>4, <3>1, <3>2, <4>1
    <3>3. CASE c \in W
      <4>1. parent \in W \ cs
        BY <2>1, <2>2, <2>4, <3>3
      <4>2. PICK x \in W \ cs : category[x] \notin W \ cs
        BY <1>1, <3>1, <4>1, CategoriesRooted DEF categoryParents
      <4>3. category[x] \in W
        BY <2>1, <2>2, <2>4, <3>1, <4>2
      <4> QED
        BY <2>3, <3>1, <4>2, <4>3
    <3> QED
      BY <3>2, <3>3
  <2> QED
    BY <2>4, CategoriesRooted DEF categoryParents
<1> QED
  BY <1>2, <1>3 DEF SetCategoryParent

\* A step leaves the tree alone, grows it, prunes it, or is the one move past its check.
LEMMA TreeSteps ==
    ASSUME NavigationTypeOK, Forest(categoryParents), CategoriesTyped(category'),
           MovesAlone, MovesSound, NEW r \in Edits, Acts(r)
    PROVE  /\ Forest(categoryParents)'
           /\ \/ Doing(r, "place") /\ advisory = r
              \/ \A c \in Categories, parent \in Categories \cup {Top} :
                    Apart(c, parent) => Apart(c, parent)'
<1>1. CASE UNCHANGED category
  BY <1>1 DEF categoryParents, Apart
<1>2. CASE CategoryCreate(r)
  BY <1>2, Grown DEF CategoryCreate
<1>3. CASE CategoryDelete(r)
  BY <1>3, Pruned DEF CategoryDelete
<1>4. CASE ReparentCommit(r)
  <2>1. edit[r].child \in Categories /\ edit[r].parent \in Categories \cup {Top}
    BY <1>4, EditFields DEF ReparentCommit, Doing
  <2>2. Apart(edit[r].child, edit[r].parent) /\ advisory = r
    BY <1>4 DEF ReparentCommit, MovesSound, MovesAlone, Doing
  <2> QED
    BY <1>4, <2>1, <2>2, Moved DEF ReparentCommit
<1> QED
  BY <1>1, <1>2, <1>3, <1>4
     DEF Acts, Fails, CreatePage, UpdatePage, PagePublish, SetPageStatus, PageDelete,
         LiftMenuChildren, DeleteMenusFor, MenuCreate, MenuUpdate, UpdateMenuItem, MenuDelete,
         CategoryReparent, AdvisoryXactLock, Reparent, ProductSave, setProductCategories,
         DeleteProduct, catalogue

\* The check finds what the move needs.
LEMMA Judged ==
    ASSUME NavigationTypeOK, NEW c \in Categories, NEW parent \in Categories \cup {Top},
           CheckReparent(c, parent)
    PROVE  Apart(c, parent)
<1>1. /\ CategoriesTyped(category) /\ DOMAIN categoryParents = There(category)
      /\ There(category) \subseteq Categories
  BY DEF NavigationTypeOK, categoryParents, There, CategoriesTyped
<1> DEFINE cs == Under(categoryParents, {c})
<1>2. c \in cs /\ Closed(categoryParents, cs)
  BY UnderCloses
<1>3. cs \subseteq Categories
  BY <1>1 DEF Under
<1>4. parent \notin cs
  BY <1>1, <1>3, Rows DEF CheckReparent, Above
<1>5. parent # Top => category[parent] # Nothing
  BY <1>1 DEF CheckReparent, There, Is
<1> QED
  BY <1>2, <1>3, <1>4, <1>5 DEF Apart

\* Who a step makes hold the lock, and whom it leaves past his check.
LEMMA LockSteps ==
    ASSUME NavigationTypeOK, MovesAlone, NEW r \in Edits, Acts(r)
    PROVE  /\ \A q \in Edits \ {r} : edit[q].op \in {"judge", "place"} => advisory' = advisory
           /\ edit'[r].op \in {"judge", "place"} => advisory' = r
           /\ Doing(r, "place")' => Reparent(r) /\ category' = category
                /\ edit'[r].child = edit[r].child /\ edit'[r].parent = edit[r].parent
<1>1. PICK what : Becomes(r, what)
  BY EditStep
<1>2. edit'[r] = what /\ Nothing \notin Edits
  BY <1>1, Turns, NavigationAssumption
<1>3. \A q \in Edits \ {r} : edit[q].op \in {"judge", "place"} => advisory = q
  BY DEF MovesAlone
<1>4. CASE AdvisoryXactLock(r)
  <2>1. edit[r] \in [op : {"reparent"}, child : Categories, parent : Categories \cup {Top}]
    BY <1>4, EditFields DEF AdvisoryXactLock, Doing
  <2>2. advisory = Nothing /\ advisory' = r /\ edit' = [edit EXCEPT ![r] = [edit[r] EXCEPT !.op = "judge"]]
    BY <1>4 DEF AdvisoryXactLock, Turn
  <2>3. edit'[r].op = "judge"
    BY <2>1, <2>2 DEF NavigationTypeOK
  <2> QED
    BY <1>2, <1>3, <2>2, <2>3 DEF Doing
<1>5. CASE Reparent(r)
  <2>1. edit[r] \in [op : {"judge"}, child : Categories, parent : Categories \cup {Top}]
    BY <1>5, EditFields DEF Reparent, Doing
  <2>2. advisory' = advisory /\ category' = category
        /\ edit' = [edit EXCEPT ![r] = [edit[r] EXCEPT !.op = "place"]]
    BY <1>5 DEF Reparent, Turn, catalogue
  <2>3. edit'[r] = [edit[r] EXCEPT !.op = "place"]
    BY <2>2 DEF NavigationTypeOK
  <2>4. edit'[r].child = edit[r].child /\ edit'[r].parent = edit[r].parent
    BY <2>1, <2>3
  <2>5. advisory = r
    BY <1>5 DEF Reparent, MovesAlone, Doing
  <2> QED
    BY <1>5, <2>2, <2>4, <2>5
<1>6. CASE ReparentCommit(r)
  <2>1. advisory = r /\ edit'[r].op = "done"
    BY <1>1, <1>6, Turns DEF ReparentCommit, Over, Turn, MovesAlone, Doing, NavigationTypeOK
  <2> QED
    BY <1>3, <2>1 DEF Doing
<1>7. CASE Fails(r)
  <2>1. edit'[r].op = "done" /\ (advisory # r => advisory' = advisory)
    BY <1>7 DEF Fails, Over, Turn, NavigationTypeOK
  <2> QED
    BY <1>3, <2>1 DEF Doing
<1>8. CASE advisory' = advisory /\ edit'[r].op \notin {"judge", "place"}
  BY <1>8 DEF Doing
<1>9. Over(r) => edit'[r].op = "done"
  BY DEF Over, Turn, NavigationTypeOK
<1>10. CASE PagePublish(r) \/ PageDelete(r) \/ LiftMenuChildren(r) \/ MenuUpdate(r)
            \/ CategoryReparent(r) \/ ProductSave(r)
  <2>1. edit'[r].op \in {"move status", "delete page", "lifted", "update entry", "reparent", "tag"}
    <3>1. edit \in [Edits -> Edit]
      BY DEF NavigationTypeOK
    <3>2. ASSUME PagePublish(r) PROVE edit'[r].op = "move status"
      <4>1. PICK p \in There(page), to \in PageStatuses :
                    Turn(r, [op |-> "move status", page |-> p, from |-> PageStatus(p), to |-> to])
        BY <3>2 DEF PagePublish
      <4> QED
        BY <3>1, <4>1 DEF Turn
    <3>3. ASSUME PageDelete(r) PROVE edit'[r].op = "delete page"
      <4>1. PICK p \in There(page) : Turn(r, [op |-> "delete page", page |-> p])
        BY <3>3 DEF PageDelete
      <4> QED
        BY <3>1, <4>1 DEF Turn
    <3>4. ASSUME LiftMenuChildren(r) PROVE edit'[r].op = "lifted"
      <4>1. PICK x : Turn(r, [op |-> "lifted", page |-> edit[r].page, lift |-> x])
        BY <3>4 DEF LiftMenuChildren
      <4> QED
        BY <3>1, <4>1 DEF Turn
    <3>5. ASSUME MenuUpdate(r) PROVE edit'[r].op = "update entry"
      <4>1. PICK e \in There(menu), item \in MenuItem :
                    Turn(r, [op |-> "update entry", entry |-> e, item |-> item])
        BY <3>5 DEF MenuUpdate
      <4> QED
        BY <3>1, <4>1 DEF Turn
    <3>6. CategoryReparent(r) => edit'[r].op = "reparent"
      BY <3>1 DEF CategoryReparent, Turn
    <3>7. ProductSave(r) => edit'[r].op = "tag"
      BY <3>1 DEF ProductSave, Turn
    <3> QED
      BY <1>10, <3>2, <3>3, <3>4, <3>5, <3>6, <3>7
  <2>2. advisory' = advisory
    BY <1>10 DEF PagePublish, PageDelete, LiftMenuChildren, MenuUpdate, CategoryReparent,
                 ProductSave, catalogue
  <2> QED
    BY <1>8, <2>1, <2>2
<1> QED
  BY <1>4, <1>5, <1>6, <1>7, <1>8, <1>9, <1>10
     DEF Acts, CreatePage, UpdatePage, SetPageStatus, DeleteMenusFor, MenuCreate,
         UpdateMenuItem, MenuDelete, CategoryCreate, CategoryDelete, setProductCategories,
         DeleteProduct, catalogue

LEMMA MovesStep ==
    ASSUME NavigationTypeOK, MovesInv, CategoriesTyped(category'), NEW r \in Edits, Acts(r)
    PROVE  MovesInv'
<1>1. PICK what : Becomes(r, what)
  BY EditStep
<1>2. \A q \in Edits \ {r} : edit'[q] = edit[q]
  BY <1>1, Turns
<1>3. Forest(categoryParents)'
  BY TreeSteps DEF MovesInv
<1>4. MovesAlone'
  BY <1>2, LockSteps DEF MovesInv, MovesAlone
<1>5. ASSUME NEW q \in Edits \ {r}, Doing(q, "place")'
      PROVE  Apart(edit[q].child, edit[q].parent)'
  <2>1. Doing(q, "place") /\ advisory = q
    BY <1>2, <1>5 DEF Doing, MovesInv, MovesAlone
  <2>2. Apart(edit[q].child, edit[q].parent) /\ q # r
    BY <2>1 DEF MovesInv, MovesSound
  <2>3. edit[q].child \in Categories /\ edit[q].parent \in Categories \cup {Top}
    BY <2>1, EditFields DEF Doing
  <2>4. \A c \in Categories, parent \in Categories \cup {Top} :
            Apart(c, parent) => Apart(c, parent)'
    BY <2>1, <2>2, TreeSteps DEF MovesInv
  <2>5. edit'[q].child = edit[q].child /\ edit'[q].parent = edit[q].parent
    BY <1>2
  <2> HIDE DEF Apart
  <2> DEFINE c == edit[q].child
             parent == edit[q].parent
  <2>6. \E cs \in SUBSET Categories : c \in cs /\ parent \notin cs /\ Closed(categoryParents', cs)
    BY <2>2, <2>3, <2>4 DEF Apart
  <2>7. parent # Top => category'[parent] # Nothing
    BY <2>2, <2>3, <2>4 DEF Apart
  <2> QED
    BY <2>5, <2>6, <2>7 DEF Apart
<1>6. ASSUME Doing(r, "place")' PROVE Apart(edit[r].child, edit[r].parent)'
  <2>1. /\ Reparent(r) /\ category' = category
        /\ edit'[r].child = edit[r].child /\ edit'[r].parent = edit[r].parent
    BY <1>6, LockSteps DEF MovesInv
  <2>2. edit[r].child \in Categories /\ edit[r].parent \in Categories \cup {Top}
    BY <2>1, EditFields DEF Reparent, Doing
  <2>3. Apart(edit[r].child, edit[r].parent)
    BY <2>1, <2>2, Judged DEF Reparent
  <2> QED
    BY <2>1, <2>3 DEF Apart, categoryParents
<1>7. MovesSound'
  BY <1>5, <1>6 DEF MovesSound
<1> QED
  BY <1>3, <1>4, <1>7 DEF MovesInv

-----------------------------------------------------------------------------
(* Deleting a page                                                           *)

LEMMA LiftFields ==
    ASSUME NavigationTypeOK, NEW r \in Edits, Doing(r, "lifted")
    PROVE  /\ edit[r].page \in Pages /\ DOMAIN edit[r].lift \subseteq Entries
           /\ edit[r].lift \in [DOMAIN edit[r].lift -> Entries \cup {Top}]
<1>1. edit[r] \in [op : {"lifted"}, page : Pages, lift : Lifts]
  BY EditFields
<1>2. edit[r].page \in Pages /\ edit[r].lift \in Lifts
  BY <1>1
<1>3. PICK es \in SUBSET Entries : edit[r].lift \in [es -> Entries \cup {Top}]
  BY <1>2 DEF Lifts
<1> QED
  BY <1>2, <1>3

\* An entry another deletion needs is not deleted.
LEMMA NeededStays ==
    ASSUME NavigationTypeOK, LiftsHeld, NEW r \in Edits, Acts(r),
           NEW q \in Edits \ {r}, Doing(q, "lifted"), NEW e \in DOMAIN edit[q].lift,
           NEW x \in {e, edit[q].lift[e]}, x \in There(menu)
    PROVE  x \in There(menu')
<1>1. MenuTyped(menu) /\ x \in Entries /\ Kept(r, x)
  BY DEF NavigationTypeOK, There, MenuTyped, Kept
<1>2. CASE UNCHANGED menu
  BY <1>2
<1>3. CASE MenuCreate(r)
  <2>1. PICK n \in New(menu), item \in MenuItem : CreateMenuItem(n, item)
    BY <1>3 DEF MenuCreate
  <2>2. n \in Entries
    BY <1>1 DEF New, MenuTyped
  <2> QED
    BY <2>1, <2>2, ItemTyped DEF CreateMenuItem
<1>4. CASE UpdateMenuItem(r)
  <2>1. edit[r].entry \in Entries /\ edit[r].item \in MenuItem
    BY <1>4, EditFields DEF UpdateMenuItem
  <2> QED
    BY <1>2, <1>4, <2>1, ItemTyped DEF UpdateMenuItem
<1>5. CASE MenuDelete(r)
  <2>1. PICK n \in There(menu) :
            menu' = Without(menu, {n}) /\ \A y \in WithChildren(menu, {n}) : ~Kept(r, y)
    BY <1>5 DEF MenuDelete
  <2>2. {n} \in SUBSET Entries
    BY <1>1 DEF There, MenuTyped
  <2> QED
    BY <1>1, <2>1, <2>2, WithoutTyped, ZenonT(60)
<1>6. CASE DeleteMenusFor(r)
  <2>1. Pointing(edit[r].page) \in SUBSET Entries
    BY DEF Pointing
  <2>2. /\ Doing(r, "lifted") /\ menu' = Without(Lifted(r), Pointing(edit[r].page))
        /\ \A y \in WithChildren(Lifted(r), Pointing(edit[r].page)) : ~Kept(r, y)
    BY <1>6 DEF DeleteMenusFor
  <2>3. MenuTyped(Lifted(r)) /\ There(Lifted(r)) = There(menu)
    BY <2>2, LiftedTyped
  <2> QED
    BY <1>1, <2>1, <2>2, <2>3, WithoutTyped
<1> QED
  BY <1>2, <1>3, <1>4, <1>5, <1>6
     DEF Acts, Fails, CreatePage, UpdatePage, PagePublish, SetPageStatus, PageDelete,
         LiftMenuChildren, MenuUpdate, CategoryCreate, CategoryDelete, CategoryReparent,
         AdvisoryXactLock, Reparent, ReparentCommit, ProductSave, setProductCategories,
         DeleteProduct, navigation

\* Which request begins a deletion or a lift.
LEMMA DeletionSteps ==
    ASSUME NavigationTypeOK, NEW r \in Edits, Acts(r)
    PROVE  /\ Doing(r, "lifted")' =>
                /\ LiftMenuChildren(r)
                /\ edit'[r].page = edit[r].page /\ edit'[r].lift = LiftsOf(edit[r].page)
           /\ Doing(r, "delete page")' => PageDelete(r) /\ ~Deleting(edit'[r].page)
<1>1. edit \in [Edits -> Edit]
  BY DEF NavigationTypeOK
<1>2. CASE Over(r)
  BY <1>1, <1>2 DEF Over, Turn, Doing
<1>3. CASE PagePublish(r)
  <2>1. PICK p \in There(page), to \in PageStatuses :
            Turn(r, [op |-> "move status", page |-> p, from |-> PageStatus(p), to |-> to])
    BY <1>3 DEF PagePublish
  <2>2. edit'[r].op = "move status"
    BY <1>1, <2>1 DEF Turn
  <2> QED
    BY <2>2 DEF Doing
<1>4. CASE PageDelete(r)
  <2>1. PICK p \in There(page) : ~Deleting(p) /\ Turn(r, [op |-> "delete page", page |-> p])
    BY <1>4 DEF PageDelete
  <2>2. edit'[r].op = "delete page" /\ edit'[r].page = p
    BY <1>1, <2>1 DEF Turn
  <2> QED
    BY <1>4, <2>1, <2>2 DEF Doing
<1>5. CASE LiftMenuChildren(r)
  <2>1. Turn(r, [op |-> "lifted", page |-> edit[r].page, lift |-> LiftsOf(edit[r].page)])
    BY <1>5 DEF LiftMenuChildren
  <2>2. edit'[r] = [op |-> "lifted", page |-> edit[r].page, lift |-> LiftsOf(edit[r].page)]
    BY <1>1, <2>1 DEF Turn
  <2> QED
    BY <1>5, <2>2 DEF Doing
<1>6. CASE MenuUpdate(r)
  <2>1. PICK e \in There(menu), item \in MenuItem :
            Turn(r, [op |-> "update entry", entry |-> e, item |-> item])
    BY <1>6 DEF MenuUpdate
  <2>2. edit'[r].op = "update entry"
    BY <1>1, <2>1 DEF Turn
  <2> QED
    BY <2>2 DEF Doing
<1>7. CASE CategoryReparent(r) \/ ProductSave(r)
  <2>1. edit'[r].op \in {"reparent", "tag"}
    <3>1. ASSUME CategoryReparent(r) PROVE edit'[r].op = "reparent"
      BY <1>1, <3>1 DEF CategoryReparent, Turn
    <3>2. ASSUME ProductSave(r) PROVE edit'[r].op = "tag"
      BY <1>1, <3>2 DEF ProductSave, Turn
    <3> QED
      BY <1>7, <3>1, <3>2
  <2> QED
    BY <2>1 DEF Doing
<1>8. CASE AdvisoryXactLock(r) \/ Reparent(r)
  <2>1. edit[r] \in [op : {edit[r].op}, child : Categories, parent : Categories \cup {Top}]
    BY <1>8, EditFields DEF AdvisoryXactLock, Reparent, Doing
  <2>2. PICK to \in {"judge", "place"} : Turn(r, [edit[r] EXCEPT !.op = to])
    BY <1>8 DEF AdvisoryXactLock, Reparent
  <2>3. edit'[r] = [edit[r] EXCEPT !.op = to]
    BY <1>1, <2>2 DEF Turn
  <2>4. edit'[r].op = to
    BY <2>1, <2>3
  <2> QED
    BY <2>4 DEF Doing
<1> QED
  BY <1>2, <1>3, <1>4, <1>5, <1>6, <1>7, <1>8
     DEF Acts, Fails, CreatePage, UpdatePage, SetPageStatus, DeleteMenusFor, MenuCreate,
         UpdateMenuItem, MenuDelete, CategoryCreate, CategoryDelete, ReparentCommit,
         setProductCategories, DeleteProduct

LEMMA LiftsStep ==
    ASSUME NavigationTypeOK, LiftsHeld, NEW r \in Edits, Acts(r)
    PROVE  LiftsHeld'
<1>1. PICK what : Becomes(r, what)
  BY EditStep
<1>2. \A q \in Edits \ {r} : edit'[q] = edit[q]
  BY <1>1, Turns
<1>3. ASSUME NEW q \in Edits \ {r}, Doing(q, "lifted"), NEW e \in DOMAIN edit[q].lift
      PROVE  e \in There(menu') /\ edit[q].lift[e] \in There(menu') \cup {Top}
  <2>1. e \in There(menu) /\ edit[q].lift[e] \in There(menu) \cup {Top}
    BY <1>3 DEF LiftsHeld
  <2>2. e \in There(menu')
    BY <1>3, <2>1, NeededStays
  <2>3. edit[q].lift[e] \in There(menu) => edit[q].lift[e] \in There(menu')
    BY <1>3, NeededStays
  <2> QED
    BY <2>1, <2>2, <2>3
<1>4. ASSUME Doing(r, "lifted")'
      PROVE  \A e \in DOMAIN edit'[r].lift :
                e \in There(menu') /\ edit'[r].lift[e] \in There(menu') \cup {Top}
  <2>1. /\ LiftMenuChildren(r) /\ edit'[r].lift = LiftsOf(edit[r].page)
    BY <1>4, DeletionSteps
  <2>2. menu' = menu
    BY <2>1 DEF LiftMenuChildren, navigation
  <2> QED
    BY <2>1, <2>2, LiftsTyped
<1> QED
  BY <1>2, <1>3, <1>4 DEF LiftsHeld, Doing

LEMMA DeletesStep ==
    ASSUME NavigationTypeOK, OneDeletes, NEW r \in Edits, Acts(r)
    PROVE  OneDeletes'
<1>1. PICK what : Becomes(r, what)
  BY EditStep
<1>2. \A q \in Edits \ {r} : edit'[q] = edit[q]
  BY <1>1, Turns
<1>3. ASSUME NEW q \in Edits \ {r}, edit[q].op \in {"delete page", "lifted"},
             edit'[r].op \in {"delete page", "lifted"}, edit'[r].page = edit[q].page
      PROVE  FALSE
  <2>1. CASE edit'[r].op = "lifted"
    <3>1. edit[r].op = "delete page" /\ edit'[r].page = edit[r].page
      BY <2>1, DeletionSteps DEF Doing, LiftMenuChildren
    <3> QED
      BY <1>3, <3>1 DEF OneDeletes
  <2>2. CASE edit'[r].op = "delete page"
    BY <1>3, <2>2, DeletionSteps DEF Doing, Deleting
  <2> QED
    BY <1>3, <2>1, <2>2
<1>4. ASSUME NEW q \in Edits, NEW s \in Edits, q # s,
             edit'[q].op \in {"delete page", "lifted"}, edit'[s].op \in {"delete page", "lifted"},
             edit'[q].page = edit'[s].page
      PROVE  FALSE
  <2>1. CASE q # r /\ s # r
    BY <1>2, <1>4, <2>1 DEF OneDeletes
  <2>2. CASE q = r
    BY <1>2, <1>3, <1>4, <2>2
  <2>3. CASE s = r
    BY <1>2, <1>3, <1>4, <2>3
  <2> QED
    BY <2>1, <2>2, <2>3
<1> QED
  BY <1>4 DEF OneDeletes

-----------------------------------------------------------------------------
LEMMA NavigationStarts == NavigationInit => NavigationInv
<1> SUFFICES ASSUME NavigationInit PROVE NavigationInv
  OBVIOUS
<1>1. \A r \in Edits : edit[r].op = "new"
  BY DEF NavigationInit
<1>2. NavigationTypeOK
  <2>1. edit \in [Edits -> Edit]
    BY DEF NavigationInit, Edit
  <2> QED
    BY <2>1, NavigationAssumption DEF NavigationInit, NavigationTypeOK
<1>3. Forest(categoryParents)
  BY NavigationAssumption DEF NavigationInit, categoryParents
<1>4. MovesAlone /\ MovesSound /\ LiftsHeld /\ OneDeletes
  BY <1>1 DEF MovesAlone, MovesSound, LiftsHeld, OneDeletes, Doing
<1> QED
  BY <1>2, <1>3, <1>4 DEF NavigationInv, MovesInv

LEMMA NavigationStep == NavigationInv /\ [NavigationNext]_navigationVars => NavigationInv'
<1> SUFFICES ASSUME NavigationInv, [NavigationNext]_navigationVars PROVE NavigationInv'
  OBVIOUS
<1>1. NavigationTypeOK'
  BY NavigationTypesStep DEF NavigationInv
<1>2. ASSUME NEW r \in Edits, Acts(r) PROVE NavigationInv'
  <2>1. CategoriesTyped(category')
    BY <1>1 DEF NavigationTypeOK
  <2> QED
    BY <1>1, <1>2, <2>1, MovesStep, LiftsStep, DeletesStep DEF NavigationInv
<1>3. CASE UNCHANGED navigationVars
  BY <1>1, <1>3 DEF navigationVars, NavigationInv, MovesInv, MovesAlone, MovesSound, Apart,
                    categoryParents, LiftsHeld, OneDeletes, Doing
<1> QED
  BY <1>2, <1>3 DEF NavigationNext, Acts

THEOREM NavigationInductive == NavigationSpec => []NavigationInv
BY NavigationStarts, NavigationStep, PTL DEF NavigationSpec

\* Categories stay a forest however moves, creations and deletions interleave, and every
\* row what its keys say (category.go, commerce/store.go Reparent).
THEOREM CategoriesAcyclicSafe == NavigationSpec => []CategoriesAcyclic
<1>1. NavigationInv => CategoriesAcyclic
  BY DEF NavigationInv, MovesInv, CategoriesAcyclic
<1> QED
  BY <1>1, NavigationInductive, PTL

\* The deletion that makes a page go is the one that lifted, and it keeps what it lifted
\* out of what goes (content/store.go deleteWithMenus).
LEMMA Spares ==
    ASSUME NavigationInv, [NavigationNext]_navigationVars, NEW r \in Edits, Doing(r, "lifted"),
           page[edit[r].page] # page'[edit[r].page], page'[edit[r].page] = Gone,
           NEW e \in DOMAIN edit[r].lift, Spared(r, e)
    PROVE  Is(menu'[e]) /\ menu'[e].parent = edit[r].lift[e]
<1> DEFINE p == edit[r].page
<1>1. /\ NavigationTypeOK /\ LiftsHeld /\ OneDeletes /\ p \in Pages
      /\ page \in [Pages -> Page \cup {Nothing, Gone}]
      /\ There(page) = {x \in Pages : page[x] \in Page}
  BY LiftFields, Rows DEF NavigationInv, NavigationTypeOK, PagesTyped
<1>2. PICK q \in Edits : Acts(q)
  BY DEF navigationVars, NavigationNext, Acts
<1>3. ASSUME NEW x \in Pages, NEW changed \in Page, page' = [page EXCEPT ![x] = changed] PROVE FALSE
  BY <1>1, <1>3, NavigationAssumption
<1>4. ~CreatePage(q)
  <2>1. SUFFICES ASSUME CreatePage(q) PROVE FALSE
    OBVIOUS
  <2>2. PICK x \in New(page), s \in Slugs : InsertPage(x, s)
    BY <2>1 DEF CreatePage
  <2>3. x \in Pages /\ [status |-> "draft", slug |-> s] \in Page
    BY <1>1 DEF New, Page, PageStatuses
  <2> QED
    BY <1>3, <2>2, <2>3 DEF InsertPage
<1>5. ~UpdatePage(q)
  <2>1. SUFFICES ASSUME UpdatePage(q) PROVE FALSE
    OBVIOUS
  <2>2. PICK x \in There(page), s \in Slugs : page' = [page EXCEPT ![x].slug = s]
    BY <2>1 DEF UpdatePage
  <2>3. x \in Pages /\ [page[x] EXCEPT !.slug = s] \in Page
    BY <1>1 DEF Page
  <2>4. page' = [page EXCEPT ![x] = [page[x] EXCEPT !.slug = s]]
    BY <2>2
  <2> QED
    BY <1>3, <2>3, <2>4
<1>6. ~SetPageStatus(q)
  <2>1. SUFFICES ASSUME SetPageStatus(q) PROVE FALSE
    OBVIOUS
  <2>2. /\ edit[q].page \in Pages /\ edit[q].to \in PageStatuses
        /\ MoveStatus(edit[q].page, edit[q].from, edit[q].to)
    BY <2>1, <1>1, EditFields DEF SetPageStatus
  <2> DEFINE x == edit[q].page
             changed == [page[x] EXCEPT !.status = edit[q].to]
  <2>3. Is(page[x]) /\ page' = [page EXCEPT ![x] = changed]
    BY <2>2 DEF MoveStatus
  <2>4. changed \in Page
    BY <1>1, <2>2, <2>3 DEF Page, Is
  <2> HIDE DEF changed
  <2> QED
    BY <1>3, <2>2, <2>3, <2>4
<1>7. DeleteMenusFor(q)
  BY <1>2, <1>4, <1>5, <1>6
     DEF Acts, Fails, PagePublish, PageDelete, LiftMenuChildren, MenuCreate, MenuUpdate,
         UpdateMenuItem, MenuDelete, CategoryCreate, CategoryDelete, CategoryReparent,
         AdvisoryXactLock, Reparent, ReparentCommit, ProductSave, setProductCategories,
         DeleteProduct, navigation
<1>8. edit[q].page = p
  BY <1>1, <1>7 DEF DeleteMenusFor
<1>9. q = r
  BY <1>1, <1>7, <1>8 DEF OneDeletes, DeleteMenusFor, Doing
<1>10. /\ MenuTyped(Lifted(r)) /\ There(Lifted(r)) = There(menu)
       /\ Lifted(r)[e] = [menu[e] EXCEPT !.parent = edit[r].lift[e]]
  BY <1>1, LiftedTyped
<1>11. Pointing(p) \in SUBSET Entries /\ menu' = Without(Lifted(r), Pointing(p))
  BY <1>7, <1>9 DEF Pointing, DeleteMenusFor
<1>12. e \in There(menu) \ WithChildren(Lifted(r), Pointing(p)) /\ menu[e] \in MenuItem
  BY <1>1, Rows DEF LiftsHeld, Spared
<1>13. e \in There(menu') /\ menu'[e] = Lifted(r)[e]
  BY <1>10, <1>11, <1>12, WithoutTyped
<1> QED
  BY <1>10, <1>12, <1>13 DEF There, MenuItem

THEOREM DeletionSparesSafe == NavigationSpec => DeletionSparesMenus
<1>1. NavigationInv /\ [NavigationNext]_navigationVars =>
        [\A r \in Edits :
            Doing(r, "lifted") /\ page[edit[r].page] # page'[edit[r].page] /\ page'[edit[r].page] = Gone =>
            \A e \in DOMAIN edit[r].lift : Spared(r, e) =>
                Is(menu'[e]) /\ menu'[e].parent = edit[r].lift[e]]_navigationVars
  BY Spares
<1> QED
  BY <1>1, NavigationInductive, PTL DEF NavigationSpec, DeletionSparesMenus
================================================================================
