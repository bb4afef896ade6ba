-------------------------------- MODULE Content --------------------------------
(***************************************************************************)
(* One board: its posts, the remembered count of them, their comments,     *)
(* their attachments and the files these name, in the upload directory or  *)
(* in a bucket (internal/content, app/handler_board.go, handler_comment.go *)
(* and handler_attachment.go, admin/handlers_board.go and                  *)
(* handlers_storage.go).                                                   *)
(*                                                                         *)
(* A row and its file are written by different systems, in no transaction; *)
(* a count is remembered in the process, a post in the database.  Each     *)
(* statement, file operation and lock of a request is a step: between two  *)
(* of them other requests take theirs, or the process dies.                *)
(*                                                                         *)
(* Who may read and write what is the subject of Roles.  A comment's post  *)
(* and parent never change: they are constants of its name.                *)
(***************************************************************************)
EXTENDS Integers, FiniteSets

CONSTANTS
    Posts,
    Comments, On, Parent,  \* comments that may be written, the post and the parent they name
    Files,        \* bound: stored_path names, a fresh UUID each
    Requests,     \* bound: requests in flight
    MaxPerPost,   \* A-309: attachments of one post
    None

ASSUME ContentAssumption ==
    /\ IsFiniteSet(Posts)
    /\ None \notin Posts \cup Comments \cup Files
    /\ On \in [Comments -> Posts]
    /\ Parent \in [Comments -> Comments \cup {None}]
    /\ MaxPerPost \in Nat \ {0}

VARIABLES
    board,      \* "none" before it is made, "open", "closed" to comments and attachments, "gone"
    post,       \* posts: "none" before it is written, "gone" once deleted
    comment,    \* comments: "removed" is the tombstone, an empty body under its replies
    row,        \* attachments: the post of each file's row, None without a row
    used,       \* names given out
    local,      \* files in upload_dir
    bucket,     \* objects in the bucket
    backend,    \* storage settings: no bucket, "local" or "s3" for new files
    counts,     \* postCounts: the remembered count, None when there is none
    req         \* requests in flight

vars == <<board, post, comment, row, used, local, bucket, backend, counts, req>>
rows  == <<board, post, comment, row>>
files == <<used, local, bucket>>

Idle == [op |-> "idle"]
Request ==
    {Idle}
    \cup [op : {"counting"}, fresh : BOOLEAN]
    \cup [op : {"counted"}, fresh : BOOLEAN, n : 0..Cardinality(Posts)]
    \cup [op : {"reset"}, post : Posts \cup {None}, files : SUBSET Files]
    \cup [op : {"uploading", "storing"}, post : Posts]
    \cup [op : {"stored", "put", "sent"}, post : Posts \cup {None}, file : Files, s3 : BOOLEAN]
    \cup [op : {"delete post"}, post : Posts, files : SUBSET Files]
    \cup [op : {"delete board"}, force : BOOLEAN, files : SUBSET Files]
    \cup [op : {"delete file", "open", "open remote"}, file : Files]
    \cup [op : {"remove"}, files : SUBSET Files]
    \cup [op : {"reply", "edit", "delete comment", "tombstone"}, comment : Comments]

BoardBySlug == board \in {"open", "closed"}
Standing == {p \in Posts : post[p] \in {"published", "hidden"}}
Threaded == {c \in Comments : comment[c] \in {"live", "removed"}}

TypeOK ==
    /\ board \in {"none", "open", "closed", "gone"} /\ backend \in {"none", "local", "s3"}
    /\ post \in [Posts -> {"none", "published", "hidden", "gone"}]
    /\ comment \in [Comments -> {"none", "live", "removed", "gone"}]
    /\ row \in [Files -> Posts \cup {None}]
    /\ used \subseteq Files /\ local \subseteq used /\ bucket \subseteq used
    /\ counts \in 0..Cardinality(Posts) \cup {None}
    /\ req \in [Requests -> Request]
    \* Foreign keys.
    /\ ~BoardBySlug => Standing = {}
    /\ \A f \in Files : row[f] \in Standing \cup {None}
    /\ \A c \in Threaded : On[c] \in Standing /\ Parent[c] \in Threaded \cup {None}

Init ==
    /\ board = "none"
    /\ post = [p \in Posts |-> "none"]
    /\ comment = [c \in Comments |-> "none"]
    /\ row = [f \in Files |-> None]
    /\ used = {} /\ local = {} /\ bucket = {}
    /\ backend = "none"
    /\ counts = None
    /\ req = [r \in Requests |-> Idle]

Start(r, what) == req' = [req EXCEPT ![r] = what]
Done(r) == Start(r, Idle)
At(r, op) == req[r].op = op

\* A step's error path that only returns; a request may also be cut here.
Abandon(r) ==
    /\ req[r].op \in {"counting", "uploading", "storing", "sent", "delete file", "open",
                      "open remote", "reply", "edit", "delete comment", "tombstone"}
    /\ Done(r)
    /\ UNCHANGED <<rows, files, backend, counts>>

-----------------------------------------------------------------------------
(* The board, and the count of its published posts (P-203).  Definitions     *)
(* commented "Mutant" are used by no other: each is a plausible bug of the   *)
(* one that follows it.                                                      *)

\* A slug, once taken, is the board's; its grants come with it.
CreateBoard(settings) == board = "none" /\ board' = settings
UpdateBoard(settings) == BoardBySlug /\ board' = settings
BoardSave(r, settings) ==
    /\ req[r] = Idle
    /\ CreateBoard(settings) \/ UpdateBoard(settings)
    /\ UNCHANGED <<post, comment, row, files, backend, counts, req>>

\* Page by page, the posts a visitor may see listed; the number of them.
ListPosts  == {p \in Posts : post[p] = "published"}
CountPosts == Cardinality({p \in Posts : post[p] = "published"})

\* get: the generation it hands out is kept as `fresh`, no reset since.
get(r) ==
    /\ req[r] = Idle /\ BoardBySlug
    /\ counts = None
    /\ Start(r, [op |-> "counting", fresh |-> TRUE])
    /\ UNCHANGED <<rows, files, backend, counts>>
boardList(r) ==
    /\ At(r, "counting")
    /\ Start(r, [op |-> "counted", fresh |-> req[r].fresh, n |-> CountPosts])
    /\ UNCHANGED <<rows, files, backend, counts>>
\* Mutant: the count is stored whatever was written meanwhile.
putAlways(r) ==
    /\ At(r, "counted")
    /\ counts' = req[r].n
    /\ Done(r)
    /\ UNCHANGED <<rows, files, backend>>
put(r) ==
    /\ At(r, "counted")
    /\ counts' = IF req[r].fresh THEN req[r].n ELSE counts
    /\ Done(r)
    /\ UNCHANGED <<rows, files, backend>>
\* countTTL.
Expire ==
    /\ counts # None
    /\ counts' = None
    /\ UNCHANGED <<rows, files, backend, req>>

\* reset, deferred by every write below: it runs after the statement, also when
\* that failed.  What the handler still has to do comes after it.
Reset(r, p, fs) == Start(r, [op |-> "reset", post |-> p, files |-> fs])
AfterReset(q) ==
    IF q.post # None THEN [op |-> "uploading", post |-> q.post]
    ELSE IF q.files # {} THEN [op |-> "remove", files |-> q.files]
    ELSE Idle
reset(r) ==
    /\ At(r, "reset")
    /\ counts' = None
    /\ req' = [q \in Requests |->
                 IF q = r THEN AfterReset(req[q])
                 ELSE IF req[q].op \in {"counting", "counted"} THEN [req[q] EXCEPT !.fresh = FALSE]
                 ELSE req[q]]
    /\ UNCHANGED <<rows, files, backend>>

-----------------------------------------------------------------------------
(* Posts: P-205 to P-207, A-307, A-305                                       *)

\* A write that failed, or found no row: nothing changed, the counts are reset.
WriteFails(r) ==
    /\ \/ req[r] = Idle /\ BoardBySlug
       \/ req[r].op \in {"delete post", "delete board"}
    /\ Reset(r, None, {})
    /\ UNCHANGED <<rows, files, backend, counts>>

CreatePost(p) == BoardBySlug /\ post[p] = "none" /\ post' = [post EXCEPT ![p] = "published"]
postCreate(r, p) ==
    /\ req[r] = Idle
    /\ CreatePost(p)
    /\ Reset(r, IF board = "open" THEN p ELSE None, {})
    /\ UNCHANGED <<board, comment, row, files, backend, counts>>
\* A new title, body or cover: nothing the counts or the files depend on.
UpdatePost(p) == p \in Standing
postUpdate(r, p) ==
    /\ req[r] = Idle
    /\ UpdatePost(p) /\ board = "open"
    /\ Start(r, [op |-> "uploading", post |-> p])
    /\ UNCHANGED <<rows, files, backend, counts>>
SetPostFlags(p, status) == p \in Standing /\ post' = [post EXCEPT ![p] = status]
PostModerate(r, p, status) ==
    /\ req[r] = Idle
    /\ SetPostFlags(p, status)
    /\ Reset(r, None, {})
    /\ UNCHANGED <<board, comment, row, files, backend, counts>>

\* The rows that go with the posts ps (ON DELETE CASCADE).
Cascade(ps) ==
    /\ post' = [p \in Posts |-> IF p \in ps \cap Standing THEN "gone" ELSE post[p]]
    /\ comment' = [c \in Comments |-> IF On[c] \in ps /\ c \in Threaded THEN "gone" ELSE comment[c]]
    /\ row' = [f \in Files |-> IF row[f] \in ps THEN None ELSE row[f]]

DeletePostRow(p) == Cascade({p})

AttachmentPaths(p) == {f \in Files : row[f] = p}
postDelete(r, p) ==
    /\ req[r] = Idle /\ p \in Standing
    /\ Start(r, [op |-> "delete post", post |-> p, files |-> AttachmentPaths(p)])
    /\ UNCHANGED <<rows, files, backend, counts>>
DeletePost(r) ==
    /\ At(r, "delete post") /\ req[r].post \in Standing
    /\ DeletePostRow(req[r].post)
    /\ Reset(r, None, req[r].files)
    /\ UNCHANGED <<board, files, backend, counts>>

AttachmentByID == {f \in Files : row[f] # None}
BoardAttachmentPaths == {f \in Files : row[f] # None}
BoardDelete(r, force) ==
    /\ req[r] = Idle /\ BoardBySlug
    /\ Start(r, [op |-> "delete board", force |-> force, files |-> BoardAttachmentPaths])
    /\ UNCHANGED <<rows, files, backend, counts>>
\* Without `force` the posts are counted before they are deleted: ErrBoardInUse.
CountBoardPosts(r) ==
    /\ At(r, "delete board") /\ ~req[r].force
    /\ IF Standing # {} THEN Reset(r, None, {})
       ELSE req' = [req EXCEPT ![r].force = TRUE]
    /\ UNCHANGED <<rows, files, backend, counts>>
DeleteBoard(r) ==
    /\ At(r, "delete board") /\ req[r].force /\ BoardBySlug
    /\ board' = "gone"
    /\ Cascade(Posts)
    /\ Reset(r, None, req[r].files)
    /\ UNCHANGED <<files, backend, counts>>

-----------------------------------------------------------------------------
(* Attachments.  The file is written before its row, and removed after it.   *)

CountAttachments(p) == Cardinality(AttachmentPaths(p))
\* saveUploads: the next file of the form.
Save(r) ==
    /\ At(r, "uploading")
    /\ IF CountAttachments(req[r].post) < MaxPerPost
       THEN req' = [req EXCEPT ![r].op = "storing"]
       ELSE Done(r)                                          \* ErrUploadTooMany
    /\ UNCHANGED <<rows, files, backend, counts>>
\* resolve and StoreUpload: the settings decide where the file goes.
Store(r, f) ==
    /\ At(r, "storing") /\ f \notin used
    /\ used' = used \cup {f}
    /\ local' = local \cup {f}
    /\ Start(r, [op |-> IF backend = "s3" THEN "put" ELSE "stored",
                 post |-> req[r].post, file |-> f, s3 |-> backend = "s3"])
    /\ UNCHANGED <<rows, bucket, backend, counts>>

\* push, for an upload and for A-210's move (post None): the object is there
\* before the local copy goes.  A move finds the file gone: no failure.
Migrate(r, f) ==
    /\ req[r] = Idle /\ backend = "s3" /\ f \in local
    /\ Start(r, [op |-> "put", post |-> None, file |-> f, s3 |-> TRUE])
    /\ UNCHANGED <<rows, files, backend, counts>>
migrateStorage(r) == \E f \in Files : Migrate(r, f)
\* Mutant: the local copy goes first.
PutMoved(r) ==
    /\ At(r, "put")
    /\ local' = local \ {req[r].file}
    /\ req' = [req EXCEPT ![r].op = "sent"]
    /\ UNCHANGED <<rows, used, bucket, backend, counts>>
Put(r) ==
    /\ At(r, "put")
    /\ bucket' = bucket \cup {req[r].file}
    /\ req' = [req EXCEPT ![r].op = "sent"]
    /\ UNCHANGED <<rows, used, local, backend, counts>>
push(r) ==
    LET f == req[r].file
    IN  /\ At(r, "sent")
        /\ local' = local \ {f}
        /\ IF req[r].post # None /\ f \in local
           THEN req' = [req EXCEPT ![r].op = "stored"]
           ELSE Done(r)
        /\ UNCHANGED <<rows, used, bucket, backend, counts>>
\* The bucket refuses: an upload takes its local file back, a move leaves it.
PutFails(r) ==
    /\ At(r, "put")
    /\ local' = IF req[r].post # None THEN local \ {req[r].file} ELSE local
    /\ Done(r)
    /\ UNCHANGED <<rows, used, bucket, backend, counts>>

CreateAttachment(p) == p \in Standing                        \* the foreign key
saveUploads(r) ==
    LET p == req[r].post
    IN  /\ At(r, "stored")
        /\ CreateAttachment(p)
        /\ row' = [row EXCEPT ![req[r].file] = p]
        /\ Start(r, [op |-> "uploading", post |-> p])
        /\ UNCHANGED <<board, post, comment, files, backend, counts>>
RowFails(r) ==
    /\ At(r, "stored")
    /\ Start(r, [op |-> "remove", files |-> {req[r].file}])
    /\ UNCHANGED <<rows, files, backend, counts>>

\* A-309: the row is read, deleted, and its file removed.
AttachmentDelete(r, f) ==
    /\ req[r] = Idle /\ f \in AttachmentByID
    /\ Start(r, [op |-> "delete file", file |-> f])
    /\ UNCHANGED <<rows, files, backend, counts>>
DeleteAttachment(f) == row' = [row EXCEPT ![f] = None]
\* Mutant: the file is removed before the row.
DeleteFileFirst(r) ==
    LET f == req[r].file
    IN  /\ At(r, "delete file")
        /\ local' = local \ {f} /\ bucket' = bucket \ {f}
        /\ Done(r)
        /\ UNCHANGED <<rows, used, backend, counts>>
Delete(r) ==
    LET f == req[r].file
    IN  /\ At(r, "delete file")
        /\ DeleteAttachment(f)
        /\ IF row[f] # None THEN Start(r, [op |-> "remove", files |-> {f}]) ELSE Done(r)
        /\ UNCHANGED <<board, post, comment, files, backend, counts>>

\* Remove, RemoveAll: both sides, carrying on past what fails (ErrFilesLeft).
removeFrom(f, here, there) ==
    /\ local' = IF here THEN local \ {f} ELSE local
    /\ bucket' = IF there /\ backend # "none" THEN bucket \ {f} ELSE bucket
RemoveAll(r) ==
    /\ At(r, "remove")
    /\ \E f \in req[r].files, here, there \in BOOLEAN :
          /\ removeFrom(f, here, there)
          /\ IF req[r].files = {f} THEN Done(r)
             ELSE req' = [req EXCEPT ![r].files = @ \ {f}]
    /\ UNCHANGED <<rows, used, backend, counts>>

\* P-211: upload_dir first, then the bucket.
attachmentDownload(r, f) ==
    /\ req[r] = Idle
    /\ f \in AttachmentByID /\ post[row[f]] = "published"
    /\ Start(r, [op |-> "open", file |-> f])
    /\ UNCHANGED <<rows, files, backend, counts>>
Open(r) ==
    /\ At(r, "open")
    /\ IF req[r].file \in local THEN Done(r) ELSE req' = [req EXCEPT ![r].op = "open remote"]
    /\ UNCHANGED <<rows, files, backend, counts>>
\* Served, or 404.
OpenRemote(r) ==
    /\ At(r, "open remote")
    /\ Done(r)
    /\ UNCHANGED <<rows, files, backend, counts>>

\* A-210.  A bucket once named stays named.
StorageSettingsSave(b) ==
    /\ b \in {"local", "s3"} /\ b # backend
    /\ backend = "none" => b = "s3"
    /\ backend' = b
    /\ UNCHANGED <<rows, files, counts, req>>

-----------------------------------------------------------------------------
(* Comments: P-208 to P-210, A-308                                           *)

CommentByID(c) == c \in Threaded
\* The post is published and the parent a comment of it, itself no reply.
commentBelongsTo(c, p) == CommentByID(c) /\ On[c] = p /\ Parent[c] = None
commentCreate(r, c) ==
    /\ req[r] = Idle /\ comment[c] = "none" /\ board = "open"
    /\ post[On[c]] = "published"
    /\ Parent[c] = None \/ commentBelongsTo(Parent[c], On[c])
    /\ Start(r, [op |-> "reply", comment |-> c])
    /\ UNCHANGED <<rows, files, backend, counts>>
CreateComment(r) ==
    LET c == req[r].comment
    IN  /\ At(r, "reply")
        /\ comment[c] = "none" /\ On[c] \in Standing         \* foreign keys
        /\ Parent[c] \in Threaded \cup {None}
        /\ comment' = [comment EXCEPT ![c] = "live"]
        /\ Done(r)
        /\ UNCHANGED <<board, post, row, files, backend, counts>>

\* P-209, P-210: ownComment refuses a tombstone; A-308 does not.
ownComment(r, c, op) ==
    /\ req[r] = Idle /\ CommentByID(c) /\ comment[c] # "removed"
    /\ Start(r, [op |-> op, comment |-> c])
    /\ UNCHANGED <<rows, files, backend, counts>>
CommentModerate(r, c) ==
    /\ req[r] = Idle /\ CommentByID(c)
    /\ Start(r, [op |-> "delete comment", comment |-> c])
    /\ UNCHANGED <<rows, files, backend, counts>>
\* WHERE deleted_at IS NULL.
\* Mutant: any row that is there.
UpdateCommentAny(c) == IF c \in Threaded THEN "live" ELSE comment[c]
UpdateComment(c) == IF comment[c] = "live" THEN "live" ELSE comment[c]
commentUpdate(r) ==
    LET c == req[r].comment
    IN  /\ At(r, "edit")
        /\ comment' = [comment EXCEPT ![c] = UpdateComment(c)]
        /\ Done(r)
        /\ UNCHANGED <<board, post, row, files, backend, counts>>
DeleteCommentRow(c) == comment' = [comment EXCEPT ![c] = IF c \in Threaded THEN "gone" ELSE @]
\* The foreign key of a reply refuses the DELETE (23503): the tombstone.
DeleteComment(r) ==
    LET c == req[r].comment
    IN  /\ At(r, "delete comment")
        /\ IF \E d \in Threaded : Parent[d] = c
           THEN req' = [req EXCEPT ![r].op = "tombstone"] /\ comment' = comment
           ELSE DeleteCommentRow(c) /\ Done(r)
        /\ UNCHANGED <<board, post, row, files, backend, counts>>
TombstoneComment(r) ==
    LET c == req[r].comment
    IN  /\ At(r, "tombstone")
        /\ comment' = [comment EXCEPT ![c] = IF @ = "live" THEN "removed" ELSE @]
        /\ Done(r)
        /\ UNCHANGED <<board, post, row, files, backend, counts>>

-----------------------------------------------------------------------------
\* The process dies: requests and the remembered count are lost.
Crash ==
    /\ counts' = None
    /\ req' = [r \in Requests |-> Idle]
    /\ UNCHANGED <<rows, files, backend>>

Next ==
    \/ Expire \/ Crash
    \/ \E b \in {"local", "s3"} : StorageSettingsSave(b)
    \/ \E r \in Requests :
          \/ Abandon(r) \/ WriteFails(r)
          \/ \E settings \in {"open", "closed"} : BoardSave(r, settings)
          \/ get(r) \/ boardList(r) \/ put(r) \/ reset(r)
          \/ \E p \in Posts :
                \/ postCreate(r, p) \/ postUpdate(r, p) \/ postDelete(r, p)
                \/ \E status \in {"published", "hidden"} : PostModerate(r, p, status)
          \/ DeletePost(r) \/ CountBoardPosts(r) \/ DeleteBoard(r)
          \/ \E force \in BOOLEAN : BoardDelete(r, force)
          \/ Save(r) \/ Put(r) \/ push(r) \/ PutFails(r) \/ saveUploads(r) \/ RowFails(r)
          \/ migrateStorage(r) \/ Delete(r) \/ RemoveAll(r) \/ Open(r) \/ OpenRemote(r)
          \/ \E f \in Files :
                \/ Store(r, f) \/ AttachmentDelete(r, f) \/ attachmentDownload(r, f)
          \/ \E c \in Comments :
                \/ commentCreate(r, c) \/ CommentModerate(r, c)
                \/ \E op \in {"edit", "delete comment"} : ownComment(r, c, op)
          \/ CreateComment(r) \/ commentUpdate(r) \/ DeleteComment(r) \/ TombstoneComment(r)

Spec == Init /\ [][Next]_vars

-----------------------------------------------------------------------------
(* What must hold                                                            *)

\* A row never outlives its file, whatever fails, dies or is moved meanwhile
\* (attachment.go:58-62 "the write order picks the other", files.go:242-243), and a
\* download that found no local copy of a standing row finds the bucket's
\* (files.go:54-57).
FilesReachable ==
    /\ TypeOK
    /\ \A f \in Files : row[f] # None => f \in local \cup bucket
    /\ \A r \in Requests : At(r, "open remote") /\ row[req[r].file] # None =>
          req[r].file \in bucket /\ backend # "none"

\* A remembered count is how many posts the list shows, unless a write has
\* committed and its reset is still to come (postcount.go:15-16, post.go
\* CountPosts: "it counts exactly what ListPosts returns").
CountsCurrent ==
    counts # None => \/ counts = Cardinality(ListPosts)
                     \/ \E r \in Requests : At(r, "reset")

\* A body its author removed never comes back, whatever was read before the
\* removal (post.go:408-410, handler_comment.go:208-209).
RemovedStaysRemoved ==
    [][\A c \in Comments : comment[c] \in {"removed", "gone"} =>
          comment'[c] \in {comment[c], "gone"}]_vars
================================================================================
