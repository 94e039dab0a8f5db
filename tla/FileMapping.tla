---------------------------- MODULE FileMapping ----------------------------
(***************************************************************************)
(* Synchronisation of one mapped directory with an FTP server: the update, *)
(* commit, add, remove and rename operations of FileMappingEntity          *)
(* (service/file_mapping_entity.js), each run on an entity of its own that *)
(* is loaded from .map/entity and saved by release(), as                   *)
(* FileActionService and RevisionControlService do.                        *)
(*                                                                         *)
(* The directory is flat: a set Names of files.  A file is its content and *)
(* its modification time; an edit makes a content nobody had before.  One  *)
(* counter, now, supplies contents and times, so times are strictly        *)
(* increasing on the server and on the device.  A JavaScript turn is one   *)
(* step: what the code does between two asynchronous calls is atomic here. *)
(***************************************************************************)
EXTENDS Naturals

CONSTANTS
    Names,      \* the files of the mapped directory
    NoName,     \* no file
    Slots,      \* entity instances that may be alive at once
    Offered,    \* bound: the operations that are asked for
    MaxEdits,   \* bound: steps of the user and of the other clients
    MaxStarts,  \* bound: operations started on the directory
    ErrFirst    \* util.cb hands a result to a function(err, data) as data

ASSUME NamesAssumption == NoName \notin Names
ASSUME BoundAssumption == MaxEdits \in Nat /\ MaxStarts \in Nat
ASSUME ErrFirstAssumption == ErrFirst \in BOOLEAN

VARIABLES
    server,     \* [Names -> File], the remote directory
    disk,       \* [Names -> File], the local directory
    kept,       \* contents set aside in name_oldN files
    stored,     \* .map/entity, the saved records
    sess,       \* [Slots -> Session], the operations and their entities
    now,        \* last content or time given out
    edits,      \* steps of the user and of the other clients so far
    starts,     \* operations started so far
    unsent,     \* history: contents the user wrote and no server has
    asked       \* history: names the user removed or renamed away

vars == <<server, disk, kept, stored, sess, now, edits, starts, unsent, asked>>

(***************************************************************************)
(* Files, records and sessions                                             *)
(***************************************************************************)

\* A time of 0 is an absent file.  A transfer cut short leaves a content
\* nobody had before, like an edit.
File == [c : Nat, t : Nat]
Absent == [c |-> 0, t |-> 0]
Exists(f) == f.t # 0

\* The FILE_STAT record of a name in m_files; all zero when there is none.
Info == [remote_st : Nat, local_st : Nat, hash : Nat]
NoInfo == [remote_st |-> 0, local_st |-> 0, hash |-> 0]

\* m_entity: the records, and the names present in m_local_files.
Entity == [files : [Names -> Info], local : SUBSET Names]
EmptyEntity == [files |-> [n \in Names |-> NoInfo], local |-> {}]
Tracked(e, n) == e.files[n].remote_st # 0

CommitOps == {"commit", "commit_file"}
SyncOps == {"update", "update_file"} \cup CommitOps
Ops == {"none", "remove", "rename"} \cup SyncOps
Steps == {"idle", "list", "read", "recv", "put", "rm", "fs", "dead", "done"}

Session ==
    [op     : Ops,
     pc     : Steps,                    \* the asynchronous call under way
     ent    : Entity,
     change : BOOLEAN,                  \* m_change
     scope  : SUBSET Names,             \* the path argument
     todo   : SUBSET Names,             \* ls of update_dir, del of submit_del
     seen   : [Names -> Nat],           \* times in the listing, 0: not listed
     seenAt : Nat,                      \* now when it was listed
     list   : {"none", "ok", "failed"},
     cur    : Names \cup {NoName},      \* the file being transferred
     to     : Names \cup {NoName},      \* the new name of a rename
     buf    : Nat,                      \* content a transfer has begun with
     held   : BOOLEAN,                  \* not cancelled: release() will save
     reply  : {"none", "waiting", "ok", "error"}]

NothingSeen == [n \in Names |-> 0]

NewSession(op, ent, scope) ==
    [op |-> op, pc |-> "list", ent |-> ent, change |-> FALSE, scope |-> scope,
     todo |-> {}, seen |-> NothingSeen, seenAt |-> 0, list |-> "none",
     cur |-> NoName, to |-> NoName, buf |-> 0, held |-> TRUE,
     reply |-> "waiting"]

IdleSession ==
    [NewSession("none", EmptyEntity, {}) EXCEPT !.pc = "idle", !.held = FALSE,
                                               !.reply = "none"]

\* A session that waits for a call on a file knows the file.
HasFile(r) ==
    /\ r.pc \in {"read", "recv", "put", "rm", "fs"} => r.cur \in Names
    /\ r.pc = "fs" /\ r.op = "rename" => r.to \in Names \ {r.cur}

TypeOK ==
    /\ server \in [Names -> File]
    /\ disk \in [Names -> File]
    /\ kept \in SUBSET Nat
    /\ stored \in Entity
    /\ sess \in [Slots -> Session] /\ \A s \in Slots : HasFile(sess[s])
    /\ now \in Nat
    /\ edits \in Nat
    /\ starts \in Nat
    /\ unsent \in SUBSET Nat
    /\ asked \in SUBSET Names

Free(s) == sess[s].pc \in {"idle", "done"}

\* The chain of callbacks of r ends by answering a.  The entity and the
\* listing stay readable until the slot is used again.
Done(r, a) ==
    [r EXCEPT !.pc = "done", !.todo = {}, !.cur = NoName, !.to = NoName,
              !.buf = 0, !.seenAt = 0, !.list = "none",
              !.reply = IF r.reply = "waiting" THEN a ELSE r.reply]

\* Mutant: the answer for a directory asks for the stat_code of its files too.
StatThrows_All(r, d) ==
    /\ r.op \in SyncOps /\ r.held
    /\ \E n \in r.scope : Tracked(r.ent, n) /\ n \in r.ent.local /\ ~Exists(d[n])

\* update and submit answer with the stat_code of their path.  It throws for
\* a file that is recorded, not removed and not there; neither the answer nor
\* the release that follows is reached then.
StatThrows(r, d) ==
    /\ r.op \in {"update_file", "commit_file"} /\ r.held
    /\ \E n \in r.scope : Tracked(r.ent, n) /\ n \in r.ent.local /\ ~Exists(d[n])

Answered(r, a, d) ==
    IF StatThrows(r, d) THEN [Done(r, a) EXCEPT !.held = FALSE, !.reply = r.reply]
                        ELSE Done(r, a)

\* Slot s becomes r; when that ends an operation that nobody cancelled, its
\* entity is released, which saves it if it changed.
SavedBy(r, st) ==
    IF r.pc = "done" /\ r.held /\ r.change THEN r.ent ELSE st

Become(s, r) ==
    /\ sess' = [sess EXCEPT ![s] = r]
    /\ stored' = SavedBy(r, stored)

(***************************************************************************)
(* The user and the other clients of the server                            *)
(***************************************************************************)

Edit == edits < MaxEdits /\ edits' = edits + 1

\* save_file_as_text, create: a new content, or the old one written again.
UserWrite(n) ==
    /\ Edit
    /\ now' = now + 1
    /\ \/ /\ disk' = [disk EXCEPT ![n] = [c |-> now + 1, t |-> now + 1]]
          /\ unsent' = (unsent \ {disk[n].c}) \cup {now + 1}
       \/ /\ Exists(disk[n])
          /\ disk' = [disk EXCEPT ![n].t = now + 1]
          /\ UNCHANGED unsent
    /\ UNCHANGED <<server, kept, stored, sess, starts, asked>>

\* remove(name, all = false): the file goes, the records stay.
UserErase(n) ==
    /\ Edit
    /\ Exists(disk[n])
    /\ disk' = [disk EXCEPT ![n] = Absent]
    /\ unsent' = unsent \ {disk[n].c}
    /\ UNCHANGED <<server, kept, stored, sess, now, starts, asked>>

RemoteWrite(n) ==
    /\ Edit
    /\ now' = now + 1
    /\ server' = [server EXCEPT ![n] = [c |-> now + 1, t |-> now + 1]]
    /\ UNCHANGED <<disk, kept, stored, sess, starts, unsent, asked>>

RemoteDelete(n) ==
    /\ Edit
    /\ Exists(server[n])
    /\ server' = [server EXCEPT ![n] = Absent]
    /\ UNCHANGED <<disk, kept, stored, sess, now, starts, unsent, asked>>

(***************************************************************************)
(* add (join), remove, rename                                              *)
(***************************************************************************)

\* join() loads an entity, adds the name and releases it in one turn.
Join(n) ==
    /\ Edit
    /\ Exists(disk[n])
    /\ stored' = [stored EXCEPT !.local = @ \cup {n}]
    /\ UNCHANGED <<server, disk, kept, sess, now, starts, unsent, asked>>

Starts(s, op) ==
    /\ Free(s)
    /\ op \in Offered
    /\ starts < MaxStarts
    /\ starts' = starts + 1

\* The entity of a remove or a rename, with m_local_files already changed.
WithLocal(r, loc) ==
    [r EXCEPT !.ent.local = loc, !.change = (loc # r.ent.local), !.pc = "fs"]

Forget(e, n) == e.local \ {n}

StartRemove(s, n) ==
    /\ Starts(s, "remove")
    /\ asked' = asked \cup {n}
    /\ LET r == NewSession("remove", stored, {n})
       IN  Become(s, [WithLocal(r, Forget(stored, n)) EXCEPT !.cur = n])
    /\ UNCHANGED <<server, disk, kept, now, edits, unsent>>

\* The new place is only recorded for a name m_local_files had.
Moved(e, n, m) ==
    IF n \in e.local THEN (e.local \ {n}) \cup {m} ELSE e.local

\* The new name is free; stat_code throws for a recorded file that is gone.
StartRename(s, n, m) ==
    /\ Starts(s, "rename")
    /\ n # m
    /\ ~Exists(disk[m])
    /\ Tracked(stored, n) /\ n \in stored.local => Exists(disk[n])
    /\ asked' = asked \cup {n}
    /\ LET r == NewSession("rename", stored, {n})
       IN  Become(s, [WithLocal(r, Moved(stored, n, m)) EXCEPT !.cur = n,
                                                              !.to = m])
    /\ UNCHANGED <<server, disk, kept, now, edits, unsent>>

\* fs.rm and fs.rename answer; what they did to the file is done here.
FsDone(s) ==
    LET r == sess[s]
        n == r.cur
        m == r.to
    IN  /\ r.pc = "fs"
        /\ \/ /\ r.op = "remove"
              /\ disk' = [disk EXCEPT ![n] = Absent]
              /\ unsent' = unsent \ {disk[n].c}
           \/ /\ r.op = "rename"
              /\ Exists(disk[n])
              /\ disk' = [disk EXCEPT ![m] = disk[n], ![n] = Absent]
              /\ unsent' = unsent \ ({disk[m].c} \ {disk[n].c})
        /\ Become(s, Done(r, "ok"))
        /\ UNCHANGED <<server, kept, now, edits, starts, asked>>

\* The failure is answered, m_local_files stays changed and is saved.
FsFails(s) ==
    /\ sess[s].pc = "fs"
    /\ Become(s, Done(sess[s], "error"))
    /\ UNCHANGED <<server, disk, kept, now, edits, starts, unsent, asked>>

(***************************************************************************)
(* update                                                                  *)
(***************************************************************************)

\* Mutant: a file that is not here is downloaded, whoever removed it.
UpToDate_Gone(e, n, d, mtime) ==
    Tracked(e, n) /\ e.files[n].remote_st = mtime /\ Exists(d[n])

\* update_file returns at once: nothing new on the server, or the user has
\* removed the file here, and then the new remote time is all it records.
UpToDate(e, n, d, mtime) ==
    /\ Tracked(e, n)
    /\ e.files[n].remote_st = mtime
    /\ Exists(d[n]) \/ n \notin e.local

\* Mutant: every file with a new remote time is taken for one removed here.
RemovedHere_Any(e, n, mtime) ==
    Tracked(e, n) /\ e.files[n].remote_st # mtime

RemovedHere(e, n, mtime) ==
    /\ Tracked(e, n)
    /\ e.files[n].remote_st # mtime
    /\ n \notin e.local

NoDownload(e, n, d, mtime) == UpToDate(e, n, d, mtime) \/ RemovedHere(e, n, mtime)

Skipped(r, K) ==
    [r EXCEPT
       !.ent.files = [n \in Names |->
            IF n \in K THEN [r.ent.files[n] EXCEPT !.remote_st = r.seen[n]]
                       ELSE r.ent.files[n]],
       !.change = r.change \/ \E n \in K : RemovedHere(r.ent, n, r.seen[n])]

\* One turn of update_dir's callback: it walks the listing, in the order the
\* server gave, over files that need nothing until one has to be read.
UpdateTurn(s, r, d) ==
    LET easy == {n \in r.todo : NoDownload(r.ent, n, d, r.seen[n])}
    IN  \/ \E K \in SUBSET easy, n \in r.todo \ easy :
              Become(s, [Skipped(r, K) EXCEPT !.todo = r.todo \ (K \cup {n}),
                                              !.cur = n, !.pc = "read"])
        \/ /\ r.todo \subseteq easy
           /\ Become(s, Answered(Skipped(r, r.todo), "ok", d))

StartUpdate(s) ==
    /\ Starts(s, "update")
    /\ Become(s, NewSession("update", stored, Names))
    /\ UNCHANGED <<server, disk, kept, now, edits, unsent, asked>>

\* Asked for on a file the tree shows.
StartUpdateFile(s, n) ==
    /\ Starts(s, "update_file")
    /\ Exists(disk[n])
    /\ Become(s, NewSession("update_file", stored, {n}))
    /\ UNCHANGED <<server, disk, kept, now, edits, unsent, asked>>

\* The times the server shows for the names in scope.
Listing(r, ok) ==
    [r EXCEPT !.seen = [n \in Names |->
                           IF ok /\ n \in r.scope THEN server[n].t ELSE 0],
              !.seenAt = now,
              !.list = IF ok THEN "ok" ELSE "failed"]

\* Mutant: the records of files that were removed here are not looked at.
Pruned_Local(r) ==
    {n \in Names : Tracked(r.ent, n) /\ n \in r.ent.local /\ r.seen[n] = 0}

\* Records whose file the server no longer lists.
Pruned(r) == {n \in Names : Tracked(r.ent, n) /\ r.seen[n] = 0}

Prune(r) ==
    [r EXCEPT !.ent = [files |-> [n \in Names |-> IF n \in Pruned(r)
                                     THEN NoInfo ELSE r.ent.files[n]],
                       local |-> r.ent.local \ Pruned(r)],
              !.change = r.change \/ Pruned(r) # {},
              !.todo = {n \in Names : r.seen[n] # 0}]

\* Mutant: a recorded file counts as untouched whatever its time is.
Untouched_Known(e, n, d) == Exists(d[n]) /\ Tracked(e, n)

\* The local copy is what the record says was written here.
Untouched(e, n, d) == Exists(d[n]) /\ e.files[n].local_st = d[n].t

\* Mutant: what is gone from the server is deleted without a look at its time.
SafeRm_All(r, d) == [n \in Names |-> IF n \in Pruned(r) THEN Absent ELSE d[n]]

\* safeRm: delete the pruned files that were not touched since.
SafeRm(r, d) ==
    [n \in Names |-> IF n \in Pruned(r) /\ Untouched(r.ent, n, d)
                     THEN Absent ELSE d[n]]

UpdateListed(s) ==
    LET r == Listing(sess[s], TRUE)
    IN  /\ r.pc = "list" /\ r.op = "update"
        /\ disk' = SafeRm(r, disk)
        /\ UpdateTurn(s, Prune(r), SafeRm(r, disk))
        /\ UNCHANGED <<server, kept, now, edits, starts, unsent, asked>>

FileStated(s) ==
    LET r == Listing(sess[s], TRUE)
    IN  /\ r.pc = "list" /\ r.op = "update_file"
        /\ \A n \in r.scope : Exists(server[n])
        /\ UpdateTurn(s, [r EXCEPT !.todo = r.scope], disk)
        /\ UNCHANGED <<server, disk, kept, now, edits, starts, unsent, asked>>

UpdateListFails(s) ==
    /\ sess[s].pc = "list" /\ sess[s].op \in {"update", "update_file"}
    /\ Become(s, Answered(sess[s], "error", disk))
    /\ UNCHANGED <<server, disk, kept, now, edits, starts, unsent, asked>>

\* What a transfer yields: of a file that changes meanwhile a part may come,
\* or a part of each version.
Transferred(r, f) ==
    IF f.c = r.buf THEN {r.buf}
    ELSE {r.buf, now + 1} \cup IF Exists(f) THEN {f.c} ELSE {}

\* read_file hands over the stream of the file's content.
ReadOpens(s) ==
    LET r == sess[s]
    IN  /\ ErrFirst
        /\ r.pc = "read"
        /\ Exists(server[r.cur])
        /\ Become(s, [r EXCEPT !.pc = "recv", !.buf = server[r.cur].c])
        /\ UNCHANGED <<server, disk, kept, now, edits, starts, unsent, asked>>

\* Mutant: an error before the stream is open is not handed on.
ReadFails_Recv(s) ==
    /\ sess[s].pc = "recv"
    /\ Become(s, Answered(sess[s], "error", disk))
    /\ UNCHANGED <<server, disk, kept, now, edits, starts, unsent, asked>>

\* A download error; also read_file's result taken for one (~ErrFirst).
ReadFails(s) ==
    /\ sess[s].pc \in {"read", "recv"}
    /\ Become(s, Answered(sess[s], "error", disk))
    /\ UNCHANGED <<server, disk, kept, now, edits, starts, unsent, asked>>

\* Mutant: remote_hash is forgotten, as for a directory.
NewInfo_NoHash(r, mtime, hash) ==
    [remote_st |-> r.seen[r.cur], local_st |-> mtime]

\* Mutant: the remote time is asked for when the download is over.
NewInfo_Late(r, mtime, hash) ==
    [remote_st |-> server[r.cur].t, local_st |-> mtime, hash |-> hash]

\* The record download_ok writes: local_st is read back from the new file.
NewInfo(r, mtime, hash) ==
    [remote_st |-> r.seen[r.cur], local_st |-> mtime, hash |-> hash]

Recorded(r, info) ==
    [r EXCEPT !.ent = [files |-> [r.ent.files EXCEPT ![r.cur] = info],
                       local |-> r.ent.local \cup {r.cur}],
              !.change = TRUE, !.cur = NoName, !.buf = 0]

\* Mutant: the first download of a name overwrites what is there.
SetAside_Known(r, d) ==
    IF Tracked(r.ent, r.cur) /\ Exists(d[r.cur]) /\ ~Untouched(r.ent, r.cur, d)
    THEN {d[r.cur].c} ELSE {}

\* A local file that was changed, or never recorded, is renamed name_oldN.
SetAside(r, d) ==
    IF Exists(d[r.cur]) /\ ~Untouched(r.ent, r.cur, d) THEN {d[r.cur].c} ELSE {}

\* download_ok and the turn it continues.  The write stream may still be
\* flushing: then the hash is that of a part of the file, which no content
\* has, and the time of the file may move on later.
ReadEnds(s) ==
    LET r == sess[s]
    IN  /\ r.pc = "recv"
        /\ now' = now + 2
        /\ \E c \in Transferred(r, server[r.cur]) : \E hash \in {c, now + 2}, time \in {now + 1, now + 2} :
              LET info == NewInfo(r, now + 1, hash)
                  d == [disk EXCEPT ![r.cur] = [c |-> c, t |-> time]]
              IN  /\ hash = c => time = now + 1
                  /\ disk' = d
                  /\ UpdateTurn(s, Recorded(r, info), d)
        /\ kept' = kept \cup SetAside(r, disk)
        /\ UNCHANGED <<server, edits, starts, unsent, asked>>

(***************************************************************************)
(* commit                                                                  *)
(***************************************************************************)

\* query_modify
Added(e, S) == {n \in S \cap e.local : ~Tracked(e, n)}
\* Mutant: a name without a record counts as deleted here.
Deleted_Any(e, S) == S \ e.local

Deleted(e, S) == {n \in S \ e.local : Tracked(e, n)}
Modified(e, S, d) ==
    {n \in S \cap e.local : /\ Tracked(e, n)
                            /\ Exists(d[n])
                            /\ e.files[n].local_st # d[n].t}

\* submit_add drops the names whose file is gone.
DropLocal(r, K) ==
    [r EXCEPT !.ent.local = @ \ K, !.change = r.change \/ K # {}]

\* submit_up records the new time of a file whose hash is the old one.
SameHash(e, n, d) == e.files[n].hash = d[n].c

Refresh(r, K, d) ==
    [r EXCEPT
       !.ent.files = [n \in Names |->
            IF n \in K THEN [r.ent.files[n] EXCEPT !.local_st = d[n].t]
                       ELSE r.ent.files[n]],
       !.change = r.change \/ K # {}]

\* The first turn of commit: it runs until something has to be asked of the
\* server, the listing of the directory.  No upload ever comes back to its
\* queue (see Sent), so the rest of add and up need not be kept.
CommitTurn(s, r, d) ==
    LET add == Added(r.ent, r.scope)
        gone == {n \in add : ~Exists(d[n])}
        r1 == DropLocal(r, add)
        up == Modified(r1.ent, r.scope, d)
        same == {n \in up : SameHash(r1.ent, n, d)}
        r2 == Refresh(r1, up, d)
        del == Deleted(r2.ent, r.scope)
    IN  \/ \E K \in SUBSET gone, n \in add \ gone :
              Become(s, [DropLocal(r, K) EXCEPT !.cur = n])
        \/ /\ add = gone
           /\ \E K \in SUBSET same, n \in up \ same :
                 Become(s, [Refresh(r1, K, d) EXCEPT !.cur = n])
        \/ /\ add = gone /\ up = same
           /\ IF del = {} THEN Become(s, Answered(r2, "ok", d))
              ELSE Become(s, [r2 EXCEPT !.todo = del])

StartCommit(s, op, S) ==
    /\ Starts(s, op)
    /\ CommitTurn(s, NewSession(op, stored, S), disk)
    /\ UNCHANGED <<server, disk, kept, now, edits, unsent, asked>>

\* Mutant: only the records of files the listing lacks are dropped.
Unrecorded_Unlisted(r, K) ==
    [r EXCEPT !.ent.files = [n \in Names |-> IF n \in K /\ r.seen[n] = 0
                                             THEN NoInfo ELSE r.ent.files[n]],
              !.change = r.change \/ K # {}]

\* One turn of submit_del: records the listing lacks go, the first file the
\* listing has is deleted from the server.
Unrecorded(r, K) ==
    [r EXCEPT !.ent.files = [n \in Names |-> IF n \in K THEN NoInfo
                                             ELSE r.ent.files[n]],
              !.change = r.change \/ K # {}]

DelTurn(s, r, d) ==
    LET none == {n \in r.todo : r.seen[n] = 0}
    IN  \/ \E K \in SUBSET none, n \in r.todo \ none :
              Become(s, [Unrecorded(r, K) EXCEPT !.todo = r.todo \ (K \cup {n}),
                                                 !.cur = n, !.pc = "rm"])
        \/ /\ r.todo = none
           /\ Become(s, Answered(Unrecorded(r, none), "ok", d))

\* Mutant: a listed file is sent without a look at its time.
MaySend_Listed(r) ==
    IF Tracked(r.ent, r.cur) THEN r.seen[r.cur] # 0 ELSE r.seen[r.cur] = 0

\* The file may be sent: new here and not listed, or listed with the time
\* that was recorded.
MaySend(r) ==
    IF Tracked(r.ent, r.cur) THEN r.seen[r.cur] = r.ent.files[r.cur].remote_st
                             ELSE r.seen[r.cur] = 0

\* FileMappingStatReader: a listing that fails counts as an empty one.
CommitListed(s) ==
    /\ sess[s].pc = "list" /\ sess[s].op \in CommitOps
    /\ \E ok \in BOOLEAN :
          LET r == Listing(sess[s], ok)
          IN  \/ /\ r.cur = NoName
                 /\ DelTurn(s, r, disk)
              \/ /\ r.cur # NoName /\ MaySend(r)
                 /\ Become(s, [r EXCEPT !.pc = "put", !.buf = disk[r.cur].c])
              \/ /\ r.cur # NoName /\ ~MaySend(r)
                 /\ Become(s, Done(r, "error"))
    /\ UNCHANGED <<server, disk, kept, now, edits, starts, unsent, asked>>

\* The file is on the server.  update_file_info then calls its callback
\* (err, data) with the data in the place of err: it throws, and nothing of
\* the chain runs any more.
Sent(s) ==
    LET r == sess[s]
        n == r.cur
    IN  /\ r.pc = "put"
        /\ r.buf # Absent.c
        /\ now' = now + 1
        /\ \E c \in Transferred(r, disk[n]) :
              /\ server' = [server EXCEPT ![n] = [c |-> c, t |-> now + 1]]
              /\ unsent' = unsent \ {c}
        /\ Become(s, [r EXCEPT !.pc = "dead"])
        /\ UNCHANGED <<disk, kept, edits, starts, asked>>

\* A failed upload may leave a part of the file.
SendFails(s) ==
    LET n == sess[s].cur
    IN  /\ sess[s].pc = "put"
        /\ \/ UNCHANGED <<server, now>>
           \/ /\ now' = now + 1
              /\ server' = [server EXCEPT ![n] = [c |-> now + 1, t |-> now + 1]]
        /\ Become(s, Done(sess[s], "error"))
        /\ UNCHANGED <<disk, kept, edits, starts, unsent, asked>>

RmDone(s) ==
    LET r == sess[s]
    IN  /\ r.pc = "rm"
        /\ Exists(server[r.cur])
        /\ server' = [server EXCEPT ![r.cur] = Absent]
        /\ DelTurn(s, [Unrecorded(r, {r.cur}) EXCEPT !.cur = NoName], disk)
        /\ UNCHANGED <<disk, kept, now, edits, starts, unsent, asked>>

RmFails(s) ==
    /\ sess[s].pc = "rm"
    /\ Become(s, Done(sess[s], "error"))
    /\ UNCHANGED <<server, disk, kept, now, edits, starts, unsent, asked>>

(***************************************************************************)
(* cancel and crash                                                        *)
(***************************************************************************)

\* stop_update_or_submit: the handler's third argument is dropped, so the
\* request is answered like a success and the entity saved and let go; the
\* chain of callbacks runs on.
CancelSync(s) ==
    LET r == sess[s]
    IN  /\ r.op \in SyncOps /\ r.pc \notin {"idle", "done"}
        /\ r.held
        /\ sess' = [sess EXCEPT ![s] =
                      [r EXCEPT !.held = FALSE,
                                !.reply = IF StatThrows(r, disk) THEN @ ELSE "ok",
                                !.pc = IF r.pc = "dead" THEN "done" ELSE @]]
        /\ stored' = IF r.change /\ ~StatThrows(r, disk) THEN r.ent ELSE stored
        /\ UNCHANGED <<server, disk, kept, now, edits, starts, unsent, asked>>

\* stop_delete: fs.rm is not stopped, the entity is let go without a save.
CancelRemove(s) ==
    LET r == sess[s]
    IN  /\ r.op = "remove" /\ r.pc = "fs"
        /\ r.held
        /\ sess' = [sess EXCEPT ![s].held = FALSE]
        /\ UNCHANGED <<server, disk, kept, stored, now, edits, starts, unsent, asked>>

\* The process ends; .map/entity may be cut short while a changed entity is
\* written, and one that cannot be parsed is read as an empty one.
Crash ==
    /\ \/ UNCHANGED stored
       \/ /\ \E s \in Slots : sess[s].held /\ sess[s].change
          /\ stored' = EmptyEntity
    /\ sess' = [s \in Slots |-> IdleSession]
    /\ UNCHANGED <<server, disk, kept, now, edits, starts, unsent, asked>>

(***************************************************************************)
(* Specification                                                           *)
(***************************************************************************)

\* A directory of which a part is on the server, and a part of that part
\* was already downloaded.
Init ==
    /\ \E S \in SUBSET Names : \E T \in SUBSET S :
          /\ server = [n \in Names |-> IF n \in S THEN [c |-> 1, t |-> 1]
                                                  ELSE Absent]
          /\ disk = [n \in Names |-> IF n \in T THEN [c |-> 1, t |-> 2]
                                                ELSE Absent]
          /\ stored = [files |-> [n \in Names |-> IF n \in T
                          THEN [remote_st |-> 1, local_st |-> 2, hash |-> 1]
                          ELSE NoInfo],
                       local |-> T]
    /\ kept = {}
    /\ sess = [s \in Slots |-> IdleSession]
    /\ now = 2
    /\ edits = 0
    /\ starts = 0
    /\ unsent = {}
    /\ asked = {}

User == \E n \in Names : UserWrite(n) \/ UserErase(n) \/ Join(n)

Remote == \E n \in Names : RemoteWrite(n) \/ RemoteDelete(n)

Request(s) ==
    \/ StartUpdate(s)
    \/ StartCommit(s, "commit", Names)
    \/ \E n \in Names : \/ StartUpdateFile(s, n)
                        \/ StartCommit(s, "commit_file", {n})
                        \/ StartRemove(s, n)
                        \/ \E m \in Names : StartRename(s, n, m)

Progress(s) ==
    \/ FsDone(s) \/ FsFails(s)
    \/ UpdateListed(s) \/ FileStated(s) \/ UpdateListFails(s)
    \/ ReadOpens(s) \/ ReadFails(s) \/ ReadEnds(s)
    \/ CommitListed(s) \/ Sent(s) \/ SendFails(s) \/ RmDone(s) \/ RmFails(s)

Cancel(s) == CancelSync(s) \/ CancelRemove(s)

Next ==
    \/ User
    \/ Remote
    \/ \E s \in Slots : Request(s) \/ Progress(s) \/ Cancel(s)
    \/ Crash

Spec == Init /\ [][Next]_vars

\* Every asynchronous call is answered one way or the other.
FairSpec == Spec /\ \A s \in Slots : WF_vars(Progress(s))

(***************************************************************************)
(* Properties                                                              *)
(***************************************************************************)

\* What a user wrote here and no server has yet is never destroyed by an
\* update, a commit, a cancellation or a crash: it is in some local file or
\* in a name_oldN file (safeRm, download_ok, mergeFile).
NoLostEdit ==
    \A c \in unsent : \/ c \in kept
                      \/ \E n \in Names : Exists(disk[n]) /\ disk[n].c = c

Entities == {stored} \cup {sess[s].ent : s \in Slots}

\* A file with mark S (stat_code) whose recorded remote time is still the
\* server's has the server's content: times alone decide what is in step.
\* A name the user once removed is left out: for it the remote time is
\* recorded without the content (RemovedHere).
RecordsTruthful ==
    \A e \in Entities, n \in Names :
        (/\ Tracked(e, n) /\ n \in e.local \ asked /\ Exists(disk[n])
         /\ e.files[n].remote_st = server[n].t
         /\ e.files[n].local_st = disk[n].t) => disk[n].c = server[n].c

\* An update of the directory answered as done, and not cancelled, has
\* recorded exactly the files it listed, each at the time it was listed with.
UpdateComplete ==
    \A s \in Slots :
        LET r == sess[s]
        IN  (r.op = "update" /\ r.pc = "done" /\ r.reply = "ok" /\ r.held)
               => \A n \in Names : r.ent.files[n].remote_st = r.seen[n]

\* A commit sends a file only over the version it has recorded, over one
\* that appeared after it listed the directory, or, for a new file, blindly
\* after the listing failed.
PutJustified ==
    \A s \in Slots :
        LET r == sess[s]
            f == server[r.cur]
        IN  r.pc = "put" =>
               \/ ~Exists(f)
               \/ f.t > r.seenAt
               \/ f.t = r.ent.files[r.cur].remote_st
               \/ r.list = "failed" /\ ~Tracked(r.ent, r.cur)

\* Only a file the user removed or renamed away is deleted from the server,
\* whatever entities were saved over each other before.
DeleteAsked ==
    \A s \in Slots : sess[s].pc = "rm" => sess[s].cur \in asked

\* A commit answered as done, and not cancelled, leaves records and local files in
\* step: every name of its path that is recorded is here, and every one that is here
\* is recorded. Nothing that was added or removed is passed over.
CommitComplete ==
    \A s \in Slots :
        LET r == sess[s]
        IN  (r.op \in CommitOps /\ r.pc = "done" /\ r.reply = "ok" /\ r.held)
               => \A n \in r.scope : Tracked(r.ent, n) <=> n \in r.ent.local

\* An operation that is over was answered, but for one: that of a single file whose
\* record says the file is here. Only then may the answer's stat_code throw.
EndsAnswered ==
    \A s \in Slots :
        LET r == sess[s]
        IN  r.pc = "done" /\ r.reply = "waiting" =>
               /\ r.op \in {"update_file", "commit_file"}
               /\ \E n \in r.scope : Tracked(r.ent, n) /\ n \in r.ent.local

\* Every operation ends, however long its listing, whatever fails and whoever changes
\* the files meanwhile; but for a commit that has sent a file (see SentIsAnswered).
OperationsEnd ==
    \A s \in Slots : ~Free(s) ~> Free(s) \/ sess[s].pc = "dead"

Marked(e, n) == Tracked(e, n) /\ n \notin e.local

\* An update does not bring back what the user removed: a name its entity marks as
\* removed is not made local again by the operation, by any of its turns.
NotBroughtBack ==
    [][\A s \in Slots, n \in Names :
          ~Free(s) /\ Marked(sess[s].ent, n) => n \notin sess'[s].ent.local]_vars

\* The two directories as the user sees them (Mirror), whatever is done with records.
UserView == INSTANCE Mirror

\* The synchronisation keeps that promise, through failures, cancellations, crashes and
\* operations that overlap.
KeepsPromise == UserView!Spec

\* submit_add, line 947: "the server does not have this file", so a new file
\* is sent over nothing that was there when the directory was listed.
NoBlindPut ==
    \A s \in Slots :
        LET r == sess[s]
        IN  (r.pc = "put" /\ ~Tracked(r.ent, r.cur))
               => ~Exists(server[r.cur]) \/ server[r.cur].t > r.seenAt

\* release (RevisionControlProtocol, line 192): an operation that is not
\* complete is answered at once and marked as cancelled.  So an update whose
\* files are still to come is never answered as done.
OkMeansDone ==
    \A s \in Slots :
        sess[s].op \in SyncOps /\ sess[s].reply = "ok" => sess[s].pc = "done"

\* submit_up and submit_add, lines 950 and 1026: a written file is recorded,
\* and the commit goes on.  Every commit that has sent a file is answered.
SentIsAnswered ==
    \A s \in Slots :
        (sess[s].op \in CommitOps /\ sess[s].pc = "put")
            ~> sess[s].reply # "waiting"

\* release (RevisionControlService, line 387) saves the data that changed:
\* the mark of a removed file is lifted only by adding or renaming to it.
MarkKept ==
    [][\A n \in Names :
          (Marked(stored, n) /\ Tracked(stored', n) /\ n \in stored'.local)
             => \/ Join(n)
                \/ \E s \in Slots : sess[s].op = "rename" /\ sess[s].to = n]_vars
=============================================================================
