------------------------ MODULE FileMapping_records ------------------------
(***************************************************************************)
(* Proofs that the records are right: a file that shows as in step has the *)
(* content of the server, an update that is done has recorded its listing, *)
(* and a commit sends only over what it has recorded or could not know.    *)
(*                                                                         *)
(* Only times are compared by the code. So the invariant says of every     *)
(* record whose remote time is still the server's that every file with the *)
(* recorded local time, under whatever name, has the server's content, and *)
(* that the recorded hash is the hash of that content or of none.          *)
(***************************************************************************)
EXTENDS FileMapping_deletes

(***************************************************************************)
(* The inductive invariant. dk and sv are the two directories, U a set of  *)
(* contents with all that are in use, t the clock, A the names asked for.  *)
(***************************************************************************)

Within(i, t) == i.remote_st <= t /\ i.local_st <= t /\ i.hash <= t

InfoTrue(i, m, dk, sv, U) ==
    i.remote_st # 0 /\ i.remote_st = sv[m].t =>
        /\ \A n \in Names : Exists(dk[n]) /\ dk[n].t = i.local_st => dk[n].c = sv[m].c
        /\ i.hash = sv[m].c \/ i.hash \notin U

EntTrue(e, dk, sv, U, t, A) ==
    \A m \in Names : /\ Within(e.files[m], t)
                     /\ m \in A \/ InfoTrue(e.files[m], m, dk, sv, U)

\* What PutJustified says of a session.
PutOK(r, sv) ==
    r.pc = "put" => \/ ~Exists(sv[r.cur])
                    \/ sv[r.cur].t > r.seenAt
                    \/ sv[r.cur].t = r.ent.files[r.cur].remote_st
                    \/ r.list = "failed" /\ ~Tracked(r.ent, r.cur)

\* A download of the version that was listed receives its content.
RecvOK(r, sv) ==
    r.pc = "recv" /\ r.seen[r.cur] # 0 /\ sv[r.cur].t = r.seen[r.cur] => sv[r.cur].c = r.buf

\* The records of the names outside S are those of the listing.
Listed(r, S) == \A n \in Names \ S : r.ent.files[n].remote_st = r.seen[n]

UpdateOK(r) ==
    r.op = "update" =>
        /\ r.pc \in {"list", "read", "recv", "done"}
        /\ r.pc \in {"read", "recv"} => Listed(r, r.todo \cup {r.cur})
        /\ r.pc = "done" /\ r.reply = "ok" /\ r.held => Listed(r, {})
        /\ r.held /\ r.pc # "done" => r.reply = "waiting"

SessOK(r, sv, U, t) ==
    /\ \A n \in Names : r.seen[n] <= t
    /\ r.seenAt <= t
    /\ r.buf \in U
    /\ r.pc = "list" /\ r.op \in CommitOps /\ r.cur # NoName => r.cur \in r.scope
    /\ PutOK(r, sv)
    /\ RecvOK(r, sv)
    /\ UpdateOK(r)

SessSync(r, dk, sv, U, t, A) == EntTrue(r.ent, dk, sv, U, t, A) /\ SessOK(r, sv, U, t)

AllSync(st, ss, dk, sv, U, t, A) ==
    /\ EntTrue(st, dk, sv, U, t, A)
    /\ \A s \in Slots : SessSync(ss[s], dk, sv, U, t, A)

\* Files of the same time have the same content: a rename carries both along.
FilesOK(dk, sv, U, t) ==
    /\ 0 \in U /\ U \subseteq 0..t
    /\ \A n \in Names : dk[n].t <= t /\ sv[n].t <= t /\ dk[n].c \in U /\ sv[n].c \in U
    /\ \A n, k \in Names : Exists(dk[n]) /\ dk[n].t = dk[k].t => dk[n].c = dk[k].c

Synced(st, ss, dk, sv, U, t, A) == FilesOK(dk, sv, U, t) /\ AllSync(st, ss, dk, sv, U, t, A)

SyncInv ==
    MarksInv /\ \E U : Synced(stored, sess, disk, server, U, now, asked)

(***************************************************************************)
(* Drift: how a step may change directories, contents and clock. A file    *)
(* here with an old time was here before, a file on the server is as it    *)
(* was, is gone or has a new time, and only new contents come into use.    *)
(***************************************************************************)
Drift(dk, sv, U, t, A, dk2, sv2, U2, t2, A2) ==
    /\ t <= t2 /\ A \subseteq A2 /\ U \subseteq U2
    /\ \A n \in Names : sv2[n] = sv[n] \/ sv2[n].t = 0 \/ sv2[n].t > t
    /\ \A n \in Names : Exists(dk2[n]) /\ dk2[n].t <= t => \E k \in Names : dk2[n] = dk[k]
    /\ \A u \in U2 : u \in U \/ u > t

LEMMA DriftEnt ==
    ASSUME NEW dk, NEW sv \in [Names -> File], NEW U, NEW t \in Nat, NEW A,
           NEW dk2, NEW sv2 \in [Names -> File], NEW U2, NEW t2 \in Nat, NEW A2,
           Drift(dk, sv, U, t, A, dk2, sv2, U2, t2, A2),
           NEW e \in Entity, EntTrue(e, dk, sv, U, t, A)
    PROVE  EntTrue(e, dk2, sv2, U2, t2, A2)
<1> SUFFICES ASSUME NEW m \in Names
             PROVE  /\ Within(e.files[m], t2)
                    /\ m \in A2 \/ InfoTrue(e.files[m], m, dk2, sv2, U2)
  BY DEF EntTrue
<1> DEFINE i == e.files[m]
<1>1. i \in Info /\ Within(i, t) /\ (m \in A \/ InfoTrue(i, m, dk, sv, U))
  BY DEF EntTrue, Entity
<1> HIDE DEF i
<1>2. /\ i.remote_st \in Nat /\ i.local_st \in Nat /\ i.hash \in Nat
      /\ i.remote_st <= t /\ i.local_st <= t /\ i.hash <= t
      /\ t <= t2 /\ A \subseteq A2
  BY <1>1 DEF Info, Within, Drift
<1>3. Within(i, t2)
  BY <1>2 DEF Within
<1>4. ASSUME InfoTrue(i, m, dk, sv, U), i.remote_st # 0, i.remote_st = sv2[m].t
      PROVE  /\ \A n \in Names : Exists(dk2[n]) /\ dk2[n].t = i.local_st => dk2[n].c = sv2[m].c
             /\ i.hash = sv2[m].c \/ i.hash \notin U2
  <2>1. sv2[m] = sv[m]
    BY <1>2, <1>4 DEF Drift
  <2>2. /\ \A n \in Names : Exists(dk[n]) /\ dk[n].t = i.local_st => dk[n].c = sv[m].c
        /\ i.hash = sv[m].c \/ i.hash \notin U
    BY <2>1, <1>4 DEF InfoTrue
  <2>3. ASSUME NEW n \in Names, Exists(dk2[n]), dk2[n].t = i.local_st
        PROVE  dk2[n].c = sv2[m].c
    <3>1. PICK k \in Names : dk2[n] = dk[k]
      BY <2>3, <1>2 DEF Drift
    <3> QED  BY <2>1, <2>2, <2>3, <3>1
  <2>4. i.hash \in U2 => i.hash \in U
    BY <1>2 DEF Drift
  <2> QED  BY <2>1, <2>2, <2>3, <2>4
<1> QED
  BY <1>1, <1>2, <1>3, <1>4 DEF InfoTrue, i

LEMMA DriftSess ==
    ASSUME NEW dk, NEW sv \in [Names -> File], NEW U, NEW t \in Nat, NEW A,
           NEW dk2, NEW sv2 \in [Names -> File], NEW U2, NEW t2 \in Nat, NEW A2,
           Drift(dk, sv, U, t, A, dk2, sv2, U2, t2, A2),
           NEW r \in Session, HasFile(r), SessSync(r, dk, sv, U, t, A)
    PROVE  SessSync(r, dk2, sv2, U2, t2, A2)
<1>1. r.ent \in Entity /\ r.seen \in [Names -> Nat] /\ r.seenAt \in Nat
  BY DEF Session
<1>2. EntTrue(r.ent, dk2, sv2, U2, t2, A2)
  BY <1>1, DriftEnt DEF SessSync
<1>3. SessOK(r, sv, U, t) /\ t <= t2 /\ U \subseteq U2
  BY DEF SessSync, Drift
<1>4. r.pc \in {"put", "recv"} => r.cur \in Names
  BY DEF HasFile
<1>5. PutOK(r, sv2)
  <2> SUFFICES ASSUME r.pc = "put" PROVE PutOK(r, sv2)
    BY DEF PutOK
  <2>1. sv2[r.cur] = sv[r.cur] \/ sv2[r.cur].t = 0 \/ sv2[r.cur].t > t
    BY <1>4 DEF Drift
  <2>2. sv2[r.cur].t \in Nat /\ r.seenAt <= t /\ PutOK(r, sv)
    BY <1>3, <1>4 DEF SessOK, File
  <2> QED  BY <1>1, <2>1, <2>2 DEF PutOK, Exists
<1>6. RecvOK(r, sv2)
  <2> SUFFICES ASSUME r.pc = "recv", r.seen[r.cur] # 0, sv2[r.cur].t = r.seen[r.cur]
               PROVE  sv2[r.cur].c = r.buf
    BY DEF RecvOK
  <2>1. sv2[r.cur] = sv[r.cur] \/ sv2[r.cur].t = 0 \/ sv2[r.cur].t > t
    BY <1>4 DEF Drift
  <2>2. r.seen[r.cur] <= t /\ r.seen[r.cur] \in Nat /\ RecvOK(r, sv)
    BY <1>1, <1>3, <1>4 DEF SessOK
  <2> QED  BY <2>1, <2>2 DEF RecvOK
<1>7. /\ \A n \in Names : r.seen[n] <= t2
      /\ r.seenAt <= t2
      /\ r.buf \in U2
  BY <1>1, <1>3 DEF SessOK
<1> QED
  BY <1>2, <1>3, <1>5, <1>6, <1>7 DEF SessSync, SessOK

LEMMA DriftAll ==
    ASSUME NEW dk, NEW sv \in [Names -> File], NEW U, NEW t \in Nat, NEW A,
           NEW dk2, NEW sv2 \in [Names -> File], NEW U2, NEW t2 \in Nat, NEW A2,
           Drift(dk, sv, U, t, A, dk2, sv2, U2, t2, A2),
           stored \in Entity, sess \in [Slots -> Session], \A s \in Slots : HasFile(sess[s]),
           AllSync(stored, sess, dk, sv, U, t, A)
    PROVE  AllSync(stored, sess, dk2, sv2, U2, t2, A2)
BY DriftEnt, DriftSess DEF AllSync

\* A slot that becomes a session in step with the world as it is then.
LEMMA BecomeSync ==
    ASSUME sess \in [Slots -> Session], NEW s \in Slots, NEW r,
           NEW dk, NEW sv, NEW U, NEW t, NEW A,
           AllSync(stored, sess, dk, sv, U, t, A), SessSync(r, dk, sv, U, t, A), Become(s, r)
    PROVE  AllSync(stored', sess', dk, sv, U, t, A)
<1>1. EntTrue(stored', dk, sv, U, t, A)
  BY DEF Become, SavedBy, AllSync, SessSync
<1>2. ASSUME NEW v \in Slots PROVE SessSync(sess'[v], dk, sv, U, t, A)
  BY DEF Become, AllSync
<1> QED
  BY <1>1, <1>2 DEF AllSync

(***************************************************************************)
(* Ends of a chain                                                         *)
(***************************************************************************)

\* An operation that ends, an update as one that is done or with an error.
LEMMA EndSync ==
    ASSUME NEW r \in Session, NEW a \in {"ok", "error"}, NEW d,
           NEW dk, NEW sv, NEW U, NEW t \in Nat, NEW A,
           0 \in U, EntTrue(r.ent, dk, sv, U, t, A), \A n \in Names : r.seen[n] <= t,
           r.op = "update" => /\ r.held => r.reply = "waiting"
                              /\ a = "error" \/ Listed(r, {})
    PROVE  /\ SessSync(Done(r, a), dk, sv, U, t, A)
           /\ SessSync(Answered(r, a, d), dk, sv, U, t, A)
<1> DEFINE q == Done(r, a)
           p == Answered(r, a, d)
<1>1. ASSUME NEW x, x.ent = r.ent, x.seen = r.seen, x.seenAt = 0, x.buf = 0, x.pc = "done",
             x.op = r.op,
             r.op = "update" /\ x.held => r.held /\ (x.reply = "ok" => a = "ok")
      PROVE  SessSync(x, dk, sv, U, t, A)
  <2>1. PutOK(x, sv) /\ RecvOK(x, sv)
    BY <1>1 DEF PutOK, RecvOK
  <2>2. UpdateOK(x)
    BY <1>1 DEF UpdateOK, Listed
  <2> QED
    BY <1>1, <2>1, <2>2 DEF SessSync, SessOK
<1>2. /\ q.ent = r.ent /\ q.seen = r.seen /\ q.seenAt = 0 /\ q.buf = 0 /\ q.pc = "done"
      /\ q.op = r.op /\ q.held = r.held
      /\ q.reply = (IF r.reply = "waiting" THEN a ELSE r.reply)
  BY DEF Done, Session
<1>3. \/ p = q
      \/ /\ p.ent = q.ent /\ p.seen = q.seen /\ p.seenAt = q.seenAt /\ p.buf = q.buf
         /\ p.pc = q.pc /\ p.op = q.op /\ p.held = FALSE
  <2> HIDE DEF q
  <2>1. q \in Session
    BY DoneType DEF q
  <2>2. p = q \/ p = [q EXCEPT !.held = FALSE, !.reply = r.reply]
    BY DEF Answered, q
  <2> HIDE DEF p
  <2> QED  BY <2>1, <2>2 DEF Session
<1> HIDE DEF q, p
<1>4. SessSync(q, dk, sv, U, t, A)
  BY <1>1, <1>2
<1>5. SessSync(p, dk, sv, U, t, A)
  BY <1>1, <1>2, <1>3, <1>4
<1> QED  BY <1>4, <1>5 DEF q, p

(***************************************************************************)
(* What the operators record                                               *)
(***************************************************************************)

\* The fields of a session that a change of its entity leaves alone.
SameRest(q, r) ==
    /\ q.op = r.op /\ q.pc = r.pc /\ q.scope = r.scope /\ q.todo = r.todo
    /\ q.seen = r.seen /\ q.seenAt = r.seenAt /\ q.cur = r.cur
    /\ q.buf = r.buf /\ q.held = r.held /\ q.reply = r.reply

\* A new remote time is recorded without a download only where it is the old
\* one or the file was removed here.
LEMMA SkippedSync ==
    ASSUME NEW r \in Session, NEW d, NEW K \in SUBSET Names,
           \A n \in K : NoDownload(r.ent, n, d, r.seen[n]),
           NEW dk, NEW sv, NEW U, NEW t \in Nat, NEW A,
           EntTrue(r.ent, dk, sv, U, t, A), MarkedIn(r.ent) \subseteq A,
           \A n \in Names : r.seen[n] <= t
    PROVE  /\ EntTrue(Skipped(r, K).ent, dk, sv, U, t, A)
           /\ SameRest(Skipped(r, K), r)
<1> DEFINE q == Skipped(r, K)
<1>1. /\ q.ent.files = [n \in Names |->
            IF n \in K THEN [r.ent.files[n] EXCEPT !.remote_st = r.seen[n]]
                       ELSE r.ent.files[n]]
      /\ SameRest(q, r)
  BY DEF Skipped, Session, Entity, SameRest
<1>2. r.ent.files \in [Names -> Info]
  BY DEF Session, Entity
<1> HIDE DEF q
<1>3. ASSUME NEW m \in Names
      PROVE  /\ Within(q.ent.files[m], t)
             /\ m \in A \/ InfoTrue(q.ent.files[m], m, dk, sv, U)
  <2> DEFINE i == r.ent.files[m]
             j == q.ent.files[m]
  <2>1. i \in Info /\ Within(i, t) /\ (m \in A \/ InfoTrue(i, m, dk, sv, U))
    BY <1>2 DEF EntTrue
  <2>2. j = IF m \in K THEN [i EXCEPT !.remote_st = r.seen[m]] ELSE i
    BY <1>1
  <2>3. m \in K => i.remote_st = r.seen[m] \/ m \in A
    BY DEF NoDownload, UpToDate, RemovedHere, MarkedIn
  <2>4. r.seen[m] <= t
    OBVIOUS
  <2> HIDE DEF i, j
  <2>5. /\ j.local_st = i.local_st /\ j.hash = i.hash
        /\ j.remote_st = IF m \in K THEN r.seen[m] ELSE i.remote_st
    BY <2>1, <2>2 DEF Info
  <2>6. Within(j, t)
    BY <2>1, <2>4, <2>5 DEF Within
  <2>7. m \in A \/ InfoTrue(j, m, dk, sv, U)
    BY <2>1, <2>3, <2>5 DEF InfoTrue
  <2> QED  BY <2>6, <2>7 DEF i, j
<1> QED
  BY <1>1, <1>3 DEF EntTrue, q

LEMMA SkippedListed ==
    ASSUME NEW r \in Session, NEW K, NEW S, Listed(r, S)
    PROVE  Listed(Skipped(r, K), S \ K)
<1> DEFINE q == Skipped(r, K)
<1>1. /\ q.ent.files = [n \in Names |->
            IF n \in K THEN [r.ent.files[n] EXCEPT !.remote_st = r.seen[n]]
                       ELSE r.ent.files[n]]
      /\ q.seen = r.seen
  BY DEF Skipped, Session, Entity
<1>2. r.ent.files \in [Names -> Info]
  BY DEF Session, Entity
<1> HIDE DEF q
<1>3. ASSUME NEW n \in Names, n \notin S \ K
      PROVE  q.ent.files[n].remote_st = q.seen[n]
  <2> DEFINE i == r.ent.files[n]
  <2>1. i \in Info /\ (n \notin S => i.remote_st = r.seen[n])
    BY <1>2 DEF Listed
  <2>2. q.ent.files[n] = IF n \in K THEN [i EXCEPT !.remote_st = r.seen[n]] ELSE i
    BY <1>1
  <2> HIDE DEF i
  <2>3. [i EXCEPT !.remote_st = r.seen[n]].remote_st = r.seen[n]
    BY <2>1 DEF Info
  <2> QED  BY <1>1, <1>3, <2>1, <2>2, <2>3
<1> QED
  BY <1>3 DEF Listed, q

\* A record that is dropped claims nothing.
LEMMA NoInfoTrue ==
    ASSUME NEW m, NEW dk, NEW sv, NEW U, NEW t \in Nat
    PROVE  Within(NoInfo, t) /\ InfoTrue(NoInfo, m, dk, sv, U)
BY DEF NoInfo, Within, InfoTrue

LEMMA PruneSync ==
    ASSUME NEW r \in Session, NEW dk, NEW sv, NEW U, NEW t \in Nat, NEW A,
           EntTrue(r.ent, dk, sv, U, t, A)
    PROVE  /\ EntTrue(Prune(r).ent, dk, sv, U, t, A)
           /\ Prune(r).op = r.op /\ Prune(r).pc = r.pc
           /\ Prune(r).seen = r.seen /\ Prune(r).seenAt = r.seenAt
           /\ Prune(r).buf = r.buf /\ Prune(r).held = r.held
           /\ Prune(r).reply = r.reply
           /\ Listed(Prune(r), Prune(r).todo)
<1> DEFINE q == Prune(r)
<1>1. /\ q.ent.files = [n \in Names |-> IF n \in Pruned(r) THEN NoInfo
                                        ELSE r.ent.files[n]]
      /\ q.op = r.op /\ q.pc = r.pc /\ q.seen = r.seen /\ q.seenAt = r.seenAt
      /\ q.buf = r.buf /\ q.held = r.held /\ q.reply = r.reply
      /\ q.todo = {n \in Names : r.seen[n] # 0}
  BY DEF Prune, Session
<1> HIDE DEF q
<1>2. ASSUME NEW m \in Names
      PROVE  q.ent.files[m] = NoInfo \/ q.ent.files[m] = r.ent.files[m]
  BY <1>1
<1>3. EntTrue(q.ent, dk, sv, U, t, A)
  BY <1>2, NoInfoTrue DEF EntTrue
<1>4. Listed(q, q.todo)
  <2> SUFFICES ASSUME NEW n \in Names, n \notin q.todo
               PROVE  q.ent.files[n].remote_st = q.seen[n]
    BY DEF Listed
  <2>1. r.seen[n] = 0 /\ q.seen[n] = 0
    BY <1>1
  <2>2. q.ent.files[n] = IF n \in Pruned(r) THEN NoInfo ELSE r.ent.files[n]
    BY <1>1
  <2>3. n \notin Pruned(r) => r.ent.files[n].remote_st = 0
    BY <2>1 DEF Pruned, Tracked
  <2> QED  BY <2>1, <2>2, <2>3 DEF NoInfo
<1> QED
  BY <1>1, <1>3, <1>4 DEF q

LEMMA UnrecordedSync ==
    ASSUME NEW r \in Session, NEW K, NEW dk, NEW sv, NEW U, NEW t \in Nat, NEW A,
           EntTrue(r.ent, dk, sv, U, t, A)
    PROVE  /\ EntTrue(Unrecorded(r, K).ent, dk, sv, U, t, A)
           /\ SameRest(Unrecorded(r, K), r)
<1>1. /\ Unrecorded(r, K).ent.files = [n \in Names |-> IF n \in K THEN NoInfo
                                                       ELSE r.ent.files[n]]
      /\ SameRest(Unrecorded(r, K), r)
  BY DEF Unrecorded, Session, Entity, SameRest
<1> QED
  BY <1>1, NoInfoTrue DEF EntTrue

LEMMA DropLocalSync ==
    ASSUME NEW r \in Session, NEW K, NEW dk, NEW sv, NEW U, NEW t, NEW A,
           EntTrue(r.ent, dk, sv, U, t, A)
    PROVE  /\ EntTrue(DropLocal(r, K).ent, dk, sv, U, t, A)
           /\ SameRest(DropLocal(r, K), r)
<1>1. DropLocal(r, K).ent.files = r.ent.files /\ SameRest(DropLocal(r, K), r)
  BY DEF DropLocal, Session, Entity, SameRest
<1> QED
  BY <1>1 DEF EntTrue

\* submit_up trusts the hash: a file with the recorded hash is a version the
\* record was made of, and every file of its time has that content.
LEMMA RefreshSync ==
    ASSUME NEW r \in Session, NEW dk \in [Names -> File], NEW K \in SUBSET Names,
           \A n \in K : Exists(dk[n]) /\ SameHash(r.ent, n, dk),
           NEW sv \in [Names -> File], NEW U, NEW t \in Nat, NEW A,
           FilesOK(dk, sv, U, t), EntTrue(r.ent, dk, sv, U, t, A)
    PROVE  /\ EntTrue(Refresh(r, K, dk).ent, dk, sv, U, t, A)
           /\ SameRest(Refresh(r, K, dk), r)
<1> DEFINE q == Refresh(r, K, dk)
<1>1. /\ q.ent.files = [n \in Names |->
            IF n \in K THEN [r.ent.files[n] EXCEPT !.local_st = dk[n].t]
                       ELSE r.ent.files[n]]
      /\ SameRest(q, r)
  BY DEF Refresh, Session, Entity, SameRest
<1>2. r.ent.files \in [Names -> Info]
  BY DEF Session, Entity
<1> HIDE DEF q
<1>3. ASSUME NEW m \in Names
      PROVE  /\ Within(q.ent.files[m], t)
             /\ m \in A \/ InfoTrue(q.ent.files[m], m, dk, sv, U)
  <2> DEFINE i == r.ent.files[m]
             j == q.ent.files[m]
  <2>1. i \in Info /\ Within(i, t) /\ (m \in A \/ InfoTrue(i, m, dk, sv, U))
    BY <1>2 DEF EntTrue
  <2>2. j = IF m \in K THEN [i EXCEPT !.local_st = dk[m].t] ELSE i
    BY <1>1
  <2>3. m \in K => Exists(dk[m]) /\ i.hash = dk[m].c
    BY DEF SameHash
  <2> HIDE DEF i, j
  <2>4. CASE m \notin K
    BY <2>1, <2>2, <2>4 DEF j
  <2>5. CASE m \in K
    <3>1. j.local_st = dk[m].t /\ j.hash = i.hash /\ j.remote_st = i.remote_st
      BY <2>1, <2>2, <2>5 DEF Info
    <3>2. dk[m].t <= t /\ dk[m].c \in U
      BY DEF FilesOK
    <3>3. Within(j, t)
      BY <2>1, <3>1, <3>2 DEF Within
    <3>4. ASSUME NEW n \in Names, Exists(dk[n]), dk[n].t = dk[m].t
          PROVE  dk[n].c = dk[m].c
      BY <3>4 DEF FilesOK
    <3>5. InfoTrue(i, m, dk, sv, U) => InfoTrue(j, m, dk, sv, U)
      BY <2>3, <2>5, <3>1, <3>2, <3>4 DEF InfoTrue
    <3> QED  BY <2>1, <3>3, <3>5 DEF j
  <2> QED  BY <2>4, <2>5 DEF i, j
<1> QED
  BY <1>1, <1>3 DEF EntTrue, q

(***************************************************************************)
(* The turns                                                               *)
(***************************************************************************)

\* A running update: the records of a directory's are those of the listing,
\* but for the files still to do.
Updating(r) ==
    r.op = "update" => Listed(r, r.todo) /\ (r.held => r.reply = "waiting")

LEMMA UpdateTurnSync ==
    ASSUME sess \in [Slots -> Session], NEW s \in Slots, NEW r \in Session, NEW d,
           NEW dk, NEW sv, NEW U, NEW t \in Nat, NEW A,
           0 \in U, r.buf \in U, r.seenAt <= t, \A n \in Names : r.seen[n] <= t,
           EntTrue(r.ent, dk, sv, U, t, A), MarkedIn(r.ent) \subseteq A,
           Updating(r), AllSync(stored, sess, dk, sv, U, t, A), UpdateTurn(s, r, d)
    PROVE  AllSync(stored', sess', dk, sv, U, t, A)
<1> DEFINE easy == {n \in r.todo : NoDownload(r.ent, n, d, r.seen[n])}
<1>1. r.todo \in SUBSET Names
  BY DEF Session
<1> HIDE DEF easy
<1>2. ASSUME NEW K \in SUBSET Names, \A n \in K : NoDownload(r.ent, n, d, r.seen[n])
      PROVE  /\ Skipped(r, K) \in Session
             /\ EntTrue(Skipped(r, K).ent, dk, sv, U, t, A)
             /\ SameRest(Skipped(r, K), r)
             /\ r.op = "update" => Listed(Skipped(r, K), r.todo \ K)
  <2>2. /\ EntTrue(Skipped(r, K).ent, dk, sv, U, t, A)
        /\ SameRest(Skipped(r, K), r)
    BY <1>2, SkippedSync
  <2>3. r.op = "update" => Listed(Skipped(r, K), r.todo \ K)
    BY SkippedListed DEF Updating
  <2> QED  BY <2>2, <2>3, SkippedType
<1>3. ASSUME NEW K \in SUBSET easy, NEW n \in r.todo \ easy,
             Become(s, [Skipped(r, K) EXCEPT !.todo = r.todo \ (K \cup {n}),
                                             !.cur = n, !.pc = "read"])
      PROVE  AllSync(stored', sess', dk, sv, U, t, A)
  <2> DEFINE x == Skipped(r, K)
             q == [x EXCEPT !.todo = r.todo \ (K \cup {n}), !.cur = n, !.pc = "read"]
  <2>1. /\ x \in Session /\ EntTrue(x.ent, dk, sv, U, t, A) /\ SameRest(x, r)
        /\ r.op = "update" => Listed(x, r.todo \ K)
        /\ Become(s, q)
    <3>1. K \in SUBSET Names /\ \A k \in K : NoDownload(r.ent, k, d, r.seen[k])
      BY <1>1 DEF easy
    <3> QED  BY <3>1, <1>2, <1>3
  <2>2. n \notin K
    OBVIOUS
  <2> HIDE DEF x
  <2>3. /\ q.ent = x.ent /\ q.op = r.op /\ q.pc = "read" /\ q.cur = n
        /\ q.todo = r.todo \ (K \cup {n}) /\ q.seen = r.seen /\ q.seenAt = r.seenAt
        /\ q.buf = r.buf /\ q.held = r.held /\ q.reply = r.reply
    BY <2>1 DEF Session, SameRest
  <2> HIDE DEF q
  <2>4. r.op = "update" => Listed(q, q.todo \cup {q.cur})
    <3> SUFFICES ASSUME r.op = "update", NEW k \in Names, k \notin q.todo \cup {n}
                 PROVE  q.ent.files[k].remote_st = q.seen[k]
      BY <2>3 DEF Listed
    <3>1. k \in Names \ (r.todo \ K)
      BY <2>3
    <3> QED  BY <2>1, <2>3, <3>1 DEF Listed, SameRest
  <2>5. PutOK(q, sv) /\ RecvOK(q, sv) /\ UpdateOK(q)
    BY <2>3, <2>4 DEF PutOK, RecvOK, UpdateOK, Updating
  <2>6. SessSync(q, dk, sv, U, t, A)
    BY <2>1, <2>3, <2>5 DEF SessSync, SessOK, Updating
  <2> QED
    BY <2>1, <2>6, BecomeSync
<1>4. ASSUME r.todo \subseteq easy, Become(s, Answered(Skipped(r, r.todo), "ok", d))
      PROVE  AllSync(stored', sess', dk, sv, U, t, A)
  <2> DEFINE x == Skipped(r, r.todo)
  <2>1. /\ x \in Session /\ EntTrue(x.ent, dk, sv, U, t, A) /\ SameRest(x, r)
        /\ r.op = "update" => Listed(x, {})
        /\ Become(s, Answered(x, "ok", d))
    <3>1. /\ r.todo \in SUBSET Names /\ r.todo \ r.todo = {}
          /\ \A k \in r.todo : NoDownload(r.ent, k, d, r.seen[k])
      BY <1>1, <1>4 DEF easy
    <3> QED  BY <3>1, <1>2, <1>4
  <2> HIDE DEF x
  <2>2. SessSync(Answered(x, "ok", d), dk, sv, U, t, A)
    BY <2>1, EndSync DEF SameRest, Updating
  <2> QED
    BY <2>1, <2>2, BecomeSync
<1> QED
  BY <1>3, <1>4 DEF UpdateTurn, easy

LEMMA DelTurnSync ==
    ASSUME sess \in [Slots -> Session], NEW s \in Slots, NEW r \in Session, NEW d,
           NEW dk, NEW sv, NEW U, NEW t \in Nat, NEW A,
           0 \in U, r.buf \in U, r.seenAt <= t, \A n \in Names : r.seen[n] <= t,
           EntTrue(r.ent, dk, sv, U, t, A), r.op \in CommitOps,
           AllSync(stored, sess, dk, sv, U, t, A), DelTurn(s, r, d)
    PROVE  AllSync(stored', sess', dk, sv, U, t, A)
<1>1. r.todo \in SUBSET Names
  BY DEF Session
<1>2. ASSUME NEW K
      PROVE  /\ Unrecorded(r, K) \in Session
             /\ EntTrue(Unrecorded(r, K).ent, dk, sv, U, t, A)
             /\ SameRest(Unrecorded(r, K), r)
  BY UnrecordedType, UnrecordedSync
<1>3. ASSUME NEW K, NEW n \in r.todo,
             Become(s, [Unrecorded(r, K) EXCEPT !.todo = r.todo \ (K \cup {n}),
                                                !.cur = n, !.pc = "rm"])
      PROVE  AllSync(stored', sess', dk, sv, U, t, A)
  <2> DEFINE x == Unrecorded(r, K)
             q == [x EXCEPT !.todo = r.todo \ (K \cup {n}), !.cur = n, !.pc = "rm"]
  <2>1. /\ x \in Session /\ EntTrue(x.ent, dk, sv, U, t, A) /\ SameRest(x, r)
        /\ Become(s, q)
    BY <1>2, <1>3
  <2> HIDE DEF x
  <2>2. /\ q.ent = x.ent /\ q.op = r.op /\ q.pc = "rm" /\ q.seen = r.seen
        /\ q.seenAt = r.seenAt /\ q.buf = r.buf
    BY <2>1 DEF Session, SameRest
  <2> HIDE DEF q
  <2>3. PutOK(q, sv) /\ RecvOK(q, sv) /\ UpdateOK(q)
    BY <2>2 DEF PutOK, RecvOK, UpdateOK, CommitOps
  <2>4. SessSync(q, dk, sv, U, t, A)
    BY <2>1, <2>2, <2>3 DEF SessSync, SessOK
  <2> QED
    BY <2>1, <2>4, BecomeSync
<1>4. ASSUME NEW K, Become(s, Answered(Unrecorded(r, K), "ok", d))
      PROVE  AllSync(stored', sess', dk, sv, U, t, A)
  <2> DEFINE x == Unrecorded(r, K)
  <2>1. /\ x \in Session /\ EntTrue(x.ent, dk, sv, U, t, A) /\ SameRest(x, r)
        /\ Become(s, Answered(x, "ok", d))
    BY <1>2, <1>4
  <2> HIDE DEF x
  <2>2. x.op # "update" /\ \A n \in Names : x.seen[n] <= t
    BY <2>1 DEF SameRest, CommitOps
  <2>3. SessSync(Answered(x, "ok", d), dk, sv, U, t, A)
    BY <2>1, <2>2, EndSync
  <2> QED
    BY <2>1, <2>3, BecomeSync
<1> QED
  BY <1>3, <1>4 DEF DelTurn

\* A commit that begins: what it will list first.
Beginning(r, U, t) ==
    /\ r.op \in CommitOps /\ r.pc = "list" /\ r.buf \in U /\ r.seenAt <= t
    /\ r.cur = NoName /\ \A n \in Names : r.seen[n] <= t

LEMMA CommitTurnSync ==
    ASSUME sess \in [Slots -> Session], NEW s \in Slots, NEW r \in Session,
           NEW dk \in [Names -> File], NEW sv \in [Names -> File],
           NEW U, NEW t \in Nat, NEW A,
           FilesOK(dk, sv, U, t), EntTrue(r.ent, dk, sv, U, t, A), Beginning(r, U, t),
           AllSync(stored, sess, dk, sv, U, t, A), CommitTurn(s, r, dk)
    PROVE  AllSync(stored', sess', dk, sv, U, t, A)
<1> DEFINE add == Added(r.ent, r.scope)
           r1 == DropLocal(r, add)
           up == Modified(r1.ent, r.scope, dk)
           same == {n \in up : SameHash(r1.ent, n, dk)}
           r2 == Refresh(r1, up, dk)
           del == Deleted(r2.ent, r.scope)
\* A turn that goes on to ask for the listing.
<1>1. ASSUME NEW x \in Session, EntTrue(x.ent, dk, sv, U, t, A), SameRest(x, r),
             NEW q, Become(s, q), q.ent = x.ent, q.op = x.op, q.pc = x.pc,
             q.scope = x.scope, q.seen = x.seen, q.seenAt = x.seenAt, q.buf = x.buf,
             q.cur # NoName => q.cur \in r.scope
      PROVE  AllSync(stored', sess', dk, sv, U, t, A)
  <2>1. /\ q.op \in CommitOps /\ q.pc = "list" /\ q.buf \in U /\ q.seenAt <= t
        /\ \A n \in Names : q.seen[n] <= t
        /\ q.cur # NoName => q.cur \in q.scope
        /\ EntTrue(q.ent, dk, sv, U, t, A)
    BY <1>1 DEF Beginning, SameRest
  <2>2. PutOK(q, sv) /\ RecvOK(q, sv) /\ UpdateOK(q)
    BY <2>1 DEF PutOK, RecvOK, UpdateOK, CommitOps
  <2>3. SessSync(q, dk, sv, U, t, A)
    BY <2>1, <2>2 DEF SessSync, SessOK
  <2> QED  BY <1>1, <2>3, BecomeSync
<1>2. r.scope \in SUBSET Names
  BY DEF Session
<1>3. /\ add \in SUBSET r.scope /\ up \in SUBSET r.scope /\ same \in SUBSET up
      /\ \A n \in up : Exists(dk[n])
      /\ \A n \in same : SameHash(r1.ent, n, dk)
  BY <1>2 DEF Added, Modified
<1>4. \/ \E K \in SUBSET add, n \in add : Become(s, [DropLocal(r, K) EXCEPT !.cur = n])
      \/ \E K \in SUBSET same, n \in up : Become(s, [Refresh(r1, K, dk) EXCEPT !.cur = n])
      \/ /\ up = same
         /\ Become(s, Answered(r2, "ok", dk)) \/ Become(s, [r2 EXCEPT !.todo = del])
  BY DEF CommitTurn
<1>5. ASSUME NEW K
      PROVE  /\ DropLocal(r, K) \in Session /\ SameRest(DropLocal(r, K), r)
             /\ EntTrue(DropLocal(r, K).ent, dk, sv, U, t, A)
  BY DropLocalType, DropLocalSync
<1>6. r1 \in Session /\ SameRest(r1, r) /\ EntTrue(r1.ent, dk, sv, U, t, A)
  BY <1>5
<1> HIDE DEF add, r1, up, same
<1>7. ASSUME NEW K \in SUBSET same
      PROVE  /\ Refresh(r1, K, dk) \in Session /\ SameRest(Refresh(r1, K, dk), r)
             /\ EntTrue(Refresh(r1, K, dk).ent, dk, sv, U, t, A)
  <2>1. K \in SUBSET Names /\ \A n \in K : Exists(dk[n]) /\ SameHash(r1.ent, n, dk)
    BY <1>2, <1>3
  <2>2. /\ EntTrue(Refresh(r1, K, dk).ent, dk, sv, U, t, A)
        /\ SameRest(Refresh(r1, K, dk), r1)
    BY <1>6, <2>1, RefreshSync
  <2> QED  BY <1>6, <2>2, RefreshType DEF SameRest
<1>8. ASSUME NEW K, NEW n \in add, Become(s, [DropLocal(r, K) EXCEPT !.cur = n])
      PROVE  AllSync(stored', sess', dk, sv, U, t, A)
  <2> DEFINE x == DropLocal(r, K)
             q == [x EXCEPT !.cur = n]
  <2>1. /\ x \in Session /\ SameRest(x, r) /\ EntTrue(x.ent, dk, sv, U, t, A)
        /\ Become(s, q) /\ n \in r.scope
    BY <1>3, <1>5, <1>8
  <2> HIDE DEF x
  <2>2. /\ q.ent = x.ent /\ q.op = x.op /\ q.pc = x.pc /\ q.scope = x.scope
        /\ q.seen = x.seen /\ q.seenAt = x.seenAt /\ q.buf = x.buf /\ q.cur = n
    BY <2>1 DEF Session
  <2> HIDE DEF q
  <2> QED  BY <2>1, <2>2, <1>1
<1>9. ASSUME NEW K \in SUBSET same, NEW n \in up,
             Become(s, [Refresh(r1, K, dk) EXCEPT !.cur = n])
      PROVE  AllSync(stored', sess', dk, sv, U, t, A)
  <2> DEFINE x == Refresh(r1, K, dk)
             q == [x EXCEPT !.cur = n]
  <2>1. /\ x \in Session /\ SameRest(x, r) /\ EntTrue(x.ent, dk, sv, U, t, A)
        /\ Become(s, q) /\ n \in r.scope
    BY <1>3, <1>7, <1>9
  <2> HIDE DEF x
  <2>2. /\ q.ent = x.ent /\ q.op = x.op /\ q.pc = x.pc /\ q.scope = x.scope
        /\ q.seen = x.seen /\ q.seenAt = x.seenAt /\ q.buf = x.buf /\ q.cur = n
    BY <2>1 DEF Session
  <2> HIDE DEF q
  <2> QED  BY <2>1, <2>2, <1>1
<1>10. ASSUME up = same
       PROVE  r2 \in Session /\ SameRest(r2, r) /\ EntTrue(r2.ent, dk, sv, U, t, A)
  BY <1>7, <1>10
<1> HIDE DEF r2, del
<1>11. ASSUME up = same, Become(s, Answered(r2, "ok", dk))
       PROVE  AllSync(stored', sess', dk, sv, U, t, A)
  <2>1. r2 \in Session /\ SameRest(r2, r) /\ EntTrue(r2.ent, dk, sv, U, t, A)
    BY <1>10, <1>11
  <2>2. r2.op # "update" /\ (\A n \in Names : r2.seen[n] <= t) /\ 0 \in U
    BY <2>1 DEF SameRest, Beginning, CommitOps, FilesOK
  <2>3. SessSync(Answered(r2, "ok", dk), dk, sv, U, t, A)
    BY <2>1, <2>2, EndSync
  <2> QED  BY <1>11, <2>3, BecomeSync
<1>12. ASSUME up = same, Become(s, [r2 EXCEPT !.todo = del])
       PROVE  AllSync(stored', sess', dk, sv, U, t, A)
  <2> DEFINE q == [r2 EXCEPT !.todo = del]
  <2>1. /\ r2 \in Session /\ SameRest(r2, r) /\ EntTrue(r2.ent, dk, sv, U, t, A)
        /\ Become(s, q)
    BY <1>10, <1>12
  <2>2. /\ q.ent = r2.ent /\ q.op = r2.op /\ q.pc = r2.pc /\ q.scope = r2.scope
        /\ q.seen = r2.seen /\ q.seenAt = r2.seenAt /\ q.buf = r2.buf
        /\ q.cur = r2.cur
    BY <2>1 DEF Session
  <2> HIDE DEF q
  <2>3. q.cur = NoName
    BY <2>1, <2>2 DEF SameRest, Beginning
  <2> QED  BY <2>1, <2>2, <2>3, <1>1
<1> QED
  BY <1>4, <1>8, <1>9, <1>11, <1>12 DEF r2

(***************************************************************************)
(* Files written and deleted                                               *)
(***************************************************************************)

\* The contents in use when the clock goes on to t2.
Grown(U, V, t, t2) ==
    /\ t \in Nat /\ t2 \in Nat /\ t <= t2
    /\ U \subseteq V /\ V \subseteq 0..t2 /\ \A v \in V : v \in U \/ v > t

\* A file that is deleted, or written now.
Fresh(f, V, t, t2) == f \in File /\ f.c \in V /\ (f.t = 0 \/ (f.t > t /\ f.t <= t2))

LEMMA DiskWrite ==
    ASSUME NEW dk \in [Names -> File], NEW sv \in [Names -> File], NEW U, NEW V,
           NEW t \in Nat, NEW t2 \in Nat, NEW A, NEW n \in Names, NEW f,
           FilesOK(dk, sv, U, t), Grown(U, V, t, t2), Fresh(f, V, t, t2)
    PROVE  /\ FilesOK([dk EXCEPT ![n] = f], sv, V, t2)
           /\ Drift(dk, sv, U, t, A, [dk EXCEPT ![n] = f], sv, V, t2, A)
           /\ [dk EXCEPT ![n] = f] \in [Names -> File]
<1> DEFINE d == [dk EXCEPT ![n] = f]
<1>1. d \in [Names -> File] /\ d[n] = f /\ \A k \in Names : k # n => d[k] = dk[k]
  BY DEF Fresh
<1> HIDE DEF d
<1>2. /\ \A k \in Names : dk[k].t \in Nat /\ sv[k].t \in Nat
      /\ \A k \in Names : dk[k].t <= t /\ sv[k].t <= t /\ dk[k].c \in U /\ sv[k].c \in U
      /\ \A k, m \in Names : Exists(dk[k]) /\ dk[k].t = dk[m].t => dk[k].c = dk[m].c
      /\ 0 \in U
  BY DEF FilesOK, File
<1>3. /\ t <= t2 /\ U \subseteq V /\ V \subseteq 0..t2 /\ \A v \in V : v \in U \/ v > t
      /\ f.t \in Nat /\ f.c \in V /\ (f.t = 0 \/ (f.t > t /\ f.t <= t2))
  BY DEF Grown, Fresh, File
<1>4. ASSUME NEW k \in Names
      PROVE  d[k].t <= t2 /\ sv[k].t <= t2 /\ d[k].c \in V /\ sv[k].c \in V
  <2>1. /\ dk[k].t \in Nat /\ sv[k].t \in Nat /\ dk[k].t <= t /\ sv[k].t <= t
        /\ dk[k].c \in V /\ sv[k].c \in V
    BY <1>2, <1>3
  <2>2. dk[k].t <= t2 /\ sv[k].t <= t2
    BY <2>1, <1>3
  <2>3. f.t <= t2
    BY <1>3
  <2>4. d[k] = f \/ d[k] = dk[k]
    BY <1>1
  <2> QED  BY <1>3, <2>1, <2>2, <2>3, <2>4
<1>5. ASSUME NEW k \in Names, NEW m \in Names, Exists(d[k]), d[k].t = d[m].t
      PROVE  d[k].c = d[m].c
  BY <1>1, <1>2, <1>3, <1>5 DEF Exists
<1>6. FilesOK(d, sv, V, t2)
  BY <1>2, <1>3, <1>4, <1>5 DEF FilesOK
<1>7. ASSUME NEW k \in Names, Exists(d[k]), d[k].t <= t
      PROVE  d[k] = dk[k]
  BY <1>1, <1>3, <1>7 DEF Exists
<1>8. Drift(dk, sv, U, t, A, d, sv, V, t2, A)
  BY <1>3, <1>7 DEF Drift
<1> QED  BY <1>1, <1>6, <1>8 DEF d

LEMMA ServerWrite ==
    ASSUME NEW dk \in [Names -> File], NEW sv \in [Names -> File], NEW U, NEW V,
           NEW t \in Nat, NEW t2 \in Nat, NEW A, NEW n \in Names, NEW f,
           FilesOK(dk, sv, U, t), Grown(U, V, t, t2), Fresh(f, V, t, t2)
    PROVE  /\ FilesOK(dk, [sv EXCEPT ![n] = f], V, t2)
           /\ Drift(dk, sv, U, t, A, dk, [sv EXCEPT ![n] = f], V, t2, A)
           /\ [sv EXCEPT ![n] = f] \in [Names -> File]
<1> DEFINE w == [sv EXCEPT ![n] = f]
<1>1. w \in [Names -> File] /\ w[n] = f /\ \A k \in Names : k # n => w[k] = sv[k]
  BY DEF Fresh
<1> HIDE DEF w
<1>2. /\ \A k \in Names : dk[k].t \in Nat /\ sv[k].t \in Nat
      /\ \A k \in Names : dk[k].t <= t /\ sv[k].t <= t /\ dk[k].c \in U /\ sv[k].c \in U
      /\ \A k, m \in Names : Exists(dk[k]) /\ dk[k].t = dk[m].t => dk[k].c = dk[m].c
      /\ 0 \in U
  BY DEF FilesOK, File
<1>3. /\ t <= t2 /\ U \subseteq V /\ V \subseteq 0..t2 /\ \A v \in V : v \in U \/ v > t
      /\ f.t \in Nat /\ f.c \in V /\ (f.t = 0 \/ (f.t > t /\ f.t <= t2))
  BY DEF Grown, Fresh, File
<1>4. ASSUME NEW k \in Names
      PROVE  dk[k].t <= t2 /\ w[k].t <= t2 /\ dk[k].c \in V /\ w[k].c \in V
  <2>1. /\ dk[k].t \in Nat /\ sv[k].t \in Nat /\ dk[k].t <= t /\ sv[k].t <= t
        /\ dk[k].c \in V /\ sv[k].c \in V
    BY <1>2, <1>3
  <2>2. dk[k].t <= t2 /\ sv[k].t <= t2
    BY <2>1, <1>3
  <2>3. f.t <= t2
    BY <1>3
  <2>4. w[k] = f \/ w[k] = sv[k]
    BY <1>1
  <2> QED  BY <1>3, <2>1, <2>2, <2>3, <2>4
<1>5. FilesOK(dk, w, V, t2)
  BY <1>2, <1>3, <1>4 DEF FilesOK
<1>6. ASSUME NEW k \in Names
      PROVE  w[k] = sv[k] \/ w[k].t = 0 \/ w[k].t > t
  BY <1>1, <1>3
<1>7. Drift(dk, sv, U, t, A, dk, w, V, t2, A)
  BY <1>3, <1>6 DEF Drift
<1> QED  BY <1>1, <1>5, <1>7 DEF w

(***************************************************************************)
(* The steps keep the invariant                                            *)
(***************************************************************************)

LEMMA IdleSync ==
    ASSUME NEW dk, NEW sv, NEW U, NEW t \in Nat, NEW A, 0 \in U
    PROVE  SessSync(IdleSession, dk, sv, U, t, A) /\ EntTrue(EmptyEntity, dk, sv, U, t, A)
<1>1. EntTrue(EmptyEntity, dk, sv, U, t, A)
  BY NoInfoTrue DEF EntTrue, EmptyEntity
<1>2. /\ IdleSession.ent = EmptyEntity /\ IdleSession.op = "none"
      /\ IdleSession.pc = "idle" /\ IdleSession.seen = NothingSeen
      /\ IdleSession.seenAt = 0 /\ IdleSession.buf = 0
  BY DEF IdleSession, NewSession
<1>3. SessOK(IdleSession, sv, U, t)
  BY <1>2 DEF SessOK, PutOK, RecvOK, UpdateOK, NothingSeen
<1> QED  BY <1>1, <1>2, <1>3 DEF SessSync

LEMMA InitSync == Init => SyncInv
<1> SUFFICES ASSUME Init PROVE SyncInv
  OBVIOUS
<1> DEFINE U == {0, 1}
<1>1. PICK S \in SUBSET Names, T \in SUBSET Names :
        /\ server = [n \in Names |-> IF n \in S THEN [c |-> 1, t |-> 1]
                                                ELSE Absent]
        /\ disk = [n \in Names |-> IF n \in T THEN [c |-> 1, t |-> 2]
                                              ELSE Absent]
        /\ stored = [files |-> [n \in Names |-> IF n \in T
                        THEN [remote_st |-> 1, local_st |-> 2, hash |-> 1]
                        ELSE NoInfo],
                     local |-> T]
  BY DEF Init
<1>2. now = 2 /\ sess = [s \in Slots |-> IdleSession]
  BY DEF Init
<1>3. FilesOK(disk, server, U, now)
  BY <1>1, <1>2 DEF FilesOK, Absent, Exists
<1>4. ASSUME NEW m \in Names
      PROVE  /\ Within(stored.files[m], now)
             /\ InfoTrue(stored.files[m], m, disk, server, U)
  BY <1>1, <1>2 DEF Within, InfoTrue, NoInfo, Absent, Exists
<1>5. EntTrue(stored, disk, server, U, now, asked)
  BY <1>4 DEF EntTrue
<1>6. AllSync(stored, sess, disk, server, U, now, asked)
  BY <1>2, <1>5, IdleSync DEF AllSync
<1> QED
  BY <1>3, <1>6, InitMarks DEF SyncInv, Synced

LEMMA EnvironmentSync ==
    ASSUME MarksInv, NEW U, Synced(stored, sess, disk, server, U, now, asked),
           User \/ Remote
    PROVE  \E V : Synced(stored', sess', disk', server', V, now', asked')
<1>1. /\ disk \in [Names -> File] /\ server \in [Names -> File] /\ now \in Nat
      /\ stored \in Entity /\ sess \in [Slots -> Session]
      /\ \A s \in Slots : HasFile(sess[s])
  BY DEF MarksInv, TypeOK
<1>2. /\ FilesOK(disk, server, U, now)
      /\ AllSync(stored, sess, disk, server, U, now, asked)
  BY DEF Synced
<1>3. 0 \in U /\ U \subseteq 0..now
  BY <1>2 DEF FilesOK
<1> DEFINE V == U \cup {now + 1}
<1>4. Grown(U, U, now, now) /\ Grown(U, V, now, now + 1)
  BY <1>1, <1>3 DEF Grown
<1> HIDE DEF V
<1>5. now + 1 \in V /\ U \subseteq V
  BY DEF V
<1>6. ASSUME NEW n \in Names, NEW f, NEW W, disk' = [disk EXCEPT ![n] = f],
             Grown(U, W, now, now'), Fresh(f, W, now, now'), now' \in Nat,
             UNCHANGED <<server, stored, sess, asked>>
      PROVE  Synced(stored', sess', disk', server', W, now', asked')
  <2>1. /\ FilesOK(disk', server', W, now')
        /\ Drift(disk, server, U, now, asked, disk', server', W, now', asked')
        /\ disk' \in [Names -> File] /\ server' \in [Names -> File]
    BY <1>1, <1>2, <1>6, DiskWrite
  <2>2. AllSync(stored, sess, disk', server', W, now', asked')
    BY <1>1, <1>2, <1>6, <2>1, DriftAll
  <2> QED  BY <1>6, <2>1, <2>2 DEF Synced
<1>7. ASSUME NEW n \in Names, NEW f, NEW W, server' = [server EXCEPT ![n] = f],
             Grown(U, W, now, now'), Fresh(f, W, now, now'), now' \in Nat,
             UNCHANGED <<disk, stored, sess, asked>>
      PROVE  Synced(stored', sess', disk', server', W, now', asked')
  <2>1. /\ FilesOK(disk', server', W, now')
        /\ Drift(disk, server, U, now, asked, disk', server', W, now', asked')
        /\ disk' \in [Names -> File] /\ server' \in [Names -> File]
    BY <1>1, <1>2, <1>7, ServerWrite
  <2>2. AllSync(stored, sess, disk', server', W, now', asked')
    BY <1>1, <1>2, <1>7, <2>1, DriftAll
  <2> QED  BY <1>7, <2>1, <2>2 DEF Synced
<1>8. Fresh(Absent, U, now, now)
  BY <1>3 DEF Fresh, Absent, File
<1>9. ASSUME NEW c \in V
      PROVE  Fresh([c |-> c, t |-> now + 1], V, now, now + 1)
  <2>1. c \in Nat
    BY <1>4 DEF Grown
  <2> QED  BY <2>1, <1>1 DEF Fresh, File
<1>10. ASSUME NEW n \in Names, UserWrite(n)
       PROVE  \E W : Synced(stored', sess', disk', server', W, now', asked')
  <2>1. disk[n].c \in V /\ disk[n] \in File
    BY <1>1, <1>2, <1>5 DEF FilesOK
  <2>2. \/ disk' = [disk EXCEPT ![n] = [c |-> now + 1, t |-> now + 1]]
        \/ disk' = [disk EXCEPT ![n].t = now + 1]
    BY <1>10 DEF UserWrite
  <2>3. [disk[n] EXCEPT !.t = now + 1] = [c |-> disk[n].c, t |-> now + 1]
    BY <2>1 DEF File
  <2>4. \E c \in V : disk' = [disk EXCEPT ![n] = [c |-> c, t |-> now + 1]]
    BY <1>5, <2>1, <2>2, <2>3
  <2>5. now' = now + 1 /\ now' \in Nat /\ UNCHANGED <<server, stored, sess, asked>>
    BY <1>1, <1>10 DEF UserWrite
  <2> QED  BY <1>4, <1>6, <1>9, <2>4, <2>5
<1>11. ASSUME NEW n \in Names, UserErase(n)
       PROVE  \E W : Synced(stored', sess', disk', server', W, now', asked')
  BY <1>1, <1>4, <1>6, <1>8, <1>11 DEF UserErase
<1>12. ASSUME NEW n \in Names, Join(n)
       PROVE  \E W : Synced(stored', sess', disk', server', W, now', asked')
  <2>1. /\ stored' = [stored EXCEPT !.local = stored.local \cup {n}]
        /\ UNCHANGED <<server, disk, sess, now, asked>>
    BY <1>12 DEF Join
  <2>2. stored'.files = stored.files
    BY <1>1, <2>1 DEF Entity
  <2>3. AllSync(stored', sess, disk, server, U, now, asked)
    BY <1>2, <2>2 DEF AllSync, EntTrue
  <2> QED  BY <1>2, <2>1, <2>3 DEF Synced
<1>13. ASSUME NEW n \in Names, RemoteWrite(n)
       PROVE  \E W : Synced(stored', sess', disk', server', W, now', asked')
  <2>1. /\ server' = [server EXCEPT ![n] = [c |-> now + 1, t |-> now + 1]]
        /\ now' = now + 1 /\ now' \in Nat /\ UNCHANGED <<disk, stored, sess, asked>>
    BY <1>1, <1>13 DEF RemoteWrite
  <2>2. Fresh([c |-> now + 1, t |-> now + 1], V, now, now')
    BY <1>5, <1>9, <2>1
  <2> QED  BY <1>4, <1>7, <2>1, <2>2
<1>14. ASSUME NEW n \in Names, RemoteDelete(n)
       PROVE  \E W : Synced(stored', sess', disk', server', W, now', asked')
  BY <1>1, <1>4, <1>7, <1>8, <1>14 DEF RemoteDelete
<1> QED
  BY <1>10, <1>11, <1>12, <1>13, <1>14 DEF User, Remote

LEMMA NewSync ==
    ASSUME stored \in Entity, NEW op, NEW S, NEW dk, NEW sv, NEW U, NEW t \in Nat, NEW A,
           0 \in U, EntTrue(stored, dk, sv, U, t, A)
    PROVE  SessSync(NewSession(op, stored, S), dk, sv, U, t, A)
<1> DEFINE x == NewSession(op, stored, S)
<1>1. /\ x.ent = stored /\ x.pc = "list" /\ x.seen = NothingSeen /\ x.seenAt = 0
      /\ x.buf = 0 /\ x.cur = NoName /\ x.reply = "waiting"
  BY DEF NewSession
<1> HIDE DEF x
<1>2. SessOK(x, sv, U, t)
  BY <1>1 DEF SessOK, PutOK, RecvOK, UpdateOK, NothingSeen
<1> QED  BY <1>1, <1>2 DEF SessSync, x

LEMMA RequestSync ==
    ASSUME MarksInv, NEW U, Synced(stored, sess, disk, server, U, now, asked),
           NEW s \in Slots, Request(s)
    PROVE  \E V : Synced(stored', sess', disk', server', V, now', asked')
<1>1. /\ disk \in [Names -> File] /\ server \in [Names -> File] /\ now \in Nat
      /\ stored \in Entity /\ sess \in [Slots -> Session]
      /\ \A v \in Slots : HasFile(sess[v])
  BY DEF MarksInv, TypeOK
<1>2. /\ FilesOK(disk, server, U, now) /\ 0 \in U
      /\ AllSync(stored, sess, disk, server, U, now, asked)
      /\ EntTrue(stored, disk, server, U, now, asked)
  BY DEF Synced, FilesOK, AllSync
<1>3. UNCHANGED <<disk, server, now>> /\ asked \subseteq asked'
  BY DEF Request, StartUpdate, StartCommit, StartUpdateFile, StartRemove, StartRename
\* More names are asked for, and nothing else happens to the files.
<1>4. /\ AllSync(stored, sess, disk, server, U, now, asked')
      /\ EntTrue(stored, disk, server, U, now, asked')
  <2>1. Drift(disk, server, U, now, asked, disk, server, U, now, asked')
    BY <1>1, <1>3 DEF Drift
  <2>2. AllSync(stored, sess, disk, server, U, now, asked')
    BY <1>1, <1>2, <2>1, DriftAll
  <2> QED  BY <2>2 DEF AllSync
<1>5. SUFFICES AllSync(stored', sess', disk, server, U, now, asked')
  BY <1>2, <1>3 DEF Synced
<1>6. ASSUME NEW op, NEW S
      PROVE  SessSync(NewSession(op, stored, S), disk, server, U, now, asked')
  BY <1>1, <1>2, <1>4, NewSync
<1>7. ASSUME NEW op, NEW S, Become(s, NewSession(op, stored, S))
      PROVE  AllSync(stored', sess', disk, server, U, now, asked')
  BY <1>1, <1>4, <1>6, <1>7, BecomeSync
<1>8. ASSUME NEW op \in CommitOps, NEW S \in SUBSET Names, StartCommit(s, op, S)
      PROVE  AllSync(stored', sess', disk, server, U, now, asked')
  <2> DEFINE x == NewSession(op, stored, S)
  <2>1. x \in Session /\ CommitTurn(s, x, disk)
    BY <1>1, <1>8, NewSessionType DEF StartCommit, Ops, SyncOps
  <2>2. /\ x.ent = stored /\ x.op = op /\ x.pc = "list" /\ x.cur = NoName
        /\ x.buf = 0 /\ x.seenAt = 0 /\ x.seen = NothingSeen
    BY DEF NewSession
  <2> HIDE DEF x
  <2>3. Beginning(x, U, now)
    BY <1>1, <1>2, <2>2 DEF Beginning, NothingSeen
  <2> QED  BY <1>1, <1>2, <1>4, <2>1, <2>2, <2>3, CommitTurnSync
<1>9. ASSUME NEW op \in {"remove", "rename"}, NEW n, NEW loc, NEW q,
             LET w == WithLocal(NewSession(op, stored, {n}), loc)
             IN  \/ q = [w EXCEPT !.cur = n]
                 \/ \E m : q = [w EXCEPT !.cur = n, !.to = m],
             Become(s, q)
      PROVE  AllSync(stored', sess', disk, server, U, now, asked')
  <2>1. /\ q.ent.files = stored.files /\ q.op = op /\ q.pc = "fs"
        /\ q.seen = NothingSeen /\ q.seenAt = 0 /\ q.buf = 0
    <3> DEFINE w == WithLocal(NewSession(op, stored, {n}), loc)
    <3>1. /\ w.ent = [stored EXCEPT !.local = loc] /\ w.op = op /\ w.pc = "fs"
          /\ w.seen = NothingSeen /\ w.seenAt = 0 /\ w.buf = 0
      BY DEF WithLocal, NewSession
    <3>2. /\ q.ent = w.ent /\ q.op = w.op /\ q.pc = w.pc /\ q.seen = w.seen
          /\ q.seenAt = w.seenAt /\ q.buf = w.buf
      BY <1>9 DEF WithLocal, NewSession
    <3> HIDE DEF w
    <3> QED  BY <1>1, <3>1, <3>2 DEF Entity
  <2>2. EntTrue(q.ent, disk, server, U, now, asked')
    BY <1>4, <2>1 DEF EntTrue
  <2>3. SessOK(q, server, U, now)
    BY <1>1, <1>2, <2>1 DEF SessOK, PutOK, RecvOK, UpdateOK, NothingSeen
  <2>4. SessSync(q, disk, server, U, now, asked')
    BY <2>2, <2>3 DEF SessSync
  <2> QED  BY <1>1, <1>4, <1>9, <2>4, BecomeSync
<1>10. CASE StartUpdate(s)
  BY <1>7, <1>10 DEF StartUpdate
<1>11. CASE \E n \in Names : StartUpdateFile(s, n)
  BY <1>7, <1>11 DEF StartUpdateFile
<1>12. CASE \/ StartCommit(s, "commit", Names)
            \/ \E n \in Names : StartCommit(s, "commit_file", {n})
  BY <1>8, <1>12 DEF CommitOps
<1>13. ASSUME NEW n \in Names, StartRemove(s, n)
       PROVE  AllSync(stored', sess', disk, server, U, now, asked')
  BY <1>9, <1>13 DEF StartRemove
<1>14. ASSUME NEW n \in Names, NEW m \in Names, StartRename(s, n, m)
       PROVE  AllSync(stored', sess', disk, server, U, now, asked')
  BY <1>9, <1>14 DEF StartRename
<1> QED
  BY <1>10, <1>11, <1>12, <1>13, <1>14 DEF Request

\* A cancelled operation claims less.
LEMMA CancelSynced ==
    ASSUME MarksInv, NEW U, Synced(stored, sess, disk, server, U, now, asked),
           NEW s \in Slots, Cancel(s)
    PROVE  \E V : Synced(stored', sess', disk', server', V, now', asked')
<1> DEFINE r == sess[s]
<1>1. /\ sess \in [Slots -> Session] /\ r \in Session
      /\ FilesOK(disk, server, U, now)
      /\ AllSync(stored, sess, disk, server, U, now, asked)
      /\ SessSync(r, disk, server, U, now, asked)
  BY DEF MarksInv, TypeOK, Synced, AllSync
<1>2. UNCHANGED <<disk, server, now, asked>> /\ stored' \in {stored, r.ent}
  BY DEF Cancel, CancelSync, CancelRemove
<1>3. ASSUME NEW q, sess' = [sess EXCEPT ![s] = q], q.ent = r.ent, q.op = r.op,
             q.pc = r.pc \/ (r.pc = "dead" /\ q.pc = "done"), q.scope = r.scope,
             q.seen = r.seen, q.seenAt = r.seenAt, q.list = r.list, q.cur = r.cur,
             q.todo = r.todo, q.buf = r.buf, q.held = FALSE
      PROVE  \E V : Synced(stored', sess', disk', server', V, now', asked')
  <2> HIDE DEF r
  <2>1. SessOK(q, server, U, now)
    <3>1. SessOK(r, server, U, now)
      BY <1>1 DEF SessSync
    <3>2. PutOK(q, server)
      BY <3>1, <1>3 DEF SessOK, PutOK
    <3>3. RecvOK(q, server)
      BY <3>1, <1>3 DEF SessOK, RecvOK
    <3>4. UpdateOK(q)
      BY <3>1, <1>3 DEF SessOK, UpdateOK, Listed
    <3> QED  BY <3>1, <3>2, <3>3, <3>4, <1>3 DEF SessOK
  <2>2. SessSync(q, disk, server, U, now, asked)
    BY <1>1, <1>3, <2>1 DEF SessSync
  <2>3. ASSUME NEW v \in Slots PROVE SessSync(sess'[v], disk, server, U, now, asked)
    BY <1>1, <1>3, <2>2 DEF AllSync
  <2>4. AllSync(stored', sess', disk, server, U, now, asked)
    BY <1>1, <1>2, <2>3 DEF AllSync, SessSync
  <2> QED  BY <1>1, <1>2, <2>4 DEF Synced
<1>4. CASE CancelSync(s)
  <2> DEFINE reply == IF StatThrows(r, disk) THEN r.reply ELSE "ok"
             pc == IF r.pc = "dead" THEN "done" ELSE r.pc
             q == [r EXCEPT !.held = FALSE, !.reply = reply, !.pc = pc]
  <2>1. sess' = [sess EXCEPT ![s] = q]
    BY <1>4 DEF CancelSync
  <2>2. pc = r.pc \/ (r.pc = "dead" /\ pc = "done")
    OBVIOUS
  <2> HIDE DEF reply, pc, r
  <2>3. /\ q.ent = r.ent /\ q.op = r.op /\ q.todo = r.todo /\ q.cur = r.cur
        /\ q.pc = pc /\ q.scope = r.scope /\ q.seen = r.seen
        /\ q.seenAt = r.seenAt /\ q.list = r.list /\ q.buf = r.buf /\ q.held = FALSE
    BY <1>1 DEF Session
  <2> HIDE DEF q
  <2> QED
    BY <2>1, <2>2, <2>3, <1>3
<1>5. CASE CancelRemove(s)
  <2> DEFINE q == [r EXCEPT !.held = FALSE]
  <2>1. sess' = [sess EXCEPT ![s] = q]
    BY <1>5 DEF CancelRemove
  <2> HIDE DEF r
  <2>2. /\ q.ent = r.ent /\ q.op = r.op /\ q.todo = r.todo /\ q.cur = r.cur
        /\ q.pc = r.pc /\ q.scope = r.scope /\ q.seen = r.seen
        /\ q.seenAt = r.seenAt /\ q.list = r.list /\ q.buf = r.buf /\ q.held = FALSE
    BY <1>1 DEF Session
  <2> HIDE DEF q
  <2> QED
    BY <2>1, <2>2, <1>3
<1> QED
  BY <1>4, <1>5 DEF Cancel

LEMMA CrashSync ==
    ASSUME MarksInv, NEW U, Synced(stored, sess, disk, server, U, now, asked), Crash
    PROVE  \E V : Synced(stored', sess', disk', server', V, now', asked')
<1>1. /\ FilesOK(disk, server, U, now) /\ 0 \in U /\ now \in Nat
      /\ EntTrue(stored, disk, server, U, now, asked)
  BY DEF MarksInv, TypeOK, Synced, FilesOK, AllSync
<1>2. /\ stored' = stored \/ stored' = EmptyEntity
      /\ sess' = [v \in Slots |-> IdleSession]
      /\ UNCHANGED <<disk, server, now, asked>>
  BY DEF Crash
<1>3. AllSync(stored', sess', disk, server, U, now, asked)
  BY <1>1, <1>2, IdleSync DEF AllSync
<1> QED
  BY <1>1, <1>2, <1>3 DEF Synced

\* What a turn of an operation starts from, in the world it finds.
TurnOf(r, s, U) ==
    /\ r = sess[s] /\ r \in Session /\ HasFile(r)
    /\ sess \in [Slots -> Session] /\ \A v \in Slots : HasFile(sess[v])
    /\ stored \in Entity /\ now \in Nat
    /\ disk \in [Names -> File] /\ server \in [Names -> File]
    /\ FilesOK(disk, server, U, now) /\ 0 \in U
    /\ AllSync(stored, sess, disk, server, U, now, asked)
    /\ SessSync(r, disk, server, U, now, asked)
    /\ SessionMarks(r, asked)

\* The claims of a session that a turn relies on.
LEMMA TurnFacts ==
    ASSUME NEW r, NEW s \in Slots, NEW U, TurnOf(r, s, U)
    PROVE  /\ EntTrue(r.ent, disk, server, U, now, asked)
           /\ MarkedIn(r.ent) \subseteq asked
           /\ \A n \in Names : r.seen[n] <= now
           /\ r.seenAt <= now /\ r.buf \in U
           /\ UpdateOK(r)
           /\ r.pc \in {"put", "rm", "fs", "dead"} => r.op # "update"
           /\ r.op = "update" /\ r.pc # "done" => (r.held => r.reply = "waiting")
<1>1. SessOK(r, server, U, now) /\ EntTrue(r.ent, disk, server, U, now, asked)
  BY DEF TurnOf, SessSync
<1>2. UpdateOK(r) /\ MarkedIn(r.ent) \subseteq asked
  BY <1>1 DEF SessOK, TurnOf, SessionMarks
<1> QED
  BY <1>1, <1>2 DEF SessOK, UpdateOK

\* A step after which the slot is a session that is right about the files as
\* they are then.
LEMMA TurnSynced ==
    ASSUME NEW r, NEW s \in Slots, NEW U, TurnOf(r, s, U),
           NEW V, now' \in Nat, disk' \in [Names -> File], server' \in [Names -> File],
           Drift(disk, server, U, now, asked, disk', server', V, now', asked'),
           FilesOK(disk', server', V, now'),
           AllSync(stored, sess, disk', server', V, now', asked') =>
              AllSync(stored', sess', disk', server', V, now', asked')
    PROVE  Synced(stored', sess', disk', server', V, now', asked')
<1>1. AllSync(stored, sess, disk', server', V, now', asked')
  BY DriftAll DEF TurnOf
<1> QED
  BY <1>1 DEF Synced

\* A world that has not changed.
LEMMA Still ==
    ASSUME NEW r, NEW s, NEW U, TurnOf(r, s, U),
           UNCHANGED <<disk, server, now, asked>>
    PROVE  /\ Drift(disk, server, U, now, asked, disk', server', U, now', asked')
           /\ FilesOK(disk', server', U, now') /\ now' \in Nat
           /\ disk' \in [Names -> File] /\ server' \in [Names -> File]
BY DEF TurnOf, Drift, FilesOK

LEMMA EndTurn ==
    ASSUME NEW r, NEW s \in Slots, NEW U, TurnOf(r, s, U), r.pc # "done",
           NEW V, now' \in Nat, disk' \in [Names -> File], server' \in [Names -> File],
           Drift(disk, server, U, now, asked, disk', server', V, now', asked'),
           FilesOK(disk', server', V, now'),
           NEW a \in {"ok", "error"}, a = "error" \/ r.op # "update",
           NEW d, Become(s, Done(r, a)) \/ Become(s, Answered(r, a, d))
    PROVE  Synced(stored', sess', disk', server', V, now', asked')
<1>1. SessSync(r, disk', server', V, now', asked') /\ 0 \in V
  BY DriftSess DEF TurnOf, FilesOK
<1>2. /\ EntTrue(r.ent, disk', server', V, now', asked')
      /\ \A n \in Names : r.seen[n] <= now'
  BY <1>1 DEF SessSync, SessOK
<1>3. r \in Session /\ (r.op = "update" => (r.held => r.reply = "waiting"))
  BY TurnFacts DEF TurnOf
<1>4. /\ SessSync(Done(r, a), disk', server', V, now', asked')
      /\ SessSync(Answered(r, a, d), disk', server', V, now', asked')
  BY <1>1, <1>2, <1>3, EndSync
<1>5. sess \in [Slots -> Session]
  BY DEF TurnOf
<1>6. AllSync(stored, sess, disk', server', V, now', asked') =>
        AllSync(stored', sess', disk', server', V, now', asked')
  BY <1>4, <1>5, BecomeSync
<1> QED
  BY <1>6, TurnSynced

LEMMA UpdateListedSync ==
    ASSUME NEW s \in Slots, NEW r, NEW U, TurnOf(r, s, U), TypeOK, UpdateListed(s)
    PROVE  \E V : Synced(stored', sess', disk', server', V, now', asked')
<1> DEFINE l == Listing(r, TRUE)
           p == Prune(l)
           d == SafeRm(l, disk)
<1>1. /\ l.pc = "list" /\ l.op = "update" /\ disk' = d /\ UpdateTurn(s, p, d)
      /\ UNCHANGED <<server, now, asked>>
  BY DEF UpdateListed, TurnOf
<1>2. /\ l \in Session /\ l.ent = r.ent /\ l.op = r.op /\ l.pc = r.pc
      /\ l.buf = r.buf /\ l.held = r.held /\ l.reply = r.reply
      /\ l.seenAt = now /\ \A n \in Names : l.seen[n] \in {0, server[n].t}
  BY ListingType DEF Listing, Session, TurnOf
<1>3. ASSUME NEW n \in Names PROVE l.seen[n] <= now
  <2>1. l.seen[n] \in {0, server[n].t} /\ server[n].t <= now /\ now \in Nat
    BY <1>2 DEF TurnOf, FilesOK
  <2> HIDE DEF l
  <2> QED  BY <2>1
<1>4. /\ \A n \in Names : d[n] = disk[n] \/ d[n] = Absent
      /\ d = [n \in Names |-> d[n]]
  BY DEF SafeRm
<1> HIDE DEF l, p, d
<1>5. /\ server \in [Names -> File] /\ disk \in [Names -> File] /\ now \in Nat
      /\ FilesOK(disk, server, U, now) /\ 0 \in U
      /\ sess \in [Slots -> Session]
  BY DEF TurnOf
<1>6. d \in [Names -> File]
  BY <1>4, <1>5 DEF Absent, File
<1>7. FilesOK(d, server, U, now)
  <2>1. ASSUME NEW n \in Names
        PROVE  d[n].t <= now /\ d[n].c \in U
    BY <1>4, <1>5 DEF FilesOK, Absent
  <2>2. ASSUME NEW n \in Names, NEW k \in Names, Exists(d[n]), d[n].t = d[k].t
        PROVE  d[n].c = d[k].c
    <3>1. d[n] = disk[n] /\ d[k] = disk[k]
      BY <1>4, <2>2 DEF Exists, Absent
    <3> QED  BY <1>5, <2>2, <3>1 DEF FilesOK
  <2> QED  BY <1>5, <2>1, <2>2 DEF FilesOK
<1>8. Drift(disk, server, U, now, asked, d, server, U, now, asked)
  <2>1. ASSUME NEW n \in Names, Exists(d[n]) PROVE d[n] = disk[n]
    BY <1>4, <2>1 DEF Exists, Absent
  <2> QED  BY <1>5, <2>1 DEF Drift
<1>9. EntTrue(l.ent, d, server, U, now, asked)
  <2>1. SessSync(r, d, server, U, now, asked)
    BY <1>5, <1>6, <1>8, DriftSess DEF TurnOf
  <2> QED  BY <1>2, <2>1 DEF SessSync
<1>10. /\ p \in Session /\ EntTrue(p.ent, d, server, U, now, asked)
      /\ p.buf = r.buf /\ p.seenAt = now /\ p.seen = l.seen
      /\ Listed(p, p.todo) /\ p.held = r.held /\ p.reply = r.reply
      /\ MarkedIn(p.ent) \subseteq MarkedIn(r.ent)
  BY <1>2, <1>5, <1>9, PruneSync, PruneType, PruneMarks DEF p
<1>11. /\ MarkedIn(p.ent) \subseteq asked /\ p.buf \in U /\ p.seenAt <= now
       /\ Updating(p)
  <2>1. /\ MarkedIn(r.ent) \subseteq asked /\ r.buf \in U
        /\ r.op = "update" /\ r.pc # "done" => (r.held => r.reply = "waiting")
    BY TurnFacts
  <2>2. now <= now
    BY <1>5
  <2>3. r.held => r.reply = "waiting"
    BY <1>1, <1>2, <2>1
  <2>4. Updating(p)
    BY <1>10, <2>3 DEF Updating
  <2> QED  BY <1>10, <2>1, <2>2, <2>4
<1>12. \A n \in Names : p.seen[n] <= now
  BY <1>5, <1>10, <1>3
<1>13. AllSync(stored, sess, d, server, U, now, asked) =>
         AllSync(stored', sess', d, server, U, now, asked)
  BY <1>1, <1>5, <1>10, <1>11, <1>12, UpdateTurnSync
<1> QED
  BY <1>1, <1>5, <1>6, <1>7, <1>8, <1>13, TurnSynced

LEMMA FileStatedSync ==
    ASSUME NEW s \in Slots, NEW r, NEW U, TurnOf(r, s, U), TypeOK, FileStated(s)
    PROVE  \E V : Synced(stored', sess', disk', server', V, now', asked')
<1> DEFINE l == Listing(r, TRUE)
           q == [l EXCEPT !.todo = l.scope]
<1>1. /\ l.op = "update_file" /\ UpdateTurn(s, q, disk)
      /\ UNCHANGED <<disk, server, now, asked>>
  BY DEF FileStated, TurnOf
<1>2. /\ l \in Session /\ l.ent = r.ent /\ l.buf = r.buf
      /\ l.seenAt = now /\ \A n \in Names : l.seen[n] \in {0, server[n].t}
  BY ListingType DEF Listing, Session, TurnOf
<1> HIDE DEF l
<1>3. /\ q \in Session /\ q.ent = r.ent /\ q.buf = r.buf /\ q.seenAt = now
      /\ q.seen = l.seen /\ q.op = "update_file"
  BY <1>1, <1>2 DEF Session
<1> HIDE DEF q
<1>4. /\ FilesOK(disk, server, U, now) /\ 0 \in U /\ now \in Nat
      /\ sess \in [Slots -> Session]
  BY DEF TurnOf
<1>5. /\ EntTrue(q.ent, disk, server, U, now, asked) /\ MarkedIn(q.ent) \subseteq asked
      /\ q.buf \in U /\ q.seenAt <= now /\ Updating(q)
  <2>1. /\ EntTrue(r.ent, disk, server, U, now, asked)
        /\ MarkedIn(r.ent) \subseteq asked /\ r.buf \in U
    BY TurnFacts
  <2>2. now <= now
    BY <1>4
  <2>3. Updating(q)
    BY <1>3 DEF Updating
  <2> QED  BY <1>3, <2>1, <2>2, <2>3
<1>6. \A n \in Names : q.seen[n] <= now
  <2> SUFFICES ASSUME NEW n \in Names PROVE l.seen[n] <= now
    BY <1>3
  <2>1. l.seen[n] \in {0, server[n].t} /\ server[n].t <= now /\ now \in Nat
    BY <1>2, <1>4 DEF FilesOK
  <2> QED  BY <2>1
<1>7. AllSync(stored, sess, disk, server, U, now, asked) =>
        AllSync(stored', sess', disk, server, U, now, asked)
  BY <1>1, <1>3, <1>4, <1>5, <1>6, UpdateTurnSync
<1> QED
  BY <1>1, <1>7, Still, TurnSynced

LEMMA ReadOpensSync ==
    ASSUME NEW s \in Slots, NEW r, NEW U, TurnOf(r, s, U), ReadOpens(s)
    PROVE  \E V : Synced(stored', sess', disk', server', V, now', asked')
<1> DEFINE q == [r EXCEPT !.pc = "recv", !.buf = server[r.cur].c]
<1>1. /\ r.pc = "read" /\ Become(s, q) /\ UNCHANGED <<disk, server, now, asked>>
  BY DEF ReadOpens, TurnOf
<1>2. r \in Session /\ r.cur \in Names /\ sess \in [Slots -> Session]
  BY <1>1 DEF TurnOf, HasFile
<1>3. /\ q.ent = r.ent /\ q.op = r.op /\ q.pc = "recv" /\ q.todo = r.todo
      /\ q.cur = r.cur /\ q.seen = r.seen /\ q.seenAt = r.seenAt
      /\ q.buf = server[r.cur].c /\ q.held = r.held /\ q.reply = r.reply
  BY <1>2 DEF Session
<1> HIDE DEF q
<1>4. /\ EntTrue(r.ent, disk, server, U, now, asked)
      /\ \A n \in Names : r.seen[n] <= now
      /\ r.seenAt <= now /\ UpdateOK(r)
  BY TurnFacts
<1>5. q.buf \in U
  BY <1>2, <1>3 DEF TurnOf, FilesOK
<1>6. PutOK(q, server) /\ RecvOK(q, server)
  BY <1>3 DEF PutOK, RecvOK
<1>7. UpdateOK(q)
  BY <1>1, <1>3, <1>4 DEF UpdateOK, Listed
<1>8. SessSync(q, disk, server, U, now, asked)
  BY <1>3, <1>4, <1>5, <1>6, <1>7 DEF SessSync, SessOK
<1>9. AllSync(stored, sess, disk, server, U, now, asked) =>
        AllSync(stored', sess', disk, server, U, now, asked)
  BY <1>1, <1>2, <1>8, BecomeSync
<1> QED
  BY <1>1, <1>9, Still, TurnSynced

\* The record a download leaves is right about the file it wrote: only a file
\* that the server still has as it was listed has the listed time.
LEMMA RecordedSync ==
    ASSUME NEW r \in Session, r.cur \in Names, r.pc = "recv",
           NEW dk \in [Names -> File], NEW sv \in [Names -> File], NEW U, NEW V,
           NEW t \in Nat, NEW A, NEW c, NEW hash, NEW time,
           FilesOK(dk, sv, U, t), RecvOK(r, sv), r.seen[r.cur] <= t,
           c \in V, V \subseteq 0..(t + 1), hash \in {c, t + 2}, time > t,
           c = r.buf \/ sv[r.cur].c # r.buf,
           EntTrue(r.ent, [dk EXCEPT ![r.cur] = [c |-> c, t |-> time]], sv, V, t + 2, A),
           hash <= t + 2
    PROVE  LET info == [remote_st |-> r.seen[r.cur], local_st |-> t + 1, hash |-> hash]
           IN  EntTrue(Recorded(r, info).ent,
                       [dk EXCEPT ![r.cur] = [c |-> c, t |-> time]], sv, V, t + 2, A)
<1> DEFINE info == [remote_st |-> r.seen[r.cur], local_st |-> t + 1, hash |-> hash]
           d == [dk EXCEPT ![r.cur] = [c |-> c, t |-> time]]
           e == Recorded(r, info).ent
<1>1. /\ e.files = [r.ent.files EXCEPT ![r.cur] = info]
      /\ r.ent.files \in [Names -> Info]
  BY DEF Recorded, Session, Entity
<1>2. /\ info.remote_st = r.seen[r.cur] /\ info.local_st = t + 1 /\ info.hash = hash
      /\ d[r.cur] = [c |-> c, t |-> time] /\ \A k \in Names : k # r.cur => d[k] = dk[k]
  OBVIOUS
<1>3. r.seen[r.cur] \in Nat
  BY DEF Session
<1> HIDE DEF info, d, e
<1>4. Within(info, t + 2)
  BY <1>2, <1>3 DEF Within
<1>5. ASSUME info.remote_st # 0, info.remote_st = sv[r.cur].t
      PROVE  /\ \A n \in Names : Exists(d[n]) /\ d[n].t = info.local_st => d[n].c = sv[r.cur].c
             /\ info.hash = sv[r.cur].c \/ info.hash \notin V
  <2>1. c = sv[r.cur].c
    BY <1>2, <1>5 DEF RecvOK
  <2>2. ASSUME NEW n \in Names, d[n].t = t + 1, n # r.cur PROVE FALSE
    <3>1. dk[n].t <= t /\ dk[n].t = t + 1 /\ dk[n].t \in Nat
      BY <1>2, <2>2 DEF FilesOK, File
    <3> QED  BY <3>1
  <2>3. t + 2 \notin V
    OBVIOUS
  <2> QED  BY <1>2, <2>1, <2>2, <2>3
<1>6. InfoTrue(info, r.cur, d, sv, V)
  BY <1>5 DEF InfoTrue
<1>7. ASSUME NEW m \in Names
      PROVE  /\ Within(e.files[m], t + 2)
             /\ m \in A \/ InfoTrue(e.files[m], m, d, sv, V)
  <2>1. EntTrue(r.ent, d, sv, V, t + 2, A)
    BY DEF d
  <2> QED  BY <1>1, <1>4, <1>6, <2>1 DEF EntTrue
<1>8. EntTrue(e, d, sv, V, t + 2, A)
  BY <1>7 DEF EntTrue
<1> QED  BY <1>8 DEF e, d, info

LEMMA ReadEndsSync ==
    ASSUME NEW s \in Slots, NEW r, NEW U, TurnOf(r, s, U), ReadEnds(s)
    PROVE  \E V : Synced(stored', sess', disk', server', V, now', asked')
<1>1. /\ r \in Session /\ r.pc = "recv" /\ r.cur \in Names /\ now \in Nat
      /\ disk \in [Names -> File] /\ server \in [Names -> File]
      /\ FilesOK(disk, server, U, now) /\ 0 \in U
      /\ sess \in [Slots -> Session]
  BY DEF TurnOf, ReadEnds, HasFile
<1>2. now' = now + 2 /\ UNCHANGED <<server, asked>>
  BY DEF ReadEnds
<1> DEFINE Ends(c, hash, time) ==
        /\ hash = c => time = now + 1
        /\ disk' = [disk EXCEPT ![r.cur] = [c |-> c, t |-> time]]
        /\ UpdateTurn(s, Recorded(r, NewInfo(r, now + 1, hash)),
                      [disk EXCEPT ![r.cur] = [c |-> c, t |-> time]])
<1>3. \E c \in Transferred(r, server[r.cur]) :
        \E hash \in {c, now + 2}, time \in {now + 1, now + 2} : Ends(c, hash, time)
  BY DEF ReadEnds, TurnOf
<1> HIDE DEF Ends
<1>4. PICK c \in Transferred(r, server[r.cur]) :
        \E hash \in {c, now + 2}, time \in {now + 1, now + 2} : Ends(c, hash, time)
  BY <1>3
<1>5. PICK hash \in {c, now + 2}, time \in {now + 1, now + 2} : Ends(c, hash, time)
  BY <1>4
<1>6. /\ MarkedIn(r.ent) \subseteq asked /\ r.buf \in U
      /\ r.seenAt <= now /\ (\A n \in Names : r.seen[n] <= now) /\ UpdateOK(r)
      /\ r.op = "update" /\ r.pc # "done" => (r.held => r.reply = "waiting")
  BY TurnFacts
<1> DEFINE V == U \cup {c}
           d == [disk EXCEPT ![r.cur] = [c |-> c, t |-> time]]
           info == NewInfo(r, now + 1, hash)
           q == Recorded(r, info)
<1>7. /\ c \in U \cup {now + 1}
      /\ c = r.buf \/ server[r.cur].c # r.buf
  <2>1. server[r.cur].c \in U
    BY <1>1 DEF FilesOK
  <2> QED  BY <1>4, <1>6, <2>1 DEF Transferred
<1>8. U \subseteq 0..now
  BY <1>1 DEF FilesOK
<1>9. /\ c \in V /\ U \subseteq V /\ V \subseteq 0..(now + 1) /\ now + 2 \in Nat
      /\ c \in Nat /\ hash \in Nat /\ time \in Nat /\ time > now /\ time <= now + 2
      /\ hash <= now + 2 /\ now + 1 \in Nat
  BY <1>1, <1>5, <1>7, <1>8
<1>10. Grown(U, V, now, now + 2)
  BY <1>1, <1>7, <1>8, <1>9 DEF Grown
<1> HIDE DEF V
<1>11. Fresh([c |-> c, t |-> time], V, now, now + 2)
  BY <1>9 DEF Fresh, File
<1>12. /\ FilesOK(d, server, V, now + 2) /\ d \in [Names -> File]
       /\ Drift(disk, server, U, now, asked, d, server, V, now + 2, asked)
  BY <1>1, <1>9, <1>10, <1>11, DiskWrite
<1>13. SessSync(r, d, server, V, now + 2, asked) /\ SessSync(r, disk, server, U, now, asked)
  BY <1>1, <1>9, <1>12, DriftSess DEF TurnOf
<1>14. EntTrue(q.ent, d, server, V, now + 2, asked)
  <2>1. /\ EntTrue(r.ent, d, server, V, now + 2, asked) /\ RecvOK(r, server)
        /\ r.seen[r.cur] <= now
    BY <1>1, <1>6, <1>13 DEF SessSync, SessOK
  <2> QED  BY <1>1, <1>5, <1>7, <1>9, <2>1, RecordedSync DEF NewInfo
<1>15. info \in Info /\ info.remote_st = r.seen[r.cur]
  BY <1>1, <1>9 DEF NewInfo, Info, Session
<1> HIDE DEF info
<1>16. q \in Session /\ MarkedIn(q.ent) \subseteq asked
  <2>1. SessionMarks(Recorded(r, info), asked)
    BY <1>1, RecordedMarks DEF TurnOf
  <2> QED  BY <2>1, <1>1, <1>15, RecordedType DEF SessionMarks
<1>17. /\ q.buf = 0 /\ q.seenAt = r.seenAt /\ q.seen = r.seen /\ q.op = r.op
       /\ q.todo = r.todo /\ q.held = r.held /\ q.reply = r.reply
       /\ q.ent.files = [r.ent.files EXCEPT ![r.cur] = info]
       /\ r.ent.files \in [Names -> Info]
  BY <1>1 DEF Recorded, Session, Entity
<1> HIDE DEF q
<1>18. Updating(q)
  <2> SUFFICES ASSUME r.op = "update" PROVE Updating(q)
    BY <1>17 DEF Updating
  <2>1. Listed(r, r.todo \cup {r.cur})
    BY <1>1, <1>6 DEF UpdateOK
  <2>2. Listed(q, q.todo)
    BY <1>1, <1>15, <1>17, <2>1 DEF Listed
  <2>3. r.held => r.reply = "waiting"
    BY <1>1, <1>6
  <2> QED  BY <1>17, <2>2, <2>3 DEF Updating
<1>19. disk' = d /\ UpdateTurn(s, q, d)
  BY <1>5 DEF Ends, q, info
<1> HIDE DEF d
<1>20. /\ 0 \in V /\ q.buf \in V /\ q.seenAt <= now + 2
  <2>1. r.seenAt \in Nat /\ r.seenAt <= now
    BY <1>1, <1>6 DEF Session
  <2> QED  BY <1>1, <1>9, <1>17, <2>1
<1>21. \A n \in Names : q.seen[n] <= now + 2
  <2> SUFFICES ASSUME NEW n \in Names PROVE r.seen[n] <= now + 2
    BY <1>17
  <2>1. r.seen[n] \in Nat /\ r.seen[n] <= now
    BY <1>1, <1>6 DEF Session
  <2> QED  BY <1>1, <2>1
<1>22. AllSync(stored, sess, d, server, V, now + 2, asked) =>
         AllSync(stored', sess', d, server, V, now + 2, asked)
  BY <1>1, <1>9, <1>14, <1>16, <1>18, <1>19, <1>20, <1>21, UpdateTurnSync
<1> QED
  BY <1>1, <1>2, <1>9, <1>12, <1>19, <1>22, TurnSynced

\* A commit sends over a version it has recorded, or a name it has not listed.
LEMMA CommitListedSync ==
    ASSUME NEW s \in Slots, NEW r, NEW U, TurnOf(r, s, U), TypeOK, CommitListed(s)
    PROVE  \E V : Synced(stored', sess', disk', server', V, now', asked')
<1>1. /\ r \in Session /\ r.pc = "list" /\ r.op \in CommitOps
      /\ disk \in [Names -> File] /\ server \in [Names -> File] /\ now \in Nat
      /\ FilesOK(disk, server, U, now) /\ 0 \in U /\ sess \in [Slots -> Session]
      /\ UNCHANGED <<server, disk, now, asked>>
  BY DEF TurnOf, CommitListed
<1>2. PICK ok \in BOOLEAN :
        LET l == Listing(r, ok)
        IN  \/ DelTurn(s, l, disk)
            \/ /\ l.cur # NoName /\ MaySend(l)
               /\ Become(s, [l EXCEPT !.pc = "put", !.buf = disk[l.cur].c])
            \/ Become(s, Done(l, "error"))
  BY DEF CommitListed, TurnOf
<1> DEFINE l == Listing(r, ok)
<1>3. /\ l \in Session /\ l.ent = r.ent /\ l.op = r.op /\ l.pc = "list" /\ l.cur = r.cur
      /\ l.buf = r.buf /\ l.scope = r.scope /\ l.todo = r.todo /\ l.seenAt = now
      /\ l.list = (IF ok THEN "ok" ELSE "failed")
      /\ l.seen = [n \in Names |-> IF ok /\ n \in r.scope THEN server[n].t ELSE 0]
  <2>1. l \in Session
    BY <1>1, ListingType
  <2>2. r \in Session /\ r.pc = "list"
    BY <1>1
  <2>3. /\ l.ent = r.ent /\ l.op = r.op /\ l.pc = r.pc /\ l.cur = r.cur
        /\ l.buf = r.buf /\ l.scope = r.scope /\ l.todo = r.todo /\ l.seenAt = now
        /\ l.list = (IF ok THEN "ok" ELSE "failed")
        /\ l.seen = [n \in Names |-> IF ok /\ n \in r.scope THEN server[n].t ELSE 0]
    BY <2>2 DEF Listing, Session
  <2> QED  BY <2>1, <2>2, <2>3
<1> HIDE DEF l
<1>4. ASSUME NEW n \in Names
      PROVE  /\ l.seen[n] = (IF ok /\ n \in r.scope THEN server[n].t ELSE 0)
             /\ l.seen[n] <= now
  <2>1. l.seen[n] = (IF ok /\ n \in r.scope THEN server[n].t ELSE 0)
    BY <1>3
  <2>2. server[n].t <= now /\ 0 <= now
    BY <1>1 DEF FilesOK
  <2> QED  BY <2>1, <2>2
<1>5. /\ EntTrue(l.ent, disk, server, U, now, asked) /\ l.buf \in U /\ l.seenAt <= now
  <2>1. EntTrue(r.ent, disk, server, U, now, asked) /\ r.buf \in U
    BY TurnFacts
  <2>2. now <= now
    BY <1>1
  <2> QED  BY <1>3, <2>1, <2>2
<1>6. ASSUME AllSync(stored, sess, disk, server, U, now, asked)
             => AllSync(stored', sess', disk, server, U, now, asked)
      PROVE  \E V : Synced(stored', sess', disk', server', V, now', asked')
  BY <1>1, <1>6, Still, TurnSynced
<1>7. ASSUME DelTurn(s, l, disk)
      PROVE  AllSync(stored, sess, disk, server, U, now, asked)
             => AllSync(stored', sess', disk, server, U, now, asked)
  BY <1>1, <1>3, <1>4, <1>5, <1>7, DelTurnSync
<1>8. ASSUME l.cur # NoName, MaySend(l),
             Become(s, [l EXCEPT !.pc = "put", !.buf = disk[l.cur].c])
      PROVE  AllSync(stored, sess, disk, server, U, now, asked)
             => AllSync(stored', sess', disk, server, U, now, asked)
  <2> DEFINE q == [l EXCEPT !.pc = "put", !.buf = disk[l.cur].c]
  <2>1. l.cur \in Names /\ l.cur \in r.scope
    <3>1. SessOK(r, server, U, now) /\ r.cur \in Names
      BY <1>1, <1>3, <1>8 DEF TurnOf, SessSync, Session
    <3> QED  BY <3>1, <1>1, <1>3, <1>8 DEF SessOK
  <2>2. disk[l.cur].c \in U
    BY <1>1, <2>1 DEF FilesOK
  <2>3. /\ q.ent = l.ent /\ q.op = l.op /\ q.pc = "put" /\ q.cur = l.cur
        /\ q.buf = disk[l.cur].c /\ q.seen = l.seen /\ q.seenAt = l.seenAt
        /\ q.list = l.list /\ Become(s, q)
    BY <1>3, <1>8 DEF Session
  <2> HIDE DEF q
  <2>4. l.seen[l.cur] = (IF ok THEN server[l.cur].t ELSE 0)
    BY <1>4, <2>1
  <2>5. \/ ~Exists(server[l.cur])
        \/ server[l.cur].t = l.ent.files[l.cur].remote_st
        \/ l.list = "failed" /\ ~Tracked(l.ent, l.cur)
    BY <1>3, <1>8, <2>4 DEF MaySend, Tracked, Exists
  <2>6. PutOK(q, server)
    BY <2>3, <2>5 DEF PutOK
  <2>7. RecvOK(q, server) /\ UpdateOK(q)
    BY <1>1, <1>3, <2>3 DEF RecvOK, UpdateOK, CommitOps
  <2>8. SessSync(q, disk, server, U, now, asked)
    BY <1>4, <1>5, <2>2, <2>3, <2>6, <2>7 DEF SessSync, SessOK
  <2> QED  BY <1>1, <2>3, <2>8, BecomeSync
<1>9. ASSUME Become(s, Done(l, "error"))
      PROVE  AllSync(stored, sess, disk, server, U, now, asked)
             => AllSync(stored', sess', disk, server, U, now, asked)
  <2>1. SessSync(Done(l, "error"), disk, server, U, now, asked)
    BY <1>1, <1>3, <1>4, <1>5, EndSync DEF CommitOps
  <2> QED  BY <1>1, <1>9, <2>1, BecomeSync
<1> QED
  BY <1>2, <1>6, <1>7, <1>8, <1>9 DEF l

LEMMA SentSync ==
    ASSUME NEW s \in Slots, NEW r, NEW U, TurnOf(r, s, U), Sent(s)
    PROVE  \E V : Synced(stored', sess', disk', server', V, now', asked')
<1>1. /\ r \in Session /\ r.pc = "put" /\ r.cur \in Names /\ now \in Nat
      /\ disk \in [Names -> File] /\ server \in [Names -> File]
      /\ FilesOK(disk, server, U, now) /\ U \subseteq 0..now
      /\ sess \in [Slots -> Session]
      /\ now' = now + 1 /\ now' \in Nat /\ UNCHANGED <<disk, asked>>
  BY DEF TurnOf, Sent, HasFile, FilesOK
<1>2. PICK c \in Transferred(r, disk[r.cur]) :
        server' = [server EXCEPT ![r.cur] = [c |-> c, t |-> now + 1]]
  BY DEF TurnOf, Sent
<1>3. c \in U \cup {now + 1}
  <2>1. disk[r.cur].c \in U /\ r.buf \in U
    BY <1>1, TurnFacts DEF FilesOK
  <2> QED  BY <1>2, <2>1 DEF Transferred
<1> DEFINE V == U \cup {c}
<1>4. Grown(U, V, now, now') /\ c \in V /\ c \in Nat
  BY <1>1, <1>3 DEF Grown
<1> HIDE DEF V
<1>5. Fresh([c |-> c, t |-> now + 1], V, now, now')
  BY <1>1, <1>4 DEF Fresh, File
<1>6. /\ FilesOK(disk', server', V, now') /\ server' \in [Names -> File]
      /\ Drift(disk, server, U, now, asked, disk', server', V, now', asked')
  BY <1>1, <1>2, <1>4, <1>5, ServerWrite
<1>7. SessSync(r, disk', server', V, now', asked')
  BY <1>1, <1>6, DriftSess DEF TurnOf
<1> DEFINE q == [r EXCEPT !.pc = "dead"]
<1>8. /\ q.ent = r.ent /\ q.op = r.op /\ q.pc = "dead" /\ q.seen = r.seen
      /\ q.seenAt = r.seenAt /\ q.buf = r.buf /\ Become(s, q)
  BY <1>1 DEF Session, Sent, TurnOf
<1> HIDE DEF q
<1>9. PutOK(q, server') /\ RecvOK(q, server') /\ UpdateOK(q)
  <2>1. r.op # "update"
    BY <1>1, TurnFacts
  <2> QED  BY <1>8, <2>1 DEF PutOK, RecvOK, UpdateOK
<1>10. SessSync(q, disk', server', V, now', asked')
  BY <1>7, <1>8, <1>9 DEF SessSync, SessOK
<1>11. AllSync(stored, sess, disk', server', V, now', asked') =>
         AllSync(stored', sess', disk', server', V, now', asked')
  BY <1>1, <1>8, <1>10, BecomeSync
<1> QED
  BY <1>1, <1>6, <1>11, TurnSynced

LEMMA RmDoneSync ==
    ASSUME NEW s \in Slots, NEW r, NEW U, TurnOf(r, s, U), RmDone(s)
    PROVE  \E V : Synced(stored', sess', disk', server', V, now', asked')
<1>1. /\ r \in Session /\ r.pc = "rm" /\ r.cur \in Names /\ now \in Nat
      /\ disk \in [Names -> File] /\ server \in [Names -> File]
      /\ FilesOK(disk, server, U, now) /\ 0 \in U /\ U \subseteq 0..now
      /\ sess \in [Slots -> Session] /\ r.op \in CommitOps
      /\ server' = [server EXCEPT ![r.cur] = Absent]
      /\ UNCHANGED <<disk, now, asked>>
  BY DEF TurnOf, RmDone, HasFile, FilesOK, SessionMarks
<1>2. Fresh(Absent, U, now, now) /\ Grown(U, U, now, now)
  BY <1>1 DEF Fresh, Absent, File, Grown
<1>3. /\ FilesOK(disk, server', U, now) /\ server' \in [Names -> File]
      /\ Drift(disk, server, U, now, asked, disk, server', U, now, asked)
  BY <1>1, <1>2, ServerWrite
<1>4. SessSync(r, disk, server', U, now, asked)
  <2>1. /\ server \in [Names -> File] /\ now \in Nat
        /\ r \in Session /\ HasFile(r) /\ SessSync(r, disk, server, U, now, asked)
    BY DEF TurnOf
  <2> QED  BY <1>3, <2>1, DriftSess
<1> DEFINE w == Unrecorded(r, {r.cur})
           q == [w EXCEPT !.cur = NoName]
<1>5. DelTurn(s, q, disk)
  BY DEF RmDone, TurnOf
<1>6. w \in Session /\ EntTrue(w.ent, disk, server', U, now, asked) /\ SameRest(w, r)
  BY <1>1, <1>4, UnrecordedType, UnrecordedSync DEF SessSync
<1> HIDE DEF w
<1>7. /\ q \in Session /\ q.ent = w.ent /\ q.op = r.op /\ q.buf = r.buf
      /\ q.seen = r.seen /\ q.seenAt = r.seenAt
  BY <1>6 DEF Session, SameRest
<1> HIDE DEF q
<1>8. /\ EntTrue(q.ent, disk, server', U, now, asked) /\ q.op \in CommitOps
      /\ q.buf \in U /\ q.seenAt <= now /\ \A n \in Names : q.seen[n] <= now
  BY <1>1, <1>4, <1>6, <1>7 DEF SessSync, SessOK
<1>9. AllSync(stored, sess, disk, server', U, now, asked) =>
        AllSync(stored', sess', disk, server', U, now, asked)
  BY <1>1, <1>5, <1>7, <1>8, DelTurnSync
<1> QED
  BY <1>1, <1>3, <1>9, TurnSynced

LEMMA FsDoneSync ==
    ASSUME NEW s \in Slots, NEW r, NEW U, TurnOf(r, s, U), FsDone(s)
    PROVE  \E V : Synced(stored', sess', disk', server', V, now', asked')
<1>1. /\ r.pc = "fs" /\ r.cur \in Names /\ now \in Nat
      /\ disk \in [Names -> File] /\ server \in [Names -> File]
      /\ FilesOK(disk, server, U, now) /\ 0 \in U /\ U \subseteq 0..now
      /\ UNCHANGED <<server, now, asked>> /\ Become(s, Done(r, "ok"))
  BY DEF TurnOf, FsDone, HasFile, FilesOK
<1>2. r.op # "update"
  BY <1>1, TurnFacts
<1>3. ASSUME disk' \in [Names -> File], FilesOK(disk', server, U, now),
             Drift(disk, server, U, now, asked, disk', server, U, now, asked)
      PROVE  Synced(stored', sess', disk', server', U, now', asked')
  BY <1>1, <1>2, <1>3, EndTurn
<1>4. CASE r.op = "remove" /\ disk' = [disk EXCEPT ![r.cur] = Absent]
  <2>1. Fresh(Absent, U, now, now) /\ Grown(U, U, now, now)
    BY <1>1 DEF Fresh, Absent, File, Grown
  <2> QED  BY <1>1, <1>3, <1>4, <2>1, DiskWrite
<1>5. CASE r.op = "rename" /\ disk' = [disk EXCEPT ![r.to] = disk[r.cur], ![r.cur] = Absent]
  <2>1. r.to \in Names /\ r.to # r.cur
    BY <1>1, <1>5 DEF TurnOf, HasFile
  <2> DEFINE n == r.cur
             m == r.to
             d == disk'
  <2>2. /\ d \in [Names -> File] /\ d[m] = disk[n] /\ d[n] = Absent
        /\ \A k \in Names \ {m, n} : d[k] = disk[k]
    BY <1>1, <1>5, <2>1 DEF Absent, File
  <2> HIDE DEF d
  <2>3. ASSUME NEW k \in Names
        PROVE  \/ d[k] = Absent
               \/ \E j \in Names : d[k] = disk[j]
    BY <1>1, <2>2
  <2>4. ASSUME NEW k \in Names
        PROVE  d[k].t <= now /\ d[k].c \in U
    <3>1. CASE d[k] = Absent
      BY <1>1, <3>1 DEF Absent
    <3>2. CASE \E j \in Names : d[k] = disk[j]
      BY <1>1, <3>2 DEF FilesOK
    <3> QED  BY <2>3, <3>1, <3>2
  <2>5. ASSUME NEW k \in Names, NEW j \in Names, Exists(d[k]), d[k].t = d[j].t
        PROVE  d[k].c = d[j].c
    <3>1. PICK k2 \in Names : d[k] = disk[k2]
      BY <2>3, <2>5 DEF Exists, Absent
    <3>2. PICK j2 \in Names : d[j] = disk[j2]
      BY <2>3, <2>5 DEF Exists, Absent
    <3> QED  BY <1>1, <2>5, <3>1, <3>2 DEF FilesOK
  <2>6. FilesOK(d, server, U, now)
    BY <1>1, <2>4, <2>5 DEF FilesOK
  <2>7. Drift(disk, server, U, now, asked, d, server, U, now, asked)
    <3>1. ASSUME NEW k \in Names, Exists(d[k]) PROVE \E j \in Names : d[k] = disk[j]
      BY <2>3, <3>1 DEF Exists, Absent
    <3> QED  BY <1>1, <3>1 DEF Drift
  <2> QED  BY <1>3, <2>2, <2>6, <2>7 DEF d
<1> QED
  BY <1>4, <1>5 DEF FsDone, TurnOf

LEMMA SendFailsSync ==
    ASSUME NEW s \in Slots, NEW r, NEW U, TurnOf(r, s, U), SendFails(s)
    PROVE  \E V : Synced(stored', sess', disk', server', V, now', asked')
<1>1. /\ r.pc = "put" /\ r.cur \in Names /\ now \in Nat
      /\ disk \in [Names -> File] /\ server \in [Names -> File]
      /\ FilesOK(disk, server, U, now) /\ U \subseteq 0..now
      /\ UNCHANGED <<disk, asked>> /\ Become(s, Done(r, "error"))
  BY DEF TurnOf, SendFails, HasFile, FilesOK
<1>2. CASE UNCHANGED <<server, now>>
  BY <1>1, <1>2, Still, EndTurn
<1>3. CASE /\ now' = now + 1
           /\ server' = [server EXCEPT ![r.cur] = [c |-> now + 1, t |-> now + 1]]
  <2> DEFINE V == U \cup {now + 1}
  <2>1. Grown(U, V, now, now') /\ now' \in Nat
    BY <1>1, <1>3 DEF Grown
  <2>2. Fresh([c |-> now + 1, t |-> now + 1], V, now, now')
    BY <1>1, <1>3 DEF Fresh, File
  <2> HIDE DEF V
  <2>3. /\ FilesOK(disk', server', V, now') /\ server' \in [Names -> File]
        /\ Drift(disk, server, U, now, asked, disk', server', V, now', asked')
    BY <1>1, <1>3, <2>1, <2>2, ServerWrite
  <2> QED  BY <1>1, <2>1, <2>3, EndTurn
<1> QED
  BY <1>2, <1>3 DEF SendFails, TurnOf

LEMMA ProgressSync ==
    ASSUME MarksInv, NEW U, Synced(stored, sess, disk, server, U, now, asked),
           NEW s \in Slots, Progress(s)
    PROVE  \E V : Synced(stored', sess', disk', server', V, now', asked')
<1> DEFINE r == sess[s]
<1>1. TurnOf(r, s, U) /\ TypeOK
  BY DEF TurnOf, MarksInv, TypeOK, AllMarks, Synced, AllSync, FilesOK
\* A call that fails ends the operation.
<1>2. CASE FsFails(s) \/ UpdateListFails(s) \/ ReadFails(s) \/ RmFails(s)
  <2>1. /\ r.pc # "done" /\ UNCHANGED <<server, disk, now, asked>>
        /\ Become(s, Done(r, "error")) \/ Become(s, Answered(r, "error", disk))
    BY <1>2 DEF FsFails, UpdateListFails, ReadFails, RmFails
  <2> HIDE DEF r
  <2> QED  BY <1>1, <2>1, Still, EndTurn
<1> HIDE DEF r
<1> QED
  BY <1>1, <1>2, FsDoneSync, UpdateListedSync, FileStatedSync, ReadOpensSync,
     ReadEndsSync, CommitListedSync, SentSync, SendFailsSync, RmDoneSync
     DEF Progress

LEMMA SyncStep == SyncInv /\ [Next]_vars => SyncInv'
<1> SUFFICES ASSUME SyncInv, [Next]_vars PROVE SyncInv'
  OBVIOUS
<1>1. MarksInv'
  BY MarksStep DEF SyncInv
<1>2. PICK U : Synced(stored, sess, disk, server, U, now, asked)
  BY DEF SyncInv
<1>3. \E V : Synced(stored', sess', disk', server', V, now', asked')
  <2>1. CASE UNCHANGED vars
    BY <1>2, <2>1 DEF vars
  <2>2. CASE Next
    BY <1>2, <2>2, EnvironmentSync, RequestSync, ProgressSync, CancelSynced, CrashSync
       DEF Next, SyncInv
  <2> QED  BY <2>1, <2>2
<1> QED
  BY <1>1, <1>3 DEF SyncInv, Synced, FilesOK, AllSync, SessSync, EntTrue, SessOK,
                    Within, InfoTrue, PutOK, RecvOK, UpdateOK, Listed, Exists, Tracked

LEMMA AlwaysSynced == Spec => []SyncInv
BY InitSync, SyncStep, PTL DEF Spec

(***************************************************************************)
(* What it implies                                                         *)
(***************************************************************************)

\* A file that shows as in step (stat_code), and of which the server still has
\* the version recorded, has the server's content if the user never removed
\* or renamed it: the times, which alone are compared, do not mislead.
THEOREM RecordsRight == Spec => []RecordsTruthful
<1>1. SyncInv => RecordsTruthful
  <2> SUFFICES ASSUME SyncInv, NEW e \in Entities, NEW n \in Names,
                      Tracked(e, n), n \notin asked, Exists(disk[n]),
                      e.files[n].remote_st = server[n].t,
                      e.files[n].local_st = disk[n].t
               PROVE  disk[n].c = server[n].c
    BY DEF RecordsTruthful
  <2>1. PICK U : AllSync(stored, sess, disk, server, U, now, asked)
    BY DEF SyncInv, Synced
  <2>2. EntTrue(e, disk, server, U, now, asked)
    BY <2>1 DEF Entities, AllSync, SessSync
  <2> QED  BY <2>2 DEF EntTrue, InfoTrue, Tracked
<1> QED
  BY <1>1, AlwaysSynced, PTL

\* An update that is answered as done has recorded its listing, whatever the
\* other operations did to the files and to .map/entity meanwhile.
THEOREM UpdatesComplete == Spec => []UpdateComplete
<1>1. SyncInv => UpdateComplete
  <2> SUFFICES ASSUME SyncInv, NEW s \in Slots, sess[s].op = "update",
                      sess[s].pc = "done", sess[s].reply = "ok", sess[s].held
               PROVE  \A n \in Names : sess[s].ent.files[n].remote_st = sess[s].seen[n]
    BY DEF UpdateComplete
  <2>1. UpdateOK(sess[s])
    BY DEF SyncInv, Synced, AllSync, SessSync, SessOK
  <2> QED  BY <2>1 DEF UpdateOK, Listed
<1> QED
  BY <1>1, AlwaysSynced, PTL

\* A commit never sends over a version that it had listed and not recorded,
\* but for a new file after a listing that failed.
THEOREM PutsJustified == Spec => []PutJustified
<1>1. SyncInv => PutJustified
  BY DEF SyncInv, Synced, AllSync, SessSync, SessOK, PutOK, PutJustified
<1> QED
  BY <1>1, AlwaysSynced, PTL
=============================================================================
