------------------------ MODULE FileMapping_proofs ------------------------
(***************************************************************************)
(* Proofs about FileMapping, for every set of names and of entities and    *)
(* for every bound.                                                        *)
(***************************************************************************)
EXTENDS FileMapping, TLAPS

(***************************************************************************)
(* Types of the operators                                                  *)
(***************************************************************************)

\* The entity of an unreadable .map/entity is an entity.
LEMMA EmptyEntityType == EmptyEntity \in Entity
BY DEF EmptyEntity, Entity, Info, NoInfo

\* A new session is a session.
LEMMA NewSessionType ==
    ASSUME NEW op \in Ops, NEW ent \in Entity, NEW scope \in SUBSET Names
    PROVE  NewSession(op, ent, scope) \in Session
BY DEF NewSession, Session, Steps, NothingSeen

\* A slot that is not in use holds a session.
LEMMA IdleSessionType == IdleSession \in Session
<1>1. NewSession("none", EmptyEntity, {}) \in Session
  BY EmptyEntityType, NewSessionType DEF Ops
<1> QED
  BY <1>1 DEF IdleSession, Session, Steps

\* The end of a chain of callbacks is a session.
LEMMA DoneType ==
    ASSUME NEW r \in Session, NEW a \in {"ok", "error"}
    PROVE  Done(r, a) \in Session /\ HasFile(Done(r, a))
BY DEF Done, Session, Steps, HasFile

LEMMA AnsweredType ==
    ASSUME NEW r \in Session, NEW a \in {"ok", "error"}, NEW d
    PROVE  Answered(r, a, d) \in Session /\ HasFile(Answered(r, a, d))
<1>1. Done(r, a) \in Session /\ Done(r, a).pc = "done"
  <2>1. Done(r, a).pc = "done"
    BY DEF Done, Session
  <2> QED
    BY <2>1, DoneType
<1> QED
  BY <1>1 DEF Answered, Session, HasFile

\* Recording new remote times keeps a session a session.
LEMMA SkippedType ==
    ASSUME NEW r \in Session, NEW K \in SUBSET Names
    PROVE  Skipped(r, K) \in Session
<1> DEFINE f == [n \in Names |->
            IF n \in K THEN [r.ent.files[n] EXCEPT !.remote_st = r.seen[n]]
                       ELSE r.ent.files[n]]
<1>1. f \in [Names -> Info]
  BY DEF Session, Entity, Info
<1>2. [r.ent EXCEPT !.files = f] \in Entity
  BY <1>1 DEF Session, Entity
<1>3. (r.change \/ \E n \in K : RemovedHere(r.ent, n, r.seen[n])) \in BOOLEAN
  OBVIOUS
<1> HIDE DEF f
<1>4. [r EXCEPT !.ent = [r.ent EXCEPT !.files = f],
                !.change = r.change \/ \E n \in K : RemovedHere(r.ent, n, r.seen[n])]
        \in Session
  BY <1>2, <1>3 DEF Session
<1> QED
  BY <1>4 DEF Skipped, f

LEMMA ListingType ==
    ASSUME TypeOK, NEW r \in Session, NEW ok \in BOOLEAN
    PROVE  Listing(r, ok) \in Session
<1>1. \A n \in Names : server[n].t \in Nat
  BY DEF TypeOK, File
<1>2. [n \in Names |-> IF ok /\ n \in r.scope THEN server[n].t ELSE 0]
        \in [Names -> Nat]
  BY <1>1
<1> QED
  BY <1>2 DEF Listing, Session, TypeOK

LEMMA PruneType ==
    ASSUME NEW r \in Session
    PROVE  Prune(r) \in Session
<1> DEFINE e == [files |-> [n \in Names |-> IF n \in Pruned(r)
                                     THEN NoInfo ELSE r.ent.files[n]],
                 local |-> r.ent.local \ Pruned(r)]
<1>1. e \in Entity
  BY DEF Session, Entity, Info, NoInfo
<1>2. (r.change \/ Pruned(r) # {}) \in BOOLEAN
  OBVIOUS
<1> HIDE DEF e
<1>3. [r EXCEPT !.ent = e, !.change = r.change \/ Pruned(r) # {},
                !.todo = {n \in Names : r.seen[n] # 0}] \in Session
  BY <1>1, <1>2 DEF Session
<1> QED
  BY <1>3 DEF Prune, e

LEMMA RecordedType ==
    ASSUME NEW r \in Session, r.cur \in Names, NEW info \in Info
    PROVE  Recorded(r, info) \in Session
<1> DEFINE e == [files |-> [r.ent.files EXCEPT ![r.cur] = info],
                 local |-> r.ent.local \cup {r.cur}]
<1>1. e \in Entity
  BY DEF Session, Entity
<1> HIDE DEF e
<1>2. [r EXCEPT !.ent = e, !.change = TRUE, !.cur = NoName, !.buf = 0] \in Session
  BY <1>1 DEF Session
<1> QED
  BY <1>2 DEF Recorded, e

LEMMA DropLocalType ==
    ASSUME NEW r \in Session, NEW K
    PROVE  DropLocal(r, K) \in Session
<1>1. [r.ent EXCEPT !.local = @ \ K] \in Entity
  BY DEF Session, Entity
<1>2. [r EXCEPT !.ent = [r.ent EXCEPT !.local = @ \ K],
                !.change = r.change \/ K # {}] \in Session
  BY <1>1 DEF Session
<1> QED
  BY <1>2 DEF DropLocal

LEMMA RefreshType ==
    ASSUME NEW r \in Session, NEW K, NEW d \in [Names -> File]
    PROVE  Refresh(r, K, d) \in Session
<1> DEFINE f == [n \in Names |->
            IF n \in K THEN [r.ent.files[n] EXCEPT !.local_st = d[n].t]
                       ELSE r.ent.files[n]]
<1>1. f \in [Names -> Info]
  BY DEF Session, Entity, Info, File
<1> HIDE DEF f
<1>2. [r.ent EXCEPT !.files = f] \in Entity
  BY <1>1 DEF Session, Entity
<1>3. [r EXCEPT !.ent = [r.ent EXCEPT !.files = f],
                !.change = r.change \/ K # {}] \in Session
  BY <1>2 DEF Session
<1> QED
  BY <1>3 DEF Refresh, f

LEMMA UnrecordedType ==
    ASSUME NEW r \in Session, NEW K
    PROVE  Unrecorded(r, K) \in Session
<1> DEFINE f == [n \in Names |-> IF n \in K THEN NoInfo ELSE r.ent.files[n]]
<1>1. f \in [Names -> Info]
  BY DEF Session, Entity, Info, NoInfo
<1> HIDE DEF f
<1>2. [r.ent EXCEPT !.files = f] \in Entity
  BY <1>1 DEF Session, Entity
<1>3. [r EXCEPT !.ent = [r.ent EXCEPT !.files = f],
                !.change = r.change \/ K # {}] \in Session
  BY <1>2 DEF Session
<1> QED
  BY <1>3 DEF Unrecorded, f

(***************************************************************************)
(* Types of the turns                                                      *)
(***************************************************************************)

SlotsOK == /\ stored \in Entity
           /\ sess \in [Slots -> Session] /\ \A s \in Slots : HasFile(sess[s])

\* A slot that becomes a session leaves slots and records well typed.
LEMMA BecomeType ==
    ASSUME SlotsOK, NEW s \in Slots, NEW r \in Session, HasFile(r), Become(s, r)
    PROVE  SlotsOK'
<1>1. r.ent \in Entity
  BY DEF Session
<1> QED
  BY <1>1 DEF SlotsOK, Become, SavedBy

LEMMA UpdateTurnType ==
    ASSUME SlotsOK, NEW s \in Slots, NEW r \in Session, NEW d,
           UpdateTurn(s, r, d)
    PROVE  SlotsOK'
<1>1. r.todo \in SUBSET Names
  BY DEF Session
<1>2. ASSUME NEW K \in SUBSET Names, NEW n \in Names,
             Become(s, [Skipped(r, K) EXCEPT !.todo = r.todo \ (K \cup {n}),
                                             !.cur = n, !.pc = "read"])
      PROVE  SlotsOK'
  <2>1. Skipped(r, K) \in Session
    BY SkippedType
  <2>2. [Skipped(r, K) EXCEPT !.todo = r.todo \ (K \cup {n}), !.cur = n,
                              !.pc = "read"] \in Session
    BY <2>1, <1>1 DEF Session, Steps
  <2>3. HasFile([Skipped(r, K) EXCEPT !.todo = r.todo \ (K \cup {n}), !.cur = n,
                                      !.pc = "read"])
    BY <2>1 DEF HasFile, Session
  <2> QED
    BY <2>2, <2>3, <1>2, BecomeType
<1>3. ASSUME Become(s, Answered(Skipped(r, r.todo), "ok", d))
      PROVE  SlotsOK'
  BY <1>1, <1>3, SkippedType, AnsweredType, BecomeType
<1> QED
  BY <1>1, <1>2, <1>3 DEF UpdateTurn

LEMMA DelTurnType ==
    ASSUME SlotsOK, NEW s \in Slots, NEW r \in Session, NEW d,
           DelTurn(s, r, d)
    PROVE  SlotsOK'
<1>1. r.todo \in SUBSET Names
  BY DEF Session
<1>2. ASSUME NEW K, NEW n \in Names,
             Become(s, [Unrecorded(r, K) EXCEPT !.todo = r.todo \ (K \cup {n}),
                                                !.cur = n, !.pc = "rm"])
      PROVE  SlotsOK'
  <2>1. Unrecorded(r, K) \in Session
    BY UnrecordedType
  <2>2. [Unrecorded(r, K) EXCEPT !.todo = r.todo \ (K \cup {n}), !.cur = n,
                                 !.pc = "rm"] \in Session
    BY <2>1, <1>1 DEF Session, Steps
  <2>3. HasFile([Unrecorded(r, K) EXCEPT !.todo = r.todo \ (K \cup {n}), !.cur = n,
                                         !.pc = "rm"])
    BY <2>1 DEF HasFile, Session
  <2> QED
    BY <2>2, <2>3, <1>2, BecomeType
<1>3. ASSUME NEW K, Become(s, Answered(Unrecorded(r, K), "ok", d))
      PROVE  SlotsOK'
  BY <1>3, UnrecordedType, AnsweredType, BecomeType
<1> QED
  BY <1>1, <1>2, <1>3 DEF DelTurn

LEMMA CommitTurnType ==
    ASSUME SlotsOK, NEW s \in Slots, NEW r \in Session, NEW d \in [Names -> File],
           r.pc = "list", CommitTurn(s, r, d)
    PROVE  SlotsOK'
<1> DEFINE add == Added(r.ent, r.scope)
           r1 == DropLocal(r, add)
           up == Modified(r1.ent, r.scope, d)
           r2 == Refresh(r1, up, d)
           del == Deleted(r2.ent, r.scope)
<1>1. r.scope \in SUBSET Names
  BY DEF Session
<1>2. add \in SUBSET Names /\ up \in SUBSET Names /\ del \in SUBSET Names
  BY <1>1 DEF Added, Modified, Deleted
<1>3. /\ r1 \in Session /\ r1.pc = "list"
      /\ r2 \in Session /\ r2.pc = "list"
  <2>1. r1 \in Session /\ r2 \in Session
    BY DropLocalType, RefreshType
  <2>2. r1.pc = "list"
    BY DEF DropLocal, Session
  <2> HIDE DEF r1, up
  <2> QED
    BY <2>1, <2>2 DEF Refresh, Session
<1>4. \/ \E K \in SUBSET add, n \in add : Become(s, [DropLocal(r, K) EXCEPT !.cur = n])
      \/ \E K \in SUBSET up, n \in up : Become(s, [Refresh(r1, K, d) EXCEPT !.cur = n])
      \/ Become(s, Answered(r2, "ok", d))
      \/ Become(s, [r2 EXCEPT !.todo = del])
  BY DEF CommitTurn
<1> HIDE DEF add, r1, up, r2, del
<1>5. ASSUME NEW K, NEW n \in Names, Become(s, [DropLocal(r, K) EXCEPT !.cur = n])
      PROVE  SlotsOK'
  <2>1. [DropLocal(r, K) EXCEPT !.cur = n] \in Session
    BY DropLocalType DEF Session
  <2>2. HasFile([DropLocal(r, K) EXCEPT !.cur = n])
    BY DEF HasFile, DropLocal, Session
  <2> QED
    BY <2>1, <2>2, <1>5, BecomeType
<1>6. ASSUME NEW K, NEW n \in Names, Become(s, [Refresh(r1, K, d) EXCEPT !.cur = n])
      PROVE  SlotsOK'
  <2>1. [Refresh(r1, K, d) EXCEPT !.cur = n] \in Session
    BY <1>3, RefreshType DEF Session
  <2>2. HasFile([Refresh(r1, K, d) EXCEPT !.cur = n])
    BY <1>3 DEF HasFile, Refresh, Session
  <2> QED
    BY <2>1, <2>2, <1>6, BecomeType
<1>7. ASSUME Become(s, Answered(r2, "ok", d))
      PROVE  SlotsOK'
  BY <1>3, <1>7, AnsweredType, BecomeType
<1>8. ASSUME Become(s, [r2 EXCEPT !.todo = del])
      PROVE  SlotsOK'
  <2>1. [r2 EXCEPT !.todo = del] \in Session
    BY <1>2, <1>3 DEF Session
  <2>2. HasFile([r2 EXCEPT !.todo = del])
    BY <1>3 DEF HasFile, Session
  <2> QED
    BY <2>1, <2>2, <1>8, BecomeType
<1> QED
  BY <1>2, <1>4, <1>5, <1>6, <1>7, <1>8

(***************************************************************************)
(* Type correctness                                                        *)
(***************************************************************************)

LEMMA InitType == Init => TypeOK
<1> SUFFICES ASSUME Init PROVE TypeOK
  OBVIOUS
<1>1. PICK S \in SUBSET Names, T \in SUBSET Names :
        /\ server = [n \in Names |-> IF n \in S THEN [c |-> 1, t |-> 1]
                                                ELSE Absent]
        /\ disk = [n \in Names |-> IF n \in T THEN [c |-> 1, t |-> 2]
                                              ELSE Absent]
        /\ stored = [files |-> [n \in Names |-> IF n \in T
                        THEN [remote_st |-> 1, local_st |-> 2, hash |-> 1]
                        ELSE NoInfo],
                     local |-> T]
  BY DEF Init
<1>2. server \in [Names -> File] /\ disk \in [Names -> File]
  BY <1>1 DEF File, Absent
<1>3. stored \in Entity
  BY <1>1 DEF Entity, Info, NoInfo
<1>4. sess \in [Slots -> Session] /\ \A s \in Slots : HasFile(sess[s])
  BY IdleSessionType DEF Init, HasFile, IdleSession, NewSession
<1> QED
  BY <1>2, <1>3, <1>4 DEF Init, TypeOK

\* What the steps of the user and of the other clients do to the types.
LEMMA EnvironmentType ==
    ASSUME TypeOK, User \/ Remote
    PROVE  TypeOK'
<1> USE DEF TypeOK
<1>1. ASSUME NEW n \in Names, UserWrite(n)
      PROVE  TypeOK'
  <2>1. disk' \in [Names -> File] /\ now' \in Nat /\ edits' \in Nat
    BY <1>1 DEF UserWrite, Edit, File
  <2>2. unsent' \in SUBSET Nat
    BY <1>1 DEF UserWrite
  <2>3. UNCHANGED <<server, kept, stored, sess, starts, asked>>
    BY <1>1 DEF UserWrite
  <2> QED
    BY <2>1, <2>2, <2>3
<1>2. ASSUME NEW n \in Names, UserErase(n)
      PROVE  TypeOK'
  <2>1. disk' \in [Names -> File] /\ edits' \in Nat
    BY <1>2 DEF UserErase, Edit, File, Absent
  <2>2. unsent' \in SUBSET Nat
    BY <1>2 DEF UserErase
  <2>3. UNCHANGED <<server, kept, stored, sess, now, starts, asked>>
    BY <1>2 DEF UserErase
  <2> QED
    BY <2>1, <2>2, <2>3
<1>3. ASSUME NEW n \in Names, Join(n)
      PROVE  TypeOK'
  BY <1>3 DEF Join, Edit, Entity
<1>4. ASSUME NEW n \in Names, RemoteWrite(n)
      PROVE  TypeOK'
  BY <1>4 DEF RemoteWrite, Edit, File
<1>5. ASSUME NEW n \in Names, RemoteDelete(n)
      PROVE  TypeOK'
  BY <1>5 DEF RemoteDelete, Edit, File, Absent
<1> QED
  BY <1>1, <1>2, <1>3, <1>4, <1>5 DEF User, Remote

LEMMA RequestType ==
    ASSUME TypeOK, NEW s \in Slots, Request(s)
    PROVE  TypeOK'
<1> USE DEF TypeOK
<1>1. SlotsOK
  BY DEF SlotsOK
<1>2. ASSUME NEW op \in Ops, NEW S \in SUBSET Names
      PROVE  /\ NewSession(op, stored, S) \in Session
             /\ HasFile(NewSession(op, stored, S))
             /\ NewSession(op, stored, S).pc = "list"
  BY NewSessionType DEF NewSession, HasFile
<1>3. ASSUME StartUpdate(s)
      PROVE  TypeOK'
  <2>1. SlotsOK'
    BY <1>1, <1>2, <1>3, BecomeType DEF StartUpdate, Ops, SyncOps
  <2> QED
    BY <2>1, <1>3 DEF StartUpdate, Starts, SlotsOK
<1>4. ASSUME NEW n \in Names, StartUpdateFile(s, n)
      PROVE  TypeOK'
  <2>1. SlotsOK'
    BY <1>1, <1>2, <1>4, BecomeType DEF StartUpdateFile, Ops, SyncOps
  <2> QED
    BY <2>1, <1>4 DEF StartUpdateFile, Starts, SlotsOK
<1>5. ASSUME NEW op \in CommitOps, NEW S \in SUBSET Names, StartCommit(s, op, S)
      PROVE  TypeOK'
  <2>1. op \in Ops
    BY DEF Ops, SyncOps
  <2>2. SlotsOK'
    BY <1>1, <1>2, <1>5, <2>1, CommitTurnType DEF StartCommit
  <2> QED
    BY <2>2, <1>5 DEF StartCommit, Starts, SlotsOK
<1>6. ASSUME NEW op \in {"remove", "rename"}, NEW n \in Names, NEW loc \in SUBSET Names
      PROVE  LET x == WithLocal(NewSession(op, stored, {n}), loc)
             IN  x \in Session /\ x.op = op /\ x.pc = "fs"
  <2> DEFINE r == NewSession(op, stored, {n})
  <2>1. r \in Session /\ r.op = op
    BY <1>2 DEF Ops, NewSession
  <2> HIDE DEF r
  <2>2. [r.ent EXCEPT !.local = loc] \in Entity
    BY <2>1 DEF Session, Entity
  <2>3. LET x == [r EXCEPT !.ent = [r.ent EXCEPT !.local = loc],
                           !.change = (loc # r.ent.local), !.pc = "fs"]
        IN  x \in Session /\ x.op = op /\ x.pc = "fs"
    BY <2>1, <2>2 DEF Session, Steps
  <2> QED
    BY <2>3 DEF WithLocal, r
<1>7. ASSUME NEW n \in Names, StartRemove(s, n)
      PROVE  TypeOK'
  <2> DEFINE x == WithLocal(NewSession("remove", stored, {n}), Forget(stored, n))
  <2>1. Forget(stored, n) \in SUBSET Names
    BY DEF Forget, Entity
  <2>2. x \in Session /\ x.op = "remove" /\ x.pc = "fs"
    BY <2>1, <1>6
  <2>3. Become(s, [x EXCEPT !.cur = n])
    BY <1>7 DEF StartRemove
  <2> HIDE DEF x
  <2>4. [x EXCEPT !.cur = n] \in Session /\ HasFile([x EXCEPT !.cur = n])
    BY <2>2 DEF Session, HasFile
  <2>5. SlotsOK'
    BY <2>3, <2>4, <1>1, BecomeType
  <2> QED
    BY <2>5, <1>7 DEF StartRemove, Starts, SlotsOK
<1>8. ASSUME NEW n \in Names, NEW m \in Names, StartRename(s, n, m)
      PROVE  TypeOK'
  <2> DEFINE x == WithLocal(NewSession("rename", stored, {n}), Moved(stored, n, m))
  <2>1. Moved(stored, n, m) \in SUBSET Names
    BY DEF Moved, Entity
  <2>2. x \in Session /\ x.op = "rename" /\ x.pc = "fs"
    BY <2>1, <1>6
  <2>3. Become(s, [x EXCEPT !.cur = n, !.to = m])
    BY <1>8 DEF StartRename
  <2> HIDE DEF x
  <2>4. /\ [x EXCEPT !.cur = n, !.to = m] \in Session
        /\ HasFile([x EXCEPT !.cur = n, !.to = m])
    BY <2>2, <1>8 DEF Session, HasFile, StartRename
  <2>5. SlotsOK'
    BY <2>3, <2>4, <1>1, BecomeType
  <2> QED
    BY <2>5, <1>8 DEF StartRename, Starts, SlotsOK
<1> HIDE DEF TypeOK
<1> QED
  BY <1>3, <1>4, <1>5, <1>7, <1>8 DEF Request, CommitOps

LEMMA ProgressType ==
    ASSUME TypeOK, NEW s \in Slots, Progress(s)
    PROVE  TypeOK'
<1> DEFINE r == sess[s]
<1>1. SlotsOK /\ r \in Session /\ HasFile(r)
  BY DEF SlotsOK, TypeOK
<1>2. /\ server \in [Names -> File] /\ disk \in [Names -> File]
      /\ kept \in SUBSET Nat /\ unsent \in SUBSET Nat /\ asked \in SUBSET Names
      /\ now \in Nat /\ edits \in Nat /\ starts \in Nat
  BY DEF TypeOK
<1>3. ASSUME SlotsOK', UNCHANGED <<kept, now, edits, starts, unsent, asked>>,
             server' \in [Names -> File], disk' \in [Names -> File]
      PROVE  TypeOK'
  BY <1>2, <1>3 DEF TypeOK, SlotsOK
<1>4. ASSUME NEW a \in {"ok", "error"}, Become(s, Done(r, a))
      PROVE  SlotsOK'
  BY <1>1, <1>4, DoneType, BecomeType
<1>5. ASSUME NEW a \in {"ok", "error"}, Become(s, Answered(r, a, disk))
      PROVE  SlotsOK'
  BY <1>1, <1>5, AnsweredType, BecomeType
<1> HIDE DEF r
<1>6. CASE FsDone(s)
  <2>1. SlotsOK'
    BY <1>4, <1>6 DEF FsDone, r
  <2>2. r.pc = "fs" /\ r.cur \in Names /\ (r.op = "rename" => r.to \in Names)
    BY <1>1, <1>6 DEF FsDone, HasFile, r
  <2>3. /\ disk' \in [Names -> File] /\ unsent' \in SUBSET Nat
        /\ UNCHANGED <<server, kept, now, edits, starts, asked>>
    <3>1. CASE r.op = "remove" /\ disk' = [disk EXCEPT ![r.cur] = Absent]
               /\ unsent' = unsent \ {disk[r.cur].c}
      BY <3>1, <2>2, <1>2, <1>6 DEF FsDone, File, Absent
    <3>2. CASE r.op = "rename"
               /\ disk' = [disk EXCEPT ![r.to] = disk[r.cur], ![r.cur] = Absent]
               /\ unsent' = unsent \ ({disk[r.to].c} \ {disk[r.cur].c})
      <4>1. disk' \in [Names -> File]
        BY <3>2, <2>2, <1>2 DEF File, Absent
      <4> QED
        BY <4>1, <3>2, <1>2, <1>6 DEF FsDone
    <3> QED
      BY <3>1, <3>2, <1>6 DEF FsDone, r
  <2> QED
    BY <2>1, <2>3, <1>2 DEF TypeOK, SlotsOK
<1>7. CASE FsFails(s)
  BY <1>2, <1>3, <1>4, <1>7 DEF FsFails, r
<1>8. CASE UpdateListed(s)
  <2> DEFINE l == Listing(r, TRUE)
  <2>1. l \in Session
    BY <1>1, ListingType
  <2>2. SlotsOK'
    BY <2>1, <1>1, <1>8, PruneType, UpdateTurnType DEF UpdateListed, r
  <2>3. disk' \in [Names -> File]
    BY <1>2, <1>8 DEF UpdateListed, SafeRm, File, Absent
  <2> QED
    BY <2>2, <2>3, <1>2, <1>3, <1>8 DEF UpdateListed
<1>9. CASE FileStated(s)
  <2> DEFINE l == Listing(r, TRUE)
  <2>1. l \in Session
    BY <1>1, ListingType
  <2>2. UpdateTurn(s, [l EXCEPT !.todo = l.scope], disk)
    BY <1>9 DEF FileStated, r
  <2> HIDE DEF l
  <2>3. [l EXCEPT !.todo = l.scope] \in Session
    BY <2>1 DEF Session
  <2>4. SlotsOK'
    BY <2>2, <2>3, <1>1, UpdateTurnType
  <2> QED
    BY <2>4, <1>2, <1>3, <1>9 DEF FileStated
<1>10. CASE UpdateListFails(s)
  BY <1>2, <1>3, <1>5, <1>10 DEF UpdateListFails, r
<1>11. CASE ReadOpens(s)
  <2> DEFINE q == [r EXCEPT !.pc = "recv", !.buf = server[r.cur].c]
  <2>1. r.pc = "read" /\ r.cur \in Names
    BY <1>1, <1>11 DEF ReadOpens, HasFile, r
  <2>2. server[r.cur].c \in Nat
    BY <2>1, <1>2 DEF File
  <2>3. q \in Session /\ HasFile(q)
    BY <2>1, <2>2, <1>1 DEF Session, Steps, HasFile
  <2>4. Become(s, q)
    BY <1>11 DEF ReadOpens, r
  <2> HIDE DEF q
  <2>5. SlotsOK'
    BY <2>3, <2>4, <1>1, BecomeType
  <2> QED
    BY <2>5, <1>2, <1>3, <1>11 DEF ReadOpens
<1>12. CASE ReadFails(s)
  BY <1>2, <1>3, <1>5, <1>12 DEF ReadFails, r
<1>13. CASE ReadEnds(s)
  <2>1. r.pc = "recv" /\ r.cur \in Names
    BY <1>1, <1>13 DEF ReadEnds, HasFile, r
  <2>2. Transferred(r, server[r.cur]) \subseteq Nat
    BY <2>1, <1>1, <1>2 DEF Transferred, File, Session
  <2> DEFINE Ends(c, hash, time) ==
          LET d == [disk EXCEPT ![r.cur] = [c |-> c, t |-> time]]
          IN  /\ disk' = d
              /\ UpdateTurn(s, Recorded(r, NewInfo(r, now + 1, hash)), d)
  <2>3. \E c \in Transferred(r, server[r.cur]) :
          \E hash \in {c, now + 2}, time \in {now + 1, now + 2} : Ends(c, hash, time)
    BY <1>13 DEF ReadEnds, r
  <2> HIDE DEF Ends
  <2>4. PICK c \in Transferred(r, server[r.cur]) :
          \E hash \in {c, now + 2}, time \in {now + 1, now + 2} : Ends(c, hash, time)
    BY <2>3
  <2>5. PICK hash \in {c, now + 2}, time \in {now + 1, now + 2} : Ends(c, hash, time)
    BY <2>4
  <2>6. /\ c \in Nat /\ hash \in Nat /\ time \in Nat
        /\ Ends(c, hash, time)
    BY <2>2, <2>5, <1>2
  <2>7. disk' \in [Names -> File]
    BY <2>1, <2>6, <1>2 DEF File, Ends
  <2>8. NewInfo(r, now + 1, hash) \in Info
    BY <2>1, <2>6, <1>1, <1>2 DEF NewInfo, Info, Session
  <2>9. Recorded(r, NewInfo(r, now + 1, hash)) \in Session
    BY <2>1, <2>8, <1>1, RecordedType
  <2>10. SlotsOK'
    BY <2>6, <2>9, <1>1, UpdateTurnType DEF Ends
  <2>11. SetAside(r, disk) \in SUBSET Nat
    BY <2>1, <1>2 DEF SetAside, File
  <2>12. /\ now' = now + 2 /\ kept' = kept \cup SetAside(r, disk)
         /\ UNCHANGED <<server, edits, starts, unsent, asked>>
    BY <1>13 DEF ReadEnds, r
  <2>13. kept' \subseteq Nat
    BY <2>11, <2>12, <1>2, Zenon
  <2>14. now' \in Nat
    BY <2>12, <1>2
  <2> QED
    BY <2>7, <2>10, <2>12, <2>13, <2>14, <1>2 DEF TypeOK, SlotsOK
<1>14. CASE CommitListed(s)
  <2>1. PICK ok \in BOOLEAN :
          LET l == Listing(r, ok)
          IN  \/ DelTurn(s, l, disk)
              \/ /\ l.cur # NoName
                 /\ Become(s, [l EXCEPT !.pc = "put", !.buf = disk[l.cur].c])
              \/ Become(s, Done(l, "error"))
    BY <1>14 DEF CommitListed, r
  <2> DEFINE l == Listing(r, ok)
  <2>2. l \in Session
    BY <1>1, ListingType
  <2> HIDE DEF l
  <2>3. ASSUME DelTurn(s, l, disk) PROVE SlotsOK'
    BY <2>2, <2>3, <1>1, DelTurnType
  <2>4. ASSUME l.cur # NoName,
               Become(s, [l EXCEPT !.pc = "put", !.buf = disk[l.cur].c])
        PROVE  SlotsOK'
    <3>1. l.cur \in Names /\ disk[l.cur].c \in Nat
      BY <2>2, <2>4, <1>2 DEF Session, File
    <3>2. /\ [l EXCEPT !.pc = "put", !.buf = disk[l.cur].c] \in Session
          /\ HasFile([l EXCEPT !.pc = "put", !.buf = disk[l.cur].c])
      BY <3>1, <2>2 DEF Session, Steps, HasFile
    <3> QED
      BY <3>2, <2>4, <1>1, BecomeType
  <2>5. ASSUME Become(s, Done(l, "error")) PROVE SlotsOK'
    BY <2>2, <2>5, <1>1, DoneType, BecomeType
  <2>6. SlotsOK'
    BY <2>1, <2>3, <2>4, <2>5 DEF l
  <2> QED
    BY <2>6, <1>2, <1>3, <1>14 DEF CommitListed
<1>15. CASE Sent(s)
  <2> DEFINE q == [r EXCEPT !.pc = "dead"]
  <2>1. r.pc = "put" /\ r.cur \in Names
    BY <1>1, <1>15 DEF Sent, HasFile, r
  <2>2. Transferred(r, disk[r.cur]) \subseteq Nat
    BY <2>1, <1>1, <1>2 DEF Transferred, File, Session
  <2>3. /\ server' \in [Names -> File] /\ unsent' \in SUBSET Nat /\ now' \in Nat
        /\ UNCHANGED <<disk, kept, edits, starts, asked>>
    BY <2>1, <2>2, <1>2, <1>15 DEF Sent, File, r
  <2>4. q \in Session /\ HasFile(q)
    BY <1>1 DEF Session, Steps, HasFile
  <2>5. SlotsOK'
    BY <2>4, <1>1, <1>15, BecomeType DEF Sent, r
  <2> QED
    BY <2>3, <2>5, <1>2 DEF TypeOK, SlotsOK
<1>16. CASE SendFails(s)
  <2>1. SlotsOK'
    BY <1>4, <1>16 DEF SendFails, r
  <2>2. /\ server' \in [Names -> File] /\ now' \in Nat
        /\ UNCHANGED <<disk, kept, edits, starts, unsent, asked>>
    BY <1>2, <1>16 DEF SendFails, File
  <2> QED
    BY <2>1, <2>2, <1>2 DEF TypeOK, SlotsOK
<1>17. CASE RmDone(s)
  <2> DEFINE q == Unrecorded(r, {r.cur})
  <2>1. q \in Session
    BY <1>1, UnrecordedType
  <2>2. DelTurn(s, [q EXCEPT !.cur = NoName], disk)
    BY <1>17 DEF RmDone, r
  <2> HIDE DEF q
  <2>3. [q EXCEPT !.cur = NoName] \in Session
    BY <2>1 DEF Session
  <2>4. SlotsOK'
    BY <2>2, <2>3, <1>1, DelTurnType
  <2>5. server' \in [Names -> File]
    BY <1>2, <1>17 DEF RmDone, File, Absent
  <2> QED
    BY <2>4, <2>5, <1>2, <1>3, <1>17 DEF RmDone
<1>18. CASE RmFails(s)
  BY <1>2, <1>3, <1>4, <1>18 DEF RmFails, r
<1> QED
  BY <1>6, <1>7, <1>8, <1>9, <1>10, <1>11, <1>12, <1>13, <1>14, <1>15, <1>16,
     <1>17, <1>18 DEF Progress

LEMMA CancelType ==
    ASSUME TypeOK, NEW s \in Slots, Cancel(s)
    PROVE  TypeOK'
<1> DEFINE r == sess[s]
<1>1. r \in Session /\ HasFile(r) /\ stored \in Entity /\ r.ent \in Entity
  BY DEF TypeOK, Session
<1> HIDE DEF r
<1>2. CASE CancelSync(s)
  <2> DEFINE q == [r EXCEPT !.held = FALSE,
                            !.reply = IF StatThrows(r, disk) THEN @ ELSE "ok",
                            !.pc = IF r.pc = "dead" THEN "done" ELSE @]
  <2>1. q \in Session /\ HasFile(q)
    BY <1>1 DEF Session, Steps, HasFile
  <2>2. sess' = [sess EXCEPT ![s] = q] /\ stored' \in Entity
    BY <1>1, <1>2 DEF CancelSync, r
  <2>3. UNCHANGED <<server, disk, kept, now, edits, starts, unsent, asked>>
    BY <1>2 DEF CancelSync
  <2> HIDE DEF q
  <2> QED
    BY <2>1, <2>2, <2>3 DEF TypeOK
<1>3. CASE CancelRemove(s)
  <2> DEFINE q == [r EXCEPT !.held = FALSE]
  <2>1. q \in Session /\ HasFile(q)
    BY <1>1 DEF Session, HasFile
  <2>2. /\ sess' = [sess EXCEPT ![s] = q]
        /\ UNCHANGED <<server, disk, kept, stored, now, edits, starts, unsent, asked>>
    BY <1>3 DEF CancelRemove, r
  <2> HIDE DEF q
  <2> QED
    BY <2>1, <2>2 DEF TypeOK
<1> QED
  BY <1>2, <1>3 DEF Cancel

LEMMA CrashType ==
    ASSUME TypeOK, Crash
    PROVE  TypeOK'
<1>1. stored' \in Entity
  BY EmptyEntityType DEF Crash, TypeOK
<1>2. HasFile(IdleSession)
  BY DEF HasFile, IdleSession, NewSession
<1>3. sess' \in [Slots -> Session] /\ \A s \in Slots : HasFile(sess'[s])
  BY <1>2, IdleSessionType DEF Crash
<1> QED
  BY <1>1, <1>3 DEF Crash, TypeOK

\* Every step keeps the types.
LEMMA TypeStep == TypeOK /\ [Next]_vars => TypeOK'
<1> SUFFICES ASSUME TypeOK, [Next]_vars PROVE TypeOK'
  OBVIOUS
<1>1. CASE UNCHANGED vars
  BY <1>1 DEF vars, TypeOK
<1>2. CASE Next
  BY <1>2, EnvironmentType, RequestType, ProgressType, CancelType, CrashType
     DEF Next
<1> QED
  BY <1>1, <1>2

\* The state stays well typed, and a session that waits for a call on a file
\* always knows a file of the directory.
THEOREM TypeCorrect == Spec => []TypeOK
BY InitType, TypeStep, PTL DEF Spec
=============================================================================
