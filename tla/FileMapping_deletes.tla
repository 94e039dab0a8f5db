------------------------ MODULE FileMapping_deletes ------------------------
(***************************************************************************)
(* Proofs about removed names and about how operations end.  A commit      *)
(* deletes on the server only files the user removed or renamed away: what *)
(* it deletes is what its entity has recorded and lacks in m_local_files,  *)
(* so the first invariant is about these marks in every entity, saved or   *)
(* loaded, whichever of them is saved last.  The second one, which rests   *)
(* on it, is about single operations: what a commit has still to drop, and *)
(* which answer it owes.                                                   *)
(***************************************************************************)
EXTENDS FileMapping_proofs

(***************************************************************************)
(* The inductive invariant                                                 *)
(***************************************************************************)

\* The names an entity marks as deleted here.
MarkedIn(e) == {n \in Names : Tracked(e, n) /\ n \notin e.local}

\* A is the set of names that were asked for.
SessionMarks(r, A) ==
    /\ MarkedIn(r.ent) \subseteq A
    /\ r.op \in CommitOps => r.todo \subseteq A
    /\ r.pc = "rm" => r.op \in CommitOps /\ r.cur \in A

AllMarks(st, ss, A) ==
    /\ MarkedIn(st) \subseteq A
    /\ \A s \in Slots : SessionMarks(ss[s], A)

MarksInv == TypeOK /\ AllMarks(stored, sess, asked)

(***************************************************************************)
(* The operators make no mark                                              *)
(***************************************************************************)

\* A session that differs in what is recorded, but has no mark more.
LEMMA FewerMarks ==
    ASSUME NEW r, NEW q, NEW A, SessionMarks(r, A),
           MarkedIn(q.ent) \subseteq MarkedIn(r.ent),
           q.op = r.op, q.todo \subseteq r.todo,
           q.pc = "rm" => r.pc = "rm" /\ q.cur = r.cur
    PROVE  SessionMarks(q, A)
BY DEF SessionMarks

LEMMA DoneMarks ==
    ASSUME NEW r \in Session, NEW a, NEW d, NEW A, SessionMarks(r, A)
    PROVE  SessionMarks(Done(r, a), A) /\ SessionMarks(Answered(r, a, d), A)
<1>1. /\ Done(r, a).ent = r.ent /\ Done(r, a).pc = "done"
      /\ Done(r, a).todo = {}
  BY DEF Done, Session
<1>2. /\ Answered(r, a, d).ent = r.ent /\ Answered(r, a, d).pc = "done"
      /\ Answered(r, a, d).todo = {}
  BY DEF Answered, Done, Session
<1> QED
  BY <1>1, <1>2 DEF SessionMarks

\* Only the records of files that have one get the new remote time.
LEMMA SkippedMarks ==
    ASSUME NEW r \in Session, NEW K, \A n \in K : Tracked(r.ent, n)
    PROVE  /\ MarkedIn(Skipped(r, K).ent) \subseteq MarkedIn(r.ent)
           /\ Skipped(r, K).op = r.op /\ Skipped(r, K).todo = r.todo
           /\ Skipped(r, K).pc = r.pc /\ Skipped(r, K).cur = r.cur
<1>1. /\ Skipped(r, K).ent.files = [n \in Names |->
            IF n \in K THEN [r.ent.files[n] EXCEPT !.remote_st = r.seen[n]]
                       ELSE r.ent.files[n]]
      /\ Skipped(r, K).ent.local = r.ent.local
      /\ Skipped(r, K).op = r.op /\ Skipped(r, K).todo = r.todo
      /\ Skipped(r, K).pc = r.pc /\ Skipped(r, K).cur = r.cur
  BY DEF Skipped, Session, Entity
<1> QED
  BY <1>1 DEF MarkedIn, Tracked

LEMMA ListingMarks ==
    ASSUME NEW r \in Session, NEW ok, NEW A, SessionMarks(r, A)
    PROVE  /\ SessionMarks(Listing(r, ok), A)
           /\ Listing(r, ok).op = r.op /\ Listing(r, ok).pc = r.pc
           /\ Listing(r, ok).cur = r.cur
<1>1. /\ Listing(r, ok).ent = r.ent /\ Listing(r, ok).op = r.op
      /\ Listing(r, ok).todo = r.todo /\ Listing(r, ok).pc = r.pc
      /\ Listing(r, ok).cur = r.cur
  BY DEF Listing, Session
<1> QED
  BY <1>1 DEF SessionMarks

LEMMA PruneMarks ==
    ASSUME NEW r \in Session
    PROVE  /\ MarkedIn(Prune(r).ent) \subseteq MarkedIn(r.ent)
           /\ Prune(r).op = r.op /\ Prune(r).pc = r.pc /\ Prune(r).cur = r.cur
<1>1. /\ Prune(r).ent = [files |-> [n \in Names |-> IF n \in Pruned(r)
                                      THEN NoInfo ELSE r.ent.files[n]],
                         local |-> r.ent.local \ Pruned(r)]
      /\ Prune(r).op = r.op /\ Prune(r).pc = r.pc /\ Prune(r).cur = r.cur
  BY DEF Prune, Session
<1> QED
  BY <1>1 DEF MarkedIn, Tracked, NoInfo

\* A downloaded file is recorded as present.
LEMMA RecordedMarks ==
    ASSUME NEW r \in Session, NEW info, NEW A, SessionMarks(r, A), r.pc = "recv"
    PROVE  SessionMarks(Recorded(r, info), A)
<1>1. /\ Recorded(r, info).ent = [files |-> [r.ent.files EXCEPT ![r.cur] = info],
                                  local |-> r.ent.local \cup {r.cur}]
      /\ Recorded(r, info).op = r.op /\ Recorded(r, info).todo = r.todo
      /\ Recorded(r, info).pc = r.pc
  BY DEF Recorded, Session
<1>2. r.ent.files \in [Names -> Info]
  BY DEF Session, Entity
<1>3. MarkedIn(Recorded(r, info).ent) \subseteq MarkedIn(r.ent)
  BY <1>1, <1>2 DEF MarkedIn, Tracked
<1> QED
  BY <1>1, <1>3, FewerMarks

\* submit_add only drops names without a record.
LEMMA DropLocalMarks ==
    ASSUME NEW r \in Session, NEW K, \A n \in K : ~Tracked(r.ent, n),
           NEW A, SessionMarks(r, A), r.pc = "list"
    PROVE  SessionMarks(DropLocal(r, K), A) /\ DropLocal(r, K).pc = "list"
           /\ DropLocal(r, K).op = r.op
<1>1. /\ DropLocal(r, K).ent.files = r.ent.files
      /\ DropLocal(r, K).ent.local = r.ent.local \ K
      /\ DropLocal(r, K).op = r.op /\ DropLocal(r, K).todo = r.todo
      /\ DropLocal(r, K).pc = r.pc
  BY DEF DropLocal, Session, Entity
<1>2. MarkedIn(DropLocal(r, K).ent) \subseteq MarkedIn(r.ent)
  BY <1>1 DEF MarkedIn, Tracked
<1> QED
  BY <1>1, <1>2, FewerMarks

\* submit_up records new local times, and nothing else of the session changes.
LEMMA RefreshSame ==
    ASSUME NEW r \in Session, NEW K, NEW d
    PROVE  /\ \A n \in Names : Tracked(Refresh(r, K, d).ent, n) <=> Tracked(r.ent, n)
           /\ Refresh(r, K, d).ent.local = r.ent.local
           /\ Refresh(r, K, d).op = r.op /\ Refresh(r, K, d).todo = r.todo
           /\ Refresh(r, K, d).pc = r.pc /\ Refresh(r, K, d).cur = r.cur
           /\ Refresh(r, K, d).scope = r.scope /\ Refresh(r, K, d).held = r.held
           /\ Refresh(r, K, d).reply = r.reply
<1>1. /\ Refresh(r, K, d).ent.files = [n \in Names |->
            IF n \in K THEN [r.ent.files[n] EXCEPT !.local_st = d[n].t]
                       ELSE r.ent.files[n]]
      /\ Refresh(r, K, d).ent.local = r.ent.local
      /\ Refresh(r, K, d).op = r.op /\ Refresh(r, K, d).todo = r.todo
      /\ Refresh(r, K, d).pc = r.pc /\ Refresh(r, K, d).cur = r.cur
      /\ Refresh(r, K, d).scope = r.scope /\ Refresh(r, K, d).held = r.held
      /\ Refresh(r, K, d).reply = r.reply
  BY DEF Refresh, Session, Entity
<1>2. ASSUME NEW n \in Names
      PROVE  Refresh(r, K, d).ent.files[n].remote_st = r.ent.files[n].remote_st
  <2>1. \A i \in Info : \A t : [i EXCEPT !.local_st = t].remote_st = i.remote_st
    BY DEF Info
  <2>2. Refresh(r, K, d).ent.files[n] = IF n \in K
          THEN [r.ent.files[n] EXCEPT !.local_st = d[n].t] ELSE r.ent.files[n]
    BY <1>1
  <2> DEFINE i == r.ent.files[n]
  <2>3. i \in Info
    BY DEF Session, Entity
  <2> HIDE DEF i
  <2>4. [i EXCEPT !.local_st = d[n].t].remote_st = i.remote_st
    BY <2>1, <2>3
  <2> QED
    BY <2>2, <2>4 DEF i
<1> QED
  BY <1>1, <1>2 DEF Tracked

LEMMA RefreshMarks ==
    ASSUME NEW r \in Session, NEW K, NEW d, NEW A, SessionMarks(r, A), r.pc = "list"
    PROVE  SessionMarks(Refresh(r, K, d), A) /\ Refresh(r, K, d).pc = "list"
           /\ Refresh(r, K, d).op = r.op
<1> DEFINE q == Refresh(r, K, d)
<1>1. /\ q.ent.local = r.ent.local /\ q.op = r.op /\ q.todo = r.todo
      /\ q.pc = r.pc /\ \A n \in Names : Tracked(q.ent, n) <=> Tracked(r.ent, n)
  BY RefreshSame
<1> HIDE DEF q
<1>2. MarkedIn(q.ent) \subseteq MarkedIn(r.ent)
  BY <1>1 DEF MarkedIn
<1>3. SessionMarks(q, A)
  BY <1>1, <1>2, FewerMarks
<1> QED
  BY <1>1, <1>3 DEF q

LEMMA UnrecordedMarks ==
    ASSUME NEW r \in Session, NEW K
    PROVE  /\ MarkedIn(Unrecorded(r, K).ent) \subseteq MarkedIn(r.ent)
           /\ Unrecorded(r, K).op = r.op /\ Unrecorded(r, K).todo = r.todo
<1>1. /\ Unrecorded(r, K).ent.files = [n \in Names |-> IF n \in K THEN NoInfo
                                                       ELSE r.ent.files[n]]
      /\ Unrecorded(r, K).ent.local = r.ent.local
      /\ Unrecorded(r, K).op = r.op /\ Unrecorded(r, K).todo = r.todo
  BY DEF Unrecorded, Session, Entity
<1> QED
  BY <1>1 DEF MarkedIn, Tracked, NoInfo

(***************************************************************************)
(* The turns keep the marks                                                *)
(***************************************************************************)

LEMMA BecomeMarks ==
    ASSUME sess \in [Slots -> Session], NEW s \in Slots, NEW r \in Session, NEW A,
           AllMarks(stored, sess, A), SessionMarks(r, A), Become(s, r)
    PROVE  AllMarks(stored', sess', A)
<1>1. MarkedIn(stored') \subseteq A
  BY DEF Become, SavedBy, AllMarks, SessionMarks
<1>2. ASSUME NEW t \in Slots PROVE SessionMarks(sess'[t], A)
  BY DEF Become, AllMarks
<1> QED
  BY <1>1, <1>2 DEF AllMarks

LEMMA UpdateTurnMarks ==
    ASSUME sess \in [Slots -> Session], NEW s \in Slots, NEW r \in Session, NEW d,
           NEW A, AllMarks(stored, sess, A), SessionMarks(r, A), r.pc # "rm",
           UpdateTurn(s, r, d)
    PROVE  AllMarks(stored', sess', A)
<1> DEFINE easy == {n \in r.todo : NoDownload(r.ent, n, d, r.seen[n])}
<1>1. r.todo \in SUBSET Names
  BY DEF Session
<1>2. \A n \in easy : Tracked(r.ent, n)
  BY DEF NoDownload, UpToDate, RemovedHere
<1>3. ASSUME NEW K \in SUBSET easy, NEW n \in r.todo,
             Become(s, [Skipped(r, K) EXCEPT !.todo = r.todo \ (K \cup {n}),
                                             !.cur = n, !.pc = "read"])
      PROVE  AllMarks(stored', sess', A)
  <2> DEFINE x == Skipped(r, K)
             q == [x EXCEPT !.todo = r.todo \ (K \cup {n}), !.cur = n, !.pc = "read"]
  <2>1. /\ MarkedIn(x.ent) \subseteq MarkedIn(r.ent) /\ x.op = r.op
        /\ x \in Session /\ Become(s, q)
    BY <1>1, <1>2, <1>3, SkippedMarks, SkippedType
  <2> HIDE DEF x
  <2>2. /\ q \in Session /\ q.ent = x.ent /\ q.op = x.op /\ q.pc = "read"
        /\ q.todo \subseteq r.todo
    BY <2>1, <1>1 DEF Session, Steps
  <2> HIDE DEF q
  <2>3. SessionMarks(q, A)
    BY <2>1, <2>2, FewerMarks
  <2> QED
    BY <2>1, <2>2, <2>3, BecomeMarks
<1>4. ASSUME r.todo \subseteq easy, Become(s, Answered(Skipped(r, r.todo), "ok", d))
      PROVE  AllMarks(stored', sess', A)
  <2> DEFINE x == Skipped(r, r.todo)
  <2>1. /\ MarkedIn(x.ent) \subseteq MarkedIn(r.ent) /\ x.op = r.op
        /\ x.todo = r.todo /\ x.pc = r.pc /\ x \in Session
        /\ Become(s, Answered(x, "ok", d))
    BY <1>1, <1>2, <1>4, SkippedMarks, SkippedType
  <2> HIDE DEF x
  <2>2. SessionMarks(x, A)
    BY <2>1, FewerMarks
  <2> QED
    BY <2>1, <2>2, AnsweredType, DoneMarks, BecomeMarks
<1> QED
  BY <1>3, <1>4 DEF UpdateTurn

\* The file a turn of submit_del asks for is one of the marked ones.
LEMMA DelTurnMarks ==
    ASSUME sess \in [Slots -> Session], NEW s \in Slots, NEW r \in Session, NEW d,
           NEW A, AllMarks(stored, sess, A), r.op \in CommitOps,
           MarkedIn(r.ent) \subseteq A, r.todo \subseteq A, DelTurn(s, r, d)
    PROVE  AllMarks(stored', sess', A)
<1>1. r.todo \in SUBSET Names
  BY DEF Session
<1>2. ASSUME NEW K
      PROVE  /\ Unrecorded(r, K) \in Session /\ Unrecorded(r, K).op \in CommitOps
             /\ MarkedIn(Unrecorded(r, K).ent) \subseteq A
  BY UnrecordedType, UnrecordedMarks
<1>3. ASSUME NEW K, NEW n \in r.todo,
             Become(s, [Unrecorded(r, K) EXCEPT !.todo = r.todo \ (K \cup {n}),
                                                !.cur = n, !.pc = "rm"])
      PROVE  AllMarks(stored', sess', A)
  <2> DEFINE x == Unrecorded(r, K)
             q == [x EXCEPT !.todo = r.todo \ (K \cup {n}), !.cur = n, !.pc = "rm"]
  <2>1. /\ x \in Session /\ MarkedIn(x.ent) \subseteq A /\ x.op \in CommitOps
        /\ Become(s, q)
    BY <1>2, <1>3
  <2> HIDE DEF x
  <2>2. /\ q \in Session /\ q.ent = x.ent /\ q.op = x.op /\ q.cur = n
        /\ q.todo \subseteq r.todo
    BY <2>1, <1>1 DEF Session, Steps
  <2> HIDE DEF q
  <2>3. SessionMarks(q, A)
    BY <2>1, <2>2 DEF SessionMarks
  <2> QED
    BY <2>1, <2>2, <2>3, BecomeMarks
<1>4. ASSUME NEW K, Become(s, Answered(Unrecorded(r, K), "ok", d))
      PROVE  AllMarks(stored', sess', A)
  <2> DEFINE x == Unrecorded(r, K)
             q == Answered(x, "ok", d)
  <2>1. /\ x \in Session /\ MarkedIn(x.ent) \subseteq A /\ Become(s, q)
    BY <1>2, <1>4
  <2> HIDE DEF x
  <2>2. q \in Session
    BY <2>1, AnsweredType
  <2>3. q.ent = x.ent /\ q.pc = "done" /\ q.todo = {}
    BY <2>1 DEF Answered, Done, Session
  <2> HIDE DEF q
  <2>4. SessionMarks(q, A)
    BY <2>1, <2>3 DEF SessionMarks
  <2> QED
    BY <2>1, <2>2, <2>4, BecomeMarks
<1> QED
  BY <1>3, <1>4 DEF DelTurn

\* What a commit is going to delete is marked in its entity.
LEMMA CommitTurnMarks ==
    ASSUME sess \in [Slots -> Session], NEW s \in Slots, NEW r \in Session,
           NEW d \in [Names -> File], NEW A, AllMarks(stored, sess, A),
           SessionMarks(r, A), r.pc = "list", CommitTurn(s, r, d)
    PROVE  AllMarks(stored', sess', A)
<1> DEFINE add == Added(r.ent, r.scope)
           r1 == DropLocal(r, add)
           up == Modified(r1.ent, r.scope, d)
           r2 == Refresh(r1, up, d)
           del == Deleted(r2.ent, r.scope)
<1>1. r.scope \in SUBSET Names
  BY DEF Session
<1>2. /\ add \in SUBSET Names /\ up \in SUBSET Names
      /\ del \subseteq MarkedIn(r2.ent)
      /\ \A n \in add : ~Tracked(r.ent, n)
  BY <1>1 DEF Added, Modified, Deleted, MarkedIn
<1>3. \/ \E K \in SUBSET add, n \in add : Become(s, [DropLocal(r, K) EXCEPT !.cur = n])
      \/ \E K \in SUBSET up, n \in up : Become(s, [Refresh(r1, K, d) EXCEPT !.cur = n])
      \/ Become(s, Answered(r2, "ok", d))
      \/ Become(s, [r2 EXCEPT !.todo = del])
  BY DEF CommitTurn
<1>4. r1 \in Session /\ SessionMarks(r1, A) /\ r1.pc = "list"
  BY <1>2, DropLocalType, DropLocalMarks
<1> HIDE DEF add, r1, up
<1>5. ASSUME NEW K
      PROVE  /\ Refresh(r1, K, d) \in Session /\ SessionMarks(Refresh(r1, K, d), A)
             /\ Refresh(r1, K, d).pc = "list"
  BY <1>4, RefreshType, RefreshMarks
<1>6. ASSUME NEW x \in Session, SessionMarks(x, A), x.pc = "list", NEW n \in Names,
             Become(s, [x EXCEPT !.cur = n])
      PROVE  AllMarks(stored', sess', A)
  <2> DEFINE q == [x EXCEPT !.cur = n]
  <2>1. /\ q \in Session /\ q.ent = x.ent /\ q.op = x.op /\ q.pc = "list"
        /\ q.todo = x.todo /\ Become(s, q)
    BY <1>6 DEF Session
  <2> HIDE DEF q
  <2>2. SessionMarks(q, A)
    BY <2>1, <1>6 DEF SessionMarks
  <2> QED
    BY <2>1, <2>2, BecomeMarks
<1>7. ASSUME NEW K \in SUBSET add, NEW n \in add,
             Become(s, [DropLocal(r, K) EXCEPT !.cur = n])
      PROVE  AllMarks(stored', sess', A)
  BY <1>2, <1>6, <1>7, DropLocalType, DropLocalMarks
<1>8. ASSUME NEW K \in SUBSET up, NEW n \in up, Become(s, [Refresh(r1, K, d) EXCEPT !.cur = n])
      PROVE  AllMarks(stored', sess', A)
  BY <1>2, <1>5, <1>6, <1>8
<1>9. ASSUME Become(s, Answered(r2, "ok", d))
      PROVE  AllMarks(stored', sess', A)
  BY <1>5, <1>9, AnsweredType, DoneMarks, BecomeMarks
<1>10. ASSUME Become(s, [r2 EXCEPT !.todo = del])
       PROVE  AllMarks(stored', sess', A)
  <2> DEFINE q == [r2 EXCEPT !.todo = del]
  <2>1. /\ r2 \in Session /\ SessionMarks(r2, A) /\ r2.pc = "list"
        /\ del \subseteq MarkedIn(r2.ent) /\ del \subseteq Names
    BY <1>2, <1>5 DEF MarkedIn
  <2> HIDE DEF r2, del
  <2>2. /\ q \in Session /\ q.ent = r2.ent /\ q.op = r2.op /\ q.pc = "list"
        /\ q.todo = del /\ Become(s, q)
    BY <2>1, <1>10 DEF Session
  <2> HIDE DEF q
  <2>3. SessionMarks(q, A)
    BY <2>1, <2>2 DEF SessionMarks
  <2> QED
    BY <2>2, <2>3, BecomeMarks
<1> QED
  BY <1>3, <1>7, <1>8, <1>9, <1>10

(***************************************************************************)
(* The steps keep the invariant                                            *)
(***************************************************************************)

\* Names stay asked for.
LEMMA MarksGrow ==
    ASSUME NEW st, NEW ss, NEW A, NEW B, A \subseteq B, AllMarks(st, ss, A)
    PROVE  AllMarks(st, ss, B)
BY DEF AllMarks, SessionMarks

LEMMA EmptyMarks ==
    MarkedIn(EmptyEntity) = {} /\ \A A : SessionMarks(IdleSession, A)
<1>1. MarkedIn(EmptyEntity) = {}
  BY DEF MarkedIn, EmptyEntity, Tracked, NoInfo
<1>2. /\ IdleSession.ent = EmptyEntity /\ IdleSession.op = "none"
      /\ IdleSession.pc = "idle"
  BY DEF IdleSession, NewSession
<1> QED
  BY <1>1, <1>2 DEF SessionMarks, CommitOps

LEMMA InitMarks == Init => MarksInv
<1> SUFFICES ASSUME Init PROVE MarksInv
  OBVIOUS
<1>1. PICK T \in SUBSET Names :
        stored = [files |-> [n \in Names |-> IF n \in T
                     THEN [remote_st |-> 1, local_st |-> 2, hash |-> 1]
                     ELSE NoInfo],
                  local |-> T]
  BY DEF Init
<1>2. MarkedIn(stored) = {}
  BY <1>1 DEF MarkedIn, Tracked, NoInfo
<1>3. sess = [s \in Slots |-> IdleSession]
  BY DEF Init
<1> QED
  BY <1>2, <1>3, InitType, EmptyMarks DEF MarksInv, AllMarks

LEMMA RequestMarks ==
    ASSUME MarksInv, NEW s \in Slots, Request(s)
    PROVE  AllMarks(stored', sess', asked')
<1>1. /\ disk \in [Names -> File] /\ stored \in Entity
      /\ sess \in [Slots -> Session]
      /\ AllMarks(stored, sess, asked) /\ MarkedIn(stored) \subseteq asked
  BY DEF MarksInv, TypeOK, AllMarks
<1>2. ASSUME NEW op \in Ops, NEW S \in SUBSET Names
      PROVE  LET x == NewSession(op, stored, S)
             IN  /\ x \in Session /\ x.pc = "list" /\ SessionMarks(x, asked)
  <2> DEFINE x == NewSession(op, stored, S)
  <2>1. x \in Session
    BY <1>1, NewSessionType
  <2>2. x.pc = "list" /\ x.ent = stored /\ x.todo = {}
    BY DEF NewSession
  <2> HIDE DEF x
  <2>3. SessionMarks(x, asked)
    BY <2>2, <1>1 DEF SessionMarks
  <2> QED
    BY <2>1, <2>2, <2>3 DEF x
<1>3. ASSUME NEW op \in SyncOps, NEW S \in SUBSET Names,
             Become(s, NewSession(op, stored, S)), asked' = asked
      PROVE  AllMarks(stored', sess', asked')
  BY <1>1, <1>2, <1>3, BecomeMarks DEF Ops
<1>4. ASSUME NEW op \in CommitOps, NEW S \in SUBSET Names,
             CommitTurn(s, NewSession(op, stored, S), disk), asked' = asked
      PROVE  AllMarks(stored', sess', asked')
  BY <1>1, <1>2, <1>4, CommitTurnMarks DEF Ops, SyncOps
\* A remove or a rename marks the name that was asked for.
<1>5. ASSUME NEW op \in {"remove", "rename"}, NEW n \in Names,
             NEW m \in Names \cup {NoName}, NEW loc \in SUBSET Names,
             stored.local \ {n} \subseteq loc, asked' = asked \cup {n},
             Become(s, [WithLocal(NewSession(op, stored, {n}), loc)
                          EXCEPT !.cur = n, !.to = m])
      PROVE  AllMarks(stored', sess', asked')
  <2> DEFINE x == NewSession(op, stored, {n})
             w == WithLocal(x, loc)
             q == [w EXCEPT !.cur = n, !.to = m]
  <2>1. x \in Session /\ x.ent = stored /\ x.op = op /\ Become(s, q)
    BY <1>2, <1>5 DEF Ops, NewSession
  <2> HIDE DEF x
  <2>2. /\ [x.ent EXCEPT !.local = loc] \in Entity
        /\ [x.ent EXCEPT !.local = loc].files = stored.files
        /\ [x.ent EXCEPT !.local = loc].local = loc
    BY <2>1, <1>1 DEF Entity
  <2>3. /\ w \in Session /\ w.ent.files = stored.files /\ w.ent.local = loc
        /\ w.pc = "fs" /\ w.op = op
    BY <2>1, <2>2 DEF WithLocal, Session, Steps
  <2> HIDE DEF w
  <2>4. q \in Session /\ q.ent = w.ent /\ q.pc = "fs" /\ q.op = op
    BY <2>3 DEF Session
  <2> HIDE DEF q
  <2>5. MarkedIn(q.ent) \subseteq asked'
    BY <2>3, <2>4, <1>1, <1>5 DEF MarkedIn, Tracked
  <2>6. SessionMarks(q, asked')
    BY <2>4, <2>5 DEF SessionMarks, CommitOps
  <2>7. AllMarks(stored, sess, asked')
    BY <1>1, <1>5, MarksGrow
  <2> QED
    BY <2>1, <2>4, <2>6, <2>7, <1>1, BecomeMarks
<1>6. CASE StartUpdate(s)
  BY <1>6, <1>3 DEF StartUpdate, SyncOps
<1>7. CASE \E n \in Names : StartUpdateFile(s, n)
  BY <1>7, <1>3 DEF StartUpdateFile, SyncOps
<1>8. CASE \/ StartCommit(s, "commit", Names)
           \/ \E n \in Names : StartCommit(s, "commit_file", {n})
  BY <1>8, <1>4 DEF StartCommit, CommitOps
<1>9. ASSUME NEW n \in Names, StartRemove(s, n)
      PROVE  AllMarks(stored', sess', asked')
  <2> DEFINE w == WithLocal(NewSession("remove", stored, {n}), Forget(stored, n))
  <2>1. Become(s, [w EXCEPT !.cur = n])
    BY <1>9 DEF StartRemove
  <2>2. w.to = NoName
    BY DEF WithLocal, NewSession
  <2>3. [w EXCEPT !.cur = n] = [w EXCEPT !.cur = n, !.to = NoName]
    BY <2>2 DEF WithLocal, NewSession
  <2>6. Become(s, [w EXCEPT !.cur = n, !.to = NoName])
    BY <2>1, <2>3
  <2>4. /\ Forget(stored, n) \in SUBSET Names
        /\ stored.local \ {n} \subseteq Forget(stored, n)
    BY <1>1 DEF Forget, Entity
  <2>5. asked' = asked \cup {n}
    BY <1>9 DEF StartRemove
  <2> QED
    BY <2>6, <2>4, <2>5, <1>5
<1>10. ASSUME NEW n \in Names, NEW m \in Names, StartRename(s, n, m)
       PROVE  AllMarks(stored', sess', asked')
  <2>1. /\ Moved(stored, n, m) \in SUBSET Names
        /\ stored.local \ {n} \subseteq Moved(stored, n, m)
    BY <1>1 DEF Moved, Entity
  <2> QED
    BY <2>1, <1>5, <1>10 DEF StartRename
<1> QED
  BY <1>6, <1>7, <1>8, <1>9, <1>10 DEF Request

LEMMA ProgressMarks ==
    ASSUME MarksInv, NEW s \in Slots, Progress(s)
    PROVE  AllMarks(stored', sess', asked')
<1> DEFINE r == sess[s]
<1>1. /\ r \in Session /\ HasFile(r) /\ sess \in [Slots -> Session]
      /\ AllMarks(stored, sess, asked) /\ SessionMarks(r, asked) /\ TypeOK
  BY DEF MarksInv, TypeOK, AllMarks
<1>2. asked' = asked
  BY DEF Progress, FsDone, FsFails, UpdateListed, FileStated, UpdateListFails,
         ReadOpens, ReadFails, ReadEnds, CommitListed, Sent, SendFails, RmDone,
         RmFails
<1> HIDE DEF r
<1>3. ASSUME NEW q \in Session, NEW a \in {"ok", "error"}, SessionMarks(q, asked),
             Become(s, Done(q, a)) \/ Become(s, Answered(q, a, disk))
      PROVE  AllMarks(stored', sess', asked')
  BY <1>1, <1>2, <1>3, DoneType, AnsweredType, DoneMarks, BecomeMarks
<1>4. ASSUME NEW ok \in BOOLEAN
      PROVE  /\ Listing(r, ok) \in Session /\ SessionMarks(Listing(r, ok), asked)
             /\ Listing(r, ok).op = r.op /\ Listing(r, ok).pc = r.pc
  BY <1>1, ListingType, ListingMarks
<1>5. CASE FsDone(s) \/ FsFails(s) \/ UpdateListFails(s) \/ ReadFails(s)
             \/ SendFails(s) \/ RmFails(s)
  BY <1>5, <1>1, <1>3 DEF FsDone, FsFails, UpdateListFails, ReadFails, SendFails,
                          RmFails, r
<1>6. CASE UpdateListed(s)
  <2> DEFINE l == Listing(r, TRUE)
  <2>1. /\ l \in Session /\ SessionMarks(l, asked) /\ l.op = "update"
        /\ l.pc = "list" /\ UpdateTurn(s, Prune(l), SafeRm(l, disk))
    BY <1>4, <1>6 DEF UpdateListed, r
  <2> HIDE DEF l
  <2>2. /\ Prune(l) \in Session /\ Prune(l).op = "update" /\ Prune(l).pc = "list"
        /\ MarkedIn(Prune(l).ent) \subseteq MarkedIn(l.ent)
    BY <2>1, PruneType, PruneMarks
  <2>3. SessionMarks(Prune(l), asked)
    BY <2>1, <2>2 DEF SessionMarks, CommitOps
  <2> QED
    BY <2>1, <2>2, <2>3, <1>1, <1>2, UpdateTurnMarks
<1>7. CASE FileStated(s)
  <2> DEFINE l == Listing(r, TRUE)
             q == [l EXCEPT !.todo = l.scope]
  <2>1. /\ l \in Session /\ SessionMarks(l, asked) /\ l.op = "update_file"
        /\ l.pc = "list" /\ UpdateTurn(s, q, disk)
    BY <1>4, <1>7 DEF FileStated, r
  <2> HIDE DEF l
  <2>2. /\ q \in Session /\ q.ent = l.ent /\ q.op = "update_file"
        /\ q.pc = "list"
    BY <2>1 DEF Session
  <2> HIDE DEF q
  <2>3. SessionMarks(q, asked)
    BY <2>1, <2>2 DEF SessionMarks, CommitOps
  <2> QED
    BY <2>1, <2>2, <2>3, <1>1, <1>2, UpdateTurnMarks
<1>8. CASE ReadOpens(s)
  <2> DEFINE q == [r EXCEPT !.pc = "recv", !.buf = server[r.cur].c]
  <2>1. Become(s, q) /\ server[r.cur].c \in Nat
    BY <1>1, <1>8 DEF ReadOpens, HasFile, TypeOK, File, r
  <2>2. /\ q \in Session /\ q.ent = r.ent /\ q.op = r.op /\ q.todo = r.todo
        /\ q.pc = "recv"
    BY <2>1, <1>1 DEF Session, Steps
  <2> HIDE DEF q
  <2>3. SessionMarks(q, asked)
    BY <2>2, <1>1, FewerMarks
  <2> QED
    BY <2>1, <2>2, <2>3, <1>1, <1>2, BecomeMarks
<1>9. CASE ReadEnds(s)
  <2> DEFINE Ends(c, hash, time) ==
          UpdateTurn(s, Recorded(r, NewInfo(r, now + 1, hash)),
                     [disk EXCEPT ![r.cur] = [c |-> c, t |-> time]])
  <2>1. r.pc = "recv" /\ r.cur \in Names
    BY <1>1, <1>9 DEF ReadEnds, HasFile, r
  <2>2. \E c \in Transferred(r, server[r.cur]) :
          \E hash \in {c, now + 2}, time \in {now + 1, now + 2} : Ends(c, hash, time)
    BY <1>9 DEF ReadEnds, r
  <2>3. Transferred(r, server[r.cur]) \subseteq Nat
    BY <2>1, <1>1 DEF Transferred, TypeOK, File, Session
  <2> HIDE DEF Ends
  <2>4. PICK c \in Transferred(r, server[r.cur]) :
          \E hash \in {c, now + 2}, time \in {now + 1, now + 2} : Ends(c, hash, time)
    BY <2>2
  <2>5. PICK hash \in {c, now + 2}, time \in {now + 1, now + 2} : Ends(c, hash, time)
    BY <2>4
  <2>6. hash \in Nat /\ now + 1 \in Nat
    BY <2>3, <2>5, <1>1 DEF TypeOK
  <2> DEFINE info == NewInfo(r, now + 1, hash)
  <2>7. info \in Info
    BY <2>1, <2>6, <1>1 DEF NewInfo, Info, Session
  <2> HIDE DEF info
  <2>8. Recorded(r, info) \in Session /\ SessionMarks(Recorded(r, info), asked)
    BY <2>1, <2>7, <1>1, RecordedType, RecordedMarks
  <2>9. Recorded(r, info).pc = "recv"
    BY <2>1, <1>1 DEF Recorded, Session
  <2>10. \E d : UpdateTurn(s, Recorded(r, info), d)
    BY <2>5 DEF Ends, info
  <2> QED
    BY <2>8, <2>9, <2>10, <1>1, <1>2, UpdateTurnMarks
<1>10. CASE CommitListed(s)
  <2>1. PICK ok \in BOOLEAN :
          LET l == Listing(r, ok)
          IN  \/ DelTurn(s, l, disk)
              \/ /\ l.cur # NoName
                 /\ Become(s, [l EXCEPT !.pc = "put", !.buf = disk[l.cur].c])
              \/ Become(s, Done(l, "error"))
    BY <1>10 DEF CommitListed, r
  <2> DEFINE l == Listing(r, ok)
  <2>2. l \in Session /\ SessionMarks(l, asked) /\ l.op \in CommitOps
    BY <1>4, <1>10 DEF CommitListed, r
  <2> HIDE DEF l
  <2>3. ASSUME DelTurn(s, l, disk) PROVE AllMarks(stored', sess', asked')
    BY <2>2, <2>3, <1>1, <1>2, DelTurnMarks DEF SessionMarks
  <2>4. ASSUME l.cur # NoName,
               Become(s, [l EXCEPT !.pc = "put", !.buf = disk[l.cur].c])
        PROVE  AllMarks(stored', sess', asked')
    <3> DEFINE q == [l EXCEPT !.pc = "put", !.buf = disk[l.cur].c]
    <3>1. l.cur \in Names /\ disk[l.cur].c \in Nat
      BY <2>2, <2>4, <1>1 DEF Session, TypeOK, File
    <3>2. /\ q \in Session /\ q.ent = l.ent /\ q.op = l.op /\ q.todo = l.todo
          /\ q.pc = "put" /\ Become(s, q)
      BY <3>1, <2>2, <2>4 DEF Session, Steps
    <3> HIDE DEF q
    <3>3. SessionMarks(q, asked)
      BY <3>2, <2>2, FewerMarks
    <3> QED
      BY <3>2, <3>3, <1>1, <1>2, BecomeMarks
  <2>5. ASSUME Become(s, Done(l, "error")) PROVE AllMarks(stored', sess', asked')
    BY <2>2, <2>5, <1>3
  <2> QED
    BY <2>1, <2>3, <2>4, <2>5 DEF l
<1>11. CASE Sent(s)
  <2> DEFINE q == [r EXCEPT !.pc = "dead"]
  <2>1. /\ q \in Session /\ q.ent = r.ent /\ q.op = r.op /\ q.todo = r.todo
        /\ q.pc = "dead" /\ Become(s, q)
    BY <1>1, <1>11 DEF Sent, Session, Steps, r
  <2> HIDE DEF q
  <2>2. SessionMarks(q, asked)
    BY <2>1, <1>1, FewerMarks
  <2> QED
    BY <2>1, <2>2, <1>1, <1>2, BecomeMarks
<1>12. CASE RmDone(s)
  <2> DEFINE w == Unrecorded(r, {r.cur})
             q == [w EXCEPT !.cur = NoName]
  <2>1. DelTurn(s, q, disk) /\ r.pc = "rm"
    BY <1>12 DEF RmDone, r
  <2>2. r.op \in CommitOps
    BY <2>1, <1>1 DEF SessionMarks
  <2>3. /\ w \in Session /\ MarkedIn(w.ent) \subseteq asked
        /\ w.op = r.op /\ w.todo = r.todo /\ r.todo \subseteq asked
    BY <2>2, <1>1, UnrecordedType, UnrecordedMarks DEF SessionMarks
  <2> HIDE DEF w
  <2>4. q \in Session /\ q.ent = w.ent /\ q.op = w.op /\ q.todo = w.todo
    BY <2>3 DEF Session
  <2> HIDE DEF q
  <2> QED
    BY <2>1, <2>2, <2>3, <2>4, <1>1, <1>2, DelTurnMarks
<1> QED
  BY <1>5, <1>6, <1>7, <1>8, <1>9, <1>10, <1>11, <1>12 DEF Progress

\* A cancelled operation keeps its entity, and goes on or is over.
LEMMA CancelMarks ==
    ASSUME MarksInv, NEW s \in Slots, Cancel(s)
    PROVE  AllMarks(stored', sess', asked')
<1> DEFINE r == sess[s]
<1>1. /\ r \in Session /\ sess \in [Slots -> Session]
      /\ AllMarks(stored, sess, asked) /\ SessionMarks(r, asked)
  BY DEF MarksInv, TypeOK, AllMarks
<1>2. /\ asked' = asked
      /\ MarkedIn(stored') \subseteq asked
  BY <1>1 DEF Cancel, CancelSync, CancelRemove, AllMarks, SessionMarks
<1>3. ASSUME NEW q, sess' = [sess EXCEPT ![s] = q], q.ent = r.ent, q.op = r.op,
             q.todo = r.todo, q.cur = r.cur, q.pc = r.pc \/ q.pc = "done"
      PROVE  AllMarks(stored', sess', asked')
  <2> HIDE DEF r
  <2>1. SessionMarks(q, asked)
    BY <1>1, <1>3 DEF SessionMarks
  <2>2. ASSUME NEW t \in Slots PROVE SessionMarks(sess'[t], asked)
    BY <2>1, <1>1, <1>3 DEF AllMarks
  <2> QED
    BY <2>2, <1>2 DEF AllMarks
<1>4. CASE CancelSync(s)
  <2> DEFINE reply == IF StatThrows(r, disk) THEN r.reply ELSE "ok"
             pc == IF r.pc = "dead" THEN "done" ELSE r.pc
             q == [r EXCEPT !.held = FALSE, !.reply = reply, !.pc = pc]
  <2>1. sess' = [sess EXCEPT ![s] = q]
    BY <1>4 DEF CancelSync
  <2>2. pc = r.pc \/ pc = "done"
    OBVIOUS
  <2> HIDE DEF reply, pc, r
  <2>3. /\ q.ent = r.ent /\ q.op = r.op /\ q.todo = r.todo /\ q.cur = r.cur
        /\ q.pc = pc
    BY <1>1 DEF Session
  <2> QED
    BY <2>1, <2>2, <2>3, <1>3
<1>5. CASE CancelRemove(s)
  <2> DEFINE q == [r EXCEPT !.held = FALSE]
  <2>1. sess' = [sess EXCEPT ![s] = q]
    BY <1>5 DEF CancelRemove
  <2> HIDE DEF r
  <2>2. /\ q.ent = r.ent /\ q.op = r.op /\ q.todo = r.todo /\ q.cur = r.cur
        /\ q.pc = r.pc
    BY <1>1 DEF Session
  <2> QED
    BY <2>1, <2>2, <1>3
<1> QED
  BY <1>4, <1>5 DEF Cancel

\* An entity that is lost marks nothing.
LEMMA CrashMarks ==
    ASSUME MarksInv, Crash
    PROVE  AllMarks(stored', sess', asked')
<1>1. MarkedIn(stored) \subseteq asked
  BY DEF MarksInv, AllMarks
<1>2. stored' = stored \/ stored' = EmptyEntity
  BY DEF Crash
<1>3. sess' = [t \in Slots |-> IdleSession] /\ asked' = asked
  BY DEF Crash
<1> QED
  BY <1>1, <1>2, <1>3, EmptyMarks DEF AllMarks

\* The user and the other clients touch no session; a name that is added is
\* marked no more.
LEMMA EnvironmentMarks ==
    ASSUME MarksInv, User \/ Remote
    PROVE  AllMarks(stored', sess', asked')
<1>1. stored \in Entity /\ AllMarks(stored, sess, asked)
  BY DEF MarksInv, TypeOK
<1>2. sess' = sess /\ asked' = asked
  BY DEF User, Remote, UserWrite, UserErase, Join, RemoteWrite, RemoteDelete
<1>3. \/ stored' = stored
      \/ \E n \in Names : stored' = [stored EXCEPT !.local = stored.local \cup {n}]
  BY DEF User, Remote, UserWrite, UserErase, Join, RemoteWrite, RemoteDelete
<1>4. MarkedIn(stored') \subseteq MarkedIn(stored)
  <2>1. ASSUME NEW n \in Names,
               stored' = [stored EXCEPT !.local = stored.local \cup {n}]
        PROVE  MarkedIn(stored') \subseteq MarkedIn(stored)
    <3>1. stored'.files = stored.files /\ stored'.local = stored.local \cup {n}
      BY <2>1, <1>1 DEF Entity
    <3> QED
      BY <3>1 DEF MarkedIn, Tracked
  <2> QED
    BY <2>1, <1>3
<1> QED
  BY <1>1, <1>2, <1>4 DEF AllMarks

LEMMA MarksStep == MarksInv /\ [Next]_vars => MarksInv'
<1> SUFFICES ASSUME MarksInv, [Next]_vars PROVE MarksInv'
  OBVIOUS
<1>1. TypeOK'
  BY TypeStep DEF MarksInv
<1>2. SUFFICES AllMarks(stored', sess', asked')
  BY <1>1 DEF MarksInv, AllMarks, SessionMarks, MarkedIn, Tracked
<1>3. CASE UNCHANGED vars
  BY <1>3 DEF vars, MarksInv
<1>4. CASE Next
  BY <1>4, EnvironmentMarks, RequestMarks, ProgressMarks, CancelMarks, CrashMarks
     DEF Next
<1> QED
  BY <1>3, <1>4

\* Whatever entities were saved over each other, a commit deletes a file on
\* the server only when the user removed it or renamed it away.
THEOREM MarksAsked == Spec => []DeleteAsked
<1>1. MarksInv => DeleteAsked
  BY DEF MarksInv, AllMarks, SessionMarks, DeleteAsked
<1> QED
  BY <1>1, InitMarks, MarksStep, PTL DEF Spec

(***************************************************************************)
(* How an operation ends                                                   *)
(***************************************************************************)

\* Records and local files agree on the path of r, but for the names in D, whose
\* files are gone and whose records a commit has still to drop.
DelLeft(r, D) ==
    \A n \in r.scope : IF n \in D THEN n \notin r.ent.local
                                  ELSE Tracked(r.ent, n) <=> n \in r.ent.local

Unanswered(r) == r.held => r.reply = "waiting"

Over(r) ==
    /\ r.op \in CommitOps /\ r.reply = "ok" /\ r.held => DelLeft(r, {})
    /\ r.reply = "waiting" =>
         /\ r.op \in {"update_file", "commit_file"}
         /\ \E n \in r.scope : Tracked(r.ent, n) /\ n \in r.ent.local

\* A is the set of names that were asked for.
SessionEnds(r, A) ==
    /\ r.pc \in {"read", "recv"} => r.cur \notin MarkedIn(r.ent)
    /\ r.pc \in {"read", "recv", "fs"} => r.op \notin CommitOps
    /\ r.pc = "list" /\ r.op \in CommitOps /\ r.cur = NoName => DelLeft(r, r.todo)
    /\ r.pc = "rm" => DelLeft(r, r.todo \cup {r.cur})
    /\ r.pc \notin {"idle", "done"} => Unanswered(r)
    /\ r.pc = "done" => Over(r)
    /\ r.pc = "fs" => r.cur \in A

AllEnds(ss, A) == \A s \in Slots : SessionEnds(ss[s], A)

EndsInv == MarksInv /\ AllEnds(sess, asked)

(***************************************************************************)
(* The operators lead to an end                                            *)
(***************************************************************************)

\* The end of a chain of callbacks: a commit that ends well leaves nothing to drop.
LEMMA DoneEnds ==
    ASSUME NEW r \in Session, NEW a \in {"ok", "error"}, NEW d, NEW A, Unanswered(r),
           a = "ok" /\ r.op \in CommitOps => DelLeft(r, {})
    PROVE  /\ SessionEnds(Done(r, a), A) /\ Done(r, a).ent = r.ent
           /\ SessionEnds(Answered(r, a, d), A) /\ Answered(r, a, d).ent = r.ent
<1> DEFINE q == Done(r, a)
<1>1. /\ q \in Session /\ q.ent = r.ent /\ q.pc = "done" /\ q.op = r.op
      /\ q.scope = r.scope /\ q.held = r.held
      /\ q.reply = IF r.reply = "waiting" THEN a ELSE r.reply
  <2>1. q \in Session
    BY DoneType
  <2> QED
    BY <2>1 DEF Done, Session
<1>2. Answered(r, a, d) = IF StatThrows(r, d)
        THEN [q EXCEPT !.held = FALSE, !.reply = r.reply] ELSE q
  BY DEF Answered
<1> HIDE DEF q
<1>3. ASSUME NEW x, x.ent = r.ent, x.scope = r.scope
      PROVE  \A D : DelLeft(x, D) <=> DelLeft(r, D)
  BY <1>3 DEF DelLeft
<1>4. SessionEnds(q, A)
  <2>1. q.op \in CommitOps /\ q.reply = "ok" /\ q.held => DelLeft(q, {})
    BY <1>1, <1>3 DEF Unanswered
  <2>2. q.reply # "waiting"
    BY <1>1
  <2> QED
    BY <1>1, <2>1, <2>2 DEF SessionEnds, Over
<1>5. ASSUME StatThrows(r, d)
      PROVE  /\ SessionEnds([q EXCEPT !.held = FALSE, !.reply = r.reply], A)
             /\ [q EXCEPT !.held = FALSE, !.reply = r.reply].ent = r.ent
  <2> DEFINE x == [q EXCEPT !.held = FALSE, !.reply = r.reply]
  <2>1. /\ x.ent = r.ent /\ x.scope = r.scope /\ x.op = r.op /\ x.pc = "done"
        /\ ~x.held
    BY <1>1 DEF Session
  <2> HIDE DEF x
  <2>2. Over(x)
    BY <2>1, <1>5 DEF Over, StatThrows
  <2>3. SessionEnds(x, A)
    BY <2>1, <2>2 DEF SessionEnds
  <2> QED
    BY <2>1, <2>3 DEF x
<1> QED
  BY <1>1, <1>2, <1>4, <1>5 DEF q

LEMMA BecomeEnds ==
    ASSUME sess \in [Slots -> Session], NEW s \in Slots, NEW q \in Session, NEW A,
           AllEnds(sess, A), SessionEnds(q, A), Become(s, q)
    PROVE  AllEnds(sess', A) /\ sess'[s] = q
BY DEF AllEnds, Become

\* Skipped changes neither the session but for its records, nor what is local.
LEMMA SkippedSame ==
    ASSUME NEW r \in Session, NEW K
    PROVE  /\ Skipped(r, K).ent.local = r.ent.local /\ Skipped(r, K).op = r.op
           /\ Skipped(r, K).held = r.held /\ Skipped(r, K).reply = r.reply
BY DEF Skipped, Session, Entity

\* A turn of an update downloads no file that is marked as removed, and leaves what
\* is local as it was.
LEMMA UpdateTurnEnds ==
    ASSUME sess \in [Slots -> Session], NEW s \in Slots, NEW r \in Session, NEW d,
           NEW A, AllEnds(sess, A), r.op \notin CommitOps, Unanswered(r),
           UpdateTurn(s, r, d)
    PROVE  AllEnds(sess', A) /\ sess'[s].ent.local = r.ent.local
<1> DEFINE easy == {n \in r.todo : NoDownload(r.ent, n, d, r.seen[n])}
<1>1. r.todo \in SUBSET Names
  BY DEF Session
<1>2. \A n \in easy : Tracked(r.ent, n)
  BY DEF NoDownload, UpToDate, RemovedHere
<1>3. \A n \in r.todo \ easy : n \notin MarkedIn(r.ent)
  BY DEF NoDownload, UpToDate, RemovedHere, MarkedIn
<1>4. ASSUME NEW K \in SUBSET easy, NEW n \in r.todo \ easy,
             Become(s, [Skipped(r, K) EXCEPT !.todo = r.todo \ (K \cup {n}),
                                             !.cur = n, !.pc = "read"])
      PROVE  AllEnds(sess', A) /\ sess'[s].ent.local = r.ent.local
  <2> DEFINE x == Skipped(r, K)
             q == [x EXCEPT !.todo = r.todo \ (K \cup {n}), !.cur = n, !.pc = "read"]
  <2>1. /\ MarkedIn(x.ent) \subseteq MarkedIn(r.ent) /\ x.ent.local = r.ent.local
        /\ x.op = r.op /\ x.held = r.held /\ x.reply = r.reply
        /\ x \in Session /\ Become(s, q)
    BY <1>1, <1>2, <1>4, SkippedMarks, SkippedSame, SkippedType
  <2> HIDE DEF x
  <2>2. /\ q \in Session /\ q.ent = x.ent /\ q.op = x.op /\ q.pc = "read"
        /\ q.cur = n /\ q.held = x.held /\ q.reply = x.reply
    BY <2>1, <1>1 DEF Session, Steps
  <2> HIDE DEF q
  <2>3. q.cur \notin MarkedIn(q.ent) /\ Unanswered(q)
    BY <2>1, <2>2, <1>3 DEF Unanswered
  <2>4. SessionEnds(q, A)
    BY <2>1, <2>2, <2>3 DEF SessionEnds
  <2> QED
    BY <2>1, <2>2, <2>4, BecomeEnds
<1>5. ASSUME r.todo \subseteq easy, Become(s, Answered(Skipped(r, r.todo), "ok", d))
      PROVE  AllEnds(sess', A) /\ sess'[s].ent.local = r.ent.local
  <2> DEFINE x == Skipped(r, r.todo)
             q == Answered(x, "ok", d)
  <2>1. /\ x.ent.local = r.ent.local /\ x.op = r.op /\ x.held = r.held
        /\ x.reply = r.reply /\ x \in Session /\ Become(s, q)
    BY <1>1, <1>5, SkippedSame, SkippedType
  <2> HIDE DEF x
  <2>2. SessionEnds(q, A) /\ q.ent = x.ent /\ q \in Session
    BY <2>1, DoneEnds, AnsweredType DEF Unanswered
  <2> HIDE DEF q
  <2> QED
    BY <2>1, <2>2, BecomeEnds
<1> QED
  BY <1>4, <1>5 DEF UpdateTurn

\* A record that is dropped leaves nothing to drop of its name.
LEMMA UnrecordedLeft ==
    ASSUME NEW r \in Session, NEW K, NEW D, NEW E, DelLeft(r, D),
           K \subseteq D, D \subseteq K \cup E, E \subseteq D
    PROVE  /\ DelLeft(Unrecorded(r, K), E)
           /\ Unrecorded(r, K).ent.local = r.ent.local
           /\ Unrecorded(r, K).op = r.op /\ Unrecorded(r, K).scope = r.scope
           /\ Unrecorded(r, K).held = r.held /\ Unrecorded(r, K).reply = r.reply
           /\ Unrecorded(r, K).todo = r.todo
<1>1. /\ Unrecorded(r, K).ent.files = [n \in Names |-> IF n \in K THEN NoInfo
                                                       ELSE r.ent.files[n]]
      /\ Unrecorded(r, K).ent.local = r.ent.local
      /\ Unrecorded(r, K).op = r.op /\ Unrecorded(r, K).scope = r.scope
      /\ Unrecorded(r, K).held = r.held /\ Unrecorded(r, K).reply = r.reply
      /\ Unrecorded(r, K).todo = r.todo
  BY DEF Unrecorded, Session, Entity
<1>2. r.scope \subseteq Names
  BY DEF Session
<1>3. ASSUME NEW n \in r.scope
      PROVE  Tracked(Unrecorded(r, K).ent, n) <=> n \notin K /\ Tracked(r.ent, n)
  BY <1>1, <1>2 DEF Tracked, NoInfo
<1>4. DelLeft(Unrecorded(r, K), E)
  BY <1>1, <1>3 DEF DelLeft
<1> QED
  BY <1>1, <1>4

LEMMA DelTurnEnds ==
    ASSUME sess \in [Slots -> Session], NEW s \in Slots, NEW r \in Session, NEW d,
           NEW A, AllEnds(sess, A), DelLeft(r, r.todo), Unanswered(r),
           DelTurn(s, r, d)
    PROVE  AllEnds(sess', A) /\ sess'[s].ent.local = r.ent.local
<1> DEFINE none == {n \in r.todo : r.seen[n] = 0}
<1>1. r.todo \in SUBSET Names
  BY DEF Session
<1>2. ASSUME NEW K \in SUBSET none, NEW n \in r.todo \ none,
             Become(s, [Unrecorded(r, K) EXCEPT !.todo = r.todo \ (K \cup {n}),
                                                !.cur = n, !.pc = "rm"])
      PROVE  AllEnds(sess', A) /\ sess'[s].ent.local = r.ent.local
  <2> DEFINE x == Unrecorded(r, K)
             q == [x EXCEPT !.todo = r.todo \ (K \cup {n}), !.cur = n, !.pc = "rm"]
  <2>1. /\ DelLeft(x, r.todo \ K) /\ x.ent.local = r.ent.local /\ x.held = r.held
        /\ x.reply = r.reply /\ x \in Session /\ Become(s, q)
    BY <1>2, UnrecordedLeft, UnrecordedType
  <2> HIDE DEF x
  <2>2. /\ q \in Session /\ q.ent = x.ent /\ q.pc = "rm" /\ q.scope = x.scope
        /\ q.todo = r.todo \ (K \cup {n}) /\ q.cur = n
        /\ q.held = x.held /\ q.reply = x.reply
    BY <2>1, <1>1 DEF Session, Steps
  <2> HIDE DEF q
  <2>3. q.todo \cup {q.cur} = r.todo \ K
    BY <2>2, <1>2
  <2>4. DelLeft(q, r.todo \ K) /\ Unanswered(q)
    BY <2>1, <2>2 DEF DelLeft, Unanswered
  <2>5. SessionEnds(q, A)
    BY <2>2, <2>3, <2>4 DEF SessionEnds
  <2> QED
    BY <2>1, <2>2, <2>5, BecomeEnds
<1>3. ASSUME r.todo = none, Become(s, Answered(Unrecorded(r, none), "ok", d))
      PROVE  AllEnds(sess', A) /\ sess'[s].ent.local = r.ent.local
  <2> DEFINE x == Unrecorded(r, none)
             q == Answered(x, "ok", d)
  <2>1. /\ DelLeft(x, {}) /\ x.ent.local = r.ent.local /\ x.held = r.held
        /\ x.reply = r.reply /\ x \in Session /\ Become(s, q)
    BY <1>3, UnrecordedLeft, UnrecordedType
  <2> HIDE DEF x
  <2>2. SessionEnds(q, A) /\ q.ent = x.ent /\ q \in Session
    BY <2>1, DoneEnds, AnsweredType DEF Unanswered
  <2> HIDE DEF q
  <2> QED
    BY <2>1, <2>2, BecomeEnds
<1> QED
  BY <1>2, <1>3 DEF DelTurn

\* What a commit is going to drop is all that is out of step.
LEMMA CommitTurnEnds ==
    ASSUME sess \in [Slots -> Session], NEW s \in Slots, NEW r \in Session,
           NEW d \in [Names -> File], NEW A, AllEnds(sess, A), NoName \notin Names,
           r.pc = "list", Unanswered(r), CommitTurn(s, r, d)
    PROVE  AllEnds(sess', A)
<1> DEFINE add == Added(r.ent, r.scope)
           r1 == DropLocal(r, add)
           up == Modified(r1.ent, r.scope, d)
           r2 == Refresh(r1, up, d)
           del == Deleted(r2.ent, r.scope)
<1>1. r.scope \in SUBSET Names
  BY DEF Session
<1>2. /\ add \in SUBSET Names /\ up \in SUBSET Names /\ del \in SUBSET Names
      /\ \A n \in r.scope \cap r.ent.local : n \notin add => Tracked(r.ent, n)
      /\ \A n \in r.scope : n \in del <=> n \notin r2.ent.local /\ Tracked(r2.ent, n)
  BY <1>1 DEF Added, Modified, Deleted
<1>3. \/ \E K \in SUBSET add, n \in add : Become(s, [DropLocal(r, K) EXCEPT !.cur = n])
      \/ \E K \in SUBSET up, n \in up : Become(s, [Refresh(r1, K, d) EXCEPT !.cur = n])
      \/ del = {} /\ Become(s, Answered(r2, "ok", d))
      \/ Become(s, [r2 EXCEPT !.todo = del])
  BY DEF CommitTurn
<1>4. ASSUME NEW K
      PROVE  /\ DropLocal(r, K) \in Session /\ DropLocal(r, K).pc = "list"
             /\ Unanswered(DropLocal(r, K))
             /\ DropLocal(r, K).ent.local = r.ent.local \ K
             /\ DropLocal(r, K).ent.files = r.ent.files
             /\ DropLocal(r, K).scope = r.scope
  <2>1. /\ DropLocal(r, K).pc = r.pc /\ DropLocal(r, K).scope = r.scope
        /\ DropLocal(r, K).held = r.held /\ DropLocal(r, K).reply = r.reply
        /\ DropLocal(r, K).ent.local = r.ent.local \ K
        /\ DropLocal(r, K).ent.files = r.ent.files
    BY DEF DropLocal, Session, Entity
  <2> QED
    BY <2>1, DropLocalType DEF Unanswered
<1>5. /\ r1 \in Session /\ r1.pc = "list" /\ Unanswered(r1)
      /\ r1.ent.local = r.ent.local \ add /\ r1.ent.files = r.ent.files
      /\ r1.scope = r.scope
  BY <1>4
<1> HIDE DEF add, r1, up
<1>6. ASSUME NEW K
      PROVE  /\ Refresh(r1, K, d) \in Session /\ Refresh(r1, K, d).pc = "list"
             /\ Unanswered(Refresh(r1, K, d))
  BY <1>5, RefreshType, RefreshSame DEF Unanswered
<1>7. ASSUME NEW x \in Session, x.pc = "list", Unanswered(x), NEW n \in Names,
             Become(s, [x EXCEPT !.cur = n])
      PROVE  AllEnds(sess', A)
  <2> DEFINE q == [x EXCEPT !.cur = n]
  <2>1. /\ q \in Session /\ q.pc = "list" /\ q.cur \in Names /\ q.held = x.held
        /\ q.reply = x.reply /\ Become(s, q)
    BY <1>7 DEF Session
  <2> HIDE DEF q
  <2>2. SessionEnds(q, A)
    BY <2>1, <1>7 DEF SessionEnds, Unanswered
  <2> QED
    BY <2>1, <2>2, BecomeEnds
<1>8. ASSUME NEW K, NEW n \in add, Become(s, [DropLocal(r, K) EXCEPT !.cur = n])
      PROVE  AllEnds(sess', A)
  BY <1>2, <1>4, <1>7, <1>8
<1>9. ASSUME NEW K, NEW n \in up, Become(s, [Refresh(r1, K, d) EXCEPT !.cur = n])
      PROVE  AllEnds(sess', A)
  BY <1>2, <1>6, <1>7, <1>9
<1>10. /\ r2 \in Session /\ r2.pc = "list" /\ Unanswered(r2) /\ DelLeft(r2, del)
  <2>1. /\ r2.ent.local = r.ent.local \ add /\ r2.scope = r.scope
        /\ \A n \in Names : Tracked(r2.ent, n) <=> Tracked(r.ent, n)
    BY <1>5, RefreshSame DEF Tracked
  <2>2. r2 \in Session /\ r2.pc = "list" /\ Unanswered(r2)
    BY <1>6
  <2> HIDE DEF r2, del
  <2> QED
    BY <2>1, <2>2, <1>1, <1>2 DEF DelLeft
<1> HIDE DEF r2, del
<1>11. ASSUME del = {}, Become(s, Answered(r2, "ok", d))
       PROVE  AllEnds(sess', A)
  BY <1>10, <1>11, DoneEnds, AnsweredType, BecomeEnds
<1>12. ASSUME Become(s, [r2 EXCEPT !.todo = del])
       PROVE  AllEnds(sess', A)
  <2> DEFINE q == [r2 EXCEPT !.todo = del]
  <2>1. /\ q \in Session /\ q.pc = "list" /\ q.ent = r2.ent /\ q.scope = r2.scope
        /\ q.todo = del /\ q.held = r2.held /\ q.reply = r2.reply /\ Become(s, q)
    BY <1>2, <1>10, <1>12 DEF Session
  <2> HIDE DEF q
  <2>2. DelLeft(q, q.todo) /\ Unanswered(q)
    BY <2>1, <1>10 DEF DelLeft, Unanswered
  <2>3. SessionEnds(q, A)
    BY <2>1, <2>2 DEF SessionEnds
  <2> QED
    BY <2>1, <2>3, BecomeEnds
<1> QED
  BY <1>3, <1>8, <1>9, <1>11, <1>12

(***************************************************************************)
(* Every step leads to an end                                              *)
(***************************************************************************)

\* Slot s brings no file back that its entity marks as removed.
StaysGone(s) ==
    \A n \in Names : Marked(sess[s].ent, n) => n \notin sess'[s].ent.local

\* What is asked for is asked for ever.
LEMMA EndsGrow ==
    ASSUME NEW A, NEW B, A \subseteq B, AllEnds(sess, A)
    PROVE  AllEnds(sess, B)
BY DEF AllEnds, SessionEnds

LEMMA InitEnds == Init => EndsInv
<1> SUFFICES ASSUME Init PROVE AllEnds(sess, asked)
  BY InitMarks DEF EndsInv
<1>1. \A s \in Slots : sess[s].pc = "idle"
  BY DEF Init, IdleSession, NewSession
<1> QED
  BY <1>1 DEF AllEnds, SessionEnds

LEMMA RequestEnds ==
    ASSUME EndsInv, NEW s \in Slots, Request(s)
    PROVE  AllEnds(sess', asked')
<1>1. /\ disk \in [Names -> File] /\ stored \in Entity
      /\ sess \in [Slots -> Session] /\ AllEnds(sess, asked) /\ NoName \notin Names
  BY NamesAssumption DEF EndsInv, MarksInv, TypeOK
<1>2. ASSUME NEW op \in Ops, NEW S \in SUBSET Names
      PROVE  LET x == NewSession(op, stored, S)
             IN  /\ x \in Session /\ x.pc = "list" /\ x.op = op /\ x.ent = stored
                 /\ x.reply = "waiting"
  BY <1>1, NewSessionType DEF NewSession
<1>3. ASSUME NEW op \in SyncOps, op \notin CommitOps, NEW S \in SUBSET Names,
             Become(s, NewSession(op, stored, S)), asked' = asked
      PROVE  AllEnds(sess', asked')
  <2> DEFINE x == NewSession(op, stored, S)
  <2>1. x \in Session /\ x.pc = "list" /\ x.op = op /\ x.reply = "waiting"
    BY <1>2 DEF Ops
  <2>2. Become(s, x)
    BY <1>3
  <2> HIDE DEF x
  <2>3. SessionEnds(x, asked)
    BY <2>1, <1>3 DEF SessionEnds, Unanswered
  <2> QED
    BY <2>1, <2>2, <2>3, <1>1, <1>3, BecomeEnds
<1>4. ASSUME NEW op \in CommitOps, NEW S \in SUBSET Names,
             CommitTurn(s, NewSession(op, stored, S), disk), asked' = asked
      PROVE  AllEnds(sess', asked')
  <2> DEFINE x == NewSession(op, stored, S)
  <2>1. x \in Session /\ x.pc = "list" /\ x.reply = "waiting" /\ CommitTurn(s, x, disk)
    BY <1>2, <1>4 DEF Ops, SyncOps
  <2> HIDE DEF x
  <2> QED
    BY <2>1, <1>1, <1>4, CommitTurnEnds DEF Unanswered
\* A remove or a rename waits for a call on the name that was asked for.
<1>5. ASSUME NEW op \in {"remove", "rename"}, NEW n \in Names,
             NEW m \in Names \cup {NoName}, NEW loc \in SUBSET Names,
             asked' = asked \cup {n},
             Become(s, [WithLocal(NewSession(op, stored, {n}), loc)
                          EXCEPT !.cur = n, !.to = m])
      PROVE  AllEnds(sess', asked')
  <2> DEFINE x == NewSession(op, stored, {n})
             w == WithLocal(x, loc)
             q == [w EXCEPT !.cur = n, !.to = m]
  <2>1. /\ x \in Session /\ x.ent = stored /\ x.op = op /\ x.reply = "waiting"
        /\ Become(s, q)
    BY <1>2, <1>5 DEF Ops
  <2> HIDE DEF x
  <2>2. [x.ent EXCEPT !.local = loc] \in Entity
    BY <2>1, <1>1 DEF Entity
  <2>3. w \in Session /\ w.pc = "fs" /\ w.op = op /\ w.reply = "waiting"
    BY <2>1, <2>2 DEF WithLocal, Session, Steps
  <2> HIDE DEF w
  <2>4. /\ q \in Session /\ q.pc = "fs" /\ q.op = op /\ q.reply = "waiting"
        /\ q.cur = n
    BY <2>3 DEF Session
  <2> HIDE DEF q
  <2>5. SessionEnds(q, asked')
    BY <2>4, <1>5 DEF SessionEnds, Unanswered, CommitOps
  <2>6. AllEnds(sess, asked')
    BY <1>1, <1>5, EndsGrow
  <2> QED
    BY <2>1, <2>4, <2>5, <2>6, <1>1, BecomeEnds
<1>6. CASE StartUpdate(s)
  BY <1>6, <1>3 DEF StartUpdate, SyncOps, CommitOps
<1>7. CASE \E n \in Names : StartUpdateFile(s, n)
  BY <1>7, <1>3 DEF StartUpdateFile, SyncOps, CommitOps
<1>8. CASE \/ StartCommit(s, "commit", Names)
           \/ \E n \in Names : StartCommit(s, "commit_file", {n})
  BY <1>8, <1>4 DEF StartCommit, CommitOps
<1>9. ASSUME NEW n \in Names, StartRemove(s, n)
      PROVE  AllEnds(sess', asked')
  <2> DEFINE w == WithLocal(NewSession("remove", stored, {n}), Forget(stored, n))
  <2>1. Become(s, [w EXCEPT !.cur = n]) /\ asked' = asked \cup {n}
    BY <1>9 DEF StartRemove
  <2>2. w.to = NoName
    BY DEF WithLocal, NewSession
  <2>3. [w EXCEPT !.cur = n] = [w EXCEPT !.cur = n, !.to = NoName]
    BY <2>2 DEF WithLocal, NewSession
  <2>4. Forget(stored, n) \in SUBSET Names
    BY <1>1 DEF Forget, Entity
  <2>5. Become(s, [w EXCEPT !.cur = n, !.to = NoName])
    BY <2>1, <2>3
  <2> QED
    BY <2>1, <2>4, <2>5, <1>5
<1>10. ASSUME NEW n \in Names, NEW m \in Names, StartRename(s, n, m)
       PROVE  AllEnds(sess', asked')
  <2>1. Moved(stored, n, m) \in SUBSET Names
    BY <1>1 DEF Moved, Entity
  <2> QED
    BY <2>1, <1>5, <1>10 DEF StartRename
<1> QED
  BY <1>6, <1>7, <1>8, <1>9, <1>10 DEF Request

LEMMA ProgressEnds ==
    ASSUME EndsInv, NEW s \in Slots, Progress(s)
    PROVE  AllEnds(sess', asked') /\ StaysGone(s)
<1> DEFINE r == sess[s]
<1>1. /\ r \in Session /\ HasFile(r) /\ sess \in [Slots -> Session]
      /\ AllEnds(sess, asked) /\ SessionEnds(r, asked) /\ TypeOK
  BY DEF EndsInv, MarksInv, TypeOK, AllEnds
<1>2. asked' = asked
  BY DEF Progress, FsDone, FsFails, UpdateListed, FileStated, UpdateListFails,
         ReadOpens, ReadFails, ReadEnds, CommitListed, Sent, SendFails, RmDone,
         RmFails
<1>3. sess'[s].ent.local \subseteq r.ent.local => StaysGone(s)
  BY DEF StaysGone, Marked
<1> HIDE DEF r
<1>4. ASSUME NEW q \in Session, q.ent = r.ent, SessionEnds(q, asked), Become(s, q)
      PROVE  AllEnds(sess', asked') /\ StaysGone(s)
  BY <1>1, <1>2, <1>3, <1>4, BecomeEnds
<1>5. ASSUME NEW q \in Session, NEW a \in {"ok", "error"}, q.ent = r.ent, Unanswered(q),
             a = "ok" => q.op \notin CommitOps,
             Become(s, Done(q, a)) \/ Become(s, Answered(q, a, disk))
      PROVE  AllEnds(sess', asked') /\ StaysGone(s)
  BY <1>4, <1>5, DoneType, AnsweredType, DoneEnds
<1>6. ASSUME NEW ok \in BOOLEAN
      PROVE  LET l == Listing(r, ok)
             IN  /\ l \in Session /\ l.op = r.op /\ l.pc = r.pc /\ l.ent = r.ent
                 /\ l.cur = r.cur /\ l.todo = r.todo /\ l.scope = r.scope
                 /\ l.held = r.held /\ l.reply = r.reply
  <2>1. Listing(r, ok) \in Session
    BY <1>1, ListingType
  <2> QED
    BY <2>1, <1>1 DEF Listing, Session
<1>7. CASE FsDone(s)
  <2>1. r.pc = "fs" /\ Become(s, Done(r, "ok"))
    BY <1>7 DEF FsDone, r
  <2>2. Unanswered(r) /\ r.op \notin CommitOps
    BY <2>1, <1>1 DEF SessionEnds
  <2> QED
    BY <2>1, <2>2, <1>1, <1>5
<1>8. CASE FsFails(s) \/ UpdateListFails(s) \/ ReadFails(s) \/ SendFails(s) \/ RmFails(s)
  <2>1. /\ r.pc \in {"fs", "list", "read", "recv", "put", "rm"}
        /\ Become(s, Done(r, "error")) \/ Become(s, Answered(r, "error", disk))
    BY <1>8 DEF FsFails, UpdateListFails, ReadFails, SendFails, RmFails, r
  <2>2. Unanswered(r)
    BY <2>1, <1>1 DEF SessionEnds
  <2> QED
    BY <2>1, <2>2, <1>1, <1>5
<1>9. CASE UpdateListed(s)
  <2> DEFINE l == Listing(r, TRUE)
             p == Prune(l)
  <2>1. /\ l \in Session /\ l.op = "update" /\ l.ent = r.ent /\ l.held = r.held
        /\ l.reply = r.reply /\ r.pc = "list" /\ UpdateTurn(s, p, SafeRm(l, disk))
    BY <1>6, <1>9 DEF UpdateListed, r
  <2> HIDE DEF l
  <2>2. /\ p \in Session /\ p.op = "update" /\ p.held = l.held /\ p.reply = l.reply
        /\ p.ent.local = l.ent.local \ Pruned(l)
    <3>1. p \in Session
      BY <2>1, PruneType
    <3> QED
      BY <3>1, <2>1 DEF Prune, Session
  <2> HIDE DEF p
  <2>3. Unanswered(p) /\ p.op \notin CommitOps
    BY <2>1, <2>2, <1>1 DEF SessionEnds, Unanswered, CommitOps
  <2>4. AllEnds(sess', asked) /\ sess'[s].ent.local = p.ent.local
    BY <2>1, <2>2, <2>3, <1>1, UpdateTurnEnds
  <2> QED
    BY <2>1, <2>2, <2>4, <1>2, <1>3
<1>10. CASE FileStated(s)
  <2> DEFINE l == Listing(r, TRUE)
             q == [l EXCEPT !.todo = l.scope]
  <2>1. /\ l \in Session /\ l.op = "update_file" /\ l.ent = r.ent /\ l.held = r.held
        /\ l.reply = r.reply /\ r.pc = "list" /\ UpdateTurn(s, q, disk)
    BY <1>6, <1>10 DEF FileStated, r
  <2> HIDE DEF l
  <2>2. /\ q \in Session /\ q.op = "update_file" /\ q.held = l.held
        /\ q.reply = l.reply /\ q.ent = l.ent
    BY <2>1 DEF Session
  <2> HIDE DEF q
  <2>3. Unanswered(q) /\ q.op \notin CommitOps
    BY <2>1, <2>2, <1>1 DEF SessionEnds, Unanswered, CommitOps
  <2>4. AllEnds(sess', asked) /\ sess'[s].ent.local = q.ent.local
    BY <2>1, <2>2, <2>3, <1>1, UpdateTurnEnds
  <2> QED
    BY <2>1, <2>2, <2>4, <1>2, <1>3
<1>11. CASE ReadOpens(s)
  <2> DEFINE q == [r EXCEPT !.pc = "recv", !.buf = server[r.cur].c]
  <2>1. r.pc = "read" /\ Become(s, q) /\ server[r.cur].c \in Nat
    BY <1>1, <1>11 DEF ReadOpens, HasFile, TypeOK, File, r
  <2>2. /\ q \in Session /\ q.ent = r.ent /\ q.op = r.op /\ q.cur = r.cur
        /\ q.pc = "recv" /\ q.held = r.held /\ q.reply = r.reply
    BY <2>1, <1>1 DEF Session, Steps
  <2> HIDE DEF q
  <2>3. SessionEnds(q, asked)
    BY <2>1, <2>2, <1>1 DEF SessionEnds, Unanswered
  <2> QED
    BY <2>1, <2>2, <2>3, <1>4
\* The file that was downloaded is local now, and was not marked as removed.
<1>12. CASE ReadEnds(s)
  <2> DEFINE Ends(c, hash, time) ==
          UpdateTurn(s, Recorded(r, NewInfo(r, now + 1, hash)),
                     [disk EXCEPT ![r.cur] = [c |-> c, t |-> time]])
  <2>1. r.pc = "recv" /\ r.cur \in Names
    BY <1>1, <1>12 DEF ReadEnds, HasFile, r
  <2>2. \E c \in Transferred(r, server[r.cur]) :
          \E hash \in {c, now + 2}, time \in {now + 1, now + 2} : Ends(c, hash, time)
    BY <1>12 DEF ReadEnds, r
  <2>3. Transferred(r, server[r.cur]) \subseteq Nat
    BY <2>1, <1>1 DEF Transferred, TypeOK, File, Session
  <2> HIDE DEF Ends
  <2>4. PICK c \in Transferred(r, server[r.cur]) :
          \E hash \in {c, now + 2}, time \in {now + 1, now + 2} : Ends(c, hash, time)
    BY <2>2
  <2>5. PICK hash \in {c, now + 2}, time \in {now + 1, now + 2} : Ends(c, hash, time)
    BY <2>4
  <2>6. hash \in Nat /\ now + 1 \in Nat
    BY <2>3, <2>5, <1>1 DEF TypeOK
  <2> DEFINE info == NewInfo(r, now + 1, hash)
             q == Recorded(r, info)
  <2>7. info \in Info
    BY <2>1, <2>6, <1>1 DEF NewInfo, Info, Session
  <2>8. \E d : UpdateTurn(s, q, d)
    BY <2>5 DEF Ends
  <2> HIDE DEF info
  <2>9. q \in Session
    BY <2>1, <2>7, <1>1, RecordedType
  <2>10. /\ q.op = r.op /\ q.held = r.held /\ q.reply = r.reply
         /\ q.ent.local = r.ent.local \cup {r.cur}
    BY <2>9, <1>1 DEF Recorded, Session
  <2> HIDE DEF q
  <2>11. Unanswered(q) /\ q.op \notin CommitOps /\ r.cur \notin MarkedIn(r.ent)
    BY <2>1, <2>10, <1>1 DEF SessionEnds, Unanswered
  <2>12. AllEnds(sess', asked) /\ sess'[s].ent.local = r.ent.local \cup {r.cur}
    BY <2>8, <2>9, <2>10, <2>11, <1>1, UpdateTurnEnds
  <2>13. StaysGone(s)
    BY <2>11, <2>12 DEF StaysGone, Marked, MarkedIn, r
  <2> QED
    BY <2>12, <2>13, <1>2
<1>13. CASE CommitListed(s)
  <2>1. PICK ok \in BOOLEAN :
          LET l == Listing(r, ok)
          IN  \/ l.cur = NoName /\ DelTurn(s, l, disk)
              \/ /\ l.cur # NoName
                 /\ Become(s, [l EXCEPT !.pc = "put", !.buf = disk[l.cur].c])
              \/ Become(s, Done(l, "error"))
    BY <1>13 DEF CommitListed, r
  <2> DEFINE l == Listing(r, ok)
  <2>2. /\ l \in Session /\ l.op \in CommitOps /\ l.pc = "list" /\ r.pc = "list"
        /\ l.ent = r.ent /\ l.cur = r.cur /\ l.todo = r.todo /\ l.scope = r.scope
        /\ l.held = r.held /\ l.reply = r.reply /\ r.op = l.op
    BY <1>6, <1>13 DEF CommitListed, r
  <2> HIDE DEF l
  <2>3. Unanswered(l)
    BY <2>2, <1>1 DEF SessionEnds, Unanswered
  <2>4. ASSUME l.cur = NoName, DelTurn(s, l, disk)
        PROVE  AllEnds(sess', asked') /\ StaysGone(s)
    <3>1. DelLeft(l, l.todo)
      BY <2>2, <2>4, <1>1 DEF SessionEnds, DelLeft
    <3>2. AllEnds(sess', asked) /\ sess'[s].ent.local = l.ent.local
      BY <3>1, <2>2, <2>3, <2>4, <1>1, DelTurnEnds
    <3> QED
      BY <3>2, <2>2, <1>2, <1>3
  <2>5. ASSUME l.cur # NoName,
               Become(s, [l EXCEPT !.pc = "put", !.buf = disk[l.cur].c])
        PROVE  AllEnds(sess', asked') /\ StaysGone(s)
    <3> DEFINE q == [l EXCEPT !.pc = "put", !.buf = disk[l.cur].c]
    <3>1. l.cur \in Names /\ disk[l.cur].c \in Nat
      BY <2>2, <2>5, <1>1 DEF Session, TypeOK, File
    <3>2. /\ q \in Session /\ q.ent = l.ent /\ q.pc = "put" /\ q.held = l.held
          /\ q.reply = l.reply /\ Become(s, q)
      BY <3>1, <2>2, <2>5 DEF Session, Steps
    <3> HIDE DEF q
    <3>3. SessionEnds(q, asked)
      BY <3>2, <2>3 DEF SessionEnds, Unanswered
    <3> QED
      BY <3>2, <3>3, <2>2, <1>4
  <2>6. ASSUME Become(s, Done(l, "error")) PROVE AllEnds(sess', asked') /\ StaysGone(s)
    BY <2>2, <2>3, <2>6, <1>5
  <2> QED
    BY <2>1, <2>4, <2>5, <2>6 DEF l
<1>14. CASE Sent(s)
  <2> DEFINE q == [r EXCEPT !.pc = "dead"]
  <2>1. /\ q \in Session /\ q.ent = r.ent /\ q.pc = "dead" /\ q.held = r.held
        /\ q.reply = r.reply /\ r.pc = "put" /\ Become(s, q)
    BY <1>1, <1>14 DEF Sent, Session, Steps, r
  <2> HIDE DEF q
  <2>2. SessionEnds(q, asked)
    BY <2>1, <1>1 DEF SessionEnds, Unanswered
  <2> QED
    BY <2>1, <2>2, <1>4
<1>15. CASE RmDone(s)
  <2> DEFINE w == Unrecorded(r, {r.cur})
             q == [w EXCEPT !.cur = NoName]
  <2>1. DelTurn(s, q, disk) /\ r.pc = "rm"
    BY <1>15 DEF RmDone, r
  <2>2. DelLeft(r, r.todo \cup {r.cur}) /\ Unanswered(r)
    BY <2>1, <1>1 DEF SessionEnds
  <2>3. /\ w \in Session /\ DelLeft(w, r.todo) /\ w.ent.local = r.ent.local
        /\ w.todo = r.todo /\ w.held = r.held /\ w.reply = r.reply
    BY <2>2, <1>1, UnrecordedType, UnrecordedLeft
  <2> HIDE DEF w
  <2>4. /\ q \in Session /\ q.ent = w.ent /\ q.todo = w.todo /\ q.scope = w.scope
        /\ q.held = w.held /\ q.reply = w.reply
    BY <2>3 DEF Session
  <2> HIDE DEF q
  <2>5. DelLeft(q, q.todo) /\ Unanswered(q)
    BY <2>2, <2>3, <2>4 DEF DelLeft, Unanswered
  <2>6. AllEnds(sess', asked) /\ sess'[s].ent.local = q.ent.local
    BY <2>1, <2>4, <2>5, <1>1, DelTurnEnds
  <2> QED
    BY <2>3, <2>4, <2>6, <1>2, <1>3
<1> QED
  BY <1>7, <1>8, <1>9, <1>10, <1>11, <1>12, <1>13, <1>14, <1>15 DEF Progress

\* A cancelled operation is nobody's: its answer was given, or stat_code threw.
LEMMA CancelEnds ==
    ASSUME EndsInv, NEW s \in Slots, Cancel(s)
    PROVE  AllEnds(sess', asked') /\ StaysGone(s)
<1> DEFINE r == sess[s]
<1>1. /\ r \in Session /\ sess \in [Slots -> Session]
      /\ AllEnds(sess, asked) /\ SessionEnds(r, asked)
  BY DEF EndsInv, MarksInv, TypeOK, AllEnds
<1>2. asked' = asked
  BY DEF Cancel, CancelSync, CancelRemove
<1>3. ASSUME NEW q, sess' = [sess EXCEPT ![s] = q], q.ent = r.ent, SessionEnds(q, asked)
      PROVE  AllEnds(sess', asked') /\ StaysGone(s)
  BY <1>1, <1>2, <1>3 DEF AllEnds, StaysGone, Marked
<1>4. CASE CancelSync(s)
  <2> DEFINE reply == IF StatThrows(r, disk) THEN r.reply ELSE "ok"
             pc == IF r.pc = "dead" THEN "done" ELSE r.pc
             q == [r EXCEPT !.held = FALSE, !.reply = reply, !.pc = pc]
  <2>1. sess' = [sess EXCEPT ![s] = q] /\ r.pc # "done"
    BY <1>4 DEF CancelSync
  <2>2. /\ pc # "done" => pc = r.pc
        /\ reply = "waiting" => StatThrows(r, disk)
    BY <2>1
  <2> HIDE DEF reply, pc, r
  <2>3. /\ q.ent = r.ent /\ q.op = r.op /\ q.todo = r.todo /\ q.cur = r.cur
        /\ q.scope = r.scope /\ q.pc = pc /\ q.reply = reply /\ ~q.held
    BY <1>1 DEF Session
  <2> HIDE DEF q
  <2>4. Over(q)
    BY <2>2, <2>3 DEF Over, StatThrows
  <2>5. \A D : DelLeft(q, D) <=> DelLeft(r, D)
    BY <2>3 DEF DelLeft
  <2>6. SessionEnds(q, asked)
    BY <2>2, <2>3, <2>4, <2>5, <1>1 DEF SessionEnds, Unanswered
  <2> QED
    BY <2>1, <2>3, <2>6, <1>3
<1>5. CASE CancelRemove(s)
  <2> DEFINE q == [r EXCEPT !.held = FALSE]
  <2>1. sess' = [sess EXCEPT ![s] = q] /\ r.pc = "fs"
    BY <1>5 DEF CancelRemove
  <2> HIDE DEF r
  <2>2. q.ent = r.ent /\ q.op = r.op /\ q.cur = r.cur /\ q.pc = r.pc /\ ~q.held
    BY <1>1 DEF Session
  <2> HIDE DEF q
  <2>3. SessionEnds(q, asked)
    BY <2>1, <2>2, <1>1 DEF SessionEnds, Unanswered
  <2> QED
    BY <2>1, <2>2, <2>3, <1>3
<1> QED
  BY <1>4, <1>5 DEF Cancel

LEMMA CrashEnds ==
    ASSUME EndsInv, Crash
    PROVE  AllEnds(sess', asked') /\ \A s \in Slots : sess'[s].ent.local = {}
<1>1. sess' = [t \in Slots |-> IdleSession] /\ asked' = asked
  BY DEF Crash
<1>2. IdleSession.pc = "idle" /\ IdleSession.ent.local = {}
  BY DEF IdleSession, NewSession, EmptyEntity
<1> QED
  BY <1>1, <1>2 DEF AllEnds, SessionEnds

LEMMA EndsStep == EndsInv /\ [Next]_vars => EndsInv'
<1> SUFFICES ASSUME EndsInv, [Next]_vars PROVE EndsInv'
  OBVIOUS
<1>1. MarksInv'
  BY MarksStep DEF EndsInv
<1>2. SUFFICES AllEnds(sess', asked')
  BY <1>1 DEF EndsInv, AllEnds, SessionEnds, MarkedIn, Tracked, DelLeft, Over, Unanswered
<1>3. CASE UNCHANGED vars \/ User \/ Remote
  <2>1. sess' = sess /\ asked' = asked
    BY <1>3 DEF vars, User, Remote, UserWrite, UserErase, Join, RemoteWrite, RemoteDelete
  <2> QED
    BY <2>1 DEF EndsInv
<1>4. CASE Next
  BY <1>3, <1>4, RequestEnds, ProgressEnds, CancelEnds, CrashEnds DEF Next
<1> QED
  BY <1>3, <1>4

\* A commit that is answered as done leaves nothing of its path out of step.
THEOREM CommitsComplete == Spec => []CommitComplete
<1>1. EndsInv => CommitComplete
  BY DEF EndsInv, AllEnds, SessionEnds, Over, DelLeft, CommitComplete
<1> QED
  BY <1>1, InitEnds, EndsStep, PTL DEF Spec

\* An operation ends with an answer, but for the one of a file that is recorded as
\* here when stat_code may throw.
THEOREM EndsAreAnswered == Spec => []EndsAnswered
<1>1. EndsInv => EndsAnswered
  BY DEF EndsInv, AllEnds, SessionEnds, Over, EndsAnswered
<1> QED
  BY <1>1, InitEnds, EndsStep, PTL DEF Spec

\* One slot moves at a time.
LEMMA OthersStay ==
    ASSUME sess \in [Slots -> Session], NEW s \in Slots,
           Request(s) \/ Progress(s) \/ Cancel(s)
    PROVE  \A t \in Slots \ {s} : sess'[t] = sess[t]
<1>1. ASSUME NEW r, NEW d, UpdateTurn(s, r, d) \/ DelTurn(s, r, d) \/ CommitTurn(s, r, d)
      PROVE  \E q : Become(s, q)
  BY <1>1 DEF UpdateTurn, DelTurn, CommitTurn
<1>2. \/ \E q : Become(s, q)
      \/ \E q : sess' = [sess EXCEPT ![s] = q]
  <2>1. CASE Request(s)
    BY <2>1, <1>1 DEF Request, StartUpdate, StartUpdateFile, StartCommit, StartRemove,
                      StartRename
  <2>2. CASE Progress(s)
    BY <2>2, <1>1 DEF Progress, FsDone, FsFails, UpdateListed, FileStated,
                      UpdateListFails, ReadOpens, ReadFails, ReadEnds, CommitListed,
                      Sent, SendFails, RmDone, RmFails
  <2>3. CASE Cancel(s)
    BY <2>3 DEF Cancel, CancelSync, CancelRemove
  <2> QED
    BY <2>1, <2>2, <2>3
<1> QED
  BY <1>2 DEF Become

\* No turn of an operation makes a name local again that its entity marks as removed.
THEOREM RemovedStaysRemoved == Spec => NotBroughtBack
<1> DEFINE Stays == \A s \in Slots, n \in Names :
               ~Free(s) /\ Marked(sess[s].ent, n) => n \notin sess'[s].ent.local
<1>1. ASSUME EndsInv, [Next]_vars PROVE [Stays]_vars
  <2>1. CASE UNCHANGED vars
    BY <2>1
  <2>2. CASE User \/ Remote
    <3>1. sess' = sess
      BY <2>2 DEF User, Remote, UserWrite, UserErase, Join, RemoteWrite, RemoteDelete
    <3> QED
      BY <3>1 DEF Marked
  <2>3. CASE Crash
    BY <2>3, <1>1, CrashEnds
  <2>4. ASSUME NEW s \in Slots, Request(s) \/ Progress(s) \/ Cancel(s)
        PROVE  Stays
    <3>1. \A t \in Slots \ {s} : sess'[t] = sess[t]
      BY <2>4, <1>1, OthersStay DEF EndsInv, MarksInv, TypeOK
    <3>2. Free(s) \/ StaysGone(s)
      <4>1. Request(s) => Free(s)
        BY DEF Request, StartUpdate, StartUpdateFile, StartCommit, StartRemove,
               StartRename, Starts
      <4> QED
        BY <4>1, <2>4, <1>1, ProgressEnds, CancelEnds
    <3> QED
      BY <3>1, <3>2 DEF StaysGone, Marked
  <2> QED
    BY <2>1, <2>2, <2>3, <2>4, <1>1 DEF Next
<1> QED
  BY <1>1, InitEnds, EndsStep, PTL DEF Spec, NotBroughtBack
=============================================================================
