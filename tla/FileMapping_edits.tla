------------------------- MODULE FileMapping_edits -------------------------
(***************************************************************************)
(* Proof that FileMapping never loses an edit.  NoLostEdit is not          *)
(* inductive: safeRm and download_ok destroy a file because its recorded   *)
(* time is the file's time, so the invariant has to say that such a file   *)
(* holds nothing unsent, in every entity, saved or loaded, and for the     *)
(* record of every name, since rename moves a time to another name.  With  *)
(* what FileMapping_deletes says of removals, it follows that FileMapping  *)
(* implements Mirror.                                                      *)
(***************************************************************************)
EXTENDS FileMapping_deletes

(***************************************************************************)
(* The inductive invariant                                                 *)
(***************************************************************************)

\* The parameters are a local directory d, the unsent contents u, the clock k.

\* A record names a hash and a time that belong to nothing unsent.
KnownInfo(i, d, u, k) ==
    /\ i.local_st <= k
    /\ i.hash <= k /\ i.hash \notin u
    /\ \A n \in Names : Exists(d[n]) /\ d[n].t = i.local_st => d[n].c \notin u

KnownEntity(e, d, u, k) == \A m \in Names : KnownInfo(e.files[m], d, u, k)

\* Nothing unsent is downloaded.
KnownSession(r, d, u, k) ==
    /\ KnownEntity(r.ent, d, u, k)
    /\ r.buf <= k
    /\ r.pc = "recv" => r.buf \notin u

AllKnown(st, ss, d, u, k) ==
    /\ KnownEntity(st, d, u, k)
    /\ \A s \in Slots : KnownSession(ss[s], d, u, k)

\* No content and no time is newer than the clock.
Bounded(sv, d, u, k) ==
    /\ \A c \in u : c <= k
    /\ \A n \in Names : sv[n].c <= k
    /\ \A n \in Names : d[n].c <= k /\ d[n].t <= k

\* Nothing unsent is on the server, nor in a file that shares its time.
Apart(sv, d, u) ==
    /\ 0 \notin u
    /\ \A n \in Names : sv[n].c \notin u
    /\ \A m, n \in Names :
          m # n /\ Exists(d[m]) /\ d[m].t = d[n].t => d[n].c \notin u

\* Everything unsent is in a file.
Found(d, kp, u) ==
    \A c \in u : c \in kp \/ \E n \in Names : Exists(d[n]) /\ d[n].c = c

World(sv, d, kp, u, k) == Bounded(sv, d, u, k) /\ Apart(sv, d, u) /\ Found(d, kp, u)

EditsInv ==
    /\ TypeOK
    /\ World(server, disk, kept, unsent, now)
    /\ AllKnown(stored, sess, disk, unsent, now)

(***************************************************************************)
(* What is known stays known while files and contents move on              *)
(***************************************************************************)

\* From d, u, k to d2, u2, k2: new contents and times are newer than k, and
\* an old file with unsent content was there before, perhaps elsewhere.
Drift(d, u, k, d2, u2, k2) ==
    /\ k <= k2
    /\ \A c \in u2 : c \in u \/ c > k
    /\ \A n \in Names : Exists(d2[n]) /\ d2[n].c \in u2
          => d2[n].t > k \/ \E m \in Names : d[m] = d2[n]

LEMMA DriftInfo ==
    ASSUME NEW d \in [Names -> File], NEW u \in SUBSET Nat, NEW k \in Nat,
           NEW d2 \in [Names -> File], NEW u2 \in SUBSET Nat, NEW k2 \in Nat,
           Drift(d, u, k, d2, u2, k2), \A n \in Names : d[n].c <= k,
           NEW i \in Info, KnownInfo(i, d, u, k)
    PROVE  KnownInfo(i, d2, u2, k2)
<1>1. i.local_st \in Nat /\ i.hash \in Nat
  BY DEF Info
<1>2. i.local_st <= k2 /\ i.hash <= k2 /\ i.hash \notin u2
  BY <1>1 DEF KnownInfo, Drift
<1>3. ASSUME NEW n \in Names, Exists(d2[n]), d2[n].t = i.local_st, d2[n].c \in u2
      PROVE  FALSE
  <2>1. d2[n].t <= k
    BY <1>3 DEF KnownInfo
  <2>2. PICK m \in Names : d[m] = d2[n]
    BY <2>1, <1>1, <1>3 DEF Drift
  <2>3. d[m].c \in u
    BY <2>2, <1>3 DEF Drift, File
  <2>4. Exists(d[m]) /\ d[m].t = i.local_st
    BY <2>2, <1>3
  <2> QED
    BY <2>3, <2>4 DEF KnownInfo
<1> QED
  BY <1>2, <1>3 DEF KnownInfo

LEMMA DriftAll ==
    ASSUME NEW d \in [Names -> File], NEW u \in SUBSET Nat, NEW k \in Nat,
           NEW d2 \in [Names -> File], NEW u2 \in SUBSET Nat, NEW k2 \in Nat,
           Drift(d, u, k, d2, u2, k2), \A n \in Names : d[n].c <= k,
           NEW st \in Entity, NEW ss \in [Slots -> Session],
           AllKnown(st, ss, d, u, k)
    PROVE  AllKnown(st, ss, d2, u2, k2)
<1>1. ASSUME NEW e \in Entity, KnownEntity(e, d, u, k)
      PROVE  KnownEntity(e, d2, u2, k2)
  <2> SUFFICES ASSUME NEW m \in Names PROVE KnownInfo(e.files[m], d2, u2, k2)
    BY DEF KnownEntity
  <2>1. e.files[m] \in Info /\ KnownInfo(e.files[m], d, u, k)
    BY <1>1 DEF Entity, KnownEntity
  <2> QED
    BY <2>1, DriftInfo
<1>2. ASSUME NEW s \in Slots
      PROVE  KnownSession(ss[s], d2, u2, k2)
  <2>1. ss[s] \in Session /\ KnownSession(ss[s], d, u, k)
    BY DEF AllKnown
  <2>2. ss[s].ent \in Entity /\ ss[s].buf \in Nat
    BY <2>1 DEF Session
  <2>3. KnownEntity(ss[s].ent, d2, u2, k2)
    BY <2>1, <2>2, <1>1 DEF KnownSession
  <2>4. ss[s].buf <= k2 /\ (ss[s].pc = "recv" => ss[s].buf \notin u2)
    BY <2>1, <2>2 DEF KnownSession, Drift
  <2> QED
    BY <2>3, <2>4 DEF KnownSession
<1> QED
  BY <1>1, <1>2 DEF AllKnown

(***************************************************************************)
(* The operators keep what is known                                        *)
(***************************************************************************)

LEMMA NoInfoKnown ==
    ASSUME NEW d, NEW u, NEW k \in Nat, 0 \notin u
    PROVE  KnownInfo(NoInfo, d, u, k)
BY DEF KnownInfo, NoInfo, Exists

LEMMA EmptyEntityKnown ==
    ASSUME NEW d, NEW u, NEW k \in Nat, 0 \notin u
    PROVE  KnownEntity(EmptyEntity, d, u, k)
BY NoInfoKnown DEF KnownEntity, EmptyEntity

\* The remote time does not matter.
LEMMA RemoteTimeKnown ==
    ASSUME NEW i \in Info, NEW t, NEW d, NEW u, NEW k, KnownInfo(i, d, u, k)
    PROVE  KnownInfo([i EXCEPT !.remote_st = t], d, u, k)
BY DEF KnownInfo, Info

LEMMA DoneKnown ==
    ASSUME NEW r \in Session, NEW a, NEW d, NEW u, NEW k \in Nat,
           KnownSession(r, d, u, k)
    PROVE  KnownSession(Done(r, a), d, u, k)
<1>1. Done(r, a).ent = r.ent /\ Done(r, a).buf = 0 /\ Done(r, a).pc = "done"
  BY DEF Done, Session
<1> QED
  BY <1>1 DEF KnownSession

LEMMA AnsweredKnown ==
    ASSUME NEW r \in Session, NEW a, NEW d0, NEW d, NEW u, NEW k \in Nat,
           KnownSession(r, d, u, k)
    PROVE  KnownSession(Answered(r, a, d0), d, u, k)
<1>1. /\ Answered(r, a, d0).ent = r.ent /\ Answered(r, a, d0).buf = 0
      /\ Answered(r, a, d0).pc = "done"
  BY DEF Answered, Done, Session
<1> QED
  BY <1>1 DEF KnownSession

LEMMA SkippedKnown ==
    ASSUME NEW r \in Session, NEW K, NEW d, NEW u, NEW k,
           KnownSession(r, d, u, k)
    PROVE  KnownSession(Skipped(r, K), d, u, k)
<1>1. /\ Skipped(r, K).buf = r.buf /\ Skipped(r, K).pc = r.pc
      /\ Skipped(r, K).ent.files = [n \in Names |->
            IF n \in K THEN [r.ent.files[n] EXCEPT !.remote_st = r.seen[n]]
                       ELSE r.ent.files[n]]
  BY DEF Skipped, Session, Entity
<1>2. ASSUME NEW m \in Names PROVE KnownInfo(Skipped(r, K).ent.files[m], d, u, k)
  <2>1. r.ent.files[m] \in Info /\ KnownInfo(r.ent.files[m], d, u, k)
    BY DEF Session, Entity, KnownSession, KnownEntity
  <2>2. CASE m \in K
    <3>1. Skipped(r, K).ent.files[m] = [r.ent.files[m] EXCEPT !.remote_st = r.seen[m]]
      BY <1>1, <2>2
    <3> QED
      BY <3>1, <2>1, RemoteTimeKnown
  <2>3. CASE m \notin K
    BY <1>1, <2>1, <2>3
  <2> QED
    BY <2>2, <2>3
<1> QED
  BY <1>1, <1>2 DEF KnownSession, KnownEntity

LEMMA ListingKnown ==
    ASSUME NEW r \in Session, NEW ok, NEW d, NEW u, NEW k, KnownSession(r, d, u, k)
    PROVE  KnownSession(Listing(r, ok), d, u, k)
<1>1. /\ Listing(r, ok).ent = r.ent /\ Listing(r, ok).buf = r.buf
      /\ Listing(r, ok).pc = r.pc
  BY DEF Listing, Session
<1> QED
  BY <1>1 DEF KnownSession

LEMMA PruneKnown ==
    ASSUME NEW r \in Session, NEW d, NEW u, NEW k \in Nat, 0 \notin u,
           KnownSession(r, d, u, k)
    PROVE  KnownSession(Prune(r), d, u, k)
<1>1. /\ Prune(r).buf = r.buf /\ Prune(r).pc = r.pc
      /\ Prune(r).ent.files = [n \in Names |-> IF n \in Pruned(r)
                                  THEN NoInfo ELSE r.ent.files[n]]
  BY DEF Prune, Session
<1> QED
  BY <1>1, NoInfoKnown DEF KnownSession, KnownEntity

LEMMA RecordedKnown ==
    ASSUME NEW r \in Session, NEW info, NEW d, NEW u, NEW k \in Nat,
           KnownInfo(info, d, u, k), KnownSession(r, d, u, k), r.cur \in Names
    PROVE  /\ KnownEntity(Recorded(r, info).ent, d, u, k)
           /\ Recorded(r, info).buf = 0
<1>1. /\ Recorded(r, info).ent.files = [r.ent.files EXCEPT ![r.cur] = info]
      /\ Recorded(r, info).buf = 0
  BY DEF Recorded, Session
<1>2. r.ent.files \in [Names -> Info]
  BY DEF Session, Entity
<1> QED
  BY <1>1, <1>2 DEF KnownSession, KnownEntity

LEMMA DropLocalKnown ==
    ASSUME NEW r \in Session, NEW K, NEW d, NEW u, NEW k, KnownSession(r, d, u, k)
    PROVE  KnownSession(DropLocal(r, K), d, u, k)
<1>1. /\ DropLocal(r, K).ent.files = r.ent.files
      /\ DropLocal(r, K).buf = r.buf /\ DropLocal(r, K).pc = r.pc
  BY DEF DropLocal, Session, Entity
<1> QED
  BY <1>1 DEF KnownSession, KnownEntity

\* submit_up takes over the time of a file whose hash is known.
LEMMA RefreshKnown ==
    ASSUME NEW r \in Session, NEW d \in [Names -> File], NEW u, NEW k \in Nat,
           NEW sv, Bounded(sv, d, u, k), Apart(sv, d, u), KnownSession(r, d, u, k),
           NEW K \in SUBSET Names,
           \A n \in K : Exists(d[n]) /\ SameHash(r.ent, n, d)
    PROVE  KnownSession(Refresh(r, K, d), d, u, k)
<1>1. /\ Refresh(r, K, d).buf = r.buf /\ Refresh(r, K, d).pc = r.pc
      /\ Refresh(r, K, d).ent.files = [n \in Names |->
            IF n \in K THEN [r.ent.files[n] EXCEPT !.local_st = d[n].t]
                       ELSE r.ent.files[n]]
  BY DEF Refresh, Session, Entity
<1>2. ASSUME NEW m \in K
      PROVE  KnownInfo([r.ent.files[m] EXCEPT !.local_st = d[m].t], d, u, k)
  <2> DEFINE i == [r.ent.files[m] EXCEPT !.local_st = d[m].t]
  <2>1. r.ent.files[m] \in Info /\ KnownInfo(r.ent.files[m], d, u, k)
    BY DEF Session, Entity, KnownSession, KnownEntity
  <2>2. i.hash = r.ent.files[m].hash /\ i.local_st = d[m].t
    BY <2>1 DEF Info
  <2>3. d[m].c \notin u /\ d[m].t <= k
    BY <2>1 DEF SameHash, KnownInfo, Bounded
  <2>4. \A n \in Names : Exists(d[n]) /\ d[n].t = d[m].t => d[n].c \notin u
    BY <2>3 DEF Apart
  <2> HIDE DEF i
  <2>5. KnownInfo(i, d, u, k)
    BY <2>1, <2>2, <2>3, <2>4 DEF KnownInfo
  <2> QED
    BY <2>5 DEF i
<1>3. ASSUME NEW m \in Names PROVE KnownInfo(Refresh(r, K, d).ent.files[m], d, u, k)
  BY <1>1, <1>2 DEF KnownSession, KnownEntity
<1> QED
  BY <1>1, <1>3 DEF KnownSession, KnownEntity

LEMMA UnrecordedKnown ==
    ASSUME NEW r \in Session, NEW K, NEW d, NEW u, NEW k \in Nat, 0 \notin u,
           KnownSession(r, d, u, k)
    PROVE  KnownSession(Unrecorded(r, K), d, u, k)
<1>1. /\ Unrecorded(r, K).buf = r.buf /\ Unrecorded(r, K).pc = r.pc
      /\ Unrecorded(r, K).ent.files = [n \in Names |-> IF n \in K THEN NoInfo
                                                       ELSE r.ent.files[n]]
  BY DEF Unrecorded, Session, Entity
<1> QED
  BY <1>1, NoInfoKnown DEF KnownSession, KnownEntity

(***************************************************************************)
(* The turns keep what is known                                            *)
(***************************************************************************)

LEMMA BecomeKnown ==
    ASSUME sess \in [Slots -> Session], NEW s \in Slots, NEW r \in Session,
           NEW d, NEW u, NEW k, AllKnown(stored, sess, d, u, k),
           KnownSession(r, d, u, k), Become(s, r)
    PROVE  AllKnown(stored', sess', d, u, k)
<1>1. KnownEntity(stored', d, u, k)
  BY DEF Become, SavedBy, AllKnown, KnownSession
<1>2. ASSUME NEW t \in Slots PROVE KnownSession(sess'[t], d, u, k)
  BY DEF Become, AllKnown
<1> QED
  BY <1>1, <1>2 DEF AllKnown

LEMMA UpdateTurnKnown ==
    ASSUME sess \in [Slots -> Session], NEW s \in Slots, NEW r \in Session, NEW d0,
           NEW d, NEW u, NEW k \in Nat, AllKnown(stored, sess, d, u, k),
           KnownEntity(r.ent, d, u, k), r.buf <= k, UpdateTurn(s, r, d0)
    PROVE  AllKnown(stored', sess', d, u, k)
<1> DEFINE r0 == [r EXCEPT !.pc = "read"]
<1>1. r.todo \in SUBSET Names
  BY DEF Session
<1>2. ASSUME NEW K \in SUBSET Names
      PROVE  KnownEntity(Skipped(r, K).ent, d, u, k) /\ Skipped(r, K).buf = r.buf
  <2>1. r0 \in Session /\ KnownSession(r0, d, u, k)
    BY DEF Session, Steps, KnownSession
  <2>2. KnownSession(Skipped(r0, K), d, u, k)
    BY <2>1, SkippedKnown
  <2>3. Skipped(r, K).ent = Skipped(r0, K).ent /\ Skipped(r, K).buf = r.buf
    BY DEF Skipped, Session
  <2> QED
    BY <2>2, <2>3 DEF KnownSession
<1>3. ASSUME NEW K \in SUBSET Names, NEW n \in Names,
             Become(s, [Skipped(r, K) EXCEPT !.todo = r.todo \ (K \cup {n}),
                                             !.cur = n, !.pc = "read"])
      PROVE  AllKnown(stored', sess', d, u, k)
  <2> DEFINE q == [Skipped(r, K) EXCEPT !.todo = r.todo \ (K \cup {n}), !.cur = n,
                                        !.pc = "read"]
  <2>1. Skipped(r, K) \in Session
    BY SkippedType
  <2>2. q \in Session
    BY <2>1, <1>1 DEF Session, Steps
  <2>3. q.ent = Skipped(r, K).ent /\ q.buf = Skipped(r, K).buf /\ q.pc = "read"
    BY <2>1 DEF Session
  <2>4. Become(s, q)
    BY <1>3
  <2> HIDE DEF q
  <2>5. KnownSession(q, d, u, k)
    BY <2>3, <1>2 DEF KnownSession
  <2> QED
    BY <2>2, <2>4, <2>5, BecomeKnown
<1>4. ASSUME Become(s, Answered(Skipped(r, r.todo), "ok", d0))
      PROVE  AllKnown(stored', sess', d, u, k)
  <2> DEFINE q == Answered(Skipped(r, r.todo), "ok", d0)
  <2>1. Skipped(r, r.todo) \in Session
    BY <1>1, SkippedType
  <2>2. q \in Session
    BY <2>1, AnsweredType
  <2>3. q.ent = Skipped(r, r.todo).ent /\ q.buf = 0 /\ q.pc = "done"
    BY <2>1 DEF Answered, Done, Session
  <2> HIDE DEF q
  <2>4. KnownSession(q, d, u, k)
    BY <2>3, <1>1, <1>2 DEF KnownSession
  <2> QED
    BY <2>2, <2>4, <1>4, BecomeKnown DEF q
<1> QED
  BY <1>1, <1>3, <1>4 DEF UpdateTurn

LEMMA DelTurnKnown ==
    ASSUME sess \in [Slots -> Session], NEW s \in Slots, NEW r \in Session, NEW d0,
           NEW d, NEW u, NEW k \in Nat, 0 \notin u, AllKnown(stored, sess, d, u, k),
           KnownSession(r, d, u, k), DelTurn(s, r, d0)
    PROVE  AllKnown(stored', sess', d, u, k)
<1>1. r.todo \in SUBSET Names
  BY DEF Session
<1>2. ASSUME NEW K PROVE Unrecorded(r, K) \in Session /\ KnownSession(Unrecorded(r, K), d, u, k)
  BY UnrecordedType, UnrecordedKnown
<1>3. ASSUME NEW K, NEW n \in Names,
             Become(s, [Unrecorded(r, K) EXCEPT !.todo = r.todo \ (K \cup {n}),
                                                !.cur = n, !.pc = "rm"])
      PROVE  AllKnown(stored', sess', d, u, k)
  <2> DEFINE x == Unrecorded(r, K)
             q == [x EXCEPT !.todo = r.todo \ (K \cup {n}), !.cur = n, !.pc = "rm"]
  <2>1. x \in Session /\ KnownSession(x, d, u, k) /\ Become(s, q)
    BY <1>2, <1>3
  <2> HIDE DEF x
  <2>2. q \in Session
    BY <2>1, <1>1 DEF Session, Steps
  <2>3. q.ent = x.ent /\ q.buf = x.buf /\ q.pc = "rm"
    BY <2>1 DEF Session
  <2> HIDE DEF q
  <2>4. KnownSession(q, d, u, k)
    BY <2>1, <2>3 DEF KnownSession
  <2> QED
    BY <2>1, <2>2, <2>4, BecomeKnown
<1>4. ASSUME NEW K, Become(s, Answered(Unrecorded(r, K), "ok", d0))
      PROVE  AllKnown(stored', sess', d, u, k)
  BY <1>2, <1>4, AnsweredType, AnsweredKnown, BecomeKnown
<1> QED
  BY <1>1, <1>3, <1>4 DEF DelTurn

LEMMA CommitTurnKnown ==
    ASSUME sess \in [Slots -> Session], NEW s \in Slots, NEW r \in Session,
           NEW d \in [Names -> File], NEW u, NEW k \in Nat, NEW sv,
           Bounded(sv, d, u, k), Apart(sv, d, u), AllKnown(stored, sess, d, u, k),
           KnownSession(r, d, u, k), r.pc = "list", CommitTurn(s, r, d)
    PROVE  AllKnown(stored', sess', d, u, k)
<1> DEFINE add == Added(r.ent, r.scope)
           r1 == DropLocal(r, add)
           up == Modified(r1.ent, r.scope, d)
           same == {n \in up : SameHash(r1.ent, n, d)}
           r2 == Refresh(r1, up, d)
           del == Deleted(r2.ent, r.scope)
<1>1. r.scope \in SUBSET Names
  BY DEF Session
<1>2. add \in SUBSET Names /\ up \in SUBSET Names /\ del \in SUBSET Names
  BY <1>1 DEF Added, Modified, Deleted
<1>3. \A n \in up : Exists(d[n])
  BY DEF Modified
<1>4. \/ \E K \in SUBSET add, n \in add : Become(s, [DropLocal(r, K) EXCEPT !.cur = n])
      \/ \E K \in SUBSET same, n \in up : Become(s, [Refresh(r1, K, d) EXCEPT !.cur = n])
      \/ up = same /\ Become(s, Answered(r2, "ok", d))
      \/ up = same /\ Become(s, [r2 EXCEPT !.todo = del])
  BY DEF CommitTurn
<1>5. r1 \in Session /\ KnownSession(r1, d, u, k) /\ r1.pc = "list"
  <2>1. r1 \in Session /\ KnownSession(r1, d, u, k)
    BY DropLocalType, DropLocalKnown
  <2> QED
    BY <2>1 DEF DropLocal, Session
<1>6. \A n \in same : Exists(d[n]) /\ SameHash(r1.ent, n, d)
  BY <1>3
<1>7. same \subseteq up
  OBVIOUS
<1> HIDE DEF add, r1, up, same, del
<1>8. ASSUME NEW K \in SUBSET same
      PROVE  /\ Refresh(r1, K, d) \in Session
             /\ KnownSession(Refresh(r1, K, d), d, u, k)
  BY <1>2, <1>5, <1>6, <1>7, RefreshType, RefreshKnown
<1>9. ASSUME NEW x \in Session, KnownSession(x, d, u, k), NEW n \in Names,
             Become(s, [x EXCEPT !.cur = n])
      PROVE  AllKnown(stored', sess', d, u, k)
  <2> DEFINE q == [x EXCEPT !.cur = n]
  <2>1. q \in Session /\ q.ent = x.ent /\ q.buf = x.buf /\ q.pc = x.pc
    BY DEF Session
  <2>2. Become(s, q)
    BY <1>9
  <2> HIDE DEF q
  <2>3. KnownSession(q, d, u, k)
    BY <2>1, <1>9 DEF KnownSession
  <2> QED
    BY <2>1, <2>2, <2>3, BecomeKnown
<1>10. ASSUME NEW K \in SUBSET add, NEW n \in add,
              Become(s, [DropLocal(r, K) EXCEPT !.cur = n])
       PROVE  AllKnown(stored', sess', d, u, k)
  BY <1>2, <1>9, <1>10, DropLocalType, DropLocalKnown
<1>11. ASSUME NEW K \in SUBSET same, NEW n \in up,
              Become(s, [Refresh(r1, K, d) EXCEPT !.cur = n])
       PROVE  AllKnown(stored', sess', d, u, k)
  BY <1>2, <1>8, <1>9, <1>11
<1>12. ASSUME up = same, Become(s, Answered(r2, "ok", d))
       PROVE  AllKnown(stored', sess', d, u, k)
  BY <1>8, <1>12, AnsweredType, AnsweredKnown, BecomeKnown
<1>13. ASSUME up = same, Become(s, [r2 EXCEPT !.todo = del])
       PROVE  AllKnown(stored', sess', d, u, k)
  <2> DEFINE q == [r2 EXCEPT !.todo = del]
  <2>1. r2 \in Session /\ KnownSession(r2, d, u, k)
    BY <1>8, <1>13
  <2> HIDE DEF r2
  <2>2. q \in Session /\ q.ent = r2.ent /\ q.buf = r2.buf /\ q.pc = r2.pc
    BY <2>1, <1>2 DEF Session
  <2>3. Become(s, q)
    BY <1>13
  <2> HIDE DEF q
  <2>4. KnownSession(q, d, u, k)
    BY <2>1, <2>2 DEF KnownSession
  <2> QED
    BY <2>2, <2>3, <2>4, BecomeKnown
<1> QED
  BY <1>4, <1>10, <1>11, <1>12, <1>13

(***************************************************************************)
(* The steps keep the invariant                                            *)
(***************************************************************************)

LEMMA InitEdits == Init => EditsInv
<1> SUFFICES ASSUME Init PROVE EditsInv
  OBVIOUS
<1>1. PICK S \in SUBSET Names, T \in SUBSET Names :
        /\ server = [n \in Names |-> IF n \in S THEN [c |-> 1, t |-> 1]
                                                ELSE Absent]
        /\ disk = [n \in Names |-> IF n \in T THEN [c |-> 1, t |-> 2]
                                              ELSE Absent]
        /\ stored = [files |-> [n \in Names |-> IF n \in T
                        THEN [remote_st |-> 1, local_st |-> 2, hash |-> 1]
                        ELSE NoInfo],
                     local |-> T]
  BY DEF Init
<1>2. unsent = {} /\ now = 2 /\ sess = [s \in Slots |-> IdleSession]
  BY DEF Init
<1>3. World(server, disk, kept, unsent, now)
  BY <1>1, <1>2 DEF World, Bounded, Apart, Found, Absent
<1>4. KnownEntity(stored, disk, unsent, now)
  BY <1>1, <1>2 DEF KnownEntity, KnownInfo, NoInfo
<1>5. ASSUME NEW s \in Slots PROVE KnownSession(sess[s], disk, unsent, now)
  <2>1. /\ IdleSession.ent = EmptyEntity /\ IdleSession.buf = 0
        /\ IdleSession.pc = "idle"
    BY DEF IdleSession, NewSession
  <2> QED
    BY <2>1, <1>2, EmptyEntityKnown DEF KnownSession
<1> QED
  BY <1>3, <1>4, <1>5, InitType DEF EditsInv, AllKnown

\* The parts of the types that the steps below need.
LEMMA TypeParts ==
    ASSUME TypeOK
    PROVE  /\ server \in [Names -> File] /\ disk \in [Names -> File]
           /\ kept \in SUBSET Nat /\ unsent \in SUBSET Nat /\ now \in Nat
           /\ stored \in Entity /\ sess \in [Slots -> Session]
           /\ \A n \in Names : /\ server[n].c \in Nat /\ server[n].t \in Nat
                              /\ disk[n].c \in Nat /\ disk[n].t \in Nat
           /\ \A s \in Slots : sess[s] \in Session /\ HasFile(sess[s])
BY DEF TypeOK, File

\* What is known stays known through a drift.
LEMMA CarryOver ==
    ASSUME EditsInv, TypeOK', Drift(disk, unsent, now, disk', unsent', now')
    PROVE  AllKnown(stored, sess, disk', unsent', now')
<1>1. /\ disk \in [Names -> File] /\ unsent \in SUBSET Nat /\ now \in Nat
      /\ stored \in Entity /\ sess \in [Slots -> Session]
  BY TypeParts DEF EditsInv
<1>2. disk' \in [Names -> File] /\ unsent' \in SUBSET Nat /\ now' \in Nat
  BY DEF TypeOK
<1>3. \A n \in Names : disk[n].c <= now
  BY DEF EditsInv, World, Bounded
<1> QED
  BY <1>1, <1>2, <1>3, DriftAll DEF EditsInv

\* A step of the environment alone leaves the records and the sessions.
LEMMA EnvironmentEdits ==
    ASSUME EditsInv, TypeOK', User \/ Remote
    PROVE  EditsInv'
<1>1. /\ \A n \in Names : /\ server[n].c \in Nat /\ server[n].t \in Nat
                         /\ disk[n].c \in Nat /\ disk[n].t \in Nat
      /\ server \in [Names -> File] /\ disk \in [Names -> File]
      /\ unsent \in SUBSET Nat /\ now \in Nat
  BY TypeParts DEF EditsInv
<1>2. World(server, disk, kept, unsent, now)
  BY DEF EditsInv
<1>3. ASSUME World(server', disk', kept', unsent', now'),
             Drift(disk, unsent, now, disk', unsent', now'),
             stored' = stored, sess' = sess
      PROVE  EditsInv'
  BY <1>3, CarryOver DEF EditsInv
<1>4. ASSUME NEW n \in Names, UserWrite(n)
      PROVE  EditsInv'
  <2>1. /\ now' = now + 1
        /\ UNCHANGED <<server, kept, stored, sess>>
    BY <1>4 DEF UserWrite
  <2>2. ASSUME disk' = [disk EXCEPT ![n] = [c |-> now + 1, t |-> now + 1]],
               unsent' = (unsent \ {disk[n].c}) \cup {now + 1}
        PROVE  EditsInv'
    <3>1. Bounded(server', disk', unsent', now')
      BY <1>1, <1>2, <2>1, <2>2 DEF World, Bounded
    <3>2. Apart(server', disk', unsent')
      BY <1>1, <1>2, <2>1, <2>2 DEF World, Bounded, Apart
    <3>3. Found(disk', kept', unsent')
      BY <1>1, <1>2, <2>1, <2>2 DEF World, Found, Exists
    <3>4. Drift(disk, unsent, now, disk', unsent', now')
      BY <1>1, <2>1, <2>2 DEF Drift
    <3> QED
      BY <3>1, <3>2, <3>3, <3>4, <2>1, <1>3 DEF World
  <2>3. ASSUME Exists(disk[n]), disk' = [disk EXCEPT ![n].t = now + 1],
               unsent' = unsent
        PROVE  EditsInv'
    <3>0. /\ disk' \in [Names -> File]
          /\ disk'[n].c = disk[n].c /\ disk'[n].t = now + 1
          /\ \A m \in Names \ {n} : disk'[m] = disk[m]
      BY <1>1, <2>3 DEF File
    <3>1. Bounded(server', disk', unsent', now')
      <4>1. \A m \in Names : disk'[m].c <= now + 1 /\ disk'[m].t <= now + 1
        BY <3>0, <1>1, <1>2 DEF World, Bounded
      <4> QED
        BY <4>1, <1>1, <1>2, <2>1, <2>3 DEF World, Bounded
    <3>2. Apart(server', disk', unsent')
      BY <3>0, <1>1, <1>2, <2>1, <2>3 DEF World, Bounded, Apart
    <3>3. Found(disk', kept', unsent')
      BY <3>0, <1>1, <1>2, <2>1, <2>3 DEF World, Found, Exists
    <3>4. Drift(disk, unsent, now, disk', unsent', now')
      BY <3>0, <1>1, <2>1, <2>3 DEF Drift
    <3> QED
      BY <3>1, <3>2, <3>3, <3>4, <2>1, <1>3 DEF World
  <2> QED
    BY <2>2, <2>3, <1>4 DEF UserWrite
<1>5. ASSUME NEW n \in Names, UserErase(n)
      PROVE  EditsInv'
  <2>1. /\ disk' = [disk EXCEPT ![n] = [c |-> 0, t |-> 0]]
        /\ unsent' = unsent \ {disk[n].c}
        /\ UNCHANGED <<server, kept, stored, sess, now>>
    BY <1>5 DEF UserErase, Absent
  <2>2. World(server', disk', kept', unsent', now')
    <3>1. Bounded(server', disk', unsent', now')
      BY <1>1, <1>2, <2>1 DEF World, Bounded
    <3>2. Apart(server', disk', unsent')
      BY <1>1, <1>2, <2>1 DEF World, Apart, Exists
    <3>3. Found(disk', kept', unsent')
      BY <1>1, <1>2, <2>1 DEF World, Found, Exists
    <3> QED
      BY <3>1, <3>2, <3>3 DEF World
  <2>3. Drift(disk, unsent, now, disk', unsent', now')
    BY <1>1, <2>1 DEF Drift, Exists
  <2> QED
    BY <2>1, <2>2, <2>3, <1>3
<1>6. ASSUME NEW n \in Names, Join(n)
      PROVE  EditsInv'
  <2>1. /\ stored' = [stored EXCEPT !.local = @ \cup {n}]
        /\ UNCHANGED <<server, disk, kept, sess, now, unsent>>
    BY <1>6 DEF Join
  <2>2. stored'.files = stored.files
    BY <2>1, TypeParts DEF EditsInv, Entity
  <2> QED
    BY <2>1, <2>2 DEF EditsInv, AllKnown, KnownEntity
<1>7. ASSUME NEW n \in Names, RemoteWrite(n)
      PROVE  EditsInv'
  <2>1. /\ now' = now + 1
        /\ server' = [server EXCEPT ![n] = [c |-> now + 1, t |-> now + 1]]
        /\ UNCHANGED <<disk, kept, stored, sess, unsent>>
    BY <1>7 DEF RemoteWrite
  <2>2. World(server', disk', kept', unsent', now')
    BY <1>1, <1>2, <2>1 DEF World, Bounded, Apart
  <2>3. Drift(disk, unsent, now, disk', unsent', now')
    BY <1>1, <2>1 DEF Drift
  <2> QED
    BY <2>1, <2>2, <2>3, <1>3
<1>8. ASSUME NEW n \in Names, RemoteDelete(n)
      PROVE  EditsInv'
  <2>1. /\ server' = [server EXCEPT ![n] = [c |-> 0, t |-> 0]]
        /\ UNCHANGED <<disk, kept, stored, sess, now, unsent>>
    BY <1>8 DEF RemoteDelete, Absent
  <2>2. World(server', disk', kept', unsent', now')
    BY <1>1, <1>2, <2>1 DEF World, Bounded, Apart
  <2>3. Drift(disk, unsent, now, disk', unsent', now')
    BY <1>1, <2>1 DEF Drift
  <2> QED
    BY <2>1, <2>2, <2>3, <1>3
<1> QED
  BY <1>4, <1>5, <1>6, <1>7, <1>8 DEF User, Remote

\* A step that leaves the files, the contents and the clock as they are, and
\* turns a session into one that knows no more.
LEMMA QuietEdits ==
    ASSUME EditsInv, TypeOK', UNCHANGED <<server, disk, kept, unsent, now>>,
           AllKnown(stored', sess', disk, unsent, now)
    PROVE  EditsInv'
BY DEF EditsInv

LEMMA RequestEdits ==
    ASSUME EditsInv, TypeOK', NEW s \in Slots, Request(s)
    PROVE  EditsInv'
<1>1. /\ disk \in [Names -> File] /\ unsent \in SUBSET Nat /\ now \in Nat
      /\ stored \in Entity /\ sess \in [Slots -> Session]
  BY TypeParts DEF EditsInv
<1>2. /\ Bounded(server, disk, unsent, now) /\ Apart(server, disk, unsent)
      /\ AllKnown(stored, sess, disk, unsent, now)
  BY DEF EditsInv, World
<1>3. ASSUME NEW op \in Ops, NEW S \in SUBSET Names
      PROVE  LET x == NewSession(op, stored, S)
             IN  /\ x \in Session /\ x.pc = "list"
                 /\ KnownSession(x, disk, unsent, now)
  <2> DEFINE x == NewSession(op, stored, S)
  <2>1. x \in Session
    BY <1>1, NewSessionType
  <2>2. x.pc = "list" /\ x.buf = 0 /\ x.ent = stored
    BY DEF NewSession
  <2>3. KnownEntity(stored, disk, unsent, now)
    BY <1>2 DEF AllKnown
  <2> HIDE DEF x
  <2>4. KnownSession(x, disk, unsent, now)
    BY <2>2, <2>3, <1>1 DEF KnownSession
  <2> QED
    BY <2>1, <2>2, <2>4 DEF x
<1>4. ASSUME NEW op \in SyncOps, NEW S \in SUBSET Names,
             Become(s, NewSession(op, stored, S))
      PROVE  AllKnown(stored', sess', disk, unsent, now)
  BY <1>1, <1>2, <1>3, <1>4, BecomeKnown DEF Ops
<1>5. ASSUME NEW op \in CommitOps, NEW S \in SUBSET Names,
             CommitTurn(s, NewSession(op, stored, S), disk)
      PROVE  AllKnown(stored', sess', disk, unsent, now)
  BY <1>1, <1>2, <1>3, <1>5, CommitTurnKnown DEF Ops, SyncOps
\* A remove or a rename changes m_local_files alone.
<1>6. ASSUME NEW op \in {"remove", "rename"}, NEW n \in Names, NEW m,
             NEW loc \in SUBSET Names, m \in Names \cup {NoName},
             Become(s, [WithLocal(NewSession(op, stored, {n}), loc)
                          EXCEPT !.cur = n, !.to = m])
      PROVE  AllKnown(stored', sess', disk, unsent, now)
  <2> DEFINE x == NewSession(op, stored, {n})
             w == WithLocal(x, loc)
             q == [w EXCEPT !.cur = n, !.to = m]
  <2>1. x \in Session /\ KnownSession(x, disk, unsent, now) /\ Become(s, q)
    BY <1>3, <1>6 DEF Ops
  <2> HIDE DEF x
  <2>2. x.ent \in Entity
    BY <2>1 DEF Session
  <2>3. /\ [x.ent EXCEPT !.local = loc] \in Entity
        /\ [x.ent EXCEPT !.local = loc].files = x.ent.files
    BY <2>2 DEF Entity
  <2>4. w \in Session /\ w.ent.files = x.ent.files /\ w.buf = x.buf /\ w.pc = "fs"
    BY <2>1, <2>3 DEF WithLocal, Session, Steps
  <2> HIDE DEF w
  <2>5. q \in Session /\ q.ent = w.ent /\ q.buf = w.buf /\ q.pc = w.pc
    BY <2>4, <1>6 DEF Session
  <2> HIDE DEF q
  <2>6. KnownSession(q, disk, unsent, now)
    BY <2>1, <2>4, <2>5 DEF KnownSession, KnownEntity
  <2> QED
    BY <2>1, <2>5, <2>6, <1>1, <1>2, BecomeKnown
<1>7. ASSUME NEW n \in Names, StartRemove(s, n)
      PROVE  AllKnown(stored', sess', disk, unsent, now)
  <2> DEFINE w == WithLocal(NewSession("remove", stored, {n}), Forget(stored, n))
  <2>1. Become(s, [w EXCEPT !.cur = n])
    BY <1>7 DEF StartRemove
  <2>2. w.to = NoName
    BY DEF WithLocal, NewSession
  <2>3. [w EXCEPT !.cur = n] = [w EXCEPT !.cur = n, !.to = NoName]
    BY <2>2 DEF WithLocal, NewSession
  <2>4. Become(s, [w EXCEPT !.cur = n, !.to = NoName])
    BY <2>1, <2>3
  <2>5. Forget(stored, n) \in SUBSET Names
    BY <1>1 DEF Forget, Entity
  <2> QED
    BY <2>4, <2>5, <1>6
<1>8. ASSUME NEW n \in Names, NEW m \in Names, StartRename(s, n, m)
      PROVE  AllKnown(stored', sess', disk, unsent, now)
  <2>1. Moved(stored, n, m) \in SUBSET Names
    BY <1>1 DEF Moved, Entity
  <2> QED
    BY <2>1, <1>6, <1>8 DEF StartRename
<1>9. AllKnown(stored', sess', disk, unsent, now)
      /\ UNCHANGED <<server, disk, kept, unsent, now>>
  <2>1. CASE StartUpdate(s)
    BY <2>1, <1>4 DEF StartUpdate, SyncOps
  <2>2. CASE \E n \in Names : StartUpdateFile(s, n)
    BY <2>2, <1>4 DEF StartUpdateFile, SyncOps
  <2>3. CASE \/ StartCommit(s, "commit", Names)
             \/ \E n \in Names : StartCommit(s, "commit_file", {n})
    BY <2>3, <1>5 DEF StartCommit, CommitOps
  <2>4. CASE \E n \in Names : StartRemove(s, n)
    BY <2>4, <1>7 DEF StartRemove
  <2>5. CASE \E n \in Names : \E m \in Names : StartRename(s, n, m)
    BY <2>5, <1>8 DEF StartRename
  <2> QED
    BY <2>1, <2>2, <2>3, <2>4, <2>5 DEF Request
<1> QED
  BY <1>9, QuietEdits

LEMMA CancelEdits ==
    ASSUME EditsInv, TypeOK', NEW s \in Slots, Cancel(s)
    PROVE  EditsInv'
<1> DEFINE r == sess[s]
<1>1. /\ r \in Session /\ sess \in [Slots -> Session]
      /\ AllKnown(stored, sess, disk, unsent, now)
      /\ KnownSession(r, disk, unsent, now)
  BY TypeParts DEF EditsInv, AllKnown
<1>2. UNCHANGED <<server, disk, kept, unsent, now>>
  BY DEF Cancel, CancelSync, CancelRemove
<1> HIDE DEF r
<1>3. ASSUME NEW q, sess' = [sess EXCEPT ![s] = q], stored' \in {stored, r.ent},
             q.ent = r.ent, q.buf = r.buf, q.pc \in {r.pc, "done"}
      PROVE  AllKnown(stored', sess', disk, unsent, now)
  <2>1. KnownSession(q, disk, unsent, now)
    BY <1>1, <1>3 DEF KnownSession
  <2>2. KnownEntity(stored', disk, unsent, now)
    BY <1>1, <1>3 DEF KnownSession, AllKnown
  <2> QED
    BY <2>1, <2>2, <1>1, <1>3 DEF AllKnown
<1>4. CASE CancelSync(s)
  <2> DEFINE q == [r EXCEPT !.held = FALSE,
                            !.reply = IF StatThrows(r, disk) THEN @ ELSE "ok",
                            !.pc = IF r.pc = "dead" THEN "done" ELSE @]
  <2>1. sess' = [sess EXCEPT ![s] = q] /\ stored' \in {stored, r.ent}
    BY <1>4 DEF CancelSync, r
  <2>2. q.ent = r.ent /\ q.buf = r.buf /\ q.pc \in {r.pc, "done"}
    BY <1>1 DEF Session
  <2> HIDE DEF q
  <2> QED
    BY <2>1, <2>2, <1>2, <1>3, QuietEdits
<1>5. CASE CancelRemove(s)
  <2> DEFINE q == [r EXCEPT !.held = FALSE]
  <2>1. sess' = [sess EXCEPT ![s] = q] /\ stored' = stored
    BY <1>5 DEF CancelRemove, r
  <2>2. q.ent = r.ent /\ q.buf = r.buf /\ q.pc = r.pc
    BY <1>1 DEF Session
  <2> HIDE DEF q
  <2> QED
    BY <2>1, <2>2, <1>2, <1>3, QuietEdits
<1> QED
  BY <1>4, <1>5 DEF Cancel

LEMMA CrashEdits ==
    ASSUME EditsInv, TypeOK', Crash
    PROVE  EditsInv'
<1>1. now \in Nat /\ 0 \notin unsent
  BY TypeParts DEF EditsInv, World, Apart
<1>2. KnownEntity(EmptyEntity, disk, unsent, now)
  BY <1>1, EmptyEntityKnown
<1>3. stored' \in {stored, EmptyEntity}
  BY DEF Crash
<1>4. KnownEntity(stored', disk, unsent, now)
  BY <1>2, <1>3 DEF EditsInv, AllKnown
<1>5. /\ IdleSession.ent = EmptyEntity /\ IdleSession.buf = 0
      /\ IdleSession.pc = "idle"
  BY DEF IdleSession, NewSession
<1>6. KnownSession(IdleSession, disk, unsent, now)
  BY <1>1, <1>2, <1>5 DEF KnownSession
<1>7. sess' = [t \in Slots |-> IdleSession]
      /\ UNCHANGED <<server, disk, kept, unsent, now>>
  BY DEF Crash
<1> QED
  BY <1>4, <1>6, <1>7, QuietEdits DEF AllKnown

\* The steps that leave the files alone: answers, listings and downloads
\* that begin.
LEMMA QuietProgress ==
    ASSUME EditsInv, TypeOK', NEW s \in Slots,
           \/ FsFails(s) \/ UpdateListFails(s) \/ ReadFails(s) \/ RmFails(s)
           \/ FileStated(s) \/ ReadOpens(s) \/ CommitListed(s)
    PROVE  EditsInv'
<1> DEFINE r == sess[s]
<1>1. /\ r \in Session /\ HasFile(r) /\ sess \in [Slots -> Session]
      /\ AllKnown(stored, sess, disk, unsent, now)
      /\ KnownSession(r, disk, unsent, now) /\ now \in Nat /\ 0 \notin unsent
      /\ TypeOK
  BY TypeParts DEF EditsInv, AllKnown, World, Apart
<1>2. UNCHANGED <<server, disk, kept, unsent, now>>
  BY DEF FsFails, UpdateListFails, ReadFails, RmFails, FileStated, ReadOpens,
         CommitListed
<1>3. /\ \A n \in Names : /\ server[n].c \in Nat /\ server[n].c <= now
                         /\ server[n].c \notin unsent
      /\ \A n \in Names : disk[n].c \in Nat /\ disk[n].c <= now
  BY TypeParts DEF EditsInv, World, Bounded, Apart
<1> HIDE DEF r
<1>4. ASSUME NEW q \in Session, KnownSession(q, disk, unsent, now), Become(s, q)
      PROVE  EditsInv'
  BY <1>1, <1>2, <1>4, BecomeKnown, QuietEdits
<1>5. ASSUME NEW q \in Session, NEW a \in {"ok", "error"},
             KnownSession(q, disk, unsent, now),
             Become(s, Done(q, a)) \/ Become(s, Answered(q, a, disk))
      PROVE  EditsInv'
  <2>1. Done(q, a) \in Session /\ KnownSession(Done(q, a), disk, unsent, now)
    BY <1>1, <1>5, DoneType, DoneKnown
  <2>2. /\ Answered(q, a, disk) \in Session
        /\ KnownSession(Answered(q, a, disk), disk, unsent, now)
    BY <1>1, <1>5, AnsweredType, AnsweredKnown
  <2> QED
    BY <2>1, <2>2, <1>4, <1>5
<1>6. ASSUME NEW ok \in BOOLEAN
      PROVE  /\ Listing(r, ok) \in Session
             /\ KnownSession(Listing(r, ok), disk, unsent, now)
  BY <1>1, ListingType, ListingKnown
<1>7. CASE FsFails(s) \/ UpdateListFails(s) \/ ReadFails(s) \/ RmFails(s)
  BY <1>7, <1>1, <1>5 DEF FsFails, UpdateListFails, ReadFails, RmFails, r
<1>8. CASE FileStated(s)
  <2> DEFINE l == Listing(r, TRUE)
             q == [l EXCEPT !.todo = l.scope]
  <2>1. l \in Session /\ KnownSession(l, disk, unsent, now)
    BY <1>6
  <2>2. UpdateTurn(s, q, disk)
    BY <1>8 DEF FileStated, r
  <2> HIDE DEF l
  <2>3. q \in Session /\ q.ent = l.ent /\ q.buf = l.buf
    BY <2>1 DEF Session
  <2> HIDE DEF q
  <2>4. KnownEntity(q.ent, disk, unsent, now) /\ q.buf <= now
    BY <2>1, <2>3 DEF KnownSession
  <2> QED
    BY <2>2, <2>3, <2>4, <1>1, <1>2, UpdateTurnKnown, QuietEdits
<1>9. CASE ReadOpens(s)
  <2> DEFINE q == [r EXCEPT !.pc = "recv", !.buf = server[r.cur].c]
  <2>1. r.cur \in Names /\ Become(s, q)
    BY <1>1, <1>9 DEF ReadOpens, HasFile, r
  <2>2. server[r.cur].c \in Nat
    BY <2>1, <1>3
  <2>3. q \in Session /\ q.ent = r.ent /\ q.buf = server[r.cur].c
    BY <1>1, <2>2 DEF Session, Steps
  <2> HIDE DEF q
  <2>4. KnownSession(q, disk, unsent, now)
    BY <2>1, <2>3, <1>1, <1>3 DEF KnownSession
  <2> QED
    BY <2>1, <2>3, <2>4, <1>4
<1>10. CASE CommitListed(s)
  <2>1. PICK ok \in BOOLEAN :
          LET l == Listing(r, ok)
          IN  \/ DelTurn(s, l, disk)
              \/ /\ l.cur # NoName
                 /\ Become(s, [l EXCEPT !.pc = "put", !.buf = disk[l.cur].c])
              \/ Become(s, Done(l, "error"))
    BY <1>10 DEF CommitListed, r
  <2> DEFINE l == Listing(r, ok)
  <2>2. l \in Session /\ KnownSession(l, disk, unsent, now)
    BY <1>6
  <2> HIDE DEF l
  <2>3. ASSUME DelTurn(s, l, disk) PROVE EditsInv'
    BY <2>2, <2>3, <1>1, <1>2, DelTurnKnown, QuietEdits
  <2>4. ASSUME l.cur # NoName,
               Become(s, [l EXCEPT !.pc = "put", !.buf = disk[l.cur].c])
        PROVE  EditsInv'
    <3> DEFINE q == [l EXCEPT !.pc = "put", !.buf = disk[l.cur].c]
    <3>1. l.cur \in Names
      BY <2>2, <2>4 DEF Session
    <3>2. disk[l.cur].c \in Nat /\ disk[l.cur].c <= now
      BY <3>1, <1>3
    <3>3. q \in Session /\ q.ent = l.ent /\ q.buf = disk[l.cur].c /\ q.pc = "put"
      BY <3>2, <2>2 DEF Session, Steps
    <3>4. Become(s, q)
      BY <2>4
    <3> HIDE DEF q
    <3>5. KnownSession(q, disk, unsent, now)
      BY <3>2, <3>3, <2>2 DEF KnownSession
    <3> QED
      BY <3>3, <3>4, <3>5, <1>4
  <2>5. ASSUME Become(s, Done(l, "error")) PROVE EditsInv'
    BY <2>2, <2>5, <1>5
  <2> QED
    BY <2>1, <2>3, <2>4, <2>5 DEF l
<1> QED
  BY <1>7, <1>8, <1>9, <1>10

\* The local file system removes or renames a file the user asked it for.
LEMMA FsEdits ==
    ASSUME EditsInv, TypeOK', NEW s \in Slots, FsDone(s)
    PROVE  EditsInv'
<1> DEFINE r == sess[s]
           n == r.cur
           m == r.to
<1>1. /\ r \in Session /\ n \in Names /\ sess \in [Slots -> Session]
      /\ (r.op = "rename" => m \in Names /\ m # n)
  BY TypeParts DEF EditsInv, FsDone, HasFile
<1>2. /\ \A x \in Names : disk[x].c \in Nat /\ disk[x].t \in Nat
      /\ disk \in [Names -> File] /\ unsent \in SUBSET Nat /\ now \in Nat
  BY TypeParts DEF EditsInv
<1>3. World(server, disk, kept, unsent, now)
  BY DEF EditsInv
<1>4. UNCHANGED <<server, kept, now>> /\ Become(s, Done(r, "ok"))
  BY DEF FsDone
<1>5. ASSUME World(server', disk', kept', unsent', now'),
             Drift(disk, unsent, now, disk', unsent', now')
      PROVE  EditsInv'
  <2>1. AllKnown(stored, sess, disk', unsent', now')
    BY <1>5, CarryOver
  <2>2. KnownSession(r, disk', unsent', now')
    BY <2>1 DEF AllKnown
  <2>3. KnownSession(Done(r, "ok"), disk', unsent', now')
    BY <2>2, <1>1, <1>2, <1>4, DoneKnown
  <2>4. AllKnown(stored', sess', disk', unsent', now')
    BY <2>1, <2>3, <1>1, <1>4, DoneType, BecomeKnown
  <2> QED
    BY <2>4, <1>5 DEF EditsInv
<1>6. \/ /\ disk' = [disk EXCEPT ![n] = [c |-> 0, t |-> 0]]
         /\ unsent' = unsent \ {disk[n].c}
      \/ /\ m \in Names /\ m # n /\ Exists(disk[n])
         /\ disk' = [disk EXCEPT ![m] = disk[n], ![n] = [c |-> 0, t |-> 0]]
         /\ unsent' = unsent \ ({disk[m].c} \ {disk[n].c})
  BY <1>1 DEF FsDone, Absent
<1> HIDE DEF r, n, m
<1>7. ASSUME disk' = [disk EXCEPT ![n] = [c |-> 0, t |-> 0]],
             unsent' = unsent \ {disk[n].c}
      PROVE  EditsInv'
  <2>1. Bounded(server', disk', unsent', now')
    BY <1>1, <1>2, <1>3, <1>4, <1>7 DEF World, Bounded
  <2>2. Apart(server', disk', unsent')
    BY <1>1, <1>2, <1>3, <1>4, <1>7 DEF World, Apart, Exists
  <2>3. Found(disk', kept', unsent')
    BY <1>1, <1>2, <1>3, <1>4, <1>7 DEF World, Found, Exists
  <2>4. Drift(disk, unsent, now, disk', unsent', now')
    BY <1>1, <1>2, <1>4, <1>7 DEF Drift, Exists
  <2> QED
    BY <2>1, <2>2, <2>3, <2>4, <1>5 DEF World
<1>8. ASSUME m \in Names, m # n, Exists(disk[n]),
             disk' = [disk EXCEPT ![m] = disk[n], ![n] = [c |-> 0, t |-> 0]],
             unsent' = unsent \ ({disk[m].c} \ {disk[n].c})
      PROVE  EditsInv'
  <2>0. /\ disk'[m] = disk[n] /\ disk'[n] = [c |-> 0, t |-> 0]
        /\ \A x \in Names \ {m, n} : disk'[x] = disk[x]
        /\ unsent' \subseteq unsent
    BY <1>1, <1>2, <1>8
  <2>1. Bounded(server', disk', unsent', now')
    BY <2>0, <1>1, <1>2, <1>3, <1>4, <1>8 DEF World, Bounded
  <2>2. Apart(server', disk', unsent')
    BY <2>0, <1>1, <1>2, <1>3, <1>4, <1>8 DEF World, Apart, Exists
  <2>3. Found(disk', kept', unsent')
    BY <2>0, <1>1, <1>2, <1>3, <1>4, <1>8 DEF World, Found, Exists
  <2>4. Drift(disk, unsent, now, disk', unsent', now')
    BY <2>0, <1>1, <1>2, <1>4, <1>8 DEF Drift, Exists
  <2> QED
    BY <2>1, <2>2, <2>3, <2>4, <1>5 DEF World
<1> QED
  BY <1>6, <1>7, <1>8

\* safeRm: a pruned file goes only when its recorded time is its time, and
\* then nothing in it is unsent.
LEMMA PruneEdits ==
    ASSUME EditsInv, TypeOK', NEW s \in Slots, UpdateListed(s)
    PROVE  EditsInv'
<1> DEFINE l == Listing(sess[s], TRUE)
<1>1. /\ sess[s] \in Session /\ sess \in [Slots -> Session]
      /\ disk \in [Names -> File] /\ unsent \in SUBSET Nat /\ now \in Nat
      /\ \A x \in Names : disk[x].c \in Nat /\ disk[x].t \in Nat
      /\ World(server, disk, kept, unsent, now)
      /\ KnownSession(sess[s], disk, unsent, now) /\ TypeOK
  BY TypeParts DEF EditsInv, AllKnown
<1>2. l \in Session /\ KnownSession(l, disk, unsent, now)
  BY <1>1, ListingType, ListingKnown
<1>3. /\ disk' = SafeRm(l, disk) /\ UpdateTurn(s, Prune(l), disk')
      /\ UNCHANGED <<server, kept, unsent, now>>
  BY DEF UpdateListed
<1> HIDE DEF l
<1>4. \A n \in Names :
         \/ disk'[n] = disk[n]
         \/ /\ disk'[n] = [c |-> 0, t |-> 0]
            /\ Exists(disk[n]) /\ disk[n].c \notin unsent
  <2> SUFFICES ASSUME NEW n \in Names, Untouched(l.ent, n, disk)
               PROVE  Exists(disk[n]) /\ disk[n].c \notin unsent
    BY <1>3 DEF SafeRm, Absent
  <2>1. KnownInfo(l.ent.files[n], disk, unsent, now)
    BY <1>2 DEF KnownSession, KnownEntity
  <2> QED
    BY <2>1 DEF KnownInfo, Untouched
<1>5. Bounded(server', disk', unsent', now')
  BY <1>1, <1>3, <1>4 DEF World, Bounded
<1>6. Apart(server', disk', unsent')
  BY <1>1, <1>3, <1>4 DEF World, Apart, Exists
<1>7. Found(disk', kept', unsent')
  BY <1>1, <1>3, <1>4 DEF World, Found
<1>8. Drift(disk, unsent, now, disk', unsent', now')
  BY <1>1, <1>3, <1>4 DEF Drift, Exists
<1>9. AllKnown(stored, sess, disk', unsent', now')
  BY <1>8, CarryOver
<1>10. KnownSession(l, disk', unsent', now')
  <2>1. KnownSession(sess[s], disk', unsent', now')
    BY <1>9 DEF AllKnown
  <2> QED
    BY <2>1, <1>1, ListingKnown DEF l
<1>11. 0 \notin unsent' /\ now' \in Nat
  BY <1>1, <1>3 DEF World, Apart
<1>12. Prune(l) \in Session /\ KnownSession(Prune(l), disk', unsent', now')
  BY <1>2, <1>10, <1>11, PruneType, PruneKnown
<1>13. KnownEntity(Prune(l).ent, disk', unsent', now') /\ Prune(l).buf <= now'
  BY <1>12 DEF KnownSession
<1>14. AllKnown(stored', sess', disk', unsent', now')
  BY <1>1, <1>3, <1>9, <1>11, <1>12, <1>13, UpdateTurnKnown
<1> QED
  BY <1>5, <1>6, <1>7, <1>14 DEF EditsInv, World

\* download_ok: a local file with something unsent was touched, so it is set
\* aside before the downloaded one takes its place.
LEMMA ReadEdits ==
    ASSUME EditsInv, TypeOK', NEW s \in Slots, ReadEnds(s)
    PROVE  EditsInv'
<1> DEFINE r == sess[s]
           n == r.cur
<1>1. /\ r \in Session /\ sess \in [Slots -> Session] /\ n \in Names
      /\ r.pc = "recv" /\ r.buf \in Nat
  BY TypeParts DEF EditsInv, ReadEnds, HasFile, Session
<1>2. /\ disk \in [Names -> File] /\ unsent \in SUBSET Nat /\ now \in Nat
      /\ \A x \in Names : /\ disk[x].c \in Nat /\ disk[x].t \in Nat
                         /\ server[x].c \in Nat
      /\ World(server, disk, kept, unsent, now)
      /\ KnownSession(r, disk, unsent, now)
  BY TypeParts DEF EditsInv, AllKnown
<1>3. /\ now' = now + 2 /\ kept' = kept \cup SetAside(r, disk)
      /\ UNCHANGED <<server, unsent>>
  BY DEF ReadEnds
<1> DEFINE Ends(c, hash, time) ==
        LET d == [disk EXCEPT ![n] = [c |-> c, t |-> time]]
        IN  /\ disk' = d
            /\ UpdateTurn(s, Recorded(r, NewInfo(r, now + 1, hash)), d)
<1>4. \E c \in Transferred(r, server[n]) :
        \E hash \in {c, now + 2}, time \in {now + 1, now + 2} : Ends(c, hash, time)
  BY DEF ReadEnds
<1> HIDE DEF Ends
<1>5. PICK c \in Transferred(r, server[n]) :
        \E hash \in {c, now + 2}, time \in {now + 1, now + 2} : Ends(c, hash, time)
  BY <1>4
<1>6. PICK hash \in {c, now + 2}, time \in {now + 1, now + 2} : Ends(c, hash, time)
  BY <1>5
<1> HIDE DEF r, n
<1>7. c \in {r.buf, now + 1, server[n].c}
  BY <1>5 DEF Transferred
<1>8. /\ c \in Nat /\ c <= now + 1 /\ c \notin unsent
      /\ hash \in Nat /\ hash <= now + 2 /\ hash \notin unsent
      /\ time \in Nat /\ time > now /\ time <= now + 2
  <2>1. /\ r.buf <= now /\ r.buf \notin unsent
        /\ server[n].c <= now /\ server[n].c \notin unsent
    BY <1>1, <1>2 DEF KnownSession, World, Bounded, Apart
  <2>2. now + 1 \notin unsent /\ now + 2 \notin unsent
    BY <1>2 DEF World, Bounded
  <2>3. c \in Nat /\ c <= now + 1 /\ c \notin unsent
    BY <2>1, <2>2, <1>1, <1>2, <1>7
  <2> QED
    BY <2>2, <2>3, <1>2, <1>6
<1>9. /\ disk'[n] = [c |-> c, t |-> time]
      /\ \A x \in Names \ {n} : disk'[x] = disk[x]
      /\ UpdateTurn(s, Recorded(r, NewInfo(r, now + 1, hash)), disk')
  BY <1>1, <1>2, <1>6 DEF Ends
<1>10. Bounded(server', disk', unsent', now')
  <2>1. \A x \in Names : disk'[x].c <= now + 2 /\ disk'[x].t <= now + 2
    <3> SUFFICES ASSUME NEW x \in Names
                 PROVE  disk'[x].c <= now + 2 /\ disk'[x].t <= now + 2
      OBVIOUS
    <3>1. CASE x = n
      BY <3>1, <1>2, <1>8, <1>9
    <3>2. CASE x # n
      BY <3>2, <1>2, <1>9 DEF World, Bounded
    <3> QED
      BY <3>1, <3>2
  <2> QED
    BY <2>1, <1>2, <1>3 DEF World, Bounded
<1>11. Apart(server', disk', unsent')
  BY <1>2, <1>3, <1>8, <1>9 DEF World, Bounded, Apart, Exists
<1>12. Found(disk', kept', unsent')
  <2> SUFFICES ASSUME NEW x \in unsent
               PROVE  x \in kept' \/ \E y \in Names : Exists(disk'[y]) /\ disk'[y].c = x
    BY <1>3 DEF Found
  <2>1. CASE Exists(disk[n]) /\ disk[n].c = x
    <3>1. KnownInfo(r.ent.files[n], disk, unsent, now)
      BY <1>1, <1>2 DEF KnownSession, KnownEntity
    <3>2. ~Untouched(r.ent, n, disk)
      BY <3>1, <2>1, <1>1 DEF KnownInfo, Untouched
    <3> QED
      BY <3>2, <2>1, <1>3 DEF SetAside, n
  <2>2. CASE ~(Exists(disk[n]) /\ disk[n].c = x)
    BY <2>2, <1>2, <1>3, <1>9 DEF World, Found
  <2> QED
    BY <2>1, <2>2
<1>13. Drift(disk, unsent, now, disk', unsent', now')
  BY <1>2, <1>3, <1>8, <1>9 DEF Drift
<1>14. AllKnown(stored, sess, disk', unsent', now')
  BY <1>13, CarryOver
<1>15. KnownSession(r, disk', unsent', now')
  BY <1>14 DEF AllKnown, r
<1>16. KnownInfo(NewInfo(r, now + 1, hash), disk', unsent', now')
  <2>1. /\ NewInfo(r, now + 1, hash).local_st = now + 1
        /\ NewInfo(r, now + 1, hash).hash = hash
    BY DEF NewInfo
  <2>2. \A x \in Names : disk'[x].t = now + 1 => disk'[x].c \notin unsent
    BY <1>2, <1>8, <1>9 DEF World, Bounded
  <2> QED
    BY <2>1, <2>2, <1>2, <1>3, <1>8 DEF KnownInfo
<1>17. NewInfo(r, now + 1, hash) \in Info
  BY <1>1, <1>2, <1>8 DEF NewInfo, Info, Session, n
<1> DEFINE q == Recorded(r, NewInfo(r, now + 1, hash))
<1>18. q \in Session
  BY <1>1, <1>17, RecordedType DEF n
<1>19. KnownEntity(q.ent, disk', unsent', now') /\ q.buf = 0
  BY <1>1, <1>2, <1>3, <1>15, <1>16, RecordedKnown DEF n
<1> HIDE DEF q
<1>20. AllKnown(stored', sess', disk', unsent', now')
  <2>1. now' \in Nat /\ q.buf <= now'
    BY <1>2, <1>3, <1>19
  <2>2. UpdateTurn(s, q, disk')
    BY <1>9 DEF q
  <2> QED
    BY <2>1, <2>2, <1>1, <1>14, <1>18, <1>19, UpdateTurnKnown
<1> QED
  BY <1>10, <1>11, <1>12, <1>20 DEF EditsInv, World

\* An upload, whole, mixed or cut short, and a deletion on the server.
LEMMA ServerEdits ==
    ASSUME EditsInv, TypeOK', NEW s \in Slots, Sent(s) \/ SendFails(s) \/ RmDone(s)
    PROVE  EditsInv'
<1> DEFINE r == sess[s]
           n == r.cur
<1>1. /\ r \in Session /\ sess \in [Slots -> Session] /\ n \in Names
      /\ r.buf \in Nat
  BY TypeParts DEF EditsInv, Sent, SendFails, RmDone, HasFile, Session
<1>2. /\ server \in [Names -> File] /\ disk \in [Names -> File]
      /\ unsent \in SUBSET Nat /\ now \in Nat
      /\ \A x \in Names : /\ server[x].c \in Nat /\ disk[x].c \in Nat
                         /\ disk[x].t \in Nat
      /\ World(server, disk, kept, unsent, now)
      /\ KnownSession(r, disk, unsent, now)
  BY TypeParts DEF EditsInv, AllKnown
<1>3. disk' = disk /\ kept' = kept
  BY DEF Sent, SendFails, RmDone
<1> HIDE DEF r, n
\* The server receives a content that is sent by that, or nothing.
<1>4. ASSUME NEW c \in Nat, NEW t, c <= now', c \notin unsent',
             server' = [server EXCEPT ![n] = [c |-> c, t |-> t]],
             unsent' \subseteq unsent, now' \in Nat, now <= now'
      PROVE  /\ World(server', disk', kept', unsent', now')
             /\ AllKnown(stored, sess, disk', unsent', now')
  <2>1. \A x \in Names : server'[x].c \in {server[x].c, c}
    BY <1>2, <1>4
  <2>2. Bounded(server', disk', unsent', now')
    <3>1. \A x \in Names : server'[x].c <= now'
      BY <2>1, <1>2, <1>4 DEF World, Bounded
    <3>2. \A x \in Names : disk'[x].c <= now' /\ disk'[x].t <= now'
      BY <1>2, <1>3, <1>4 DEF World, Bounded
    <3>3. \A x \in unsent' : x <= now'
      BY <1>2, <1>4 DEF World, Bounded
    <3> QED
      BY <3>1, <3>2, <3>3 DEF Bounded
  <2>3. Apart(server', disk', unsent')
    BY <2>1, <1>2, <1>3, <1>4 DEF World, Apart
  <2>4. Found(disk', kept', unsent')
    BY <1>2, <1>3, <1>4 DEF World, Found
  <2>5. Drift(disk, unsent, now, disk', unsent', now')
    BY <1>3, <1>4 DEF Drift
  <2> QED
    BY <2>2, <2>3, <2>4, <2>5, CarryOver DEF World
<1>5. CASE Sent(s)
  <2> DEFINE q == [r EXCEPT !.pc = "dead"]
  <2>1. /\ now' = now + 1
        /\ \E c \in Transferred(r, disk[n]) :
              /\ server' = [server EXCEPT ![n] = [c |-> c, t |-> now + 1]]
              /\ unsent' = unsent \ {c}
        /\ Become(s, q)
    BY <1>5 DEF Sent, r, n
  <2>2. PICK c \in {r.buf, now + 1, disk[n].c} :
              /\ server' = [server EXCEPT ![n] = [c |-> c, t |-> now + 1]]
              /\ unsent' = unsent \ {c}
    BY <2>1 DEF Transferred
  <2>3. r.buf <= now /\ disk[n].c <= now
    BY <1>1, <1>2 DEF KnownSession, World, Bounded
  <2>4. c \in Nat /\ c <= now + 1
    BY <2>2, <2>3, <1>1, <1>2
  <2>5. /\ World(server', disk', kept', unsent', now')
        /\ AllKnown(stored, sess, disk', unsent', now')
    <3>1. now' \in Nat /\ now <= now' /\ c <= now'
      BY <2>1, <2>4, <1>2
    <3>2. c \notin unsent' /\ unsent' \subseteq unsent
      BY <2>2
    <3> QED
      BY <3>1, <3>2, <2>2, <2>4, <1>4
  <2>6. KnownSession(r, disk', unsent', now')
    BY <2>5 DEF AllKnown, r
  <2>7. q \in Session /\ q.ent = r.ent /\ q.buf = r.buf /\ q.pc = "dead"
    BY <1>1 DEF Session, Steps
  <2> HIDE DEF q
  <2>8. KnownSession(q, disk', unsent', now')
    BY <2>6, <2>7 DEF KnownSession
  <2>9. AllKnown(stored', sess', disk', unsent', now')
    BY <2>1, <2>5, <2>7, <2>8, <1>1, BecomeKnown
  <2> QED
    BY <2>5, <2>9 DEF EditsInv
<1>6. CASE SendFails(s)
  <2>1. unsent' = unsent /\ Become(s, Done(r, "error"))
    BY <1>6 DEF SendFails, r
  <2>2. now + 1 \notin unsent
    BY <1>2 DEF World, Bounded
  <2>3. /\ World(server', disk', kept', unsent', now') /\ now' \in Nat
        /\ AllKnown(stored, sess, disk', unsent', now')
    <3>1. CASE UNCHANGED <<server, now>>
      BY <3>1, <2>1, <1>2, <1>3 DEF EditsInv
    <3>2. CASE /\ now' = now + 1
               /\ server' = [server EXCEPT ![n] = [c |-> now + 1, t |-> now + 1]]
      <4>1. now' \in Nat /\ now <= now' /\ now + 1 <= now' /\ now + 1 \in Nat
        BY <3>2, <1>2
      <4> QED
        BY <4>1, <3>2, <2>1, <2>2, <1>4
    <3> QED
      BY <3>1, <3>2, <1>6 DEF SendFails, r, n
  <2>4. KnownSession(r, disk', unsent', now')
    BY <2>3 DEF AllKnown, r
  <2>5. KnownSession(Done(r, "error"), disk', unsent', now')
    BY <2>3, <2>4, <1>1, DoneKnown
  <2>6. AllKnown(stored', sess', disk', unsent', now')
    BY <2>1, <2>3, <2>5, <1>1, DoneType, BecomeKnown
  <2> QED
    BY <2>3, <2>6 DEF EditsInv
<1>7. CASE RmDone(s)
  <2> DEFINE w == Unrecorded(r, {n})
             q == [w EXCEPT !.cur = NoName]
  <2>1. /\ server' = [server EXCEPT ![n] = [c |-> 0, t |-> 0]]
        /\ DelTurn(s, q, disk)
        /\ UNCHANGED <<now, unsent>>
    BY <1>7 DEF RmDone, Absent, r, n
  <2>2. 0 \notin unsent'
    BY <2>1, <1>2 DEF World, Apart
  <2>3. /\ World(server', disk', kept', unsent', now')
        /\ AllKnown(stored, sess, disk', unsent', now')
    <3>1. /\ 0 \in Nat /\ 0 <= now' /\ now' \in Nat /\ now <= now'
          /\ unsent' \subseteq unsent
      BY <2>1, <1>2
    <3> QED
      BY <3>1, <2>1, <2>2, <1>4
  <2>4. now' \in Nat
    BY <2>1, <1>2
  <2>5. KnownSession(r, disk', unsent', now')
    BY <2>3 DEF AllKnown, r
  <2>6. w \in Session /\ KnownSession(w, disk', unsent', now')
    BY <2>2, <2>4, <2>5, <1>1, UnrecordedType, UnrecordedKnown
  <2> HIDE DEF w
  <2>7. q \in Session /\ q.ent = w.ent /\ q.buf = w.buf /\ q.pc = w.pc
    BY <2>6 DEF Session
  <2> HIDE DEF q
  <2>8. KnownSession(q, disk', unsent', now')
    BY <2>6, <2>7 DEF KnownSession
  <2>9. AllKnown(stored', sess', disk', unsent', now')
    BY <2>1, <2>2, <2>3, <2>4, <2>7, <2>8, <1>1, DelTurnKnown
  <2> QED
    BY <2>3, <2>9 DEF EditsInv
<1> QED
  BY <1>5, <1>6, <1>7

\* Every step keeps the invariant.
LEMMA EditsStep == EditsInv /\ [Next]_vars => EditsInv'
<1> SUFFICES ASSUME EditsInv, [Next]_vars PROVE EditsInv'
  OBVIOUS
<1>1. TypeOK'
  BY TypeStep DEF EditsInv
<1>2. CASE UNCHANGED vars
  BY <1>2, <1>1, QuietEdits DEF vars, EditsInv
<1>3. CASE User \/ Remote
  BY <1>1, <1>3, EnvironmentEdits
<1>4. ASSUME NEW s \in Slots, Request(s) PROVE EditsInv'
  BY <1>1, <1>4, RequestEdits
<1>5. ASSUME NEW s \in Slots, Progress(s) PROVE EditsInv'
  BY <1>1, <1>5, QuietProgress, FsEdits, PruneEdits, ReadEdits, ServerEdits
     DEF Progress
<1>6. ASSUME NEW s \in Slots, Cancel(s) PROVE EditsInv'
  BY <1>1, <1>6, CancelEdits
<1>7. CASE Crash
  BY <1>1, <1>7, CrashEdits
<1> QED
  BY <1>2, <1>3, <1>4, <1>5, <1>6, <1>7 DEF Next

\* Whatever the user wrote here and no server has yet is in a local file or in
\* a file set aside, through any number of updates, commits, removes and
\* renames on any number of entities at once, failures, cancellations and
\* crashes.
THEOREM EditsKept == Spec => []NoLostEdit
<1>1. EditsInv => NoLostEdit
  BY DEF EditsInv, World, Found, NoLostEdit
<1> QED
  BY <1>1, InitEdits, EditsStep, PTL DEF Spec

(***************************************************************************)
(* FileMapping implements Mirror                                           *)
(***************************************************************************)

\* The user sees that nothing changes.
ViewUnchanged == UNCHANGED <<server, disk, kept, unsent, asked, edits>>

\* A file that is where its record says it was written holds nothing unsent.
LEMMA UntouchedSent ==
    ASSUME NEW r \in Session, NEW n \in Names, NEW d, NEW u, NEW k,
           KnownEntity(r.ent, d, u, k), Untouched(r.ent, n, d)
    PROVE  d[n].c \notin u
BY DEF KnownEntity, KnownInfo, Untouched

\* A file is placed where disk or server have one that exists.
LEMMA PlacedFile ==
    ASSUME NEW d \in [Names -> File], NEW n \in Names, NEW c \in Nat, NEW t \in Nat,
           t # 0, NEW e, e = [d EXCEPT ![n] = [c |-> c, t |-> t]]
    PROVE  UserView!Placed(d, e, n) /\ e[n] = [c |-> c, t |-> t]
<1>1. e[n] = [c |-> c, t |-> t] /\ e[n] \in File /\ e[n].t # 0
  BY DEF File
<1> QED
  BY <1>1 DEF UserView!Placed, UserView!File, UserView!Exists, File

LEMMA InitView == Init => UserView!Init
<1> SUFFICES ASSUME Init PROVE UserView!Init
  OBVIOUS
<1>1. server \in [Names -> File] /\ disk \in [Names -> File]
  BY InitType DEF TypeOK
<1> QED
  BY <1>1 DEF Init, UserView!Init, UserView!File, File

LEMMA UserViewStep ==
    ASSUME TypeOK, User \/ Remote
    PROVE  UserView!Edit
<1>1. /\ server \in [Names -> File] /\ disk \in [Names -> File]
      /\ now + 1 \in Nat /\ now + 1 # 0
  BY DEF TypeOK
<1>2. edits' = edits + 1
  BY DEF User, Remote, UserWrite, UserErase, Join, RemoteWrite, RemoteDelete, Edit
<1>3. ASSUME NEW n \in Names, UserWrite(n)
      PROVE  UserView!Write(n)
  <2>1. UNCHANGED <<server, kept, asked>>
    BY <1>3 DEF UserWrite
  <2>2. CASE /\ disk' = [disk EXCEPT ![n] = [c |-> now + 1, t |-> now + 1]]
             /\ unsent' = (unsent \ {disk[n].c}) \cup {now + 1}
    <3>1. UserView!Placed(disk, disk', n) /\ disk'[n].c = now + 1
      BY <2>2, <1>1, PlacedFile
    <3> QED
      BY <3>1, <2>1, <2>2 DEF UserView!Write
  <2>3. CASE /\ Exists(disk[n]) /\ disk' = [disk EXCEPT ![n].t = now + 1]
             /\ UNCHANGED unsent
    <3>1. disk[n] \in File
      BY <1>1
    <3>2. /\ [disk[n] EXCEPT !.t = now + 1] = [c |-> disk[n].c, t |-> now + 1]
          /\ disk[n].c \in Nat
      BY <3>1 DEF File
    <3>3. disk' = [disk EXCEPT ![n] = [c |-> disk[n].c, t |-> now + 1]]
      BY <2>3, <3>2
    <3>4. UserView!Placed(disk, disk', n) /\ disk'[n].c = disk[n].c
      BY <3>2, <3>3, <1>1, PlacedFile
    <3> QED
      BY <3>4, <2>1, <2>3 DEF UserView!Write, UserView!Exists, Exists
  <2> QED
    BY <2>2, <2>3, <1>3 DEF UserWrite
<1>4. ASSUME NEW n \in Names, UserErase(n)
      PROVE  UserView!Erase(n)
  BY <1>4 DEF UserErase, UserView!Erase, UserView!Absent, Absent
<1>5. ASSUME NEW n \in Names, Join(n)
      PROVE  UserView!Add
  BY <1>5 DEF Join, UserView!Add
<1>6. ASSUME NEW n \in Names, RemoteWrite(n)
      PROVE  UserView!Elsewhere(n)
  <2>1. UserView!Placed(server, server', n)
    BY <1>6, <1>1, PlacedFile DEF RemoteWrite
  <2> QED
    BY <2>1, <1>6 DEF RemoteWrite, UserView!Elsewhere
<1>7. ASSUME NEW n \in Names, RemoteDelete(n)
      PROVE  UserView!Elsewhere(n)
  BY <1>7 DEF RemoteDelete, UserView!Elsewhere, UserView!Absent, Absent
<1> QED
  BY <1>2, <1>3, <1>4, <1>5, <1>6, <1>7 DEF User, Remote, UserView!Edit

\* A request is asked for, or changes nothing yet.
LEMMA RequestViewStep ==
    ASSUME NEW s \in Slots, Request(s)
    PROVE  ViewUnchanged \/ \E n \in Names : UserView!Ask(n)
<1>1. CASE \E n \in Names : StartRemove(s, n) \/ \E m \in Names : StartRename(s, n, m)
  BY <1>1 DEF StartRemove, StartRename, UserView!Ask
<1>2. CASE \/ StartUpdate(s) \/ StartCommit(s, "commit", Names)
           \/ \E n \in Names : StartUpdateFile(s, n) \/ StartCommit(s, "commit_file", {n})
  BY <1>2 DEF StartUpdate, StartUpdateFile, StartCommit, ViewUnchanged
<1> QED
  BY <1>1, <1>2 DEF Request

\* The local directory changes by what an update brings or finds gone, and by what
\* the user asked for.
LEMMA DiskViewStep ==
    ASSUME EditsInv, EndsInv, NEW s \in Slots,
           FsDone(s) \/ UpdateListed(s) \/ ReadEnds(s)
    PROVE  UserView!Next
<1> DEFINE r == sess[s]
<1>1. /\ r \in Session /\ HasFile(r) /\ disk \in [Names -> File]
      /\ server \in [Names -> File] /\ now \in Nat /\ KnownEntity(r.ent, disk, unsent, now)
      /\ SessionEnds(r, asked)
  BY DEF EditsInv, TypeOK, AllKnown, KnownSession, EndsInv, AllEnds
<1>2. CASE FsDone(s)
  <2>1. /\ r.pc = "fs" /\ r.cur \in asked /\ r.cur \in Names
        /\ r.op = "rename" => r.to \in Names \ {r.cur}
    BY <1>1, <1>2 DEF FsDone, HasFile, SessionEnds
  <2>2. UNCHANGED <<server, kept, asked, edits>>
    BY <1>2 DEF FsDone
  <2>3. CASE /\ disk' = [disk EXCEPT ![r.cur] = Absent]
             /\ unsent' = unsent \ {disk[r.cur].c}
    <3>1. UserView!Remove(r.cur)
      BY <2>1, <2>2, <2>3 DEF UserView!Remove, UserView!Absent, Absent
    <3> QED
      BY <3>1, <2>1 DEF UserView!Next
  <2>4. CASE /\ r.op = "rename" /\ Exists(disk[r.cur])
             /\ disk' = [disk EXCEPT ![r.to] = disk[r.cur], ![r.cur] = Absent]
             /\ unsent' = unsent \ ({disk[r.to].c} \ {disk[r.cur].c})
    <3>1. UserView!Move(r.cur, r.to)
      BY <2>1, <2>2, <2>4 DEF UserView!Move, UserView!Absent, Absent, UserView!Exists,
                              Exists
    <3> QED
      BY <3>1, <2>1, <2>4 DEF UserView!Next
  <2> QED
    BY <2>3, <2>4, <1>2 DEF FsDone
<1>3. CASE UpdateListed(s)
  <2> DEFINE l == Listing(r, TRUE)
             S == {n \in Names : n \in Pruned(l) /\ Untouched(l.ent, n, disk)}
  <2>1. disk' = SafeRm(l, disk) /\ UNCHANGED <<server, kept, unsent, asked, edits>>
    BY <1>3 DEF UpdateListed
  <2>2. l.ent = r.ent
    BY <1>1 DEF Listing, Session
  <2>3. \A n \in S : ~UserView!Unsent(disk[n])
    BY <2>2, <1>1, UntouchedSent DEF UserView!Unsent
  <2>4. disk' = [n \in Names |-> IF n \in S THEN UserView!Absent ELSE disk[n]]
    BY <2>1 DEF SafeRm, Absent, UserView!Absent
  <2> HIDE DEF S
  <2>5. UserView!Prune(S)
    BY <2>1, <2>3, <2>4 DEF UserView!Prune
  <2>6. S \in SUBSET Names
    BY DEF S
  <2> QED
    BY <2>5, <2>6 DEF UserView!Next
<1>4. CASE ReadEnds(s)
  <2> DEFINE n == r.cur
  <2>1. r.pc = "recv" /\ n \in Names
    BY <1>1, <1>4 DEF ReadEnds, HasFile
  <2>2. /\ \E c \in Transferred(r, server[n]), time \in {now + 1, now + 2} :
              disk' = [disk EXCEPT ![n] = [c |-> c, t |-> time]]
        /\ kept' = kept \cup SetAside(r, disk)
        /\ UNCHANGED <<server, unsent, asked, edits>>
    BY <1>4 DEF ReadEnds
  <2>3. Transferred(r, server[n]) \subseteq Nat
    BY <2>1, <1>1 DEF Transferred, File, Session
  <2>4. UserView!Placed(disk, disk', n)
    <3>1. PICK c \in Transferred(r, server[n]), time \in {now + 1, now + 2} :
              disk' = [disk EXCEPT ![n] = [c |-> c, t |-> time]]
      BY <2>2
    <3>2. c \in Nat /\ time \in Nat /\ time # 0
      BY <2>3, <3>1, <1>1
    <3> QED
      BY <3>1, <3>2, <2>1, <1>1, PlacedFile
  <2>5. Exists(disk[n]) /\ disk[n].c \in unsent => disk[n].c \in SetAside(r, disk)
    BY <2>1, <1>1, UntouchedSent DEF SetAside
  <2>6. UserView!Fetch(n)
    BY <2>2, <2>4, <2>5 DEF UserView!Fetch, UserView!Unsent, UserView!Exists, Exists
  <2> QED
    BY <2>1, <2>6 DEF UserView!Next
<1> QED
  BY <1>2, <1>3, <1>4

\* The server changes by what a commit sends, whole or in part, and deletes.
LEMMA ServerViewStep ==
    ASSUME EditsInv, MarksInv, NEW s \in Slots, Sent(s) \/ SendFails(s) \/ RmDone(s)
    PROVE  ViewUnchanged \/ UserView!Next
<1> DEFINE r == sess[s]
           n == r.cur
<1>1. /\ r \in Session /\ HasFile(r) /\ disk \in [Names -> File]
      /\ server \in [Names -> File] /\ now \in Nat /\ now + 1 \in Nat /\ now + 1 # 0
      /\ \A c \in unsent : c <= now
      /\ SessionMarks(r, asked)
  BY DEF EditsInv, TypeOK, World, Bounded, MarksInv, AllMarks
<1>2. n \in Names
  BY <1>1 DEF Sent, SendFails, RmDone, HasFile
<1>3. ASSUME NEW c \in Nat, unsent' = unsent \ {c},
             server' = [server EXCEPT ![n] = [c |-> c, t |-> now + 1]],
             UNCHANGED <<disk, kept, asked, edits>>
      PROVE  UserView!Next
  <2>1. UserView!Placed(server, server', n) /\ server'[n].c = c
    BY <1>1, <1>2, <1>3, PlacedFile
  <2>2. UserView!Send(n)
    BY <2>1, <1>3 DEF UserView!Send
  <2> QED
    BY <2>2, <1>2 DEF UserView!Next
<1>4. CASE Sent(s)
  <2>1. Transferred(r, disk[n]) \subseteq Nat
    BY <1>1, <1>2 DEF Transferred, File, Session
  <2>2. /\ \E c \in Transferred(r, disk[n]) :
              /\ server' = [server EXCEPT ![n] = [c |-> c, t |-> now + 1]]
              /\ unsent' = unsent \ {c}
        /\ UNCHANGED <<disk, kept, asked, edits>>
    BY <1>4 DEF Sent
  <2> QED
    BY <2>1, <2>2, <1>3
<1>5. CASE SendFails(s)
  <2>1. UNCHANGED <<disk, kept, unsent, asked, edits>>
    BY <1>5 DEF SendFails
  <2>2. CASE server' = server
    BY <2>1, <2>2 DEF ViewUnchanged
  <2>3. CASE server' = [server EXCEPT ![n] = [c |-> now + 1, t |-> now + 1]]
    <3>1. now + 1 \notin unsent /\ now + 1 \in Nat
      BY <1>1
    <3>2. unsent' = unsent \ {now + 1}
      BY <3>1, <2>1
    <3> QED
      BY <3>1, <3>2, <2>1, <2>3, <1>3
  <2> QED
    BY <2>2, <2>3, <1>5 DEF SendFails
<1>6. CASE RmDone(s)
  <2>1. /\ r.pc = "rm" /\ server' = [server EXCEPT ![n] = Absent]
        /\ UNCHANGED <<disk, kept, unsent, asked, edits>>
    BY <1>6 DEF RmDone
  <2>2. UserView!Delete(n)
    BY <2>1, <1>1 DEF SessionMarks, UserView!Delete, UserView!Absent, Absent
  <2> QED
    BY <2>2, <1>2 DEF UserView!Next
<1> QED
  BY <1>4, <1>5, <1>6

LEMMA ViewStep ==
    ASSUME EditsInv, EndsInv, [Next]_vars
    PROVE  UserView!Next \/ ViewUnchanged
<1>1. CASE UNCHANGED vars
  BY <1>1 DEF vars, ViewUnchanged
<1>2. CASE User \/ Remote
  BY <1>2, UserViewStep DEF EditsInv, UserView!Next
<1>3. ASSUME NEW s \in Slots, Request(s)
      PROVE  UserView!Next \/ ViewUnchanged
  BY <1>3, RequestViewStep DEF UserView!Next
<1>4. ASSUME NEW s \in Slots, Progress(s)
      PROVE  UserView!Next \/ ViewUnchanged
  <2>1. CASE FsDone(s) \/ UpdateListed(s) \/ ReadEnds(s)
    BY <2>1, DiskViewStep
  <2>2. CASE Sent(s) \/ SendFails(s) \/ RmDone(s)
    BY <2>2, ServerViewStep DEF EndsInv
  <2>3. CASE FsFails(s) \/ FileStated(s) \/ UpdateListFails(s) \/ ReadOpens(s)
             \/ ReadFails(s) \/ CommitListed(s) \/ RmFails(s)
    BY <2>3 DEF FsFails, FileStated, UpdateListFails, ReadOpens, ReadFails,
                CommitListed, RmFails, ViewUnchanged
  <2> QED
    BY <2>1, <2>2, <2>3, <1>4 DEF Progress
<1>5. CASE Crash \/ \E s \in Slots : Cancel(s)
  BY <1>5 DEF Crash, Cancel, CancelSync, CancelRemove, ViewUnchanged
<1> QED
  BY <1>1, <1>2, <1>3, <1>4, <1>5 DEF Next

\* The synchronisation implements what the user may rely on: whatever operations,
\* entities, failures and crashes are behind it, a step takes nothing away that is
\* unsent, and deletes, removes and moves only what was asked for.
THEOREM PromiseKept == Spec => KeepsPromise
<1>1. EditsInv /\ EndsInv /\ [Next]_vars => [UserView!Next]_(UserView!vars)
  BY ViewStep DEF ViewUnchanged, UserView!vars
<1> QED
  BY <1>1, InitView, InitEdits, EditsStep, InitEnds, EndsStep, PTL
     DEF Spec, KeepsPromise, UserView!Spec

(***************************************************************************)
(* What the promise is worth                                               *)
(***************************************************************************)

\* Every unsent content is in a file, in the user's view.
ViewInv == /\ disk \in [Names -> File]
           /\ NoLostEdit

LEMMA ViewKept == ViewInv /\ [UserView!Next]_(UserView!vars) => ViewInv'
<1> SUFFICES ASSUME ViewInv, [UserView!Next]_(UserView!vars) PROVE ViewInv'
  OBVIOUS
<1> DEFINE In(c, d) == \E m \in Names : Exists(d[m]) /\ d[m].c = c
<1>1. disk \in [Names -> File] /\ \A c \in unsent : c \in kept \/ In(c, disk)
  BY DEF ViewInv, NoLostEdit
<1>2. Absent \in File /\ UserView!Absent = Absent /\ UserView!File = File
      /\ \A f : UserView!Exists(f) <=> Exists(f)
  BY DEF Absent, UserView!Absent, File, UserView!File, Exists, UserView!Exists
\* What a step has to show: the files stay files, and the contents stay somewhere.
<1>3. ASSUME disk' \in [Names -> File], \A c \in unsent' : c \in kept' \/ In(c, disk')
      PROVE  ViewInv'
  BY <1>3 DEF ViewInv, NoLostEdit
\* A file that takes a place hides no other.
<1>4. ASSUME NEW n \in Names, NEW f \in File, disk' = [disk EXCEPT ![n] = f]
      PROVE  /\ disk' \in [Names -> File] /\ disk'[n] = f
             /\ \A c : In(c, disk) /\ c # disk[n].c => In(c, disk')
  BY <1>4, <1>1
<1>5. CASE UNCHANGED <<disk, kept, unsent>>
  BY <1>5, <1>1, <1>3
<1>6. ASSUME NEW n \in Names, UserView!Write(n)
      PROVE  ViewInv'
  <2>1. disk'[n] \in File /\ Exists(disk'[n]) /\ disk' = [disk EXCEPT ![n] = disk'[n]]
    BY <1>6, <1>2 DEF UserView!Write, UserView!Placed
  <2>2. /\ disk' \in [Names -> File] /\ In(disk'[n].c, disk')
        /\ \A c : In(c, disk) /\ c # disk[n].c => In(c, disk')
    BY <2>1, <1>4
  <2>3. /\ kept' = kept
        /\ \/ disk'[n].c = disk[n].c /\ unsent' = unsent
           \/ unsent' = (unsent \ {disk[n].c}) \cup {disk'[n].c}
    BY <1>6 DEF UserView!Write
  <2> HIDE DEF In
  <2> QED
    BY <2>2, <2>3, <1>1, <1>3
\* The file that goes has nothing unsent, or what it has counts no more.
<1>7. ASSUME NEW n \in Names, disk' = [disk EXCEPT ![n] = Absent],
             unsent' = unsent \ {disk[n].c}, kept' = kept
      PROVE  ViewInv'
  <2>1. /\ disk' \in [Names -> File]
        /\ \A c : In(c, disk) /\ c # disk[n].c => In(c, disk')
    BY <1>2, <1>4, <1>7
  <2> HIDE DEF In
  <2> QED
    BY <2>1, <1>1, <1>3, <1>7
<1>8. ASSUME NEW n \in Names, UserView!Fetch(n)
      PROVE  ViewInv'
  <2>1. disk'[n] \in File /\ disk' = [disk EXCEPT ![n] = disk'[n]]
    BY <1>8, <1>2 DEF UserView!Fetch, UserView!Placed
  <2>2. /\ disk' \in [Names -> File]
        /\ \A c : In(c, disk) /\ c # disk[n].c => In(c, disk')
    BY <2>1, <1>4
  <2>3. /\ unsent' = unsent /\ kept \subseteq kept'
        /\ Exists(disk[n]) /\ disk[n].c \in unsent => disk[n].c \in kept'
    BY <1>8, <1>2 DEF UserView!Fetch, UserView!Unsent
  <2>4. ASSUME NEW c \in unsent, c \notin kept'
        PROVE  In(c, disk')
    <3>1. PICK m \in Names : Exists(disk[m]) /\ disk[m].c = c
      BY <2>3, <2>4, <1>1
    <3>2. m # n
      BY <3>1, <2>3, <2>4
    <3> QED
      BY <3>1, <3>2, <2>1, <1>1
  <2> HIDE DEF In
  <2> QED
    BY <2>2, <2>3, <2>4, <1>3
<1>9. ASSUME NEW S \in SUBSET Names, UserView!Prune(S)
      PROVE  ViewInv'
  <2>1. /\ disk' = [n \in Names |-> IF n \in S THEN Absent ELSE disk[n]]
        /\ unsent' = unsent /\ kept' = kept
        /\ \A n \in S : ~(Exists(disk[n]) /\ disk[n].c \in unsent)
    BY <1>9, <1>2 DEF UserView!Prune, UserView!Unsent
  <2>2. disk' \in [Names -> File]
    BY <2>1, <1>1, <1>2
  <2>3. ASSUME NEW c \in unsent, c \notin kept
        PROVE  In(c, disk')
    <3>1. PICK m \in Names : Exists(disk[m]) /\ disk[m].c = c
      BY <2>3, <1>1
    <3> QED
      BY <3>1, <2>1
  <2> HIDE DEF In
  <2> QED
    BY <2>1, <2>2, <2>3, <1>3
<1>10. ASSUME NEW n \in Names, NEW m \in Names \ {n}, UserView!Move(n, m)
       PROVE  ViewInv'
  <2>1. /\ disk' = [disk EXCEPT ![m] = disk[n], ![n] = Absent] /\ kept' = kept
        /\ unsent' = unsent \ ({disk[m].c} \ {disk[n].c}) /\ Exists(disk[n])
    BY <1>10, <1>2 DEF UserView!Move
  <2>2. /\ disk' \in [Names -> File] /\ disk'[m] = disk[n]
        /\ \A k \in Names \ {n, m} : disk'[k] = disk[k]
    BY <2>1, <1>1, <1>2
  <2>3. ASSUME NEW c \in unsent', c \notin kept
        PROVE  In(c, disk')
    <3>1. PICK k \in Names : Exists(disk[k]) /\ disk[k].c = c
      BY <2>1, <2>3, <1>1
    <3>2. CASE c = disk[n].c
      BY <3>2, <2>1, <2>2
    <3>3. CASE c # disk[n].c
      BY <3>1, <3>3, <2>1, <2>2, <2>3
    <3> QED
      BY <3>2, <3>3
  <2> HIDE DEF In
  <2> QED
    BY <2>1, <2>2, <2>3, <1>3
<1>11. ASSUME NEW n \in Names, UserView!Send(n)
       PROVE  ViewInv'
  <2>1. disk' = disk /\ kept' = kept /\ unsent' \subseteq unsent
    BY <1>11 DEF UserView!Send
  <2> HIDE DEF In
  <2> QED
    BY <2>1, <1>1, <1>3
<1>12. CASE UserView!Edit
  BY <1>12, <1>2, <1>5, <1>6, <1>7 DEF UserView!Edit, UserView!Add, UserView!Erase,
                                       UserView!Elsewhere
<1>13. CASE UserView!Next
  <2>1. ASSUME NEW n \in Names, UserView!Remove(n) PROVE ViewInv'
    BY <2>1, <1>2, <1>7 DEF UserView!Remove
  <2>2. ASSUME NEW n \in Names, UserView!Ask(n) \/ UserView!Delete(n) PROVE ViewInv'
    BY <2>2, <1>5 DEF UserView!Ask, UserView!Delete
  <2> QED
    BY <2>1, <2>2, <1>8, <1>9, <1>10, <1>11, <1>12, <1>13 DEF UserView!Next
<1>14. CASE UNCHANGED UserView!vars
  BY <1>14, <1>5 DEF UserView!vars
<1> QED
  BY <1>13, <1>14

\* The promise alone, without the code, means that no edit is lost.
THEOREM PromiseKeepsEdits == UserView!Spec => []NoLostEdit
<1>1. UserView!Init => ViewInv
  BY DEF UserView!Init, ViewInv, NoLostEdit, UserView!File, File
<1>2. ViewInv => NoLostEdit
  BY DEF ViewInv
<1> QED
  BY <1>1, <1>2, ViewKept, PTL DEF UserView!Spec
=============================================================================
