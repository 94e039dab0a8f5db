-------------------------- MODULE NativeSvn_proofs --------------------------
(***************************************************************************)
(* The safety of NativeSvn for any set of requests: types, what is kept    *)
(* for a thread until its result is taken, what a client is told, and that *)
(* no request is answered twice.                                           *)
(***************************************************************************)
EXTENDS NativeSvn, SequenceTheorems, TLAPS

(***************************************************************************)
(* Objects.                                                                *)
(***************************************************************************)
LEMMA ObjectType ==
    ASSUME NEW o \in Object
    PROVE  /\ NativeRelease(o) \in Object
           /\ Cancel(o) \in Object
           /\ Released(o) \in Object
           /\ Settled(o) \in Object
           /\ Settled(Released(o)) \in Object
<1> DEFINE p == [o EXCEPT !.anchor = FALSE]
<1>1. \A x \in Object : NativeRelease(x) \in Object
  <2> TAKE x \in Object
  <2>1. CASE x.pool /\ x.async
    BY <2>1 DEF NativeRelease, Object
  <2>2. CASE x.pool /\ ~x.async
    BY <2>2 DEF NativeRelease, Object
  <2>3. CASE ~x.pool
    BY <2>3 DEF NativeRelease, Object
  <2> QED  BY <2>1, <2>2, <2>3 DEF Object
<1>2. \A x \in Object : Cancel(x) \in Object
  BY DEF Cancel, Object
<1>3. \A x \in Object : [x EXCEPT !.anchor = FALSE] \in Object
  BY DEF Object
<1>4. \A x \in Object : Released(x) \in Object
  BY <1>1, <1>2, <1>3 DEF Released
<1>5. \A x \in Object : [x EXCEPT !.async = FALSE] \in Object
  BY DEF Object
<1>6. \A x \in Object : Settled(x) \in Object
  BY <1>1, <1>5 DEF Settled
<1> QED
  BY <1>1, <1>2, <1>4, <1>6

LEMMA MadeType ==
    /\ Unmade \in Object
    /\ Loaded \in Object
    /\ [Loaded EXCEPT !.async = TRUE] \in Object
    /\ Spent \in Object
    /\ \A r \in Reqs : LateOf(r) \subseteq Object
<1>1. Unmade \in Object /\ Loaded \in Object
  BY DEF Unmade, Loaded, Object
<1>2. [Loaded EXCEPT !.async = TRUE] \in Object
  BY DEF Unmade, Loaded, Object
<1>3. Spent \in Object
  BY <1>1, ObjectType DEF Spent
<1>4. \A r \in Reqs : LateOf(r) \subseteq {Unmade, Spent, Loaded}
  BY DEF LateOf
<1> QED
  BY <1>1, <1>2, <1>3, <1>4

LEMMA ReqsOfObjs == \A r \in Reqs : Own(r) \in Objs /\ Late(r) \in Objs /\ Own(r) # Late(r)
BY DEF Own, Late, Objs

LEMMA QueueType ==
    ASSUME NEW r \in Reqs, NEW what \in {"result", "log"}, queue \in Seq(Item)
    PROVE  /\ Append(queue, [req |-> r, what |-> what]) \in Seq(Item)
           /\ queue # <<>> => Tail(queue) \in Seq(Item)
<1>1. [req |-> r, what |-> what] \in Item
  BY DEF Item
<1> QED  BY <1>1

LEMMA AnswerType ==
    ASSUME NEW r \in Reqs, NEW a \in Told, answers \in [Reqs -> Seq(Told)], Answer(r, a)
    PROVE  answers' \in [Reqs -> Seq(Told)]
BY DEF Answer

(***************************************************************************)
(* Types.                                                                  *)
(***************************************************************************)
LEMMA ClientType ==
    ASSUME TypeOK, NEW r \in Reqs, Client(r)
    PROVE  TypeOK'
<1> USE MadeType, ReqsOfObjs
<1>1. ASSUME NEW k \in AsyncKinds, StartOp(r, k) PROVE TypeOK'
  BY <1>1 DEF TypeOK, StartOp, Kinds, Threads
<1>2. ASSUME NEW k \in AsyncKinds, Refuse(r, k) PROVE TypeOK'
  <2>1. PICK a \in Told : Answer(r, a)
    BY <1>2 DEF Refuse, Told
  <2> QED  BY <1>2, <2>1, AnswerType DEF TypeOK, Refuse, Kinds
<1>3. CASE StartMove(r)
  BY <1>3 DEF TypeOK, StartMove, Kinds
<1>4. CASE StatCodes(r)
  <2>1. "done" \in Told /\ Answer(r, "done")
    BY <1>4 DEF StatCodes, Told
  <2> QED  BY <1>4, <2>1, AnswerType DEF TypeOK, StatCodes, Kinds
<1>5. CASE Stop(r)
  <2>1. Cancel(obj[Own(r)]) \in Object
    BY ObjectType DEF TypeOK
  <2> QED  BY <1>5, <2>1 DEF TypeOK, Stop
<1> QED
  BY <1>1, <1>2, <1>3, <1>4, <1>5 DEF Client

LEMMA PushResultType ==
    ASSUME TypeOK, NEW r \in Reqs, NEW how \in Outcomes, PushResult(r, how),
           obj' \in [Objs -> Object]
    PROVE  TypeOK'
<1>1. queue' \in Seq(Item)
  BY QueueType DEF PushResult, Push, TypeOK
<1>2. wc' \in BOOLEAN
  BY DEF PushResult, TypeOK
<1>3. thread' \in [Reqs -> Threads] /\ outcome' \in [Reqs -> Outcomes]
  BY DEF PushResult, Move, TypeOK, Threads
<1> QED
  BY <1>1, <1>2, <1>3 DEF PushResult, TypeOK

LEMMA WorkerType ==
    ASSUME TypeOK, NEW r \in Reqs, Worker(r)
    PROVE  TypeOK'
<1>1. CASE Enter(r)
  BY <1>1 DEF TypeOK, Enter, Move, Threads
<1>2. CASE Ends(r)
  <2>1. PICK how \in {"ok", "error"} : PushResult(r, how)
    BY <1>2 DEF Ends
  <2> QED  BY <1>2, <2>1, PushResultType DEF Ends, Outcomes, TypeOK
<1>3. CASE Cancelled(r)
  <2>1. [obj[Own(r)] EXCEPT !.flag = FALSE] \in Object
    BY ReqsOfObjs DEF TypeOK, Object
  <2>2. obj' \in [Objs -> Object]
    BY <1>3, <2>1 DEF Cancelled, TypeOK
  <2> QED  BY <1>3, <2>2, PushResultType DEF Cancelled, Outcomes
<1>4. CASE ListFull(r)
  BY <1>4, PushResultType DEF ListFull, Outcomes, TypeOK
<1>5. CASE FreeChild(r)
  BY <1>5 DEF TypeOK, FreeChild, Move, Threads
<1>6. CASE Leave(r)
  <2>1. queue' \in Seq(Item)
    BY <1>6, QueueType DEF Leave, Push, TypeOK
  <2> QED  BY <1>6, <2>1 DEF TypeOK, Leave, Move, Threads
<1> QED
  BY <1>1, <1>2, <1>3, <1>4, <1>5, <1>6 DEF Worker

LEMMA MainType ==
    ASSUME TypeOK, NEW r \in Reqs, Main(r) \/ Moved(r)
    PROVE  TypeOK'
<1> USE ReqsOfObjs
<1>1. Tail(queue) \in Seq(Item) \/ queue = <<>>
  BY QueueType DEF TypeOK
<1>2. CASE Callback(r)
  <2>1. answers' \in [Reqs -> Seq(Told)]
    BY <1>2, AnswerType DEF Callback, Reported, Told, TypeOK
  <2>2. obj' \in [Objs -> Object]
    <3>1. PICK late \in LateOf(r) :
             obj' = [obj EXCEPT ![Own(r)] = Settled(IF r \in mapped THEN Released(@) ELSE @),
                                ![Late(r)] = late]
      BY <1>2 DEF Callback
    <3>2. Settled(IF r \in mapped THEN Released(obj[Own(r)]) ELSE obj[Own(r)]) \in Object
      BY ObjectType DEF TypeOK
    <3> QED  BY <3>1, <3>2, MadeType DEF TypeOK
  <2> QED  BY <1>1, <1>2, <2>1, <2>2 DEF Callback, NextIs, TypeOK
<1>3. CASE CallbackRename(r)
  <2>1. Settled(obj[Own(r)]) \in Object
    BY ObjectType DEF TypeOK
  <2> QED  BY <1>1, <1>3, <2>1 DEF CallbackRename, NextIs, TypeOK
<1>4. CASE TakeLog(r)
  BY <1>1, <1>4 DEF TakeLog, NextIs, TypeOK
<1>5. CASE Moved(r)
  <2>1. Released(obj[Own(r)]) \in Object
    BY ObjectType DEF TypeOK
  <2>2. answers' \in [Reqs -> Seq(Told)]
    BY <1>5, AnswerType DEF Moved, Told, TypeOK
  <2>3. obj' \in [Objs -> Object]
    BY <1>5, <2>1, MadeType DEF Moved, TypeOK
  <2> QED  BY <1>5, <2>2, <2>3 DEF Moved, TypeOK
<1> QED
  BY <1>2, <1>3, <1>4, <1>5 DEF Main

LEMMA CollectType ==
    ASSUME TypeOK, NEW o \in Objs, Collect(o)
    PROVE  TypeOK'
<1>1. NativeRelease(obj[o]) \in Object
  BY ObjectType DEF TypeOK
<1>2. [NativeRelease(obj[o]) EXCEPT !.life = "freed"] \in Object
  BY <1>1 DEF Object
<1> QED  BY <1>2 DEF Collect, TypeOK

LEMMA TypeInit == Init => TypeOK
BY MadeType DEF Init, TypeOK, Threads, Outcomes

LEMMA TypeStep == TypeOK /\ [Next]_vars => TypeOK'
<1>1. ASSUME TypeOK, UNCHANGED vars PROVE TypeOK'
  BY <1>1 DEF TypeOK, vars
<1> QED
  BY <1>1, ClientType, WorkerType, MainType, CollectType DEF Next

\* The state of requests, objects, threads and queue is well typed.
THEOREM SvnTypes == Spec => []TypeOK
BY TypeInit, TypeStep, PTL DEF Spec

(***************************************************************************)
(* The inductive invariant. It follows a request from its thread to the    *)
(* run queue and, for a rename, to the file system: in one of them at a    *)
(* time, and with nothing answered until it has left the last.             *)
(***************************************************************************)
Justified(q) ==
    /\ outcome[q] \in {"ok", "error", "cancel"}
    /\ outcome[q] = "cancel" => q \in stopped \/ kind[q] = "conflicts"

Unasked(q) == kind[q] = "none" =>
    thread[q] = "none" /\ answers[q] = <<>> /\ q \notin moving /\ ~Pending(q) /\ outcome[q] = "none"

Running(q) == thread[q] \in {"new", "work"} =>
    /\ kind[q] \in AsyncKinds /\ answers[q] = <<>> /\ q \notin moving
    /\ ~Pending(q) /\ outcome[q] = "none"
    /\ obj[Own(q)].flag => q \in stopped

Ended(q) == Pending(q) =>
    /\ thread[q] \in {"child", "tail", "gone"}
    /\ kind[q] \in AsyncKinds /\ answers[q] = <<>> /\ q \notin moving /\ Justified(q)

InFs(q) == q \in moving =>
    /\ kind[q] # "none" /\ answers[q] = <<>> /\ thread[q] \notin {"new", "work"}
    /\ outcome[q] = "ok" \/ (outcome[q] = "none" /\ kind[q] = "move")

KeptOf(q) == thread[q] \in {"new", "work"} \/ Pending(q) =>
    obj[Own(q)].life = "live" /\ obj[Own(q)].pool /\ obj[Own(q)].anchor /\ obj[Own(q)].async

WasDone(q) ==
    \/ outcome[q] = "ok"
    \/ outcome[q] = "cancel" /\ (q \in stopped \/ kind[q] = "conflicts")
    \/ outcome[q] = "error" /\ kind[q] = "checkout"
    \/ outcome[q] = "none" /\ kind[q] \in {"stat", "move"}
    \/ outcome[q] = "none" /\ kind[q] = "commit" /\ ~high

Replied(q) ==
    /\ answers[q] = <<>> \/ answers[q] = <<"error">> \/ answers[q] = <<"done">>
    /\ answers[q] = <<"done">> => WasDone(q)

ReqInv(q) == Unasked(q) /\ Running(q) /\ Ended(q) /\ InFs(q) /\ KeptOf(q) /\ Replied(q)

\* No request has two results in the queue.
Once == \A i, j \in DOMAIN queue :
            queue[i] = queue[j] /\ queue[i].what = "result" => i = j

SvnInv == TypeOK /\ Once /\ \A q \in Reqs : ReqInv(q)

USE DEF Justified, Unasked, Running, Ended, InFs, KeptOf, WasDone, Replied

(***************************************************************************)
(* The queue.                                                              *)
(***************************************************************************)
LEMMA PushPending ==
    ASSUME TypeOK, Once, NEW r \in Reqs, NEW what \in {"result", "log"}, Push(r, what),
           what = "result" => ~Pending(r)
    PROVE  /\ Once'
           /\ \A q \in Reqs : Pending(q)' => Pending(q) \/ (q = r /\ what = "result")
<1> DEFINE e == [req |-> r, what |-> what]
<1>1. queue \in Seq(Item) /\ queue' = Append(queue, e) /\ e \in Item
  BY DEF TypeOK, Push, Item
<1>2. Len(queue') = Len(queue) + 1 /\ DOMAIN queue' = 1 .. Len(queue) + 1
  BY <1>1
<1>3. \A i \in 1 .. Len(queue) : queue'[i] = queue[i]
  BY <1>1
<1>4. queue'[Len(queue) + 1] = e
  BY <1>1
<1>5. DOMAIN queue = 1 .. Len(queue) /\ Len(queue) \in Nat
  BY <1>1
<1>6. \A q \in Reqs : Pending(q)' => Pending(q) \/ (q = r /\ what = "result")
  BY <1>2, <1>3, <1>4, <1>5 DEF Pending
<1>7. Once'
  <2> SUFFICES ASSUME NEW i \in 1 .. Len(queue) + 1, NEW j \in 1 .. Len(queue) + 1,
                      queue'[i] = queue'[j], queue'[i].what = "result"
               PROVE  i = j
    BY <1>2 DEF Once
  <2>1. CASE i \in 1 .. Len(queue) /\ j \in 1 .. Len(queue)
    BY <2>1, <1>3, <1>5 DEF Once
  <2>2. ASSUME NEW k \in 1 .. Len(queue), queue'[k] = e, e.what = "result" PROVE FALSE
    BY <2>2, <1>3, <1>5 DEF Pending
  <2> QED  BY <2>1, <2>2, <1>4, <1>5
<1> QED
  BY <1>6, <1>7

LEMMA PopPending ==
    ASSUME TypeOK, Once, queue # <<>>, queue' = Tail(queue)
    PROVE  /\ Once'
           /\ \A q \in Reqs : Pending(q)' => Pending(q)
           /\ \A q \in Reqs : NextIs(q, "result") => Pending(q) /\ ~Pending(q)'
<1>1. queue \in Seq(Item) /\ Len(queue) \in Nat /\ Len(queue) >= 1
  BY DEF TypeOK
<1>2. DOMAIN queue = 1 .. Len(queue) /\ DOMAIN queue' = 1 .. Len(queue) - 1
  BY <1>1
<1>3. \A i \in DOMAIN queue' : i + 1 \in DOMAIN queue /\ queue'[i] = queue[i + 1]
  BY <1>1
<1>4. 1 \in DOMAIN queue /\ Head(queue) = queue[1]
  BY <1>1
<1>5. \A q \in Reqs : Pending(q)' => Pending(q)
  BY <1>3 DEF Pending
<1>6. Once'
  BY <1>2, <1>3 DEF Once
<1>7. ASSUME NEW q \in Reqs, NextIs(q, "result") PROVE Pending(q) /\ ~Pending(q)'
  <2>1. queue[1] = [req |-> q, what |-> "result"]
    BY <1>4, <1>7 DEF NextIs
  <2>2. ASSUME NEW i \in DOMAIN queue', queue'[i] = [req |-> q, what |-> "result"]
        PROVE FALSE
    <3>1. i + 1 = 1
      BY <1>3, <1>4, <2>1, <2>2 DEF Once
    <3> QED  BY <3>1, <1>1, <1>2
  <2> QED  BY <1>4, <2>1, <2>2 DEF Pending
<1> QED
  BY <1>5, <1>6, <1>7

\* A request that a step does not concern.
LEMMA Frame ==
    ASSUME NEW q \in Reqs, ReqInv(q),
           kind'[q] = kind[q], answers'[q] = answers[q], thread'[q] = thread[q],
           outcome'[q] = outcome[q], obj'[Own(q)] = obj[Own(q)], high' = high,
           q \in moving' <=> q \in moving, q \in stopped => q \in stopped',
           Pending(q)' => Pending(q)
    PROVE  ReqInv(q)'
BY DEF ReqInv

LEMMA AnswerFirst ==
    ASSUME TypeOK, NEW r \in Reqs, answers[r] = <<>>, NEW a, Answer(r, a)
    PROVE  answers'[r] = <<a>> /\ \A q \in Reqs \ {r} : answers'[q] = answers[q]
<1>1. Append(<<>>, a) = <<a>>
  OBVIOUS
<1> QED  BY <1>1 DEF TypeOK, Answer

(***************************************************************************)
(* Steps. Each changes one request; Frame takes care of the others.        *)
(***************************************************************************)
LEMMA ClientStep ==
    ASSUME SvnInv, NEW r \in Reqs, Client(r)
    PROVE  SvnInv'
<1> USE ReqsOfObjs
<1>1. TypeOK'
  BY ClientType DEF SvnInv
<1>2. queue' = queue /\ high' = high /\ stopped \subseteq stopped'
  BY DEF Client, StartOp, Refuse, StartMove, StatCodes, Stop
<1>3. Once' /\ \A q \in Reqs : Pending(q)' <=> Pending(q)
  BY <1>2 DEF SvnInv, Once, Pending
<1>4. ASSUME NEW q \in Reqs \ {r} PROVE ReqInv(q)'
  <2>1. /\ kind'[q] = kind[q] /\ answers'[q] = answers[q] /\ thread'[q] = thread[q]
        /\ outcome'[q] = outcome[q] /\ obj'[Own(q)] = obj[Own(q)]
        /\ q \in moving' <=> q \in moving
    BY DEF SvnInv, TypeOK, Client, StartOp, Refuse, StartMove, StatCodes, Stop, Answer, Own, Late
  <2> QED  BY <1>2, <1>3, <2>1, Frame DEF SvnInv
<1>5. ReqInv(r)'
  <2> USE DEF SvnInv, ReqInv, TypeOK
  <2>1. ASSUME NEW k \in AsyncKinds, StartOp(r, k) PROVE ReqInv(r)'
    <3>1. obj'[Own(r)] = [Loaded EXCEPT !.async = TRUE]
      BY <2>1 DEF StartOp
    <3>2. obj'[Own(r)].life = "live" /\ obj'[Own(r)].pool /\ obj'[Own(r)].anchor
          /\ obj'[Own(r)].async /\ ~obj'[Own(r)].flag
      BY <3>1 DEF Loaded, Unmade
    <3>3. "none" \notin AsyncKinds
      BY DEF AsyncKinds
    <3> QED  BY <2>1, <1>3, <3>2, <3>3 DEF StartOp
  <2>2. ASSUME NEW k \in AsyncKinds, Refuse(r, k) PROVE ReqInv(r)'
    <3>1. kind[r] = "none" /\ kind'[r] = k /\ k # "none"
      BY <2>2 DEF Refuse, AsyncKinds
    <3>2. answers'[r] = <<IF k = "commit" /\ ~high THEN "done" ELSE "error">>
      BY <2>2, <3>1, AnswerFirst DEF Refuse
    <3>3. answers'[r] = <<"error">> \/ (answers'[r] = <<"done">> /\ k = "commit" /\ ~high)
      BY <3>2
    <3>4. thread'[r] = "none" /\ outcome'[r] = "none" /\ r \notin moving' /\ ~Pending(r)'
      BY <2>2, <3>1, <1>3 DEF Refuse
    <3> QED  BY <3>1, <3>3, <3>4, <1>2
  <2>3. CASE StartMove(r)
    BY <2>3, <1>2, <1>3 DEF StartMove
  <2>4. CASE StatCodes(r)
    <3>1. answers'[r] = <<"done">>
      BY <2>4, AnswerFirst DEF StatCodes
    <3>2. kind'[r] = "stat" /\ thread'[r] = "none" /\ outcome'[r] = "none" /\ r \notin moving'
          /\ ~Pending(r)'
      BY <2>4, <1>3 DEF StatCodes
    <3> QED  BY <3>1, <3>2
  <2>5. CASE Stop(r)
    <3>1. obj'[Own(r)] = Cancel(obj[Own(r)]) /\ obj[Own(r)] \in Object
      BY <2>5 DEF Stop
    <3>2. obj'[Own(r)].life = obj[Own(r)].life /\ obj'[Own(r)].pool = obj[Own(r)].pool
          /\ obj'[Own(r)].anchor = obj[Own(r)].anchor /\ obj'[Own(r)].async = obj[Own(r)].async
      BY <3>1 DEF Cancel, Object
    <3> QED  BY <2>5, <3>2, <1>2, <1>3 DEF Stop
  <2> QED  BY <2>1, <2>2, <2>3, <2>4, <2>5 DEF Client
<1> QED
  BY <1>1, <1>3, <1>4, <1>5 DEF SvnInv

\* The thread of r hands over its result, with the flag used or not.
LEMMA PushResultStep ==
    ASSUME SvnInv, NEW r \in Reqs, NEW how \in {"ok", "error", "cancel"},
           PushResult(r, how), TypeOK',
           how = "cancel" => r \in stopped \/ kind[r] = "conflicts",
           \A q \in Reqs \ {r} : obj'[Own(q)] = obj[Own(q)],
           /\ obj'[Own(r)].life = obj[Own(r)].life /\ obj'[Own(r)].pool = obj[Own(r)].pool
           /\ obj'[Own(r)].anchor = obj[Own(r)].anchor /\ obj'[Own(r)].async = obj[Own(r)].async
    PROVE  SvnInv'
<1>1. thread[r] = "work" /\ thread' = [thread EXCEPT ![r] = "child"]
  BY DEF PushResult, Move
<1>2. ~Pending(r)
  BY <1>1 DEF SvnInv, ReqInv
<1>3. Once' /\ \A q \in Reqs \ {r} : Pending(q)' => Pending(q)
  BY <1>2, PushPending DEF SvnInv, PushResult
<1>4. ASSUME NEW q \in Reqs \ {r} PROVE ReqInv(q)'
  BY <1>1, <1>3, Frame DEF SvnInv, PushResult, TypeOK
<1>5. ReqInv(r)'
  <2>1. /\ kind'[r] = kind[r] /\ kind[r] \in AsyncKinds /\ answers'[r] = <<>>
        /\ r \notin moving' /\ outcome'[r] = how /\ thread'[r] = "child"
        /\ stopped' = stopped
    BY <1>1 DEF SvnInv, ReqInv, PushResult, TypeOK
  <2>2. obj[Own(r)].life = "live" /\ obj[Own(r)].pool /\ obj[Own(r)].anchor /\ obj[Own(r)].async
    BY <1>1 DEF SvnInv, ReqInv
  <2>3. "none" \notin AsyncKinds
    BY DEF AsyncKinds
  <2> QED  BY <2>1, <2>2, <2>3 DEF ReqInv
<1> QED
  BY <1>3, <1>4, <1>5 DEF SvnInv

LEMMA WorkerStep ==
    ASSUME SvnInv, NEW r \in Reqs, Worker(r)
    PROVE  SvnInv'
<1>1. TypeOK'
  BY WorkerType DEF SvnInv
<1>2. CASE Ends(r) \/ ListFull(r)
  <2>1. PICK how \in {"ok", "error", "cancel"} :
           PushResult(r, how) /\ (how = "cancel" => kind[r] = "conflicts")
    BY <1>2 DEF Ends, ListFull
  <2> QED  BY <1>1, <1>2, <2>1, PushResultStep DEF Ends, ListFull
<1>3. CASE Cancelled(r)
  <2>1. obj' = [obj EXCEPT ![Own(r)].flag = FALSE] /\ obj \in [Objs -> Object]
    BY <1>3 DEF Cancelled, SvnInv, TypeOK
  <2>2. \A q \in Reqs \ {r} : obj'[Own(q)] = obj[Own(q)]
    BY <2>1, ReqsOfObjs DEF Own
  <2>3. /\ obj'[Own(r)].life = obj[Own(r)].life /\ obj'[Own(r)].pool = obj[Own(r)].pool
        /\ obj'[Own(r)].anchor = obj[Own(r)].anchor /\ obj'[Own(r)].async = obj[Own(r)].async
    BY <2>1, ReqsOfObjs DEF Object
  <2>4. r \in stopped /\ PushResult(r, "cancel")
    BY <1>3 DEF Cancelled, SvnInv, ReqInv, PushResult, Move
  <2> QED  BY <1>1, <2>2, <2>3, <2>4, PushResultStep
<1>4. CASE Enter(r) \/ FreeChild(r)
  <2>1. Once' /\ \A q \in Reqs : Pending(q)' <=> Pending(q)
    BY <1>4 DEF SvnInv, Once, Pending, Enter, FreeChild
  <2>2. ASSUME NEW q \in Reqs \ {r} PROVE ReqInv(q)'
    BY <1>4, <2>1, Frame DEF SvnInv, TypeOK, Enter, FreeChild, Move
  <2>3. ReqInv(r)'
    <3>1. /\ kind' = kind /\ answers' = answers /\ outcome' = outcome /\ obj' = obj
          /\ moving' = moving /\ stopped' = stopped /\ high' = high
          /\ \/ thread[r] = "new" /\ thread'[r] = "work"
             \/ thread[r] = "child" /\ thread'[r] = "tail"
      BY <1>4 DEF SvnInv, TypeOK, Enter, FreeChild, Move
    <3> QED  BY <2>1, <3>1 DEF SvnInv, ReqInv
  <2> QED  BY <1>1, <2>1, <2>2, <2>3 DEF SvnInv
<1>5. CASE Leave(r)
  <2>1. Once' /\ \A q \in Reqs : Pending(q)' => Pending(q)
    <3>1. CASE kind[r] = "commit"
      BY <1>5, <3>1, PushPending DEF SvnInv, Leave
    <3>2. CASE kind[r] # "commit"
      BY <1>5, <3>2 DEF SvnInv, Leave, Once, Pending
    <3> QED  BY <3>1, <3>2
  <2>2. ASSUME NEW q \in Reqs \ {r} PROVE ReqInv(q)'
    BY <1>5, <2>1, Frame DEF SvnInv, TypeOK, Leave, Move
  <2>3. ReqInv(r)'
    <3>1. /\ kind' = kind /\ answers' = answers /\ outcome' = outcome /\ obj' = obj
          /\ moving' = moving /\ stopped' = stopped /\ high' = high
          /\ thread[r] = "tail" /\ thread'[r] = "gone"
      BY <1>5 DEF SvnInv, TypeOK, Leave, Move
    <3> QED  BY <2>1, <3>1 DEF SvnInv, ReqInv
  <2> QED  BY <1>1, <2>1, <2>2, <2>3 DEF SvnInv
<1> QED
  BY <1>2, <1>3, <1>4, <1>5 DEF Worker

LEMMA MainStep ==
    ASSUME SvnInv, NEW r \in Reqs, Main(r)
    PROVE  SvnInv'
<1> USE ReqsOfObjs
<1>1. TypeOK'
  BY MainType DEF SvnInv
<1>2. queue # <<>> /\ queue' = Tail(queue)
  BY DEF Main, Callback, CallbackRename, TakeLog, NextIs
<1>3. /\ Once'
      /\ \A q \in Reqs : Pending(q)' => Pending(q)
      /\ \A q \in Reqs : NextIs(q, "result") => Pending(q) /\ ~Pending(q)'
  BY <1>2, PopPending DEF SvnInv
<1>4. ASSUME NEW q \in Reqs \ {r} PROVE ReqInv(q)'
  <2>1. obj'[Own(q)] = obj[Own(q)]
    BY DEF Main, Callback, CallbackRename, TakeLog, SvnInv, TypeOK, Own, Late
  <2>2. /\ kind' = kind /\ thread' = thread /\ outcome' = outcome /\ high' = high
        /\ answers'[q] = answers[q] /\ stopped' = stopped /\ (q \in moving' <=> q \in moving)
    BY DEF Main, Callback, CallbackRename, TakeLog, Answer, SvnInv, TypeOK
  <2> QED  BY <1>3, <2>1, <2>2, Frame DEF SvnInv
<1>5. ReqInv(r)'
  <2>1. CASE Callback(r)
    <3>1. Pending(r) /\ ~Pending(r)'
      BY <1>3, <2>1 DEF Callback
    <3>2. /\ thread[r] \in {"child", "tail", "gone"} /\ kind[r] \in AsyncKinds
          /\ answers[r] = <<>> /\ r \notin moving /\ Justified(r)
      BY <3>1 DEF SvnInv, ReqInv
    <3>3. /\ kind' = kind /\ thread' = thread /\ outcome' = outcome /\ high' = high
          /\ moving' = moving /\ stopped' = stopped
      BY <2>1 DEF Callback
    <3>4. answers'[r] = <<Reported(r)>>
      BY <2>1, <3>2, AnswerFirst DEF Callback, SvnInv
    <3>5. Reported(r) = "error" \/ (Reported(r) = "done" /\ WasDone(r))
      BY <3>2 DEF Reported
    <3>6. "none" \notin AsyncKinds
      BY DEF AsyncKinds
    <3>7. Replied(r)'
      BY <3>3, <3>4, <3>5
    <3> QED  BY <3>1, <3>2, <3>3, <3>6, <3>7 DEF ReqInv
  <2>2. CASE CallbackRename(r)
    <3>1. Pending(r) /\ ~Pending(r)'
      BY <1>3, <2>2 DEF CallbackRename
    <3>2. /\ thread[r] \in {"child", "tail", "gone"} /\ answers[r] = <<>>
      BY <3>1 DEF SvnInv, ReqInv
    <3>3. /\ kind' = kind /\ thread' = thread /\ outcome' = outcome
          /\ answers' = answers /\ kind[r] = "rename" /\ outcome[r] = "ok"
      BY <2>2 DEF CallbackRename
    <3>4. Unasked(r)' /\ Running(r)' /\ Ended(r)' /\ KeptOf(r)'
      BY <3>1, <3>2, <3>3
    <3>5. InFs(r)' /\ Replied(r)'
      BY <3>2, <3>3
    <3> QED  BY <3>4, <3>5 DEF ReqInv
  <2>3. CASE TakeLog(r)
    <3>1. ReqInv(r) /\ (Pending(r)' => Pending(r))
      BY <1>3 DEF SvnInv
    <3> QED  BY <2>3, <3>1, Frame DEF TakeLog
  <2> QED  BY <2>1, <2>2, <2>3 DEF Main
<1> QED
  BY <1>1, <1>3, <1>4, <1>5 DEF SvnInv

LEMMA MovedStep ==
    ASSUME SvnInv, NEW r \in Reqs, Moved(r)
    PROVE  SvnInv'
<1> USE ReqsOfObjs
<1>1. TypeOK'
  BY MainType DEF SvnInv
<1>2. Once' /\ \A q \in Reqs : Pending(q)' <=> Pending(q)
  BY DEF SvnInv, Once, Pending, Moved
<1>3. ASSUME NEW q \in Reqs \ {r} PROVE ReqInv(q)'
  <2>1. /\ obj'[Own(q)] = obj[Own(q)] /\ answers'[q] = answers[q]
        /\ kind' = kind /\ thread' = thread /\ outcome' = outcome /\ high' = high
        /\ stopped' = stopped /\ (q \in moving' <=> q \in moving)
    BY DEF Moved, Answer, SvnInv, TypeOK, Own, Late
  <2> QED  BY <1>2, <2>1, Frame DEF SvnInv
<1>4. ReqInv(r)'
  <2>1. /\ kind[r] # "none" /\ answers[r] = <<>> /\ thread[r] \notin {"new", "work"}
        /\ outcome[r] = "ok" \/ (outcome[r] = "none" /\ kind[r] = "move")
        /\ ~Pending(r)
    BY DEF SvnInv, ReqInv, Moved
  <2>2. /\ kind' = kind /\ thread' = thread /\ outcome' = outcome /\ r \notin moving'
    BY DEF Moved
  <2>3. answers'[r] = <<"done">> \/ answers'[r] = <<"error">>
    BY <2>1, AnswerFirst DEF Moved, SvnInv
  <2> QED  BY <1>2, <2>1, <2>2, <2>3 DEF ReqInv
<1> QED
  BY <1>1, <1>2, <1>3, <1>4 DEF SvnInv

LEMMA CollectStep ==
    ASSUME SvnInv, NEW o \in Objs, Collect(o)
    PROVE  SvnInv'
<1>1. TypeOK'
  BY CollectType DEF SvnInv
<1>2. Once' /\ \A q \in Reqs : Pending(q)' <=> Pending(q)
  BY DEF SvnInv, Once, Pending, Collect
<1>3. ASSUME NEW q \in Reqs PROVE ReqInv(q)'
  <2>1. CASE Own(q) # o
    BY <1>2, <2>1, Frame, ReqsOfObjs DEF Collect, SvnInv, TypeOK
  <2>2. CASE Own(q) = o
    <3>1. ~obj[Own(q)].anchor
      BY <2>2 DEF Collect
    <3>2. thread[q] \notin {"new", "work"} /\ ~Pending(q)
      BY <3>1 DEF SvnInv, ReqInv
    <3> QED  BY <1>2, <3>2 DEF Collect, SvnInv, ReqInv
  <2> QED  BY <2>1, <2>2
<1> QED
  BY <1>1, <1>2, <1>3 DEF SvnInv

LEMMA SvnInit == Init => SvnInv
<1> SUFFICES ASSUME Init PROVE SvnInv
  OBVIOUS
<1>1. queue = <<>> /\ DOMAIN queue = {}
  BY DEF Init
<1>2. Once /\ \A q \in Reqs : ~Pending(q)
  BY <1>1 DEF Once, Pending
<1>3. \A q \in Reqs : ReqInv(q)
  BY <1>2 DEF Init, ReqInv
<1> QED
  BY <1>2, <1>3, TypeInit DEF SvnInv

LEMMA SvnStep == SvnInv /\ [Next]_vars => SvnInv'
<1>1. ASSUME SvnInv, UNCHANGED vars PROVE SvnInv'
  <2>1. TypeOK' /\ Once' /\ \A q \in Reqs : Pending(q)' <=> Pending(q)
    BY <1>1, TypeStep DEF SvnInv, Once, Pending, vars
  <2> QED  BY <1>1, <2>1, Frame DEF SvnInv, vars
<1> QED
  BY <1>1, ClientStep, WorkerStep, MainStep, MovedStep, CollectStep DEF Next

LEMMA SvnAlways == Spec => []SvnInv
BY SvnInit, SvnStep, PTL DEF Spec

\* Until its result is taken, the thread of an operation has its object, the pool,
\* the anchor in all_svn and the mark m_async_work.
THEOREM SvnKept == Spec => []Kept
<1>1. SvnInv => Kept
  BY DEF SvnInv, ReqInv, Kept
<1> QED  BY <1>1, SvnAlways, PTL

\* What is told as done was done, but for the exceptions named in ToldDone, and only
\* the client of an operation cancels it.
THEOREM SvnToldDone == Spec => []ToldDone
<1>1. SvnInv => ToldDone
  <2> SUFFICES ASSUME SvnInv, NEW q \in Reqs,
                      "done" \in {answers[q][i] : i \in DOMAIN answers[q]}
               PROVE  WasDone(q)
    BY DEF ToldDone
  <2>1. answers[q] # <<>> /\ answers[q] # <<"error">>
    OBVIOUS
  <2> QED  BY <2>1 DEF SvnInv, ReqInv
<1> QED  BY <1>1, SvnAlways, PTL

(***************************************************************************)
(* What is owed: Owed, request by request, with what is known of a request *)
(* that waits for the file system.                                         *)
(***************************************************************************)
OwedOf(q) ==
    /\ kind[q] # "none" /\ answers[q] = <<>> => Awaits(q)
    /\ obj[Own(q)].pool => q \in stopped \/ (q \in mapped /\ Awaits(q))
    /\ obj[Late(q)].pool => kind[q] \in {"rename", "move"}
    /\ q \in moving => kind[q] \in {"rename", "move"} /\ ~obj[Own(q)].async

OwedInv == SvnInv /\ \A q \in Reqs : OwedOf(q)

\* What is in the queue stays there until it is taken.
LEMMA PushKeeps ==
    ASSUME TypeOK, NEW r \in Reqs, NEW what \in {"result", "log"}, Push(r, what)
    PROVE  /\ \A q \in Reqs : Pending(q) => Pending(q)'
           /\ what = "result" => Pending(r)'
<1> DEFINE e == [req |-> r, what |-> what]
<1>1. queue \in Seq(Item) /\ queue' = Append(queue, e) /\ e \in Item
  BY DEF TypeOK, Push, Item
<1>2. DOMAIN queue' = 1 .. Len(queue) + 1 /\ DOMAIN queue = 1 .. Len(queue) /\ Len(queue) \in Nat
  BY <1>1
<1>3. queue'[Len(queue) + 1] = e /\ \A i \in 1 .. Len(queue) : queue'[i] = queue[i]
  BY <1>1
<1> QED  BY <1>2, <1>3 DEF Pending

LEMMA PopKeeps ==
    ASSUME TypeOK, queue # <<>>, queue' = Tail(queue), NEW q \in Reqs,
           Pending(q), ~NextIs(q, "result")
    PROVE  Pending(q)'
<1>1. queue \in Seq(Item) /\ Len(queue) \in Nat /\ Len(queue) >= 1 /\ Head(queue) = queue[1]
  BY DEF TypeOK
<1>2. DOMAIN queue = 1 .. Len(queue) /\ DOMAIN queue' = 1 .. Len(queue) - 1
  BY <1>1
<1>3. \A i \in DOMAIN queue' : queue'[i] = queue[i + 1]
  BY <1>1
<1>4. PICK i \in DOMAIN queue : queue[i] = [req |-> q, what |-> "result"]
  BY DEF Pending
<1>5. i # 1
  BY <1>1, <1>4 DEF NextIs
<1>6. i - 1 \in DOMAIN queue' /\ queue'[i - 1] = queue[i]
  BY <1>1, <1>2, <1>3, <1>5
<1> QED  BY <1>4, <1>6 DEF Pending

\* The pools of objects.
LEMMA PoolFacts ==
    /\ \A o \in Object : /\ NativeRelease(o).pool => o.pool
                         /\ NativeRelease(o).async => o.async
                         /\ ~o.async => ~Released(o).pool
                         /\ Settled(o).pool => o.pool
                         /\ ~Settled(o).async
                         /\ o.pool /\ o.async => ~Settled(Released(o)).pool
    /\ ~Unmade.pool /\ ~Spent.pool /\ ~Loaded.async
<1>1. ASSUME NEW o \in Object
      PROVE  /\ NativeRelease(o).pool => o.pool
             /\ NativeRelease(o).async => o.async
             /\ ~o.async => ~NativeRelease(o).pool
             /\ NativeRelease(o).async = o.async
  <2>1. CASE o.pool /\ o.async
    BY <2>1 DEF NativeRelease, Object
  <2>2. CASE o.pool /\ ~o.async
    BY <2>2 DEF NativeRelease, Object
  <2>3. CASE ~o.pool
    BY <2>3 DEF NativeRelease, Object
  <2> QED  BY <2>1, <2>2, <2>3 DEF Object
<1>2. ASSUME NEW o \in Object, ~o.async PROVE ~Released(o).pool
  <2> DEFINE p == [o EXCEPT !.anchor = FALSE]
  <2>1. p \in Object /\ ~p.async
    BY <1>2 DEF Object
  <2> HIDE DEF p
  <2>2. NativeRelease(p) \in Object /\ ~NativeRelease(p).pool
    BY <1>1, <2>1, ObjectType
  <2>3. Cancel(NativeRelease(p)).pool = NativeRelease(p).pool
    BY <2>2 DEF Cancel, Object
  <2> QED  BY <2>2, <2>3 DEF Released, p
<1>3. ASSUME NEW o \in Object PROVE (Settled(o).pool => o.pool) /\ ~Settled(o).async
  <2> DEFINE idle == [o EXCEPT !.async = FALSE]
  <2>1. idle \in Object /\ ~idle.async /\ idle.pool = o.pool
    BY DEF Object
  <2>2. Settled(o) = IF o.ready THEN NativeRelease(idle) ELSE idle
    BY DEF Settled
  <2> HIDE DEF idle
  <2> QED  BY <1>1, <2>1, <2>2
<1>4. ASSUME NEW o \in Object, o.pool, o.async PROVE ~Settled(Released(o)).pool
  <2> DEFINE p == [o EXCEPT !.anchor = FALSE]
             u == [p EXCEPT !.flag = TRUE, !.ready = TRUE]
             idle == [Released(o) EXCEPT !.async = FALSE]
  <2>1. p \in Object /\ p.pool /\ p.async
    BY <1>4 DEF Object
  <2>2. NativeRelease(p) = u /\ u \in Object /\ u.ready
    BY <2>1 DEF NativeRelease, Object
  <2>3. Released(o) \in Object /\ Released(o).ready
    BY <2>2, ObjectType DEF Released, Cancel, Object
  <2>4. idle \in Object /\ ~idle.async
    BY <2>3 DEF Object
  <2>5. Settled(Released(o)) = NativeRelease(idle)
    BY <2>3 DEF Settled
  <2> HIDE DEF idle
  <2> QED  BY <1>1, <2>4, <2>5
<1>5. ~Unmade.pool /\ ~Loaded.async
  BY DEF Unmade, Loaded
<1>6. ~Spent.pool
  BY <1>2, <1>5, MadeType DEF Spent
<1> QED  BY <1>1, <1>2, <1>3, <1>4, <1>5, <1>6

LEMMA Answered ==
    ASSUME NEW r \in Reqs, NEW a, answers \in [Reqs -> Seq(Told)], answers[r] = <<>>, Answer(r, a)
    PROVE  answers'[r] # <<>>
<1>1. Append(<<>>, a) = <<a>>
  OBVIOUS
<1> QED  BY <1>1 DEF Answer

LEMMA OwedFrame ==
    ASSUME NEW q \in Reqs, OwedOf(q),
           kind'[q] = kind[q], answers'[q] = answers[q], thread'[q] = thread[q],
           obj'[Own(q)].pool => obj[Own(q)].pool, obj'[Own(q)].async => obj[Own(q)].async,
           obj'[Late(q)].pool => obj[Late(q)].pool,
           q \in moving' <=> q \in moving, q \in stopped => q \in stopped',
           q \in mapped => q \in mapped', Pending(q) => Pending(q)'
    PROVE  OwedOf(q)'
BY DEF OwedOf, Awaits

LEMMA ClientOwed == ASSUME OwedInv, NEW r \in Reqs, Client(r) PROVE \A q \in Reqs : OwedOf(q)'
<1> USE ReqsOfObjs, PoolFacts DEF OwedInv, SvnInv, TypeOK
<1>1. queue' = queue /\ stopped \subseteq stopped'
  BY DEF Client, StartOp, Refuse, StartMove, StatCodes, Stop
<1>2. \A q \in Reqs : Pending(q)' <=> Pending(q)
  BY <1>1 DEF Pending
<1>3. ASSUME NEW q \in Reqs \ {r} PROVE OwedOf(q)'
  <2>1. /\ kind'[q] = kind[q] /\ answers'[q] = answers[q] /\ thread'[q] = thread[q]
        /\ obj'[Own(q)] = obj[Own(q)] /\ obj'[Late(q)] = obj[Late(q)]
        /\ q \in moving' <=> q \in moving
        /\ q \in mapped => q \in mapped'
    BY DEF Client, StartOp, Refuse, StartMove, StatCodes, Stop, Answer, Own, Late
  <2> QED  BY <1>1, <1>2, <2>1, OwedFrame
<1>4. OwedOf(r)'
  <2>1. CASE Stop(r)
    <3>1. /\ obj'[Own(r)] = Cancel(obj[Own(r)]) /\ obj'[Late(r)] = obj[Late(r)]
          /\ r \in stopped' /\ UNCHANGED <<kind, answers, thread, moving>>
      BY <2>1 DEF Stop
    <3>2. obj'[Own(r)].async = obj[Own(r)].async
      BY <3>1 DEF Cancel, Object
    <3> QED  BY <1>2, <3>1, <3>2 DEF OwedOf, Awaits
  <2>2. CASE ~Stop(r)
    <3>0. kind[r] = "none" /\ kind'[r] # "none" /\ obj'[Late(r)] = obj[Late(r)]
      BY <2>2 DEF Client, StartOp, Refuse, StartMove, StatCodes, AsyncKinds
    <3>1. /\ kind[r] = "none" /\ kind'[r] # "none" /\ answers[r] = <<>> /\ r \notin moving
          /\ obj'[Late(r)] = obj[Late(r)] /\ ~obj[Late(r)].pool
      BY <3>0 DEF ReqInv, OwedOf
    <3>2. ASSUME NEW k \in AsyncKinds, StartOp(r, k) PROVE OwedOf(r)'
      <4>1. thread'[r] = "new" /\ r \in mapped' /\ moving' = moving
        BY <3>2 DEF StartOp
      <4> QED  BY <3>1, <4>1 DEF OwedOf, Awaits
    <3>3. CASE StartMove(r)
      <4>1. /\ r \in moving' /\ r \in mapped' /\ kind'[r] = "move"
            /\ obj'[Own(r)] = Loaded
        BY <3>3 DEF StartMove
      <4> QED  BY <3>1, <4>1 DEF OwedOf, Awaits
    <3>4. ASSUME NEW a \in Told, Answer(r, a), obj'[Own(r)] = Spent, moving' = moving
          PROVE  OwedOf(r)'
      <4>1. answers'[r] # <<>>
        BY <3>1, <3>4, Answered
      <4> QED  BY <3>1, <3>4, <4>1 DEF OwedOf
    <3>5. ASSUME NEW k \in AsyncKinds, Refuse(r, k) PROVE OwedOf(r)'
      <4>1. \E a \in Told : Answer(r, a)
        BY <3>5 DEF Refuse, Told
      <4> QED  BY <3>4, <3>5, <4>1 DEF Refuse
    <3>6. CASE StatCodes(r)
      BY <3>4, <3>6 DEF StatCodes, Told
    <3> QED  BY <2>2, <3>2, <3>3, <3>5, <3>6 DEF Client
  <2> QED  BY <2>1, <2>2
<1> QED  BY <1>3, <1>4

LEMMA WorkerOwed == ASSUME OwedInv, NEW r \in Reqs, Worker(r) PROVE \A q \in Reqs : OwedOf(q)'
<1> USE ReqsOfObjs DEF OwedInv, SvnInv, TypeOK
<1>1. UNCHANGED <<kind, answers, mapped, moving, stopped>>
  BY DEF Worker, Enter, Ends, Cancelled, ListFull, PushResult, FreeChild, Leave
<1>2. \A q \in Reqs : /\ obj'[Own(q)].pool = obj[Own(q)].pool
                       /\ obj'[Own(q)].async = obj[Own(q)].async
                       /\ obj'[Late(q)].pool = obj[Late(q)].pool
  <2>1. CASE obj' = obj
    BY <2>1
  <2>2. CASE obj' = [obj EXCEPT ![Own(r)].flag = FALSE]
    <3>1. obj'[Own(r)] = [obj[Own(r)] EXCEPT !.flag = FALSE]
      BY <2>2
    <3>2. obj'[Own(r)].pool = obj[Own(r)].pool /\ obj'[Own(r)].async = obj[Own(r)].async
      BY <3>1 DEF Object
    <3>3. \A o \in Objs \ {Own(r)} : obj'[o] = obj[o]
      BY <2>2
    <3> QED  BY <3>2, <3>3
  <2> QED
    BY <2>1, <2>2 DEF Worker, Enter, Ends, Cancelled, ListFull, PushResult, FreeChild, Leave
<1>3. /\ \A q \in Reqs : Pending(q) => Pending(q)'
      /\ \A q \in Reqs \ {r} : thread'[q] = thread[q]
      /\ Awaits(r) => thread'[r] \in {"new", "work"} \/ Pending(r)' \/ r \in moving'
  <2>1. CASE Enter(r) \/ FreeChild(r)
    BY <2>1 DEF Enter, FreeChild, Move, Pending, Awaits
  <2>2. CASE Leave(r)
    <3>1. \A q \in Reqs : Pending(q) => Pending(q)'
      BY <2>2, PushKeeps DEF Leave, Pending
    <3> QED  BY <2>2, <3>1 DEF Leave, Move, Awaits
  <2>3. ASSUME NEW how, PushResult(r, how)
        PROVE  /\ \A q \in Reqs : Pending(q) => Pending(q)'
               /\ \A q \in Reqs \ {r} : thread'[q] = thread[q]
               /\ Pending(r)'
    BY <2>3, PushKeeps DEF PushResult, Move
  <2> QED  BY <2>1, <2>2, <2>3 DEF Worker, Ends, Cancelled, ListFull
<1>4. ASSUME NEW q \in Reqs PROVE OwedOf(q)'
  <2>1. Awaits(q) => Awaits(q)'
    BY <1>1, <1>3 DEF Awaits
  <2> QED  BY <1>1, <1>2, <2>1 DEF OwedOf
<1> QED  BY <1>4

LEMMA MainOwed == ASSUME OwedInv, NEW r \in Reqs, Main(r) PROVE \A q \in Reqs : OwedOf(q)'
<1> USE ReqsOfObjs, PoolFacts DEF OwedInv, SvnInv, TypeOK
<1>1. queue # <<>> /\ queue' = Tail(queue)
  BY DEF Main, Callback, CallbackRename, TakeLog, NextIs
<1>2. \A q \in Reqs : Pending(q) /\ ~NextIs(q, "result") => Pending(q)'
  BY <1>1, PopKeeps
<1>3. \A q \in Reqs : NextIs(q, "result") => Main(r) /\ q = r
  BY DEF Main, Callback, CallbackRename, TakeLog, NextIs
<1>4. ASSUME NEW q \in Reqs \ {r} PROVE OwedOf(q)'
  <2>1. /\ obj'[Own(q)] = obj[Own(q)] /\ obj'[Late(q)] = obj[Late(q)]
        /\ kind' = kind /\ thread' = thread /\ answers'[q] = answers[q] /\ stopped' = stopped
        /\ (q \in moving' <=> q \in moving) /\ (q \in mapped => q \in mapped')
    BY DEF Main, Callback, CallbackRename, TakeLog, Answer, Own, Late
  <2> QED  BY <1>2, <1>3, <2>1, OwedFrame
<1>5. OwedOf(r)'
  <2>1. CASE Callback(r)
    <3>1. PICK late \in LateOf(r) :
             obj' = [obj EXCEPT ![Own(r)] = Settled(IF r \in mapped THEN Released(@) ELSE @),
                                ![Late(r)] = late]
      BY <2>1 DEF Callback
    <3>2. /\ UNCHANGED <<kind, thread, moving, stopped>> /\ mapped' = mapped \ {r}
          /\ Answer(r, Reported(r)) /\ NextIs(r, "result")
      BY <2>1 DEF Callback
    <3>3. Pending(r)
      BY <1>1, <3>2, PopPending
    <3>4. /\ obj[Own(r)].pool /\ obj[Own(r)].async /\ answers[r] = <<>> /\ r \notin moving
      BY <3>3 DEF ReqInv
    <3>5. answers'[r] # <<>>
      BY <3>2, <3>4, Answered
    <3>6. obj'[Own(r)].pool => r \in stopped
      <4>1. CASE r \in mapped
        BY <3>1, <3>4, <4>1
      <4>2. CASE r \notin mapped
        BY <3>4, <4>2 DEF OwedOf
      <4> QED  BY <4>1, <4>2
    <3>7. obj'[Late(r)].pool => kind[r] = "rename"
      BY <3>1 DEF LateOf
    <3> QED  BY <3>2, <3>4, <3>5, <3>6, <3>7 DEF OwedOf
  <2>2. CASE CallbackRename(r)
    <3>1. /\ obj'[Own(r)] = Settled(obj[Own(r)]) /\ obj'[Late(r)] = obj[Late(r)]
          /\ kind[r] = "rename" /\ r \in moving'
          /\ UNCHANGED <<kind, answers, mapped, thread, stopped>>
      BY <2>2 DEF CallbackRename
    <3> QED  BY <3>1 DEF OwedOf, Awaits
  <2>3. CASE TakeLog(r)
    <3>1. ~NextIs(r, "result")
      BY <2>3 DEF TakeLog, NextIs
    <3> QED  BY <1>2, <2>3, <3>1, OwedFrame DEF TakeLog
  <2> QED  BY <2>1, <2>2, <2>3 DEF Main
<1> QED  BY <1>4, <1>5

LEMMA MovedOwed == ASSUME OwedInv, NEW r \in Reqs, Moved(r) PROVE \A q \in Reqs : OwedOf(q)'
<1> USE ReqsOfObjs, PoolFacts DEF OwedInv, SvnInv, TypeOK
<1>1. queue' = queue /\ UNCHANGED <<kind, thread, stopped>>
  BY DEF Moved
<1>2. ASSUME NEW q \in Reqs \ {r} PROVE OwedOf(q)'
  <2>1. /\ obj'[Own(q)] = obj[Own(q)] /\ obj'[Late(q)] = obj[Late(q)]
        /\ answers'[q] = answers[q]
        /\ (q \in moving' <=> q \in moving) /\ (q \in mapped => q \in mapped')
        /\ Pending(q) => Pending(q)'
    BY DEF Moved, Answer, Own, Late, Pending
  <2> QED  BY <1>1, <2>1, OwedFrame
<1>3. OwedOf(r)'
  <2>1. r \in moving /\ answers[r] = <<>> /\ kind[r] \in {"rename", "move"} /\ ~obj[Own(r)].async
    BY DEF Moved, ReqInv, OwedOf
  <2>2. answers'[r] # <<>>
    BY <2>1, Answered DEF Moved
  <2>3. obj'[Own(r)] = Released(obj[Own(r)]) /\ r \notin moving'
    BY DEF Moved
  <2> QED  BY <1>1, <2>1, <2>2, <2>3 DEF OwedOf
<1> QED  BY <1>2, <1>3

LEMMA CollectOwed == ASSUME OwedInv, NEW o \in Objs, Collect(o) PROVE \A q \in Reqs : OwedOf(q)'
<1> USE ReqsOfObjs, PoolFacts DEF OwedInv, SvnInv, TypeOK
<1>1. /\ obj' = [obj EXCEPT ![o] = [NativeRelease(@) EXCEPT !.life = "freed"]]
      /\ UNCHANGED <<kind, answers, mapped, thread, moving, queue, stopped>>
  BY DEF Collect
<1>2. ASSUME NEW u \in Objs
      PROVE  /\ obj'[u].pool => obj[u].pool
             /\ obj'[u].async => obj[u].async
  <2>1. NativeRelease(obj[u]) \in Object
    BY ObjectType
  <2>2. CASE u = o
    <3>1. obj'[u] = [NativeRelease(obj[u]) EXCEPT !.life = "freed"]
      BY <1>1, <2>2
    <3>2. obj'[u].pool = NativeRelease(obj[u]).pool /\ obj'[u].async = NativeRelease(obj[u]).async
      BY <2>1, <3>1 DEF Object
    <3> QED  BY <3>2
  <2>3. CASE u # o
    BY <1>1, <2>3
  <2> QED  BY <2>2, <2>3
<1>3. \A q \in Reqs : Pending(q) => Pending(q)'
  BY <1>1 DEF Pending
<1> QED  BY <1>1, <1>2, <1>3, OwedFrame

LEMMA OwedInit == Init => OwedInv
<1> SUFFICES ASSUME Init PROVE OwedInv
  OBVIOUS
<1>1. \A q \in Reqs : OwedOf(q)
  BY ReqsOfObjs, PoolFacts DEF Init, OwedOf
<1> QED  BY <1>1, SvnInit DEF OwedInv

LEMMA OwedStep == OwedInv /\ [Next]_vars => OwedInv'
<1>1. OwedInv /\ UNCHANGED vars => OwedInv'
  <2> SUFFICES ASSUME OwedInv, UNCHANGED vars PROVE OwedInv'
    OBVIOUS
  <2>1. \A q \in Reqs : Pending(q) => Pending(q)'
    BY DEF vars, Pending
  <2> QED  BY <2>1, SvnStep, OwedFrame DEF OwedInv, vars
<1>2. OwedInv /\ Next => SvnInv'
  BY SvnStep DEF OwedInv
<1> QED
  BY <1>1, <1>2, ClientOwed, WorkerOwed, MainOwed, MovedOwed, CollectOwed DEF Next, OwedInv

\* A request without an answer has a callback to come, and a pool that is not lost an
\* owner that will release it.
THEOREM SvnOwed == Spec => []Owed
<1>1. OwedInv => Owed
  <2> SUFFICES ASSUME OwedInv PROVE Owed
    OBVIOUS
  <2>1. ASSUME NEW o \in Objs, obj[o].pool
        PROVE  Lost(o) \/ (o[2] = "own" /\ o[1] \in mapped /\ Awaits(o[1]))
    <3>1. PICK q \in Reqs : o = Own(q) \/ o = Late(q)
      BY DEF Objs, Own, Late
    <3>2. OwedOf(q)
      BY DEF OwedInv
    <3>3. CASE o = Own(q)
      BY <2>1, <3>2, <3>3 DEF OwedOf, Lost, Own
    <3>4. CASE o = Late(q)
      BY <2>1, <3>2, <3>4 DEF OwedOf, Lost, Late
    <3> QED  BY <3>1, <3>3, <3>4
  <2> QED  BY <2>1 DEF Owed, OwedInv, OwedOf
<1> QED  BY <1>1, OwedInit, OwedStep, PTL DEF Spec

(***************************************************************************)
(* The refinement. A request that is made is asked or, when it is answered *)
(* in the same turn, refused; a callback that does not go on in the file   *)
(* system and the end of a rename answer; all else is a stutter.           *)
(***************************************************************************)
Calls == [r \in Reqs |-> CallOf(r)]

LEMMA CallFrame ==
    ASSUME NEW r \in Reqs, NEW s,
           CallOf(r)' = s,
           \A q \in Reqs \ {r} : kind'[q] = kind[q] /\ answers'[q] = answers[q]
    PROVE  Calls' = [Calls EXCEPT ![r] = s]
<1>1. \A q \in Reqs \ {r} : CallOf(q)' = CallOf(q)
  BY DEF CallOf
<1> QED
  BY <1>1 DEF Calls

LEMMA CallStutter == kind' = kind /\ answers' = answers => Calls' = Calls
BY DEF Calls, CallOf

LEMMA PromiseAsked ==
    ASSUME SvnInv, NEW r \in Reqs, Client(r)
    PROVE  [Promise!Next]_Calls
<1>1. CASE Stop(r)
  BY <1>1, CallStutter DEF Stop
<1>2. CASE kind[r] = "none" /\ ~Stop(r)
  <2>1. CallOf(r) = "new" /\ answers[r] = <<>>
    BY <1>2 DEF CallOf, SvnInv, ReqInv
  <2>2. kind'[r] # "none" /\ \A q \in Reqs \ {r} : kind'[q] = kind[q]
    BY <1>2 DEF Client, StartOp, Refuse, StartMove, StatCodes, AsyncKinds, SvnInv, TypeOK
  <2>3. CASE answers' = answers
    <3>1. CallOf(r)' = "open"
      BY <2>1, <2>2, <2>3 DEF CallOf
    <3>2. Calls' = [Calls EXCEPT ![r] = "open"]
      BY <2>2, <2>3, <3>1, CallFrame
    <3> QED  BY <2>1, <3>2 DEF Promise!Next, Promise!Ask, Calls
  <2>4. ASSUME NEW a, Answer(r, a) PROVE [Promise!Next]_Calls
    <3>1. answers'[r] = <<a>> /\ \A q \in Reqs \ {r} : answers'[q] = answers[q]
      BY <2>1, <2>4, AnswerFirst DEF SvnInv
    <3>2. answers'[r] # <<>> /\ Len(answers'[r]) = 1
      BY <3>1
    <3>3. CallOf(r)' = "answered"
      BY <2>2, <3>2 DEF CallOf
    <3>4. Calls' = [Calls EXCEPT ![r] = "answered"]
      BY <2>2, <3>1, <3>3, CallFrame
    <3> QED  BY <2>1, <3>4 DEF Promise!Next, Promise!Refuse, Calls
  <2> QED
    BY <1>2, <2>3, <2>4 DEF Client, StartOp, Refuse, StartMove, StatCodes
<1> QED
  BY <1>1, <1>2 DEF Client, StartOp, Refuse, StartMove, StatCodes

\* The answer to a request that was open.
LEMMA PromiseAnswered ==
    ASSUME SvnInv, NEW r \in Reqs, NEW a, kind' = kind, Answer(r, a),
           kind[r] # "none", answers[r] = <<>>
    PROVE  [Promise!Next]_Calls
<1>1. CallOf(r) = "open"
  BY DEF CallOf
<1>2. answers'[r] = <<a>> /\ \A q \in Reqs \ {r} : answers'[q] = answers[q]
  BY AnswerFirst DEF SvnInv
<1>3. answers'[r] # <<>> /\ Len(answers'[r]) = 1
  BY <1>2
<1>4. CallOf(r)' = "answered"
  BY <1>3 DEF CallOf
<1>5. Calls' = [Calls EXCEPT ![r] = "answered"]
  BY <1>2, <1>4, CallFrame
<1> QED
  BY <1>1, <1>5 DEF Promise!Next, Promise!Answer, Calls

LEMMA PromiseStep == SvnInv /\ [Next]_vars => [Promise!Next]_Calls
<1> SUFFICES ASSUME SvnInv, [Next]_vars PROVE [Promise!Next]_Calls
  OBVIOUS
<1>1. ASSUME NEW r \in Reqs, Worker(r) PROVE [Promise!Next]_Calls
  <2>1. kind' = kind /\ answers' = answers
    BY <1>1 DEF Worker, Enter, Ends, Cancelled, ListFull, PushResult, FreeChild, Leave
  <2> QED  BY <2>1, CallStutter
<1>2. ASSUME NEW r \in Reqs, Callback(r) PROVE [Promise!Next]_Calls
  <2>1. Pending(r)
    <3>1. queue # <<>> /\ queue' = Tail(queue) /\ NextIs(r, "result")
      BY <1>2 DEF Callback, NextIs
    <3> QED  BY <3>1, PopPending DEF SvnInv
  <2>2. kind[r] # "none" /\ answers[r] = <<>>
    BY <2>1 DEF SvnInv, ReqInv, AsyncKinds
  <2> QED  BY <1>2, <2>2, PromiseAnswered DEF Callback
<1>3. ASSUME NEW r \in Reqs, CallbackRename(r) \/ TakeLog(r) PROVE [Promise!Next]_Calls
  BY <1>3, CallStutter DEF CallbackRename, TakeLog
<1>4. ASSUME NEW r \in Reqs, Moved(r) PROVE [Promise!Next]_Calls
  <2>1. kind[r] # "none" /\ answers[r] = <<>>
    BY <1>4 DEF Moved, SvnInv, ReqInv
  <2> QED  BY <1>4, <2>1, PromiseAnswered DEF Moved
<1>5. ASSUME NEW o \in Objs, Collect(o) PROVE [Promise!Next]_Calls
  BY <1>5, CallStutter DEF Collect
<1>6. CASE UNCHANGED vars
  BY <1>6, CallStutter DEF vars
<1> QED
  BY <1>1, <1>2, <1>3, <1>4, <1>5, <1>6, PromiseAsked DEF Next, Main

\* The binding and its requests implement the safety of Answers: no request is
\* answered before it is made, nor twice.
THEOREM SvnPromise == Spec => Promise!SafeSpec
<1>1. Init => Promise!Init
  BY DEF Init, Promise!Init, CallOf
<1>2. SvnInv /\ [Next]_vars => [Promise!Next]_[r \in Reqs |-> CallOf(r)]
  BY PromiseStep DEF Calls
<1> QED  BY <1>1, <1>2, SvnAlways, PTL DEF Spec, Promise!SafeSpec
=============================================================================
