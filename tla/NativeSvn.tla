----------------------------- MODULE NativeSvn -----------------------------
(***************************************************************************)
(* The Subversion binding (touch_code_native/native_svn.cc), the entity    *)
(* that wraps it (svn.js) and the requests that drive it                   *)
(* (file_action_service.js through revision_control_service.js).           *)
(*                                                                         *)
(* A request loads an object with a pool of its own and runs at most one   *)
(* operation on it, in a thread. The thread pushes its result to the run   *)
(* queue of the main thread, which calls the request back; that turn       *)
(* answers the client and releases the object. An object is reachable      *)
(* through the table all_svn only, and may be collected once it is gone    *)
(* from there. A request that was stopped, or has renamed, asks for a      *)
(* state code when its object is no longer at hand, and loads a second.    *)
(***************************************************************************)
EXTENDS Naturals, Sequences

CONSTANT Reqs           \* the requests of the clients, each made once

Objs == Reqs \X {"own", "late"}
Own(r) == <<r, "own">>
Late(r) == <<r, "late">>

(* "add" stands for join, resolved, unlock and cleanup, which are alike;   *)
(* "checkout" is an update of the root when there is no .map/wc.db;        *)
(* "stat" is any request that asks for state codes alone; "move" is the    *)
(* rename of a file that is not under control.                             *)
AsyncKinds == {"update", "checkout", "commit", "remove", "rename", "add", "conflicts"}
Kinds == AsyncKinds \cup {"stat", "move"}
Stoppable == {"update", "checkout", "commit", "remove"}

Threads == {"none", "new", "work", "child", "tail", "gone"}
Outcomes == {"none", "ok", "error", "cancel"}
Told == {"done", "error"}

Object == [life: {"none", "live", "freed"}, anchor: BOOLEAN, pool: BOOLEAN,
           async: BOOLEAN, flag: BOOLEAN, ready: BOOLEAN]
Item == [req: Reqs, what: {"result", "log"}]

VARIABLES
    kind,       \* what each request is, "none" before it is made
    answers,    \* what its client was told
    obj,        \* the Subversion objects: m_pool, m_async_work (async),
                \* m_cancel_async (flag), m_ready_release, all_svn (anchor)
    mapped,     \* requests whose m_mapping_entity holds their object
    thread,     \* where the thread of the operation is
    outcome,    \* how the operation ended
    moving,     \* requests that wait for fs.rename
    queue,      \* the run queue of the main thread
    stopped,    \* requests the client has stopped
    high,       \* is_support_high
    wc          \* .map/wc.db exists

vars == <<kind, answers, obj, mapped, thread, outcome, moving, queue, stopped, high, wc>>

Unmade_Short == [life |-> "none", anchor |-> FALSE, pool |-> FALSE, async |-> FALSE, flag |-> FALSE]

Unmade == [life |-> "none", anchor |-> FALSE, pool |-> FALSE,
           async |-> FALSE, flag |-> FALSE, ready |-> FALSE]
Loaded == [Unmade EXCEPT !.life = "live", !.anchor = TRUE, !.pool = TRUE]

(***************************************************************************)
(* release and cancel, of the binding and of the entity.                   *)
(***************************************************************************)
NativeRelease(o) ==
    CASE o.pool /\ o.async  -> [o EXCEPT !.flag = TRUE, !.ready = TRUE]
      [] o.pool /\ ~o.async -> [o EXCEPT !.pool = FALSE]
      [] OTHER              -> o

Cancel_Drops(o) == [o EXCEPT !.flag = TRUE, !.anchor = FALSE]

Cancel(o) == [o EXCEPT !.flag = TRUE]

\* RevisionControlService.release: release, then cancel what is mapped.
Released_Kept(o) == [NativeRelease([o EXCEPT !.anchor = FALSE]) EXCEPT !.ready = FALSE]

Released(o) == Cancel(NativeRelease([o EXCEPT !.anchor = FALSE]))

\* An object that is loaded for state codes and released in the same turn.
Spent == Released(Loaded)

(***************************************************************************)
(* Requests: FileActionService and RevisionControlService.                 *)
(***************************************************************************)
Answer(r, a) == answers' = [answers EXCEPT ![r] = Append(@, a)]

Supported(k) == k \in {"update", "checkout", "commit"} => high

\* update of the root needs no working copy: svn.js checks it out.
Ready(k) ==
    CASE k \in {"commit", "conflicts"} -> wc
      [] k = "checkout"                -> ~wc
      [] OTHER                         -> TRUE

StartOp(r, k) ==
    /\ kind[r] = "none"
    /\ Supported(k)
    /\ Ready(k)
    /\ kind' = [kind EXCEPT ![r] = k]
    /\ obj' = [obj EXCEPT ![Own(r)] = [Loaded EXCEPT !.async = TRUE]]
    /\ mapped' = mapped \cup {r}
    /\ thread' = [thread EXCEPT ![r] = "new"]
    /\ UNCHANGED <<answers, outcome, moving, queue, stopped, high, wc>>

\* The state code of the old name is "?": the file system renames alone.
StartMove(r) ==
    /\ kind[r] = "none"
    /\ kind' = [kind EXCEPT ![r] = "move"]
    /\ obj' = [obj EXCEPT ![Own(r)] = Loaded]
    /\ mapped' = mapped \cup {r}
    /\ moving' = moving \cup {r}
    /\ UNCHANGED <<answers, thread, outcome, queue, stopped, high, wc>>

(* Answered in the turn in which it is made. A submit that is not          *)
(* supported calls back with the message as data, not as an error.         *)
Refuse(r, k) ==
    /\ kind[r] = "none"
    /\ \/ ~Supported(k)
       \/ k \in {"commit", "conflicts"} /\ ~Ready(k)
    /\ kind' = [kind EXCEPT ![r] = k]
    /\ Answer(r, IF k = "commit" /\ ~high THEN "done" ELSE "error")
    /\ obj' = [obj EXCEPT ![Own(r)] = Spent]
    /\ UNCHANGED <<mapped, thread, outcome, moving, queue, stopped, high, wc>>

StatCodes(r) ==
    /\ kind[r] = "none"
    /\ kind' = [kind EXCEPT ![r] = "stat"]
    /\ Answer(r, "done")
    /\ obj' = [obj EXCEPT ![Own(r)] = Spent]
    /\ UNCHANGED <<mapped, thread, outcome, moving, queue, stopped, high, wc>>

(* stop_update_or_submit, stop_delete, and the client that goes away: the  *)
(* flag is raised and the request forgets its object, unreleased.          *)
Stop(r) ==
    /\ kind[r] \in Stoppable
    /\ r \in mapped
    /\ obj' = [obj EXCEPT ![Own(r)] = Cancel(@)]
    /\ mapped' = mapped \ {r}
    /\ stopped' = stopped \cup {r}
    /\ UNCHANGED <<kind, answers, thread, outcome, moving, queue, high, wc>>

(***************************************************************************)
(* The thread of an operation. It holds the run lock and a child of the    *)
(* pool of its object from Enter on, pushes its result before it destroys  *)
(* the child, and unlocks, for a commit after a last line of log, at the   *)
(* end.                                                                    *)
(***************************************************************************)
Move(r, from, to) == thread[r] = from /\ thread' = [thread EXCEPT ![r] = to]

Push_Twice(r, what) ==
    queue' = queue \o <<[req |-> r, what |-> what], [req |-> r, what |-> what]>>

Push(r, what) == queue' = Append(queue, [req |-> r, what |-> what])

Enter(r) ==
    /\ Move(r, "new", "work")
    /\ UNCHANGED <<kind, answers, obj, mapped, outcome, moving, queue, stopped, high, wc>>

\* callback_func: the error chain is reduced to error or cancel and pushed.
PushResult(r, how) ==
    /\ Move(r, "work", "child")
    /\ outcome' = [outcome EXCEPT ![r] = how]
    /\ Push(r, "result")
    /\ wc' \in (IF kind[r] = "checkout" THEN IF how = "ok" THEN {TRUE} ELSE {wc, TRUE}
                ELSE {wc})
    /\ UNCHANGED <<kind, answers, mapped, moving, stopped, high>>

Ends(r) == (\E how \in {"ok", "error"} : PushResult(r, how)) /\ UNCHANGED obj

\* svn_cancel_func: the flag is used once.
Cancelled(r) ==
    /\ obj[Own(r)].flag
    /\ obj' = [obj EXCEPT ![Own(r)].flag = FALSE]
    /\ PushResult(r, "cancel")

\* The status walk of conflict_list ends with the same error when it has enough.
ListFull(r) == kind[r] = "conflicts" /\ PushResult(r, "cancel") /\ UNCHANGED obj

FreeChild(r) ==
    /\ Move(r, "child", "tail")
    /\ UNCHANGED <<kind, answers, obj, mapped, outcome, moving, queue, stopped, high, wc>>

Leave(r) ==
    /\ Move(r, "tail", "gone")
    /\ IF kind[r] = "commit" THEN Push(r, "log") ELSE UNCHANGED queue
    /\ UNCHANGED <<kind, answers, obj, mapped, outcome, moving, stopped, high, wc>>

(***************************************************************************)
(* The main thread takes a result: the callback of the request runs to its *)
(* end, then m_async_work is cleared and a release that was asked for in   *)
(* the meantime is done.                                                   *)
(***************************************************************************)
Settled(o) ==
    LET idle == [o EXCEPT !.async = FALSE]
    IN  IF o.ready THEN NativeRelease(idle) ELSE idle

Reported_Dropped(r) == "done"

\* svn.update hands the callback of a checkout to the binding as it is, so
\* its error is an argument; and nobody looks at the mark of a cancellation.
Reported(r) == IF outcome[r] = "error" /\ kind[r] # "checkout" THEN "error" ELSE "done"

\* The second object of the request, loaded by the state code of the answer.
LateOf(r) ==
    CASE kind[r] \in {"update", "checkout"} -> {IF r \in mapped THEN Unmade ELSE Spent}
      [] kind[r] = "commit" ->
            {IF r \in mapped \/ Reported(r) = "error" THEN Unmade ELSE Spent}
      [] kind[r] = "remove" ->
            IF Reported(r) = "error" THEN {Unmade} ELSE {Unmade, Spent}
      [] kind[r] = "rename" -> {IF Reported(r) = "error" THEN Unmade ELSE Loaded}
      [] OTHER -> {Unmade}

NextIs(r, what) == queue # <<>> /\ Head(queue) = [req |-> r, what |-> what]

Callback(r) ==
    /\ NextIs(r, "result")
    /\ ~(kind[r] = "rename" /\ outcome[r] = "ok")
    /\ queue' = Tail(queue)
    /\ Answer(r, Reported(r))
    /\ \E late \in LateOf(r) :
         obj' = [obj EXCEPT
                   ![Own(r)] = Settled(IF r \in mapped THEN Released(@) ELSE @),
                   ![Late(r)] = late]
    /\ mapped' = mapped \ {r}
    /\ UNCHANGED <<kind, thread, outcome, moving, stopped, high, wc>>

\* A rename goes on in the file system.
CallbackRename(r) ==
    /\ NextIs(r, "result")
    /\ kind[r] = "rename"
    /\ outcome[r] = "ok"
    /\ queue' = Tail(queue)
    /\ obj' = [obj EXCEPT ![Own(r)] = Settled(@)]
    /\ moving' = moving \cup {r}
    /\ UNCHANGED <<kind, answers, mapped, thread, outcome, stopped, high, wc>>

\* FileActionService.rename releases, then asks the same service for a code.
Moved(r) ==
    /\ r \in moving
    /\ moving' = moving \ {r}
    /\ mapped' = mapped \ {r}
    /\ \/ Answer(r, "done") /\ obj' = [obj EXCEPT ![Own(r)] = Released(@), ![Late(r)] = Loaded]
       \/ Answer(r, "error") /\ obj' = [obj EXCEPT ![Own(r)] = Released(@)]
    /\ UNCHANGED <<kind, thread, outcome, queue, stopped, high, wc>>

TakeLog(r) ==
    /\ NextIs(r, "log")
    /\ queue' = Tail(queue)
    /\ UNCHANGED <<kind, answers, obj, mapped, thread, outcome, moving, stopped, high, wc>>

\* The collector frees what no table holds; the destructor releases.
Collect(o) ==
    /\ obj[o].life = "live"
    /\ ~obj[o].anchor
    /\ obj' = [obj EXCEPT ![o] = [NativeRelease(@) EXCEPT !.life = "freed"]]
    /\ UNCHANGED <<kind, answers, mapped, thread, outcome, moving, queue, stopped, high, wc>>

-----------------------------------------------------------------------------
Init ==
    /\ kind = [r \in Reqs |-> "none"]
    /\ answers = [r \in Reqs |-> <<>>]
    /\ obj = [o \in Objs |-> Unmade]
    /\ mapped = {}
    /\ thread = [r \in Reqs |-> "none"]
    /\ outcome = [r \in Reqs |-> "none"]
    /\ moving = {}
    /\ queue = <<>>
    /\ stopped = {}
    /\ high \in BOOLEAN
    /\ wc \in BOOLEAN

Client(r) ==
    \/ \E k \in AsyncKinds : StartOp(r, k) \/ Refuse(r, k)
    \/ StartMove(r)
    \/ StatCodes(r)
    \/ Stop(r)

Worker(r) == Enter(r) \/ Ends(r) \/ Cancelled(r) \/ ListFull(r) \/ FreeChild(r) \/ Leave(r)

Main(r) == Callback(r) \/ CallbackRename(r) \/ TakeLog(r)

Next ==
    \/ \E r \in Reqs : Client(r) \/ Worker(r) \/ Main(r) \/ Moved(r)
    \/ \E o \in Objs : Collect(o)

Spec == Init /\ [][Next]_vars

(* Threads run and end, whatever they did; the main thread works off its   *)
(* queue; the file system answers. Clients and the collector owe nothing.  *)
Fairness ==
    /\ \A r \in Reqs : WF_vars(Worker(r))
    /\ WF_vars(\E r \in Reqs : Main(r))
    /\ \A r \in Reqs : WF_vars(Moved(r))

FairSpec == Spec /\ Fairness

(***************************************************************************)
(* Properties.                                                             *)
(***************************************************************************)

\* Types, and an object is made before it is used.
TypeOK ==
    /\ kind \in [Reqs -> Kinds \cup {"none"}]
    /\ answers \in [Reqs -> Seq(Told)]
    /\ obj \in [Objs -> Object]
    /\ mapped \subseteq Reqs
    /\ thread \in [Reqs -> Threads]
    /\ outcome \in [Reqs -> Outcomes]
    /\ moving \subseteq Reqs
    /\ queue \in Seq(Item)
    /\ stopped \subseteq Reqs
    /\ high \in BOOLEAN
    /\ wc \in BOOLEAN

Pending(r) == \E i \in DOMAIN queue : queue[i] = [req |-> r, what |-> "result"]

\* Until the main thread has taken its result, a thread finds its object, the
\* pool, and the mark that keeps the object from being released under it: a stop,
\* a release and the collector may come at any time. The table all_svn (svn.js 60)
\* and m_async_work (native_svn.cc 466) are there for this.
Kept ==
    \A r \in Reqs :
        thread[r] \in {"new", "work"} \/ Pending(r) =>
            LET o == obj[Own(r)] IN o.life = "live" /\ o.pool /\ o.anchor /\ o.async

\* A client that is told "done" asked for something that was done, but for what the
\* code gives away: a stopped operation, a checkout that failed, and a submit that
\* is not supported are reported like a success. Nothing is cancelled that its own
\* client did not stop, although one flag is set by stop, by release and read by
\* every operation of the object.
ToldDone ==
    \A r \in Reqs : "done" \in {answers[r][i] : i \in DOMAIN answers[r]} =>
        \/ outcome[r] = "ok"
        \/ outcome[r] = "cancel" /\ (r \in stopped \/ kind[r] = "conflicts")
        \/ outcome[r] = "error" /\ kind[r] = "checkout"
        \/ outcome[r] = "none" /\ kind[r] \in {"stat", "move"}
        \/ outcome[r] = "none" /\ kind[r] = "commit" /\ ~high

\* The two ways to lose an object: stop forgets it, and a rename asks a released
\* service for a state code.
Lost(o) ==
    \/ o[2] = "own" /\ o[1] \in stopped
    \/ o[2] = "late" /\ kind[o[1]] \in {"rename", "move"}

\* A callback of the request is still to come, from its thread, the queue or fs.rename.
Awaits(r) == thread[r] \in {"new", "work"} \/ Pending(r) \/ r \in moving

\* Nothing waits for nobody. A request without an answer has a callback to come, and
\* so has every pool that is not lost: its request still holds the object and will
\* release it, although stop, release and the end of the thread come in any order and
\* a release during the operation is only noted (m_ready_release).
Owed ==
    /\ \A r \in Reqs : kind[r] # "none" /\ answers[r] = <<>> => Awaits(r)
    /\ \A o \in Objs : obj[o].pool =>
          Lost(o) \/ (o[2] = "own" /\ o[1] \in mapped /\ Awaits(o[1]))

\* Every pool is destroyed in the end, and no other is lost: a release that is put
\* off while the result is on its way is made up for when it arrives.
PoolsEnd == \A o \in Objs : <>[](obj[o].pool => Lost(o))

\* The thread of an operation is done with the pool and the object when they are
\* destroyed. It does not hold: the result is pushed before the child pool is
\* destroyed and the lock released, and release looks at m_async_work alone.
ThreadDone ==
    \A r \in Reqs :
        /\ thread[r] \in {"work", "child"} => obj[Own(r)].pool
        /\ thread[r] \in {"new", "work", "child", "tail"} => obj[Own(r)].life = "live"

\* The requests are calls of the abstract specification.
CallOf(r) ==
    CASE kind[r] = "none" -> "new"
      [] kind[r] # "none" /\ answers[r] = <<>> -> "open"
      [] kind[r] # "none" /\ Len(answers[r]) = 1 -> "answered"
      [] OTHER -> "answered again"

Promise == INSTANCE Answers WITH Calls <- Reqs, call <- [r \in Reqs |-> CallOf(r)]

\* Every request is answered, and only once, whether it fails, is refused or stopped:
\* stop calls nobody back and relies on the thread to end.
OneAnswer == Promise!Spec
=============================================================================
