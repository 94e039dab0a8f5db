----------------------------- MODULE TaskSlots -----------------------------
(***************************************************************************)
(* The tasks of a client's FileActionService: each kind has one slot, the  *)
(* field that says that such a task is under way and by which it can be    *)
(* stopped (m_download, m_zip_compress, m_zip_decompress, m_delete_handle, *)
(* m_clone_handle, m_update_or_submit_handle).                             *)
(*                                                                         *)
(* A task is a chain of callbacks. They look at the slot, not at the task: *)
(* after a stop the chain of the old task runs on, and finds whatever task *)
(* is in the slot by then.                                                 *)
(***************************************************************************)
EXTENDS Naturals, Sequences

CONSTANTS
    MaxTasks,   \* the tasks the client asks for
    MaxSteps,   \* the files of a directory, the entries of an archive
    None

ASSUME TasksAssumption == MaxTasks \in Nat
ASSUME StepsAssumption == MaxSteps \in Nat

\* Numbered as they are asked.
Tasks == 1..MaxTasks

ASSUME NoneAssumption == None \notin Tasks

Kinds == {"download", "compress", "decompress", "update", "remove", "clone"}

\* Those that are refused while their slot is taken.
Single == {"download", "compress", "decompress", "update"}
\* Those whose handle is a NativeFile with a thread.
Native == {"remove", "clone"}

\* "asked": a download without a response; "aborted": one whose request was
\* aborted; "lost": its native handle was collected while its thread used it.
Stages == {"new", "asked", "running", "aborted", "answered", "lost"}
Results == {"done", "cancel", "error"}

VARIABLES
    kind,       \* what each task is, "none" before it is asked
    stage,      \* how far it is
    told,       \* the answers it was given
    left,       \* the files or entries it has still to do
    slot,       \* the task in each slot
    request,    \* the download whose request is kept in the slot of the downloads
    holds,      \* for each archive, the tasks that have put files into it
    stopped     \* the tasks that were stopped while in their slot

taskVars == <<kind, stage, told, left, slot, request, holds, stopped>>

Running(t) == stage[t] \in {"asked", "running", "aborted"}

Tell(t, a) ==
    /\ stage' = [stage EXCEPT ![t] = "answered"]
    /\ told' = [told EXCEPT ![t] = Append(@, a)]
    /\ left' = [left EXCEPT ![t] = 0]

Freed_Not(k) == UNCHANGED slot

Freed(k) == slot' = [slot EXCEPT ![k] = None]

(***************************************************************************)
(* The requests of the client.                                             *)
(***************************************************************************)
\* The guard of the single kinds.
MayStart_Any(k) == TRUE

MayStart(k) == k \in Single => slot[k] = None

New(t, k) ==
    /\ kind[t] = "none" /\ \A u \in 1..(t - 1) : kind[u] # "none"
    /\ kind' = [kind EXCEPT ![t] = k]

Refuse(t, k) ==
    /\ New(t, k)
    /\ ~MayStart(k)
    /\ Tell(t, "error")
    /\ UNCHANGED <<slot, request, holds, stopped>>

\* The archive cannot be opened, or has one entry and is done within the turn.
OpenAtOnce(t) ==
    /\ New(t, "decompress")
    /\ MayStart("decompress")
    /\ \E a \in {"done", "error"} : Tell(t, a)
    /\ UNCHANGED <<slot, request, holds, stopped>>

\* remove and clone overwrite the handle of the one under way.
Start(t, k) ==
    /\ New(t, k)
    /\ MayStart(k)
    /\ stage' = [stage EXCEPT ![t] = IF k = "download" THEN "asked" ELSE "running"]
    /\ IF k \in {"compress", "decompress"}
       THEN \E n \in 1..MaxSteps : left' = [left EXCEPT ![t] = n]
       ELSE UNCHANGED left
    /\ slot' = [slot EXCEPT ![k] = t]
    /\ request' = IF k = "download" THEN None ELSE request
    /\ UNCHANGED <<told, holds, stopped>>

\* What stop does to the slots in ks: a download is left alone as long as it has no
\* request to abort.
Stopped(ks) == {k \in ks : slot[k] # None /\ (k = "download" => request # None)}

Stop(ks) ==
    LET ended == Stopped(ks)
    IN /\ ended # {}
       /\ slot' = [k \in Kinds |-> IF k \in ended THEN None ELSE slot[k]]
       /\ stopped' = stopped \cup {slot[k] : k \in ended}
       /\ IF "download" \in ended
          THEN /\ stage' = [stage EXCEPT ![request] = IF @ = "running" THEN "aborted" ELSE @]
               /\ request' = None
          ELSE UNCHANGED <<stage, request>>
       /\ UNCHANGED <<kind, told, left, holds>>

(***************************************************************************)
(* download: the events of wget.                                           *)
(***************************************************************************)
\* 'ready' puts the request into whatever is in the slot.
DownloadReady(t) ==
    /\ kind[t] = "download" /\ stage[t] = "asked"
    /\ stage' = [stage EXCEPT ![t] = "running"]
    /\ request' = IF slot["download"] # None THEN t ELSE request
    /\ UNCHANGED <<kind, told, left, slot, holds, stopped>>

DownloadFails(t) ==
    /\ kind[t] = "download" /\ Running(t)
    /\ Freed("download") /\ request' = None
    /\ Tell(t, "error")
    /\ UNCHANGED <<kind, holds, stopped>>

\* It does not look whether the error was told already.
DownloadEnds_Again(t) ==
    /\ kind[t] = "download" /\ stage[t] \in {"running", "aborted", "answered"}
    /\ Len(told[t]) < 2
    /\ Freed("download") /\ request' = None
    /\ Tell(t, IF slot["download"] = None THEN "cancel" ELSE "done")
    /\ UNCHANGED <<kind, holds, stopped>>

\* An empty slot is taken for a stop.
DownloadEnds(t) ==
    /\ kind[t] = "download" /\ stage[t] \in {"running", "aborted"}
    /\ Freed("download") /\ request' = None
    /\ Tell(t, IF slot["download"] = None THEN "cancel" ELSE "done")
    /\ UNCHANGED <<kind, holds, stopped>>

(***************************************************************************)
(* compress: a chain of stat and readdir callbacks, each of which adds to  *)
(* the archive in the slot, if there is one.                               *)
(***************************************************************************)
Added(t) ==
    IF slot["compress"] = None THEN UNCHANGED holds
    ELSE \E h \in {holds[slot["compress"]], holds[slot["compress"]] \cup {t}} :
            holds' = [holds EXCEPT ![slot["compress"]] = h]

CompressStep(t) ==
    /\ kind[t] = "compress" /\ stage[t] = "running" /\ left[t] > 1
    /\ left' = [left EXCEPT ![t] = @ - 1]
    /\ Added(t)
    /\ UNCHANGED <<kind, stage, told, slot, request, stopped>>

\* The last callback; or any that has listed a directory and finds the slot empty.
CompressDone(t) ==
    /\ kind[t] = "compress" /\ stage[t] = "running"
    /\ left[t] = 1 \/ slot["compress"] = None
    /\ Added(t)
    /\ Freed("compress")
    /\ Tell(t, IF slot["compress"] = None THEN "cancel" ELSE "done")
    /\ UNCHANGED <<kind, request, stopped>>

\* A callback with an error stops what is in the slot.
CompressFails(t) ==
    /\ kind[t] = "compress" /\ stage[t] = "running"
    /\ Freed("compress")
    /\ Tell(t, "error")
    /\ UNCHANGED <<kind, request, holds, stopped>>

(***************************************************************************)
(* decompress: a timer that takes one entry of the archive in the slot.    *)
(***************************************************************************)
DecompressStep(t) ==
    /\ kind[t] = "decompress" /\ stage[t] = "running"
    /\ slot["decompress"] # None /\ left[slot["decompress"]] > 1
    /\ left' = [left EXCEPT ![slot["decompress"]] = @ - 1]
    /\ UNCHANGED <<kind, stage, told, slot, request, holds, stopped>>

\* It just returns when the slot is empty.
DecompressDone_Silent(t) ==
    /\ kind[t] = "decompress" /\ stage[t] = "running"
    /\ slot["decompress"] # None /\ left[slot["decompress"]] = 1
    /\ Freed("decompress")
    /\ Tell(t, "done")
    /\ UNCHANGED <<kind, request, holds, stopped>>

\* It was the last entry, or the slot is empty, which is answered in the same way.
DecompressDone(t) ==
    /\ kind[t] = "decompress" /\ stage[t] = "running"
    /\ slot["decompress"] # None => left[slot["decompress"]] = 1
    /\ Freed("decompress")
    /\ Tell(t, "done")
    /\ UNCHANGED <<kind, request, holds, stopped>>

DecompressFails(t) ==
    /\ kind[t] = "decompress" /\ stage[t] = "running"
    /\ slot["decompress"] # None
    /\ Freed("decompress")
    /\ Tell(t, "error")
    /\ UNCHANGED <<kind, request, holds, stopped>>

(***************************************************************************)
(* update, submit, remove and clone: a handle calls back.                  *)
(***************************************************************************)
\* A file that is still there after a remove is taken for a cancel.
HandleEnds(t) ==
    /\ kind[t] \in Native \cup {"update"} /\ stage[t] = "running"
    /\ Freed(kind[t])
    /\ \E a \in {"done", "error"} \cup (IF kind[t] = "remove" THEN {"cancel"} ELSE {}) : Tell(t, a)
    /\ UNCHANGED <<kind, request, holds, stopped>>

\* A native handle that is not in its slot is held by nothing, and the garbage
\* collector frees it under its thread: what follows is undefined.
Collect(t) ==
    /\ kind[t] \in Native /\ stage[t] = "running"
    /\ slot[kind[t]] # t
    /\ stage' = [stage EXCEPT ![t] = "lost"]
    /\ UNCHANGED <<kind, told, left, slot, request, holds, stopped>>

-----------------------------------------------------------------------------
TasksInit ==
    /\ kind = [t \in Tasks |-> "none"]
    /\ stage = [t \in Tasks |-> "new"]
    /\ told = [t \in Tasks |-> <<>>]
    /\ left = [t \in Tasks |-> 0]
    /\ slot = [k \in Kinds |-> None]
    /\ request = None
    /\ holds = [t \in Tasks |-> {}]
    /\ stopped = {}

Advance(t) ==
    \/ DownloadReady(t) \/ DownloadFails(t) \/ DownloadEnds(t)
    \/ CompressStep(t) \/ CompressDone(t) \/ CompressFails(t)
    \/ DecompressStep(t) \/ DecompressDone(t) \/ DecompressFails(t)
    \/ HandleEnds(t)

TasksNext ==
    \/ \E t \in Tasks, k \in Kinds : Refuse(t, k) \/ Start(t, k)
    \/ \E t \in Tasks : OpenAtOnce(t) \/ Advance(t) \/ Collect(t)
    \/ \E k \in Kinds : Stop({k})
    \/ Stop(Kinds)                          \* the connection is closed

\* The file system, the timers, the threads and the server go on.
TasksFairness == \A t \in Tasks : WF_taskVars(Advance(t))

TasksSpec == TasksInit /\ [][TasksNext]_taskVars

-----------------------------------------------------------------------------
TasksTypeOK ==
    /\ kind \in [Tasks -> Kinds \cup {"none"}]
    /\ stage \in [Tasks -> Stages]
    /\ told \in [Tasks -> {<<>>} \cup {<<a>> : a \in Results}]
    /\ left \in [Tasks -> 0..MaxSteps]
    /\ slot \in [Kinds -> Tasks \cup {None}]
    /\ request \in Tasks \cup {None}
    /\ holds \in [Tasks -> SUBSET Tasks]
    /\ stopped \subseteq Tasks

\* A slot is never left taken by a task that has ended, whatever order stops, errors
\* and the callbacks of older tasks come in: no client is told for ever that a task
\* is under way when there is none.
SlotRuns == \A k \in Kinds : slot[k] # None => kind[slot[k]] = k /\ Running(slot[k])

\* As long as none of its kind was stopped, a single task is alone, an archive holds
\* its own files only, and no task is told that it was cancelled.
Undisturbed ==
    \A k \in Single :
        (\A t \in stopped : kind[t] # k) =>
            /\ \A t, u \in Tasks : kind[t] = k /\ kind[u] = k /\ Running(t) /\ Running(u) => t = u
            /\ \A t \in Tasks : kind[t] = k => holds[t] \subseteq {t} /\ told[t] # <<"cancel">>

\* Every task is answered, but for one whose native handle was collected: no stop, and
\* no other task in its slot, leaves a chain of callbacks without an end.
TasksEnd == \A t \in Tasks : Running(t) ~> stage[t] \in {"answered", "lost"}

TaskCall(t) ==
    CASE stage[t] = "new" -> "new"
      [] stage[t] # "new" /\ told[t] = <<>> -> "open"
      [] stage[t] # "new" /\ Len(told[t]) = 1 -> "answered"
      [] OTHER -> "answered again"

TasksPromise == INSTANCE Answers WITH Calls <- Tasks, call <- [t \in Tasks |-> TaskCall(t)]

\* No task is answered twice, by its own callbacks or by those of another.
TasksOneAnswer == TasksPromise!SafeSpec

\* What the comments of each_directory and compress say (file_action_service.js:495,
\* 521): a compression that was stopped ends. Refuted: it goes on into the next archive.
OwnFiles == \A t \in Tasks : holds[t] \subseteq {t}
=============================================================================
