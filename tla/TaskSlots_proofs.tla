-------------------------- MODULE TaskSlots_proofs --------------------------
(***************************************************************************)
(* Proofs about TaskSlots. What makes the invariants inductive: a task of  *)
(* a kind of which none was stopped is in its slot as long as it runs, and *)
(* a task is told something when it is answered and not before.            *)
(***************************************************************************)
EXTENDS TaskSlots, TLAPS

TaskInv(t) ==
    /\ stage[t] = "new" <=> kind[t] = "none"
    /\ stage[t] = "answered" <=> told[t] # <<>>
    /\ kind[t] # "compress" => holds[t] = {}
    /\ t \in stopped => kind[t] # "none"

Spared(k) == \A t \in stopped : kind[t] # k

LoneInv(k) ==
    Spared(k) => \A t \in Tasks :
        /\ kind[t] = k /\ Running(t) => slot[k] = t
        /\ kind[t] = k => holds[t] \subseteq {t} /\ told[t] # <<"cancel">>

TasksInv ==
    /\ TasksTypeOK
    /\ SlotRuns
    /\ \A t \in Tasks : TaskInv(t)
    /\ \A k \in Single : LoneInv(k)

LEMMA TellFirst ==
    ASSUME TasksInv, NEW t \in Tasks, stage[t] # "answered", NEW a \in Results, Tell(t, a)
    PROVE  /\ stage' = [stage EXCEPT ![t] = "answered"]
           /\ told' = [told EXCEPT ![t] = <<a>>]
           /\ left' = [left EXCEPT ![t] = 0]
<1>1. told[t] = <<>>
  BY DEF TasksInv, TaskInv
<1>2. told[t] \in Seq(Results) /\ Append(told[t], a) = <<a>>
  BY <1>1
<1> QED  BY <1>2 DEF Tell

\* The ends of tasks: t is told a, the slot of its kind is freed, and an archive that
\* was in it may have got a file of t.
Ends(t, a) ==
    /\ Running(t)
    /\ slot' = [slot EXCEPT ![kind[t]] = None]
    /\ Tell(t, a)
    /\ kind' = kind /\ stopped' = stopped
    /\ request' \in {request, None}
    /\ \/ holds' = holds
       \/ /\ kind[t] = "compress" /\ slot["compress"] # None
          /\ holds' = [holds EXCEPT ![slot["compress"]] = holds[slot["compress"]] \cup {t}]
    /\ a = "cancel" => kind[t] \notin Single \/ slot[kind[t]] = None

LEMMA EndsTypes ==
    ASSUME TasksInv, NEW t \in Tasks, NEW a \in Results, Ends(t, a)
    PROVE  TasksTypeOK' /\ SlotRuns' /\ \A u \in Tasks : TaskInv(u)'
<1>1. /\ stage' = [stage EXCEPT ![t] = "answered"]
      /\ told' = [told EXCEPT ![t] = <<a>>]
      /\ left' = [left EXCEPT ![t] = 0]
  BY TellFirst DEF Ends, Running
<1>2. TasksTypeOK'
  <2>1. left' \in [Tasks -> 0..MaxSteps]
    BY <1>1, StepsAssumption DEF TasksInv, TasksTypeOK
  <2>2. holds' \in [Tasks -> SUBSET Tasks]
    BY DEF Ends, TasksInv, TasksTypeOK
  <2>3. told' \in [Tasks -> {<<>>} \cup {<<b>> : b \in Results}]
    BY <1>1 DEF TasksInv, TasksTypeOK
  <2> QED  BY <1>1, <2>1, <2>2, <2>3 DEF Ends, TasksInv, TasksTypeOK, Stages
<1>3. SlotRuns'
  BY <1>1, NoneAssumption DEF Ends, TasksInv, SlotRuns, Running, TasksTypeOK
<1>4. ASSUME NEW u \in Tasks PROVE TaskInv(u)'
  <2>1. stage'[u] = "new" <=> kind'[u] = "none"
    BY <1>1 DEF Ends, TasksInv, TaskInv, TasksTypeOK, Running
  <2>2. <<a>> # <<>>
    OBVIOUS
  <2>3. stage'[u] = "answered" <=> told'[u] # <<>>
    BY <1>1, <2>2 DEF TasksInv, TaskInv, TasksTypeOK
  <2>4. kind'[u] # "compress" => holds'[u] = {}
    <3>1. slot["compress"] # None => kind[slot["compress"]] = "compress"
      BY DEF TasksInv, SlotRuns, Kinds
    <3> QED  BY <3>1 DEF Ends, TasksInv, TaskInv, TasksTypeOK
  <2> QED  BY <2>1, <2>3, <2>4 DEF Ends, TasksInv, TaskInv
<1> QED  BY <1>2, <1>3, <1>4

LEMMA EndsLone ==
    ASSUME TasksInv, NEW t \in Tasks, NEW a \in Results, Ends(t, a), NEW k \in Single
    PROVE  LoneInv(k)'
<1> SUFFICES ASSUME Spared(k)', NEW u \in Tasks, kind'[u] = k
             PROVE  /\ Running(u)' => slot'[k] = u
                    /\ holds'[u] \subseteq {u} /\ told'[u] # <<"cancel">>
  BY DEF LoneInv
<1>1. /\ stage' = [stage EXCEPT ![t] = "answered"]
      /\ told' = [told EXCEPT ![t] = <<a>>]
  BY TellFirst DEF Ends, Running
<1>2. kind[u] = k /\ Spared(k)
  BY DEF Ends, Spared
<1>3. /\ Running(u) => slot[k] = u
      /\ holds[u] \subseteq {u} /\ told[u] # <<"cancel">>
  BY <1>2 DEF TasksInv, LoneInv
<1>4. kind[t] = k => slot[k] = t
  BY <1>2 DEF Ends, TasksInv, LoneInv
<1>5. Running(u)' => slot'[k] = u
  <2>1. SUFFICES ASSUME Running(u)' PROVE slot'[k] = u
    OBVIOUS
  <2>2. u # t /\ Running(u)
    BY <1>1, <2>1 DEF Running, TasksInv, TasksTypeOK
  <2>3. kind[t] # k
    BY <1>3, <1>4, <2>2
  <2> QED  BY <1>3, <2>2, <2>3 DEF Ends, TasksInv, TasksTypeOK, Single, Kinds
<1>6. holds'[u] \subseteq {u}
  <2>1. CASE holds' = holds
    BY <1>3, <2>1
  <2>2. CASE /\ kind[t] = "compress" /\ slot["compress"] # None
             /\ holds' = [holds EXCEPT ![slot["compress"]] = holds[slot["compress"]] \cup {t}]
    <3>1. slot["compress"] \in Tasks /\ kind[slot["compress"]] = "compress"
      BY <2>2 DEF TasksInv, SlotRuns, TasksTypeOK, Kinds
    <3>2. CASE u = slot["compress"]
      <4>1. k = "compress" /\ t = u
        BY <1>2, <1>4, <2>2, <3>1, <3>2
      <4> QED  BY <1>3, <2>2, <3>2, <4>1 DEF TasksInv, TasksTypeOK
    <3>3. CASE u # slot["compress"]
      BY <1>3, <2>2, <3>3 DEF TasksInv, TasksTypeOK
    <3> QED  BY <3>2, <3>3
  <2> QED  BY <2>1, <2>2 DEF Ends
<1>7. told'[u] # <<"cancel">>
  <2>1. CASE u = t
    <3>1. slot[k] = t /\ kind[t] = k
      BY <1>2, <1>4, <2>1
    <3>2. a # "cancel"
      BY <3>1, NoneAssumption DEF Ends
    <3> QED  BY <1>1, <2>1, <3>2 DEF TasksInv, TasksTypeOK
  <2>2. CASE u # t
    BY <1>1, <1>3, <2>2 DEF TasksInv, TasksTypeOK
  <2> QED  BY <2>1, <2>2
<1> QED  BY <1>5, <1>6, <1>7

LEMMA EndsInv ==
    ASSUME TasksInv, NEW t \in Tasks, NEW a \in Results, Ends(t, a)
    PROVE  TasksInv'
BY EndsTypes, EndsLone DEF TasksInv

\* Every action that answers a task that runs is such an end.
EndAction(t) ==
    \/ DownloadFails(t) \/ DownloadEnds(t)
    \/ CompressDone(t) \/ CompressFails(t)
    \/ DecompressDone(t) \/ DecompressFails(t)
    \/ HandleEnds(t)

LEMMA EndActionEnds ==
    ASSUME TasksInv, NEW t \in Tasks, EndAction(t)
    PROVE  \E a \in Results : Ends(t, a)
<1>1. CASE DownloadFails(t)
  BY <1>1 DEF DownloadFails, Ends, Freed, Results
<1>2. CASE DownloadEnds(t)
  <2> DEFINE a == IF slot["download"] = None THEN "cancel" ELSE "done"
  <2>1. a \in Results /\ (a = "cancel" => slot["download"] = None)
    BY DEF Results
  <2>2. Ends(t, a)
    BY <1>2, <2>1 DEF DownloadEnds, Ends, Freed, Running
  <2> QED  BY <2>1, <2>2
<1>3. CASE CompressDone(t)
  <2> DEFINE a == IF slot["compress"] = None THEN "cancel" ELSE "done"
  <2>1. a \in Results /\ (a = "cancel" => slot["compress"] = None)
    BY DEF Results
  <2>2. \/ holds' = holds
        \/ /\ slot["compress"] # None
           /\ holds' = [holds EXCEPT ![slot["compress"]] = holds[slot["compress"]] \cup {t}]
    <3>1. CASE slot["compress"] = None
      BY <1>3, <3>1 DEF CompressDone, Added
    <3>2. CASE slot["compress"] # None
      <4>1. PICK h \in {holds[slot["compress"]], holds[slot["compress"]] \cup {t}} :
               holds' = [holds EXCEPT ![slot["compress"]] = h]
        BY <1>3, <3>2 DEF CompressDone, Added
      <4>2. h = holds[slot["compress"]] => holds' = holds
        BY <4>1 DEF TasksInv, TasksTypeOK
      <4> QED  BY <3>2, <4>1, <4>2
    <3> QED  BY <3>1, <3>2
  <2>3. /\ kind[t] = "compress" /\ stage[t] = "running"
        /\ Freed("compress") /\ Tell(t, a) /\ UNCHANGED <<kind, request, stopped>>
    BY <1>3 DEF CompressDone
  <2> HIDE DEF a
  <2>4. Ends(t, a)
    BY <2>1, <2>2, <2>3 DEF Ends, Freed, Running
  <2> QED  BY <2>1, <2>4
<1>4. CASE CompressFails(t)
  BY <1>4 DEF CompressFails, Ends, Freed, Running, Results
<1>5. CASE DecompressDone(t)
  BY <1>5 DEF DecompressDone, Ends, Freed, Running, Results
<1>6. CASE DecompressFails(t)
  BY <1>6 DEF DecompressFails, Ends, Freed, Running, Results
<1>7. CASE HandleEnds(t)
  <2>1. PICK a \in {"done", "error"} \cup (IF kind[t] = "remove" THEN {"cancel"} ELSE {}) : Tell(t, a)
    BY <1>7 DEF HandleEnds
  <2>2. a \in Results /\ (a = "cancel" => kind[t] \notin Single)
    BY <2>1 DEF Results, Single
  <2>3. Ends(t, a)
    BY <1>7, <2>1, <2>2 DEF HandleEnds, Ends, Freed, Running
  <2> QED  BY <2>2, <2>3
<1> QED  BY <1>1, <1>2, <1>3, <1>4, <1>5, <1>6, <1>7 DEF EndAction

\* A request that is answered in its turn.
LEMMA RefusedInv ==
    ASSUME TasksInv, NEW t \in Tasks, NEW k \in Kinds, New(t, k), NEW a \in {"done", "error"},
           Tell(t, a), UNCHANGED <<slot, request, holds, stopped>>
    PROVE  TasksInv'
<1>0. stage[t] = "new" /\ kind[t] = "none" /\ kind' = [kind EXCEPT ![t] = k] /\ a \in Results
  BY DEF New, TasksInv, TaskInv, Results
<1>1. /\ stage' = [stage EXCEPT ![t] = "answered"]
      /\ told' = [told EXCEPT ![t] = <<a>>]
      /\ left' = [left EXCEPT ![t] = 0]
  BY <1>0, TellFirst
<1>2. TasksTypeOK'
  <2>1. left' \in [Tasks -> 0..MaxSteps]
    BY <1>1, StepsAssumption DEF TasksInv, TasksTypeOK
  <2>2. told' \in [Tasks -> {<<>>} \cup {<<b>> : b \in Results}]
    BY <1>0, <1>1 DEF TasksInv, TasksTypeOK
  <2> QED  BY <1>0, <1>1, <2>1, <2>2 DEF TasksInv, TasksTypeOK, Stages
<1>3. SlotRuns'
  BY <1>0, <1>1 DEF TasksInv, SlotRuns, Running, TasksTypeOK
<1>4. ASSUME NEW u \in Tasks PROVE TaskInv(u)'
  <2>1. <<a>> # <<>> /\ k # "none"
    BY DEF Kinds
  <2>2. holds[t] = {}
    BY <1>0 DEF TasksInv, TaskInv
  <2> QED  BY <1>0, <1>1, <2>1, <2>2 DEF TasksInv, TaskInv, TasksTypeOK
<1>5. ASSUME NEW j \in Single PROVE LoneInv(j)'
  <2>1. j # "none"
    BY DEF Single
  <2>2. t \notin stopped /\ holds[t] = {} /\ <<a>> # <<"cancel">>
    BY <1>0 DEF TasksInv, TaskInv
  <2>3. Spared(j)' => Spared(j)
    BY <1>0, <2>1, <2>2 DEF Spared, TasksInv, TasksTypeOK
  <2> QED  BY <1>0, <1>1, <2>1, <2>2, <2>3 DEF TasksInv, LoneInv, TasksTypeOK, Running
<1> QED  BY <1>2, <1>3, <1>4, <1>5 DEF TasksInv

LEMMA StartInv == ASSUME TasksInv, NEW t \in Tasks, NEW k \in Kinds, Start(t, k) PROVE TasksInv'
<1>0. /\ stage[t] = "new" /\ kind[t] = "none" /\ kind' = [kind EXCEPT ![t] = k]
      /\ slot' = [slot EXCEPT ![k] = t] /\ told' = told /\ holds' = holds /\ stopped' = stopped
      /\ request' \in {None, request}
  BY DEF Start, New, TasksInv, TaskInv
<1>1. PICK st \in {"asked", "running"} : stage' = [stage EXCEPT ![t] = st]
  BY DEF Start
<1>2. TasksTypeOK'
  <2>1. left' \in [Tasks -> 0..MaxSteps]
    BY StepsAssumption DEF Start, TasksInv, TasksTypeOK
  <2> QED  BY <1>0, <1>1, <2>1 DEF TasksInv, TasksTypeOK, Stages
<1>3. SlotRuns'
  BY <1>0, <1>1 DEF TasksInv, SlotRuns, Running, TasksTypeOK
<1>4. ASSUME NEW u \in Tasks PROVE TaskInv(u)'
  <2>1. k # "none" /\ holds[t] = {} /\ told[t] = <<>> /\ t \notin stopped
    BY <1>0 DEF Kinds, TasksInv, TaskInv
  <2> QED  BY <1>0, <1>1, <2>1 DEF TasksInv, TaskInv, TasksTypeOK
<1>5. ASSUME NEW j \in Single PROVE LoneInv(j)'
  <2>1. j # "none"
    BY DEF Single
  <2>2. t \notin stopped /\ holds[t] = {} /\ told[t] = <<>> /\ told[t] # <<"cancel">>
    BY <1>0 DEF TasksInv, TaskInv
  <2>3. Spared(j)' => Spared(j)
    BY <1>0, <2>1, <2>2 DEF Spared, TasksInv, TasksTypeOK
  <2>4. k = j => slot[j] = None
    BY DEF Start, MayStart
  <2>5. Spared(j) /\ k = j => \A u \in Tasks : kind[u] = j => ~Running(u)
    BY <2>4, NoneAssumption DEF TasksInv, LoneInv
  <2> QED
    BY <1>0, <1>1, <2>1, <2>2, <2>3, <2>5 DEF TasksInv, LoneInv, TasksTypeOK, Running, Single, Kinds
<1> QED  BY <1>2, <1>3, <1>4, <1>5 DEF TasksInv

LEMMA StopInv == ASSUME TasksInv, NEW ks \in SUBSET Kinds, Stop(ks) PROVE TasksInv'
<1> DEFINE ended == Stopped(ks)
<1>1. /\ slot' = [k \in Kinds |-> IF k \in ended THEN None ELSE slot[k]]
      /\ stopped' = stopped \cup {slot[k] : k \in ended}
      /\ UNCHANGED <<kind, told, left, holds>>
      /\ request' \in {None, request}
  BY DEF Stop
<1>2. \/ stage' = stage
      \/ stage' = [stage EXCEPT ![request] = IF @ = "running" THEN "aborted" ELSE @]
  BY DEF Stop
<1>3. stage' \in [Tasks -> Stages]
  BY <1>2 DEF TasksInv, TasksTypeOK, Stages
<1>4. \A u \in Tasks : /\ Running(u)' = Running(u)
                       /\ stage'[u] = "new" <=> stage[u] = "new"
                       /\ stage'[u] = "answered" <=> stage[u] = "answered"
  BY <1>2 DEF Running, TasksInv, TasksTypeOK
<1>5. \A k \in ended : k \in Kinds /\ slot[k] \in Tasks /\ kind[slot[k]] = k
  BY DEF Stopped, TasksInv, SlotRuns, TasksTypeOK
<1> HIDE DEF ended
<1>6. TasksTypeOK'
  BY <1>1, <1>3, <1>5 DEF TasksInv, TasksTypeOK
<1>7. SlotRuns'
  BY <1>1, <1>4 DEF TasksInv, SlotRuns, TasksTypeOK
<1>8. ASSUME NEW u \in Tasks PROVE TaskInv(u)'
  BY <1>1, <1>4, <1>5 DEF TasksInv, TaskInv, Kinds
<1>9. ASSUME NEW j \in Single PROVE LoneInv(j)'
  <2>1. j \in Kinds
    BY DEF Single, Kinds
  <2>2. Spared(j)' => Spared(j) /\ j \notin ended
    BY <1>1, <1>5 DEF Spared
  <2> QED  BY <1>1, <1>4, <2>1, <2>2 DEF TasksInv, LoneInv
<1> QED  BY <1>6, <1>7, <1>8, <1>9 DEF TasksInv

LEMMA ReadyInv == ASSUME TasksInv, NEW t \in Tasks, DownloadReady(t) PROVE TasksInv'
<1>1. /\ stage' = [stage EXCEPT ![t] = "running"] /\ stage[t] = "asked"
      /\ UNCHANGED <<kind, told, left, slot, holds, stopped>> /\ request' \in {t, request}
  BY DEF DownloadReady
<1>2. \A u \in Tasks : /\ Running(u)' = Running(u)
                       /\ stage'[u] = "new" <=> stage[u] = "new"
                       /\ stage'[u] = "answered" <=> stage[u] = "answered"
  BY <1>1 DEF Running, TasksInv, TasksTypeOK
<1>3. TasksTypeOK'
  BY <1>1 DEF TasksInv, TasksTypeOK, Stages
<1>4. SlotRuns'
  BY <1>1, <1>2 DEF TasksInv, SlotRuns, TasksTypeOK
<1>5. \A j \in Single : LoneInv(j)'
  BY <1>1, <1>2 DEF TasksInv, LoneInv, Spared
<1> QED  BY <1>1, <1>2, <1>3, <1>4, <1>5 DEF TasksInv, TaskInv

LEMMA CompressStepInv == ASSUME TasksInv, NEW t \in Tasks, CompressStep(t) PROVE TasksInv'
<1>1. /\ kind[t] = "compress" /\ Running(t)
      /\ UNCHANGED <<kind, stage, told, slot, request, stopped>>
  BY DEF CompressStep, Running
<1>2. \/ holds' = holds
      \/ /\ slot["compress"] # None
         /\ holds' = [holds EXCEPT ![slot["compress"]] = holds[slot["compress"]] \cup {t}]
  <2>1. CASE slot["compress"] = None
    BY <2>1 DEF CompressStep, Added
  <2>2. CASE slot["compress"] # None
    <3>1. PICK h \in {holds[slot["compress"]], holds[slot["compress"]] \cup {t}} :
             holds' = [holds EXCEPT ![slot["compress"]] = h]
      BY <2>2 DEF CompressStep, Added
    <3>2. h = holds[slot["compress"]] => holds' = holds
      BY <3>1 DEF TasksInv, TasksTypeOK
    <3> QED  BY <2>2, <3>1, <3>2
  <2> QED  BY <2>1, <2>2
<1>3. slot["compress"] # None => slot["compress"] \in Tasks /\ kind[slot["compress"]] = "compress"
  BY DEF TasksInv, SlotRuns, TasksTypeOK, Kinds
<1>4. TasksTypeOK'
  <2>1. left' \in [Tasks -> 0..MaxSteps]
    BY StepsAssumption DEF CompressStep, TasksInv, TasksTypeOK
  <2>2. holds' \in [Tasks -> SUBSET Tasks]
    BY <1>2, <1>3 DEF TasksInv, TasksTypeOK
  <2> QED  BY <1>1, <2>1, <2>2 DEF TasksInv, TasksTypeOK
<1>5. SlotRuns'
  BY <1>1 DEF TasksInv, SlotRuns, Running
<1>6. \A u \in Tasks : TaskInv(u)'
  BY <1>1, <1>2, <1>3 DEF TasksInv, TaskInv, TasksTypeOK
<1>7. ASSUME NEW j \in Single, Spared(j), NEW u \in Tasks, kind[u] = j
      PROVE  holds'[u] \subseteq {u}
  <2>1. holds[u] \subseteq {u}
    BY <1>7 DEF TasksInv, LoneInv
  <2>2. CASE u = slot["compress"] /\ slot["compress"] # None
    <3>1. slot["compress"] = t
      BY <1>1, <1>3, <1>7, <2>2 DEF TasksInv, LoneInv
    <3> QED  BY <1>2, <2>1, <2>2, <3>1 DEF TasksInv, TasksTypeOK
  <2>3. CASE u # slot["compress"]
    BY <1>2, <2>1, <2>3 DEF TasksInv, TasksTypeOK
  <2> QED  BY <2>2, <2>3, <2>1, <1>2
<1>8. \A j \in Single : LoneInv(j)'
  BY <1>1, <1>7 DEF TasksInv, LoneInv, Spared, Running
<1> QED  BY <1>4, <1>5, <1>6, <1>8 DEF TasksInv

LEMMA DecompressStepInv == ASSUME TasksInv, NEW t \in Tasks, DecompressStep(t) PROVE TasksInv'
<1>1. UNCHANGED <<kind, stage, told, slot, request, holds, stopped>>
  BY DEF DecompressStep
<1>2. left' \in [Tasks -> 0..MaxSteps]
  BY StepsAssumption DEF DecompressStep, TasksInv, TasksTypeOK, Kinds
<1>3. TasksTypeOK'
  BY <1>1, <1>2 DEF TasksInv, TasksTypeOK
<1>4. SlotRuns' /\ \A u \in Tasks : TaskInv(u)'
  BY <1>1 DEF TasksInv, SlotRuns, TaskInv, Running
<1>5. \A j \in Single : LoneInv(j)'
  BY <1>1 DEF TasksInv, LoneInv, Spared, Running
<1> QED  BY <1>3, <1>4, <1>5 DEF TasksInv

LEMMA CollectInv == ASSUME TasksInv, NEW t \in Tasks, Collect(t) PROVE TasksInv'
<1>1. /\ kind[t] \in Native /\ stage[t] = "running" /\ slot[kind[t]] # t
      /\ stage' = [stage EXCEPT ![t] = "lost"]
      /\ UNCHANGED <<kind, told, left, slot, request, holds, stopped>>
  BY DEF Collect
<1>2. TasksTypeOK'
  BY <1>1 DEF TasksInv, TasksTypeOK, Stages
<1>3. SlotRuns'
  BY <1>1 DEF TasksInv, SlotRuns, Running, TasksTypeOK
<1>4. \A u \in Tasks : TaskInv(u)'
  BY <1>1 DEF TasksInv, TaskInv, TasksTypeOK
<1>5. \A j \in Single : LoneInv(j)'
  BY <1>1 DEF TasksInv, LoneInv, Spared, Running, TasksTypeOK
<1> QED  BY <1>2, <1>3, <1>4, <1>5 DEF TasksInv

LEMMA TasksStutter == TasksInv /\ UNCHANGED taskVars => TasksInv'
BY DEF taskVars, TasksInv, TasksTypeOK, SlotRuns, TaskInv, LoneInv, Spared, Running

LEMMA TasksInitInv == TasksInit => TasksInv
<1> SUFFICES ASSUME TasksInit PROVE TasksInv
  OBVIOUS
<1>1. TasksTypeOK
  BY StepsAssumption DEF TasksInit, TasksTypeOK, Stages
<1>2. <<>> # <<"cancel">>
  OBVIOUS
<1> QED
  BY <1>1, <1>2 DEF TasksInit, TasksInv, SlotRuns, TaskInv, LoneInv, Spared, Running

LEMMA TasksStep == TasksInv /\ [TasksNext]_taskVars => TasksInv'
<1> SUFFICES ASSUME TasksInv, TasksNext PROVE TasksInv'
  BY TasksStutter
<1>1. ASSUME NEW t \in Tasks, NEW k \in Kinds, Refuse(t, k) PROVE TasksInv'
  BY <1>1, RefusedInv DEF Refuse
<1>2. ASSUME NEW t \in Tasks, OpenAtOnce(t) PROVE TasksInv'
  BY <1>2, RefusedInv DEF OpenAtOnce, Kinds
<1>3. ASSUME NEW t \in Tasks, Advance(t) PROVE TasksInv'
  BY <1>3, EndActionEnds, EndsInv, ReadyInv, CompressStepInv, DecompressStepInv
     DEF Advance, EndAction
<1>4. ASSUME NEW ks \in SUBSET Kinds, Stop(ks) PROVE TasksInv'
  BY <1>4, StopInv
<1>5. \A k \in Kinds : {k} \in SUBSET Kinds
  OBVIOUS
<1> QED
  BY <1>1, <1>2, <1>3, <1>4, <1>5, StartInv, CollectInv DEF TasksNext

LEMMA TasksAlways == TasksSpec => []TasksInv
BY TasksInitInv, TasksStep, PTL DEF TasksSpec

\* Every value stays in its type; no task is answered twice.
THEOREM TasksTypes == TasksSpec => []TasksTypeOK
BY TasksAlways, PTL DEF TasksInv

\* A slot that is taken holds a task that is under way.
THEOREM TasksSlotRuns == TasksSpec => []SlotRuns
BY TasksAlways, PTL DEF TasksInv

\* Tasks of a kind of which none was stopped do not disturb each other.
THEOREM TasksUndisturbed == TasksSpec => []Undisturbed
<1>1. TasksInv => Undisturbed
  <2> SUFFICES ASSUME TasksInv, NEW k \in Single, Spared(k)
               PROVE  /\ \A t, u \in Tasks : kind[t] = k /\ kind[u] = k /\ Running(t) /\ Running(u)
                                                => t = u
                      /\ \A t \in Tasks : kind[t] = k => holds[t] \subseteq {t} /\ told[t] # <<"cancel">>
    BY DEF Undisturbed, Spared
  <2> QED  BY DEF TasksInv, LoneInv
<1> QED  BY <1>1, TasksAlways, PTL

-----------------------------------------------------------------------------
Now == [t \in Tasks |-> TaskCall(t)]

LEMMA NowOne ==
    ASSUME NEW t \in Tasks, \A u \in Tasks \ {t} : TaskCall(u)' = TaskCall(u)
    PROVE  Now' = [Now EXCEPT ![t] = TaskCall(t)']
BY DEF Now

LEMMA CallOfTask ==
    ASSUME TasksInv, NEW t \in Tasks
    PROVE  /\ stage[t] = "new" => TaskCall(t) = "new"
           /\ stage[t] = "answered" => TaskCall(t) = "answered"
           /\ stage[t] \notin {"new", "answered"} => TaskCall(t) = "open"
<1>1. stage[t] = "answered" => Len(told[t]) = 1 /\ told[t] # <<>>
  BY DEF TasksInv, TaskInv, TasksTypeOK
<1>2. stage[t] # "answered" => told[t] = <<>>
  BY DEF TasksInv, TaskInv
<1> QED  BY <1>1, <1>2 DEF TaskCall

\* The same of the state after a step.
LEMMA CallOfTaskNext ==
    ASSUME TasksInv', NEW t \in Tasks
    PROVE  /\ stage'[t] = "new" => TaskCall(t)' = "new"
           /\ stage'[t] = "answered" => TaskCall(t)' = "answered"
           /\ stage'[t] \notin {"new", "answered"} => TaskCall(t)' = "open"
<1>1. stage'[t] = "answered" => Len(told'[t]) = 1 /\ told'[t] # <<>>
  BY DEF TasksInv, TaskInv, TasksTypeOK
<1>2. stage'[t] # "answered" => told'[t] = <<>>
  BY DEF TasksInv, TaskInv
<1> QED  BY <1>1, <1>2 DEF TaskCall

LEMMA NowKept ==
    ASSUME TasksInv, TasksInv',
           \A u \in Tasks : /\ stage'[u] = "new" <=> stage[u] = "new"
                            /\ stage'[u] = "answered" <=> stage[u] = "answered"
    PROVE  Now' = Now
<1>1. \A u \in Tasks : TaskCall(u)' = TaskCall(u)
  <2> SUFFICES ASSUME NEW u \in Tasks PROVE TaskCall(u)' = TaskCall(u)
    OBVIOUS
  <2>1. /\ stage'[u] = "new" => TaskCall(u)' = "new"
        /\ stage'[u] = "answered" => TaskCall(u)' = "answered"
        /\ stage'[u] \notin {"new", "answered"} => TaskCall(u)' = "open"
    BY CallOfTaskNext
  <2> QED  BY <2>1, CallOfTask
<1> QED  BY <1>1 DEF Now

LEMMA NowMoves ==
    ASSUME TasksInv, TasksInv', NEW t \in Tasks, NEW s, stage' = [stage EXCEPT ![t] = s],
           stage[t] # "answered", s # "new", stage[t] = "new" \/ s = "answered"
    PROVE  [TasksPromise!Next]_Now
<1>1. /\ stage'[t] = s
      /\ \A u \in Tasks \ {t} : stage'[u] = stage[u]
  BY DEF TasksInv, TasksTypeOK
<1>2. ASSUME NEW u \in Tasks
      PROVE  /\ stage'[u] = "new" => TaskCall(u)' = "new"
             /\ stage'[u] = "answered" => TaskCall(u)' = "answered"
             /\ stage'[u] \notin {"new", "answered"} => TaskCall(u)' = "open"
  BY CallOfTaskNext
<1>3. \A u \in Tasks \ {t} : TaskCall(u)' = TaskCall(u)
  BY <1>1, <1>2, CallOfTask
<1>4. Now' = [Now EXCEPT ![t] = TaskCall(t)']
  BY <1>3, NowOne
<1>5. CASE stage[t] = "new" /\ s = "answered"
  <2>1. TaskCall(t) = "new" /\ TaskCall(t)' = "answered"
    BY <1>1, <1>2, <1>5, CallOfTask
  <2> QED  BY <1>4, <2>1 DEF TasksPromise!Next, TasksPromise!Refuse, Now
<1>6. CASE stage[t] = "new" /\ s # "answered"
  <2>1. TaskCall(t) = "new" /\ TaskCall(t)' = "open"
    BY <1>1, <1>2, <1>6, CallOfTask
  <2> QED  BY <1>4, <2>1 DEF TasksPromise!Next, TasksPromise!Ask, Now
<1>7. CASE stage[t] # "new"
  <2>1. TaskCall(t) = "open" /\ TaskCall(t)' = "answered"
    BY <1>1, <1>2, <1>7, CallOfTask
  <2> QED  BY <1>4, <2>1 DEF TasksPromise!Next, TasksPromise!Answer, Now
<1> QED  BY <1>5, <1>6, <1>7

LEMMA TasksPromiseStep == TasksInv /\ TasksInv' /\ [TasksNext]_taskVars => [TasksPromise!Next]_Now
<1> SUFFICES ASSUME TasksInv, TasksInv', [TasksNext]_taskVars PROVE [TasksPromise!Next]_Now
  OBVIOUS
<1>1. ASSUME NEW t \in Tasks, NEW k \in Kinds, Refuse(t, k) \/ Start(t, k) \/ OpenAtOnce(t)
      PROVE  [TasksPromise!Next]_Now
  <2>1. stage[t] = "new"
    BY <1>1 DEF Refuse, Start, OpenAtOnce, New, TasksInv, TaskInv
  <2>2. \E s \in {"answered", "asked", "running"} : stage' = [stage EXCEPT ![t] = s]
    BY <1>1 DEF Refuse, Start, OpenAtOnce, Tell
  <2> QED  BY <2>1, <2>2, NowMoves
<1>2. ASSUME NEW t \in Tasks, EndAction(t) PROVE [TasksPromise!Next]_Now
  <2>1. PICK a \in Results : Ends(t, a)
    BY <1>2, EndActionEnds
  <2>2. stage[t] # "answered" /\ stage' = [stage EXCEPT ![t] = "answered"]
    BY <2>1 DEF Ends, Running, Tell
  <2> QED  BY <2>2, NowMoves
<1>3. ASSUME NEW t \in Tasks, DownloadReady(t) \/ CompressStep(t) \/ DecompressStep(t) \/ Collect(t)
      PROVE  [TasksPromise!Next]_Now
  <2>1. \A u \in Tasks : /\ stage'[u] = "new" <=> stage[u] = "new"
                         /\ stage'[u] = "answered" <=> stage[u] = "answered"
    BY <1>3 DEF DownloadReady, CompressStep, DecompressStep, Collect, TasksInv, TasksTypeOK
  <2> QED  BY <2>1, NowKept
<1>4. ASSUME NEW ks \in SUBSET Kinds, Stop(ks) PROVE [TasksPromise!Next]_Now
  <2>1. \/ stage' = stage
        \/ stage' = [stage EXCEPT ![request] = IF @ = "running" THEN "aborted" ELSE @]
    BY <1>4 DEF Stop
  <2>2. \A u \in Tasks : /\ stage'[u] = "new" <=> stage[u] = "new"
                         /\ stage'[u] = "answered" <=> stage[u] = "answered"
    BY <2>1 DEF TasksInv, TasksTypeOK
  <2> QED  BY <2>2, NowKept
<1>5. CASE UNCHANGED taskVars
  BY <1>5 DEF taskVars, Now, TaskCall
<1>6. \A k \in Kinds : {k} \in SUBSET Kinds
  OBVIOUS
<1>7. ASSUME NEW t \in Tasks, Advance(t) PROVE [TasksPromise!Next]_Now
  BY <1>2, <1>3, <1>7 DEF Advance, EndAction
<1>8. ASSUME NEW t \in Tasks, OpenAtOnce(t) PROVE [TasksPromise!Next]_Now
  BY <1>1, <1>8 DEF Kinds
<1> QED
  BY <1>1, <1>3, <1>4, <1>5, <1>6, <1>7, <1>8 DEF TasksNext

\* The tasks implement the safety of Answers: none is answered before it is asked, nor
\* twice.
THEOREM TasksAnswerOnce == TasksSpec => TasksOneAnswer
<1>1. TasksInit => TasksPromise!Init
  BY DEF TasksInit, TasksPromise!Init, TaskCall
<1>2. TasksInv /\ TasksInv' /\ [TasksNext]_taskVars => [TasksPromise!Next]_[t \in Tasks |-> TaskCall(t)]
  BY TasksPromiseStep DEF Now
<1> QED
  BY <1>1, <1>2, TasksAlways, PTL DEF TasksSpec, TasksOneAnswer, TasksPromise!SafeSpec
=============================================================================
