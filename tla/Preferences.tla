---------------------------- MODULE Preferences ----------------------------
(***************************************************************************)
(* The settings of the documents (preferences.js): an object shared by     *)
(* path, saved a minute after the last change, and destroyed, saved once   *)
(* more, some minutes after it was last asked for.                         *)
(*                                                                         *)
(* Every use of the settings asks for the object first (app.preferences),  *)
(* so when its time to be destroyed comes, the minute after the last       *)
(* change is long over (destroy_time, saved_time): Destroy waits for both. *)
(* While destroy writes the file, the object is still shared.              *)
(***************************************************************************)
CONSTANTS
    Changes,    \* the settings that are changed, each once
    Objects,    \* the Preferences objects, each made once
    Nil

ASSUME ObjectsAssumption == Nil \notin Objects

VARIABLES
    shared,     \* the object in all_settings
    made,       \* the objects that were made
    values,     \* what each object knows: the changes it has
    due,        \* objects with a save to come
    writes,     \* the files that are being written: for whom, what, and why
    disk,       \* the changes in .preference.json
    late,       \* the changes made while the object was being destroyed
    failed      \* the changes whose object was forgotten after a write that failed

prefVars == <<shared, made, values, due, writes, disk, late, failed>>

\* saved: nothing is written when no object of the path is shared.
Writing(o, why) ==
    writes' = IF shared = Nil THEN writes
              ELSE writes \cup {[obj |-> o, what |-> values[o], why |-> why]}

Destroying == \E w \in writes : w.why = "destroy"

\* share, which reads the file for a new object.
Share ==
    /\ shared = Nil
    /\ \E o \in Objects \ made :
          /\ shared' = o
          /\ made' = made \cup {o}
          /\ values' = [values EXCEPT ![o] = disk]
    /\ UNCHANGED <<due, writes, disk, late, failed>>

\* set, del and set_all, of the object that is shared.
Set(ch) ==
    /\ shared # Nil
    /\ \A o \in Objects : ch \notin values[o]
    /\ ch \notin disk \cup late \cup failed
    /\ values' = [values EXCEPT ![shared] = @ \cup {ch}]
    /\ due' = due \cup {shared}
    /\ late' = IF Destroying THEN late \cup {ch} ELSE late
    /\ UNCHANGED <<shared, made, writes, disk, failed>>

\* The timer of save.
SaveFires(o) ==
    /\ o \in due
    /\ due' = due \ {o}
    /\ Writing(o, "save")
    /\ UNCHANGED <<shared, made, values, disk, late, failed>>

\* The timer of destroy, of the object that is shared by then.
Destroy_Unsaved ==
    /\ shared # Nil /\ due = {} /\ writes = {}
    /\ shared' = Nil
    /\ UNCHANGED <<made, values, due, writes, disk, late, failed>>

Destroy ==
    /\ shared # Nil /\ due = {} /\ writes = {}
    /\ Writing(shared, "destroy")
    /\ UNCHANGED <<shared, made, values, due, disk, late, failed>>

\* The write ends; the callback of destroy forgets the object, without a look at the
\* error or at who has asked for it meanwhile.
Written(w, ok) ==
    /\ w \in writes
    /\ writes' = writes \ {w}
    /\ disk' = IF ok THEN w.what ELSE disk
    /\ shared' = IF w.why = "destroy" THEN Nil ELSE shared
    /\ failed' = IF ok THEN failed ELSE failed \cup w.what
    /\ UNCHANGED <<made, values, due, late>>

PrefInit ==
    /\ shared = Nil /\ made = {} /\ due = {} /\ writes = {}
    /\ values = [o \in Objects |-> {}]
    /\ disk = {} /\ late = {} /\ failed = {}

PrefNext ==
    \/ Share \/ Destroy
    \/ \E ch \in Changes : Set(ch)
    \/ \E o \in Objects : SaveFires(o)
    \/ \E w \in writes, ok \in BOOLEAN : Written(w, ok)

\* The timers fire and the writes end.
PrefFairness ==
    /\ WF_prefVars(Destroy)
    /\ WF_prefVars(\E o \in Objects : SaveFires(o))
    /\ WF_prefVars(\E w \in writes, ok \in BOOLEAN : Written(w, ok))

PrefSpec == PrefInit /\ [][PrefNext]_prefVars

-----------------------------------------------------------------------------
PrefTypeOK ==
    /\ shared \in Objects \cup {Nil} /\ made \subseteq Objects
    /\ values \in [Objects -> SUBSET Changes]
    /\ due \subseteq Objects
    /\ writes \subseteq [obj : Objects, what : SUBSET Changes, why : {"save", "destroy"}]
    /\ disk \subseteq Changes /\ late \subseteq Changes /\ failed \subseteq Changes

Known == disk \cup (IF shared = Nil THEN {} ELSE values[shared])

\* A setting is not lost: unless it was made while the object was being destroyed, or a
\* write failed, it is in the file or in the object that everyone is given, although
\* late saves of an object that was destroyed write over the file.
SettingsKept == \A o \in Objects : \A ch \in values[o] : ch \in Known \cup late \cup failed

\* A setting that was changed reaches the file.
SettingsSaved ==
    \A ch \in Changes : (\E o \in Objects : ch \in values[o]) ~> ch \in disk \cup late \cup failed
=============================================================================
