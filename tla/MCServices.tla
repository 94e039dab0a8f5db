----------------------------- MODULE MCServices -----------------------------
(***************************************************************************)
(* Instances of the services for TLC: the tasks of a client, the searches, *)
(* the settings and the scripts. They share no state, so each behaviour    *)
(* runs one of them; "which" names it.                                     *)
(***************************************************************************)
EXTENDS TaskSlots, Find, Preferences, ScriptService

VARIABLE which

allVars == <<taskVars, findVars, prefVars, scriptVars, which>>

ServicesInit ==
    /\ which \in {"tasks", "find", "preferences", "script"}
    /\ TasksInit /\ FindInit /\ PrefInit /\ ScriptInit

ServicesNext ==
    /\ \/ which = "tasks" /\ TasksNext /\ UNCHANGED <<findVars, prefVars, scriptVars>>
       \/ which = "find" /\ FindNext /\ UNCHANGED <<taskVars, prefVars, scriptVars>>
       \/ which = "preferences" /\ PrefNext /\ UNCHANGED <<taskVars, findVars, scriptVars>>
       \/ which = "script" /\ ScriptNext /\ UNCHANGED <<taskVars, findVars, prefVars>>
    /\ UNCHANGED which

ServicesSpec == ServicesInit /\ [][ServicesNext]_allVars

\* What has not begun is not enabled: the fairness of the others asks nothing.
ServicesFairSpec ==
    ServicesSpec /\ TasksFairness /\ FindFairness /\ PrefFairness /\ ScriptFairness

\* The types of the four. In them no task and no search has more than one answer, and a
\* script's client is told start, error and exit in an order that makes sense.
ServicesTypeOK == TasksTypeOK /\ FindTypeOK /\ PrefTypeOK /\ ScriptTypeOK
=============================================================================
