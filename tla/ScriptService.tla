--------------------------- MODULE ScriptService ---------------------------
(***************************************************************************)
(* The one script that runs (script_service.js) and the contexts that run  *)
(* it (javascript_context.js, remote_script_context.js): m_context is set  *)
(* before the context is asked to run and is cleared by its exit alone.    *)
(***************************************************************************)
EXTENDS Sequences

CONSTANTS
    Scripts,    \* the scripts the client asks to run
    NoScript

ASSUME ScriptsAssumption == NoScript \notin Scripts

\* "connecting": the ssh client of a remote script is being connected; "up": it runs;
\* "refused": the context was made and its run threw; "ended": it has exited.
ScriptStates == {"new", "connecting", "up", "refused", "ended"}

VARIABLES
    context,    \* m_context
    script,     \* what became of each script
    killed,     \* those whose m_is_run was cleared, or whose machine was stopped
    noticed     \* the events the client was sent for each

scriptVars == <<context, script, killed, noticed>>

\* The client is sent an event, after an error or not.
Noticed(s, threw, ev) ==
    noticed' = [noticed EXCEPT ![s] = Append(IF threw THEN Append(@, "error") ELSE @, ev)]

\* A lite build, a script that is running, a type of file or a machine that is missing.
RunRefused(s) ==
    /\ script[s] = "new"
    /\ script' = [script EXCEPT ![s] = "ended"]
    /\ Noticed(s, FALSE, "error")
    /\ UNCHANGED <<context, killed>>

RunScript_Any(s) ==
    /\ script[s] = "new"
    /\ context' = s
    /\ \/ \E st \in {"connecting", "up"} : script' = [script EXCEPT ![s] = st]
          /\ Noticed(s, FALSE, "start")
       \/ script' = [script EXCEPT ![s] = "refused"] /\ Noticed(s, TRUE, "start")
    /\ UNCHANGED killed

\* run; one whose type is not ssh throws when it is run, and has started all the same.
RunScript(s) ==
    /\ script[s] = "new" /\ context = NoScript
    /\ context' = s
    /\ \/ \E st \in {"connecting", "up"} : script' = [script EXCEPT ![s] = st]
          /\ Noticed(s, FALSE, "start")
       \/ script' = [script EXCEPT ![s] = "refused"] /\ Noticed(s, TRUE, "start")
    /\ UNCHANGED killed

StopScript ==
    /\ context # NoScript /\ context \notin killed
    /\ killed' = killed \cup {context}
    /\ UNCHANGED <<context, script, noticed>>

\* The connection is there: a script that was stopped meanwhile exits.
Connected(s) ==
    /\ script[s] = "connecting" /\ s \notin killed
    /\ script' = [script EXCEPT ![s] = "up"]
    /\ UNCHANGED <<context, killed, noticed>>

Exit_Kept(s, threw) ==
    /\ script' = [script EXCEPT ![s] = "ended"]
    /\ Noticed(s, threw, "exit")
    /\ UNCHANGED <<context, killed>>

Exit(s, threw) ==
    /\ script' = [script EXCEPT ![s] = "ended"]
    /\ context' = NoScript
    /\ Noticed(s, threw, "exit")
    /\ UNCHANGED killed

ConnectEnds(s) ==
    /\ script[s] = "connecting"
    /\ \/ Exit(s, TRUE)
       \/ s \in killed /\ Exit(s, FALSE)

\* The script ends or is killed; with output on stderr there is an error first.
ScriptExits(s) ==
    /\ script[s] = "up"
    /\ \E threw \in BOOLEAN : Exit(s, threw)

ScriptInit ==
    /\ context = NoScript
    /\ script = [s \in Scripts |-> "new"]
    /\ killed = {}
    /\ noticed = [s \in Scripts |-> <<>>]

ScriptNext ==
    \/ StopScript
    \/ \E s \in Scripts : \/ RunRefused(s) \/ RunScript(s)
                          \/ Connected(s) \/ ConnectEnds(s) \/ ScriptExits(s)

\* The connection is made, fails or times out, and a script that is killed ends.
ScriptFairness ==
    \A s \in Scripts : /\ WF_scriptVars(Connected(s) \/ ConnectEnds(s))
                       /\ WF_scriptVars(s \in killed /\ ScriptExits(s))

ScriptSpec == ScriptInit /\ [][ScriptNext]_scriptVars

-----------------------------------------------------------------------------
ScriptTypeOK ==
    /\ context \in Scripts \cup {NoScript}
    /\ script \in [Scripts -> ScriptStates]
    /\ killed \subseteq Scripts
    /\ noticed \in [Scripts -> {<<>>, <<"error">>, <<"start">>, <<"error", "start">>,
                                <<"start", "exit">>, <<"start", "error", "exit">>}]

\* A script that runs, or is about to, is the one in m_context: there is never a second,
\* and stop reaches it.
OneScript == \A s \in Scripts : script[s] \in {"connecting", "up"} => context = s

\* m_context is that of a script that runs, connects, or whose run threw: no other is
\* left there when it has ended, whichever of exit, error and stop came first, so that
\* the next one may start.
ContextRuns == context # NoScript => script[context] \in {"connecting", "up", "refused"}

\* A script that is stopped ends, while it connects too, and makes way for the next; but
\* for one whose run threw, which stays in m_context though nothing runs.
StopEnds == \A s \in Scripts : s \in killed ~> context # s \/ script[s] = "refused"
=============================================================================
