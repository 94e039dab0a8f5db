-------------------------------- MODULE Find --------------------------------
(***************************************************************************)
(* The searches of APIService (api_service.js): one at a time for the      *)
(* whole service, by the global cur_find_id. Whatever ends a search, or    *)
(* the response of one, sets the global to 0, whosever it is.              *)
(***************************************************************************)
EXTENDS Naturals, Sequences

CONSTANTS
    MaxSearches,\* the searches the clients ask for
    MaxFiles,   \* the files of the directory that is searched
    PageSize    \* data.size: the files of a result

ASSUME FindAssumption == MaxSearches \in Nat /\ MaxFiles \in Nat

\* A path that is a file is searched like a directory of one file: it fills no page.
ASSUME PageAssumption == PageSize \in Nat /\ PageSize > 1

\* util.id: the number of a search is its identifier.
Searches == 1..MaxSearches
Nobody == 0

\* "walk": a callback of the file system is to come; "pause": match_code has put
\* itself off; "over": called back; "quit": returned without; "thrown": it never began.
Phases == {"new", "walk", "pause", "over", "quit", "thrown"}

\* "all" and "more" differ in is_end: the client asks again after "more". A search
\* that finds itself stopped in find_dir answers like one that has seen every file.
Answer_ == {"busy", "error", "all", "more"}

VARIABLES
    cur,        \* cur_find_id
    phase,      \* the searches
    answered,   \* what they were answered
    unseen,     \* the files a search has still to read
    matched,    \* the files it has found something in
    hung        \* searches whose response has been closed

findVars == <<cur, phase, answered, unseen, matched, hung>>

Say(s, a) == answered' = [answered EXCEPT ![s] = Append(@, a)]

\* callback, by cb or by throw, with its finally.
EndFind_Kept(s, a) ==
    /\ phase' = [phase EXCEPT ![s] = "over"]
    /\ Say(s, a)
    /\ UNCHANGED cur

EndFind(s, a) ==
    /\ phase' = [phase EXCEPT ![s] = "over"]
    /\ Say(s, a)
    /\ cur' = Nobody

Asked(s) == phase[s] = "new" /\ \A u \in 1..(s - 1) : phase[u] # "new"

FindBusy(s) ==
    /\ Asked(s) /\ cur # Nobody
    /\ phase' = [phase EXCEPT ![s] = "over"]
    /\ Say(s, "busy")
    /\ UNCHANGED <<cur, unseen, matched, hung>>

StartFind(s) ==
    /\ Asked(s) /\ cur = Nobody
    /\ cur' = s
    /\ phase' = [phase EXCEPT ![s] = "walk"]
    /\ \E n \in 0..MaxFiles : unseen' = [unseen EXCEPT ![s] = n]
    /\ UNCHANGED <<answered, matched, hung>>

\* The client's expression is not one: find throws after it has taken the global.
ExpressionThrows(s) ==
    /\ Asked(s) /\ cur = Nobody
    /\ cur' = s
    /\ phase' = [phase EXCEPT ![s] = "thrown"]
    /\ UNCHANGED <<answered, unseen, matched, hung>>

StopFind == cur # Nobody /\ cur' = Nobody /\ UNCHANGED <<phase, answered, unseen, matched, hung>>

\* 'close' of the response, before or after the answer.
ResponseCloses(s) ==
    /\ phase[s] \notin {"new", "thrown"} /\ s \notin hung /\ answered[s] # <<"busy">>
    /\ hung' = hung \cup {s}
    /\ cur' = Nobody
    /\ UNCHANGED <<phase, answered, unseen, matched>>

\* An error of stat, readdir or readFile, or of the expression.
FindFails(s) ==
    /\ phase[s] = "walk" \/ (phase[s] = "pause" /\ cur = s)
    /\ EndFind(s, "error")
    /\ UNCHANGED <<unseen, matched, hung>>

\* find_dir of a directory below finds the search stopped.
FindDirStopped(s) ==
    /\ phase[s] = "walk" /\ unseen[s] > 0 /\ cur # s
    /\ EndFind(s, "all")
    /\ UNCHANGED <<unseen, matched, hung>>

\* match_code, when its file was read and after each pause of 100 matches. The file is
\* done, with a match or without; then callback goes to the next one or ends.
Matches(s) == {matched[s], matched[s] + 1}

\* A page that is full is taken for the end.
NextFile_NoPage(s, m) ==
    /\ matched' = [matched EXCEPT ![s] = m]
    /\ unseen' = [unseen EXCEPT ![s] = @ - 1]
    /\ IF m = PageSize THEN EndFind(s, "all")
       ELSE IF unseen[s] = 1 THEN EndFind(s, "all")
       ELSE phase' = [phase EXCEPT ![s] = "walk"] /\ UNCHANGED <<cur, answered>>

\* The walk goes on after the page was answered.
NextFile_On(s, m) ==
    /\ matched' = [matched EXCEPT ![s] = m]
    /\ unseen' = [unseen EXCEPT ![s] = @ - 1]
    /\ IF m = PageSize /\ unseen[s] # 1 THEN Say(s, "more") /\ UNCHANGED <<cur, phase>>
       ELSE IF unseen[s] = 1 THEN EndFind(s, "all")
       ELSE phase' = [phase EXCEPT ![s] = "walk"] /\ UNCHANGED <<cur, answered>>

NextFile(s, m) ==
    /\ matched' = [matched EXCEPT ![s] = m]
    /\ unseen' = [unseen EXCEPT ![s] = @ - 1]
    /\ IF m = PageSize THEN EndFind(s, "more")
       ELSE IF unseen[s] = 1 THEN EndFind(s, "all")
       ELSE phase' = [phase EXCEPT ![s] = "walk"] /\ UNCHANGED <<cur, answered>>

\* A stopped search returns without calling back.
MatchCode(s) ==
    /\ phase[s] \in {"walk", "pause"} /\ unseen[s] > 0
    /\ IF cur # s
       THEN phase' = [phase EXCEPT ![s] = "quit"] /\ UNCHANGED <<cur, answered, unseen, matched>>
       ELSE \/ phase[s] = "walk" /\ phase' = [phase EXCEPT ![s] = "pause"]
                                 /\ UNCHANGED <<cur, answered, unseen, matched>>
            \/ \E m \in Matches(s) : NextFile(s, m)
    /\ UNCHANGED hung

\* The end of a directory is seen after a file only.
NothingToFind_Shift(s) ==
    /\ phase[s] = "walk" /\ unseen[s] = 0 /\ matched[s] > 0
    /\ EndFind(s, "all")
    /\ UNCHANGED <<unseen, matched, hung>>

\* A directory without files, or a file that is not one to be searched.
NothingToFind(s) ==
    /\ phase[s] = "walk" /\ unseen[s] = 0
    /\ EndFind(s, "all")
    /\ UNCHANGED <<unseen, matched, hung>>

-----------------------------------------------------------------------------
FindInit ==
    /\ cur = Nobody
    /\ phase = [s \in Searches |-> "new"]
    /\ answered = [s \in Searches |-> <<>>]
    /\ unseen = [s \in Searches |-> 0]
    /\ matched = [s \in Searches |-> 0]
    /\ hung = {}

Seek(s) == FindDirStopped(s) \/ MatchCode(s) \/ NothingToFind(s)

FindNext ==
    \/ StopFind
    \/ \E s \in Searches : FindBusy(s) \/ StartFind(s) \/ ExpressionThrows(s)
                            \/ ResponseCloses(s) \/ FindFails(s) \/ Seek(s)

\* The file system calls back, with an error or without, and the timers fire.
FindFairness == \A s \in Searches : WF_findVars(Seek(s))

FindSpec == FindInit /\ [][FindNext]_findVars

-----------------------------------------------------------------------------
FindTypeOK ==
    /\ cur \in Searches \cup {Nobody}
    /\ phase \in [Searches -> Phases]
    /\ answered \in [Searches -> {<<>>} \cup {<<a>> : a \in Answer_}]
    /\ unseen \in [Searches -> 0..MaxFiles]
    /\ matched \in [Searches -> 0..MaxFiles]
    /\ hung \subseteq Searches

\* The global is taken only by a search that is under way, whichever search ended,
\* was stopped or lost its response meanwhile; or by one whose expression threw, and
\* then no search begins until a client stops one that does not run.
TakenByOne == cur # Nobody => phase[cur] \in {"walk", "pause", "thrown"}

\* A search that is answered while the global is its own is told the truth about the
\* files it has not read: after "all" there is none, after "more" the page is full.
IsEnd ==
    [][\A s \in Searches : cur = s /\ answered[s] = <<>> =>
          /\ answered'[s] = <<"all">> => unseen'[s] = 0
          /\ answered'[s] = <<"more">> => matched'[s] = PageSize]_findVars

SearchCall(s) ==
    CASE phase[s] = "new" -> "new"
      [] phase[s] # "new" /\ answered[s] = <<>> -> "open"
      [] phase[s] # "new" /\ Len(answered[s]) = 1 -> "answered"
      [] OTHER -> "answered again"

FindPromise == INSTANCE Answers WITH Calls <- Searches, call <- [s \in Searches |-> SearchCall(s)]

\* No search is answered twice, nor before it is asked: not by the chain of callbacks
\* that was stopped and goes on beside the next search.
FindOneAnswer == FindPromise!SafeSpec

\* A search ends: it is answered once, or it was stopped, by its client, by the end of
\* another search or by a response, and is left without an answer.
SearchEnds ==
    \A s \in Searches : phase[s] = "walk" ~> phase[s] = "quit" \/ Len(answered[s]) = 1
=============================================================================
