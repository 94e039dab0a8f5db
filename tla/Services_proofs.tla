-------------------------- MODULE Services_proofs --------------------------
(***************************************************************************)
(* Proofs about the three small services, Find, Preferences and            *)
(* ScriptService, and about their composition with TaskSlots.              *)
(***************************************************************************)
EXTENDS MCServices, TaskSlots_proofs, SequenceTheorems

(***************************************************************************)
(* Find: a search that has answered is over, and what it has matched and   *)
(* what it has not seen are together no more than the directory.           *)
(***************************************************************************)
FindInv ==
    /\ FindTypeOK
    /\ TakenByOne
    /\ \A s \in Searches : /\ phase[s] # "over" => answered[s] = <<>>
                           /\ phase[s] = "new" => matched[s] = 0
                           /\ matched[s] + unseen[s] <= MaxFiles

\* A file is done.
LEMMA Counted ==
    ASSUME FindInv, NEW s \in Searches, unseen[s] > 0, NEW m \in Matches(s),
           unseen' = [unseen EXCEPT ![s] = @ - 1], matched' = [matched EXCEPT ![s] = m]
    PROVE  /\ unseen' \in [Searches -> 0..MaxFiles] /\ matched' \in [Searches -> 0..MaxFiles]
           /\ \A u \in Searches : matched'[u] + unseen'[u] <= MaxFiles
           /\ \A u \in Searches \ {s} : matched'[u] = matched[u]
           /\ unseen'[s] = unseen[s] - 1 /\ matched'[s] = m
<1>1. /\ unseen[s] \in 1..MaxFiles /\ matched[s] \in 0..MaxFiles
      /\ matched[s] + unseen[s] <= MaxFiles
  BY FindAssumption DEF FindInv, FindTypeOK
<1>2. unseen[s] - 1 \in 0..MaxFiles /\ m \in 0..MaxFiles /\ m + (unseen[s] - 1) <= MaxFiles
  BY <1>1, FindAssumption DEF Matches
<1>3. /\ unseen \in [Searches -> 0..MaxFiles] /\ matched \in [Searches -> 0..MaxFiles]
      /\ \A u \in Searches : matched[u] + unseen[u] <= MaxFiles
  BY DEF FindInv, FindTypeOK
<1> QED  BY <1>2, <1>3

LEMMA SayFirst ==
    ASSUME FindInv, NEW s \in Searches, phase[s] # "over", NEW a \in Answer_, Say(s, a)
    PROVE  answered' = [answered EXCEPT ![s] = <<a>>]
<1>1. answered[s] = <<>>
  BY DEF FindInv
<1>2. answered[s] \in Seq(Answer_) /\ Append(answered[s], a) = <<a>>
  BY <1>1
<1> QED  BY <1>2 DEF Say

\* A search is over; the global is freed, or was taken by another.
LEMMA OverInv ==
    ASSUME FindInv, NEW s \in Searches, phase[s] # "over", NEW a \in Answer_, Say(s, a),
           phase' = [phase EXCEPT ![s] = "over"],
           cur' = Nobody \/ (cur' = cur /\ cur # s),
           \/ UNCHANGED <<unseen, matched>>
           \/ /\ unseen[s] > 0 /\ unseen' = [unseen EXCEPT ![s] = @ - 1]
              /\ \E m \in Matches(s) : matched' = [matched EXCEPT ![s] = m],
           UNCHANGED hung
    PROVE  FindInv'
<1>1. answered' = [answered EXCEPT ![s] = <<a>>]
  BY SayFirst
<1>2. /\ unseen' \in [Searches -> 0..MaxFiles] /\ matched' \in [Searches -> 0..MaxFiles]
      /\ \A u \in Searches : matched'[u] + unseen'[u] <= MaxFiles
      /\ \A u \in Searches \ {s} : matched'[u] = matched[u]
  <2>1. CASE UNCHANGED <<unseen, matched>>
    BY <2>1 DEF FindInv, FindTypeOK
  <2> QED  BY <2>1, Counted
<1>3. answered' \in [Searches -> {<<>>} \cup {<<b>> : b \in Answer_}]
  BY <1>1 DEF FindInv, FindTypeOK
<1>4. FindTypeOK'
  BY <1>2, <1>3 DEF FindInv, FindTypeOK, Phases
<1>5. TakenByOne'
  BY DEF FindInv, FindTypeOK, TakenByOne
<1>6. ASSUME NEW u \in Searches
      PROVE  /\ phase'[u] # "over" => answered'[u] = <<>>
             /\ phase'[u] = "new" => matched'[u] = 0
  BY <1>1, <1>2 DEF FindInv, FindTypeOK
<1> QED  BY <1>2, <1>4, <1>5, <1>6 DEF FindInv

LEMMA MatchInv == ASSUME FindInv, NEW s \in Searches, MatchCode(s) PROVE FindInv'
<1>1. phase[s] \in {"walk", "pause"} /\ unseen[s] > 0 /\ hung' = hung
  BY DEF MatchCode
<1>2. CASE cur # s
  <2>1. /\ phase' = [phase EXCEPT ![s] = "quit"]
        /\ UNCHANGED <<cur, answered, unseen, matched>>
    BY <1>2 DEF MatchCode
  <2> QED  BY <1>1, <1>2, <2>1 DEF FindInv, FindTypeOK, TakenByOne, Phases
<1>3. CASE /\ phase' = [phase EXCEPT ![s] = "pause"]
           /\ UNCHANGED <<cur, answered, unseen, matched>>
  BY <1>1, <1>3 DEF FindInv, FindTypeOK, TakenByOne, Phases
<1>4. ASSUME NEW m \in Matches(s), NextFile(s, m) PROVE FindInv'
  <2>1. /\ unseen' = [unseen EXCEPT ![s] = @ - 1]
        /\ matched' = [matched EXCEPT ![s] = m]
    BY <1>4 DEF NextFile
  <2>2. ASSUME NEW a \in {"more", "all"}, EndFind(s, a) PROVE FindInv'
    <3>1. a \in Answer_
      BY DEF Answer_
    <3> QED  BY <1>1, <2>1, <2>2, <3>1, OverInv DEF EndFind
  <2>3. CASE phase' = [phase EXCEPT ![s] = "walk"] /\ UNCHANGED <<cur, answered>>
    <3>1. /\ unseen' \in [Searches -> 0..MaxFiles] /\ matched' \in [Searches -> 0..MaxFiles]
          /\ \A u \in Searches : matched'[u] + unseen'[u] <= MaxFiles
          /\ \A u \in Searches \ {s} : matched'[u] = matched[u]
      BY <1>1, <1>4, <2>1, Counted
    <3> QED  BY <1>1, <2>3, <3>1 DEF FindInv, FindTypeOK, TakenByOne, Phases
  <2> QED  BY <1>4, <2>2, <2>3 DEF NextFile
<1> QED  BY <1>2, <1>3, <1>4 DEF MatchCode

LEMMA FindInitInv == FindInit => FindInv
BY FindAssumption DEF FindInit, FindInv, FindTypeOK, TakenByOne, Phases

LEMMA FindStep == FindInv /\ [FindNext]_findVars => FindInv'
<1> SUFFICES ASSUME FindInv, [FindNext]_findVars PROVE FindInv'
  OBVIOUS
<1>1. CASE UNCHANGED findVars
  BY <1>1 DEF findVars, FindInv, FindTypeOK, TakenByOne
<1>2. CASE StopFind
  BY <1>2 DEF StopFind, FindInv, FindTypeOK, TakenByOne
<1>3. ASSUME NEW s \in Searches, FindBusy(s) PROVE FindInv'
  <2>1. "busy" \in Answer_
    BY DEF Answer_
  <2>2. cur # s
    BY <1>3 DEF FindBusy, Asked, FindInv, TakenByOne
  <2> QED  BY <1>3, <2>1, <2>2, OverInv DEF FindBusy, Asked
<1>4. ASSUME NEW s \in Searches, StartFind(s) PROVE FindInv'
  BY <1>4, FindAssumption
  DEF StartFind, Asked, FindInv, FindTypeOK, TakenByOne, Phases, Searches, Nobody
<1>5. ASSUME NEW s \in Searches, ExpressionThrows(s) PROVE FindInv'
  BY <1>5 DEF ExpressionThrows, Asked, FindInv, FindTypeOK, TakenByOne, Phases, Searches, Nobody
<1>6. ASSUME NEW s \in Searches, ResponseCloses(s) PROVE FindInv'
  BY <1>6 DEF ResponseCloses, FindInv, FindTypeOK, TakenByOne
<1>7. ASSUME NEW s \in Searches, FindFails(s) PROVE FindInv'
  <2>1. "error" \in Answer_
    BY DEF Answer_
  <2> QED  BY <1>7, <2>1, OverInv DEF FindFails, EndFind
<1>8. ASSUME NEW s \in Searches, FindDirStopped(s) \/ NothingToFind(s) PROVE FindInv'
  <2>1. "all" \in Answer_
    BY DEF Answer_
  <2> QED  BY <1>8, <2>1, OverInv DEF FindDirStopped, NothingToFind, EndFind
<1> QED
  BY <1>1, <1>2, <1>3, <1>4, <1>5, <1>6, <1>7, <1>8, MatchInv DEF FindNext, Seek

LEMMA FindAlways == FindSpec => []FindInv
BY FindInitInv, FindStep, PTL DEF FindSpec

\* Every value stays in its type; no search is answered twice.
THEOREM FindTypes == FindSpec => []FindTypeOK
BY FindAlways, PTL DEF FindInv

\* The global is taken only by a search that is under way.
THEOREM FindTakenByOne == FindSpec => []TakenByOne
BY FindAlways, PTL DEF FindInv

\* What a search says of the files it has not read is true.
THEOREM FindIsEnd == FindSpec => IsEnd
<1>1. ASSUME FindInv, FindNext, NEW s \in Searches, cur = s, answered[s] = <<>>
      PROVE  /\ answered'[s] = <<"all">> => unseen'[s] = 0
             /\ answered'[s] = <<"more">> => matched'[s] = PageSize
  <2>1. ASSUME NEW u \in Searches, NEW a \in Answer_, Say(u, a), u # s
        PROVE  answered'[s] = answered[s]
    BY <2>1 DEF Say, FindInv, FindTypeOK
  <2>2. ASSUME NEW a \in Answer_, Say(s, a) PROVE answered'[s] = <<a>>
    BY <1>1, <2>2 DEF Say, FindInv, FindTypeOK
  <2>3. CASE answered' = answered
    BY <1>1, <2>3
  <2>4. ASSUME NEW u \in Searches, FindBusy(u) \/ FindFails(u)
        PROVE  answered'[s] \notin {<<"all">>, <<"more">>}
    <3>1. \E a \in {"busy", "error"} : Say(u, a)
      BY <2>4 DEF FindBusy, FindFails, EndFind
    <3> QED  BY <1>1, <2>1, <2>2, <3>1 DEF Answer_
  <2>5. ASSUME NEW u \in Searches, FindDirStopped(u) PROVE answered'[s] = answered[s]
    BY <1>1, <2>1, <2>5 DEF FindDirStopped, EndFind, Answer_
  <2>6. ASSUME NEW u \in Searches, NothingToFind(u)
        PROVE  answered'[s] = answered[s] \/ (answered'[s] = <<"all">> /\ unseen'[s] = 0)
    BY <1>1, <2>1, <2>2, <2>6 DEF NothingToFind, EndFind, Answer_
  <2>7. ASSUME NEW u \in Searches, MatchCode(u), answered' # answered
        PROVE  \/ answered'[s] = answered[s]
               \/ answered'[s] = <<"all">> /\ unseen'[s] = 0
               \/ answered'[s] = <<"more">> /\ matched'[s] = PageSize
    <3>1. PICK m \in Matches(u) : NextFile(u, m)
      BY <2>7 DEF MatchCode
    <3>2. \/ m = PageSize /\ Say(u, "more")
          \/ unseen[u] = 1 /\ Say(u, "all")
      BY <2>7, <3>1 DEF NextFile, EndFind
    <3>3. unseen'[u] = unseen[u] - 1 /\ matched'[u] = m
      BY <2>7, <3>1, Counted, <1>1 DEF NextFile, MatchCode
    <3> QED  BY <2>1, <2>2, <3>2, <3>3 DEF Answer_
  <2>8. \/ answered'[s] = <<>>
        \/ answered'[s] \notin {<<"all">>, <<"more">>}
        \/ answered'[s] = <<"all">> /\ unseen'[s] = 0
        \/ answered'[s] = <<"more">> /\ matched'[s] = PageSize
    BY <1>1, <2>3, <2>4, <2>5, <2>6, <2>7
    DEF FindNext, Seek, StopFind, StartFind, ExpressionThrows,
        ResponseCloses
  <2>9. <<"all">> # <<"more">> /\ <<>> # <<"all">> /\ <<>> # <<"more">>
    OBVIOUS
  <2> QED  BY <2>8, <2>9
<1>2. FindInv /\ [FindNext]_findVars =>
        [\A s \in Searches : cur = s /\ answered[s] = <<>> =>
            /\ answered'[s] = <<"all">> => unseen'[s] = 0
            /\ answered'[s] = <<"more">> => matched'[s] = PageSize]_findVars
  BY <1>1
<1> QED  BY <1>2, FindAlways, PTL DEF FindSpec, IsEnd

(***************************************************************************)
(* The searches implement the safety of Answers: StartFind asks, FindBusy  *)
(* refuses, what ends a search answers, and the rest is a stutter.         *)
(***************************************************************************)
SearchCalls == [s \in Searches |-> SearchCall(s)]

LEMMA SearchCallOf ==
    ASSUME FindInv, NEW s \in Searches
    PROVE  /\ phase[s] = "new" => SearchCall(s) = "new"
           /\ phase[s] # "new" /\ answered[s] = <<>> => SearchCall(s) = "open"
           /\ answered[s] # <<>> => SearchCall(s) = "answered"
<1>1. answered[s] # <<>> => phase[s] # "new" /\ Len(answered[s]) = 1
  BY DEF FindInv, FindTypeOK
<1> QED  BY <1>1 DEF SearchCall, FindInv

\* One search moves on.
LEMMA SearchMoves ==
    ASSUME FindInv, FindInv', NEW s \in Searches, answered[s] = <<>>, phase'[s] # "new",
           \A u \in Searches \ {s} : phase'[u] = phase[u] /\ answered'[u] = answered[u]
    PROVE  [FindPromise!Next]_SearchCalls
<1>1. \A u \in Searches \ {s} : SearchCall(u)' = SearchCall(u)
  BY DEF SearchCall
<1>2. SearchCall(s) \in {"new", "open"} /\ (SearchCall(s) = "new" <=> phase[s] = "new")
  BY SearchCallOf
<1>3. SearchCall(s)' \in {"open", "answered"}
  <2>1. answered'[s] # <<>> => Len(answered'[s]) = 1
    BY DEF FindInv, FindTypeOK
  <2> QED  BY <2>1 DEF SearchCall
<1>4. SearchCalls' = [SearchCalls EXCEPT ![s] = SearchCall(s)']
  BY <1>1 DEF SearchCalls
<1>5. SearchCalls[s] = SearchCall(s)
  BY DEF SearchCalls
<1>6. CASE SearchCall(s) = "open" /\ SearchCall(s)' = "open"
  BY <1>4, <1>5, <1>6 DEF SearchCalls
<1> QED
  BY <1>2, <1>3, <1>4, <1>5, <1>6
  DEF FindPromise!Next, FindPromise!Ask, FindPromise!Refuse, FindPromise!Answer, SearchCalls

LEMMA FindPromiseStep == FindInv /\ FindInv' /\ [FindNext]_findVars => [FindPromise!Next]_SearchCalls
<1> SUFFICES ASSUME FindInv, FindInv', [FindNext]_findVars PROVE [FindPromise!Next]_SearchCalls
  OBVIOUS
<1>1. CASE UNCHANGED <<phase, answered>>
  BY <1>1 DEF SearchCalls, SearchCall
<1>2. ASSUME NEW s \in Searches, FindBusy(s) \/ StartFind(s) \/ ExpressionThrows(s)
      PROVE  [FindPromise!Next]_SearchCalls
  <2>1. phase[s] = "new" /\ answered[s] = <<>>
    BY <1>2 DEF FindBusy, StartFind, ExpressionThrows, Asked, FindInv
  <2>2. /\ phase'[s] # "new"
        /\ \A u \in Searches \ {s} : phase'[u] = phase[u] /\ answered'[u] = answered[u]
    BY <1>2 DEF FindBusy, StartFind, ExpressionThrows, Say, FindInv, FindTypeOK
  <2> QED  BY <2>1, <2>2, SearchMoves
<1>3. ASSUME NEW s \in Searches, FindFails(s) \/ Seek(s), answered' # answered \/ phase' # phase
      PROVE  [FindPromise!Next]_SearchCalls
  <2>1. phase[s] \in {"walk", "pause"} /\ answered[s] = <<>>
    BY <1>3 DEF FindFails, Seek, FindDirStopped, MatchCode, NothingToFind, FindInv
  <2>2. /\ phase'[s] # "new"
        /\ \A u \in Searches \ {s} : phase'[u] = phase[u] /\ answered'[u] = answered[u]
    BY <1>3 DEF FindFails, Seek, FindDirStopped, MatchCode, NextFile, NothingToFind, EndFind, Say,
                FindInv, FindTypeOK
  <2> QED  BY <2>1, <2>2, SearchMoves
<1> QED
  BY <1>1, <1>2, <1>3 DEF FindNext, findVars, StopFind, ResponseCloses

\* No search is answered twice, nor before it is asked.
THEOREM FindAnswersOnce == FindSpec => FindOneAnswer
<1>1. FindInit => FindPromise!Init
  BY DEF FindInit, FindPromise!Init, SearchCall
<1>2. FindInv /\ FindInv' /\ [FindNext]_findVars =>
        [FindPromise!Next]_[s \in Searches |-> SearchCall(s)]
  BY FindPromiseStep DEF SearchCalls
<1> QED  BY <1>1, <1>2, FindAlways, PTL DEF FindSpec, FindOneAnswer, FindPromise!SafeSpec

-----------------------------------------------------------------------------
(***************************************************************************)
(* Preferences: nothing but what is late or failed is known to an object   *)
(* and not to the one that is shared; while that is destroyed, and until   *)
(* another is shared, nothing is missing in a file that is written.        *)
(***************************************************************************)
Lost == late \cup failed

PrefInv ==
    /\ PrefTypeOK
    /\ shared # Nil => \A o \in Objects : values[o] \subseteq values[shared] \cup Lost
    /\ shared = Nil => \A o \in Objects : values[o] \subseteq disk \cup Lost
    /\ Destroying \/ shared = Nil =>
          \A w \in writes : \A o \in Objects : values[o] \subseteq w.what \cup Lost
    /\ Destroying => shared # Nil /\ due \subseteq {shared}
    /\ \A v, w \in writes : v.why = "destroy" /\ w.why = "destroy" => v = w

LEMMA PrefKept == PrefInv => SettingsKept
BY DEF PrefInv, PrefTypeOK, SettingsKept, Known, Lost

LEMMA PrefInitInv == PrefInit => PrefInv
BY DEF PrefInit, PrefInv, PrefTypeOK, Destroying

LEMMA ShareInv == ASSUME PrefInv, Share PROVE PrefInv'
<1>1. PICK o \in Objects \ made : shared' = o /\ values' = [values EXCEPT ![o] = disk]
  BY DEF Share
<1>2. /\ shared = Nil /\ shared' # Nil /\ made' \subseteq Objects
      /\ UNCHANGED <<due, writes, disk, late, failed>>
  BY <1>1, ObjectsAssumption DEF Share, PrefInv, PrefTypeOK
<1>3. ~Destroying /\ ~Destroying'
  BY <1>2 DEF PrefInv, Destroying
<1>4. PrefTypeOK'
  BY <1>1, <1>2 DEF PrefInv, PrefTypeOK
<1>5. \A u \in Objects : values'[u] \subseteq values'[shared'] \cup Lost'
  BY <1>1, <1>2 DEF PrefInv, PrefTypeOK, Lost
<1> QED  BY <1>2, <1>3, <1>4, <1>5 DEF PrefInv

LEMMA SetInv == ASSUME PrefInv, NEW ch \in Changes, Set(ch) PROVE PrefInv'
<1>1. /\ shared \in Objects /\ shared # Nil
      /\ values' = [values EXCEPT ![shared] = @ \cup {ch}]
      /\ due' = due \cup {shared}
      /\ late' = IF Destroying THEN late \cup {ch} ELSE late
      /\ UNCHANGED <<shared, made, writes, disk, failed>>
  BY DEF Set, PrefInv, PrefTypeOK
<1>2. PrefTypeOK'
  BY <1>1 DEF PrefInv, PrefTypeOK
<1>3. Destroying' <=> Destroying
  BY <1>1 DEF Destroying
<1>4. Lost \subseteq Lost' /\ (Destroying => ch \in Lost')
  BY <1>1 DEF Lost
<1>5. \A u \in Objects : values'[u] \subseteq values'[shared'] \cup Lost'
  BY <1>1, <1>4 DEF PrefInv, PrefTypeOK
<1>6. Destroying => \A w \in writes : \A u \in Objects : values'[u] \subseteq w.what \cup Lost'
  BY <1>1, <1>4 DEF PrefInv, PrefTypeOK
<1> QED  BY <1>1, <1>2, <1>3, <1>5, <1>6 DEF PrefInv

LEMMA FiresInv == ASSUME PrefInv, NEW o \in Objects, SaveFires(o) PROVE PrefInv'
<1>1. o \in due /\ due' = due \ {o} /\ UNCHANGED <<shared, made, values, disk, late, failed>>
  BY DEF SaveFires
<1>2. CASE shared = Nil
  <2>1. writes' = writes
    BY <1>2 DEF SaveFires, Writing
  <2> QED  BY <1>1, <2>1 DEF PrefInv, PrefTypeOK, Destroying, Lost
<1>3. CASE shared # Nil
  <2> DEFINE w == [obj |-> o, what |-> values[o], why |-> "save"]
  <2>1. writes' = writes \cup {w} /\ w.why = "save" /\ w.what = values[o]
    BY <1>3 DEF SaveFires, Writing
  <2>2. w \in [obj : Objects, what : SUBSET Changes, why : {"save", "destroy"}]
    BY DEF PrefInv, PrefTypeOK
  <2> HIDE DEF w
  <2>3. PrefTypeOK'
    BY <1>1, <2>1, <2>2 DEF PrefInv, PrefTypeOK
  <2>4. Destroying' <=> Destroying
    BY <2>1 DEF Destroying
  <2>5. Destroying => o = shared
    BY <1>1 DEF PrefInv
  <2>6. Lost' = Lost
    BY <1>1 DEF Lost
  <2>7. Destroying => \A v \in writes' : \A u \in Objects : values[u] \subseteq v.what \cup Lost
    BY <1>3, <2>1, <2>5 DEF PrefInv
  <2> QED  BY <1>1, <1>3, <2>1, <2>3, <2>4, <2>6, <2>7 DEF PrefInv
<1> QED  BY <1>2, <1>3

LEMMA DestroyInv == ASSUME PrefInv, Destroy PROVE PrefInv'
<1> DEFINE w == [obj |-> shared, what |-> values[shared], why |-> "destroy"]
<1>1. /\ shared \in Objects /\ shared # Nil /\ due = {} /\ writes = {}
      /\ writes' = {w} /\ w.what = values[shared]
      /\ UNCHANGED <<shared, made, values, due, disk, late, failed>>
  BY DEF Destroy, Writing, PrefInv, PrefTypeOK
<1>2. w \in [obj : Objects, what : SUBSET Changes, why : {"save", "destroy"}]
  BY <1>1 DEF PrefInv, PrefTypeOK
<1> HIDE DEF w
<1>3. PrefTypeOK'
  BY <1>1, <1>2 DEF PrefInv, PrefTypeOK
<1>4. Lost' = Lost
  BY <1>1 DEF Lost
<1> QED  BY <1>1, <1>3, <1>4 DEF PrefInv

LEMMA WrittenInv ==
    ASSUME PrefInv, NEW w \in writes, NEW ok \in BOOLEAN, Written(w, ok) PROVE PrefInv'
<1>1. /\ writes' = writes \ {w}
      /\ disk' = IF ok THEN w.what ELSE disk
      /\ shared' = IF w.why = "destroy" THEN Nil ELSE shared
      /\ failed' = IF ok THEN failed ELSE failed \cup w.what
      /\ UNCHANGED <<made, values, due, late>>
  BY DEF Written
<1>2. w.what \subseteq Changes
  BY DEF PrefInv, PrefTypeOK
<1>3. PrefTypeOK'
  BY <1>1, <1>2 DEF PrefInv, PrefTypeOK
<1>4. Lost \subseteq Lost' /\ (~ok => w.what \subseteq Lost')
  BY <1>1 DEF Lost
<1>5. Destroying' => Destroying /\ w.why # "destroy"
  BY <1>1 DEF PrefInv, Destroying
<1>6. shared' = Nil => Destroying \/ shared = Nil
  BY <1>1 DEF Destroying
<1>7. Destroying \/ shared = Nil => \A u \in Objects : values[u] \subseteq disk' \cup Lost'
  <2>1. SUFFICES ASSUME Destroying \/ shared = Nil, NEW u \in Objects
                 PROVE  values[u] \subseteq disk' \cup Lost'
    OBVIOUS
  <2>2. values[u] \subseteq w.what \cup Lost
    BY <2>1 DEF PrefInv
  <2> QED  BY <1>1, <1>4, <2>2
<1>8. shared' # Nil => \A u \in Objects : values'[u] \subseteq values'[shared'] \cup Lost'
  BY <1>1, <1>4 DEF PrefInv
<1>9. Destroying' \/ shared' = Nil =>
        \A v \in writes' : \A u \in Objects : values'[u] \subseteq v.what \cup Lost'
  BY <1>1, <1>4, <1>5, <1>6 DEF PrefInv
<1>10. Destroying' => shared' # Nil /\ due' \subseteq {shared'}
  BY <1>1, <1>5 DEF PrefInv
<1> QED  BY <1>1, <1>3, <1>6, <1>7, <1>8, <1>9, <1>10 DEF PrefInv

LEMMA PrefStep == PrefInv /\ [PrefNext]_prefVars => PrefInv'
<1>1. PrefInv /\ UNCHANGED prefVars => PrefInv'
  BY DEF prefVars, PrefInv, PrefTypeOK, Destroying, Lost
<1> QED
  BY <1>1, ShareInv, SetInv, FiresInv, DestroyInv, WrittenInv DEF PrefNext

LEMMA PrefAlways == PrefSpec => []PrefInv
BY PrefInitInv, PrefStep, PTL DEF PrefSpec

\* Every value stays in its type.
THEOREM PrefTypes == PrefSpec => []PrefTypeOK
BY PrefAlways, PTL DEF PrefInv

\* No setting is lost that was not made during a destroy or lost to a failed write.
THEOREM PrefSettingsKept == PrefSpec => []SettingsKept
BY PrefAlways, PrefKept, PTL

-----------------------------------------------------------------------------
(***************************************************************************)
(* ScriptService: the events a script has caused tell how far it is.       *)
(***************************************************************************)
ScriptInv ==
    /\ ScriptTypeOK
    /\ OneScript
    /\ ContextRuns
    /\ \A s \in Scripts : /\ script[s] = "new" => noticed[s] = <<>>
                          /\ script[s] \in {"connecting", "up"} => noticed[s] = <<"start">>

LEMMA ScriptInitInv == ScriptInit => ScriptInv
BY DEF ScriptInit, ScriptInv, ScriptTypeOK, OneScript, ContextRuns, ScriptStates

\* The events of a client, appended one by one.
LEMMA AppendNone == ASSUME NEW S, NEW a \in S PROVE Append(<<>>, a) = <<a>>
OBVIOUS

LEMMA AppendOne ==
    ASSUME NEW S, NEW a \in S, NEW b \in S
    PROVE  Append(<<a>>, b) = <<a, b>>
<1>1. <<a>> \in Seq(S) /\ Len(<<a>>) = 1
  OBVIOUS
<1>2. <<a, b>> \in Seq(S) /\ Len(<<a, b>>) = 2 /\ <<a, b>>[1] = a /\ <<a, b>>[2] = b
  OBVIOUS
<1> DEFINE t == Append(<<a>>, b)
<1>3. t \in Seq(S) /\ Len(t) = 2 /\ t[1] = a /\ t[2] = b
  BY <1>1, AppendProperties
<1> HIDE DEF t
<1>4. \A i \in 1..2 : t[i] = <<a, b>>[i]
  BY <1>2, <1>3
<1>5. t = <<a, b>>
  BY <1>2, <1>3, <1>4, SeqEqual
<1> QED  BY <1>5 DEF t

LEMMA AppendTwo ==
    ASSUME NEW S, NEW a \in S, NEW b \in S, NEW c \in S
    PROVE  Append(Append(<<a>>, b), c) = <<a, b, c>>
<1>1. <<a, b>> \in Seq(S) /\ Len(<<a, b>>) = 2 /\ <<a, b>>[1] = a /\ <<a, b>>[2] = b
  OBVIOUS
<1>2. /\ <<a, b, c>> \in Seq(S) /\ Len(<<a, b, c>>) = 3
      /\ <<a, b, c>>[1] = a /\ <<a, b, c>>[2] = b /\ <<a, b, c>>[3] = c
  OBVIOUS
<1> DEFINE t == Append(<<a, b>>, c)
<1>3. t \in Seq(S) /\ Len(t) = 3 /\ t[1] = a /\ t[2] = b /\ t[3] = c
  BY <1>1, AppendProperties
<1> HIDE DEF t
<1>4. \A i \in 1..3 : t[i] = <<a, b, c>>[i]
  BY <1>2, <1>3
<1>5. t = <<a, b, c>>
  BY <1>2, <1>3, <1>4, SeqEqual
<1> QED  BY <1>5, AppendOne DEF t

Notices == {"start", "error", "exit"}

LEMMA EventsAppended ==
    /\ Append(<<>>, "start") = <<"start">> /\ Append(<<>>, "error") = <<"error">>
    /\ Append(Append(<<>>, "error"), "start") = <<"error", "start">>
    /\ Append(<<"start">>, "exit") = <<"start", "exit">>
    /\ Append(Append(<<"start">>, "error"), "exit") = <<"start", "error", "exit">>
<1>1. {"start", "error", "exit"} \subseteq Notices
  BY DEF Notices
<1>2. \A a \in Notices : Append(<<>>, a) = <<a>>
  BY AppendNone
<1>3. \A a, b \in Notices : Append(<<a>>, b) = <<a, b>>
  BY AppendOne
<1>4. \A a, b, c \in Notices : Append(Append(<<a>>, b), c) = <<a, b, c>>
  BY AppendTwo
<1> QED  BY <1>1, <1>2, <1>3, <1>4

\* What the client is told at the end of a script.
LEMMA ExitInv ==
    ASSUME ScriptInv, NEW s \in Scripts, script[s] \in {"connecting", "up"},
           NEW threw \in BOOLEAN, Exit(s, threw)
    PROVE  ScriptInv'
<1>1. noticed[s] = <<"start">> /\ context = s
  BY DEF ScriptInv, OneScript
<1>2. /\ Append(<<"start">>, "exit") = <<"start", "exit">>
      /\ Append(Append(<<"start">>, "error"), "exit") = <<"start", "error", "exit">>
  BY EventsAppended
<1>3. PICK evs \in {<<"start", "exit">>, <<"start", "error", "exit">>} :
         noticed' = [noticed EXCEPT ![s] = evs]
  BY <1>1, <1>2 DEF Exit, Noticed
<1>4. script' = [script EXCEPT ![s] = "ended"] /\ context' = NoScript /\ killed' = killed
  BY DEF Exit
<1>5. ScriptTypeOK'
  BY <1>3, <1>4 DEF ScriptInv, ScriptTypeOK, ScriptStates
<1>6. OneScript' /\ ContextRuns'
  BY <1>1, <1>4 DEF ScriptInv, ScriptTypeOK, OneScript, ContextRuns
<1>7. ASSUME NEW u \in Scripts
      PROVE  /\ script'[u] = "new" => noticed'[u] = <<>>
             /\ script'[u] \in {"connecting", "up"} => noticed'[u] = <<"start">>
  BY <1>3, <1>4 DEF ScriptInv, ScriptTypeOK
<1> QED  BY <1>5, <1>6, <1>7 DEF ScriptInv

\* What it is told first.
LEMMA RunInv ==
    ASSUME ScriptInv, NEW s \in Scripts, RunRefused(s) \/ RunScript(s)
    PROVE  ScriptInv'
<1>1. script[s] = "new" /\ noticed[s] = <<>> /\ killed' = killed
  BY DEF RunRefused, RunScript, ScriptInv
<1>2. /\ Append(<<>>, "start") = <<"start">> /\ Append(<<>>, "error") = <<"error">>
      /\ Append(Append(<<>>, "error"), "start") = <<"error", "start">>
  BY EventsAppended
<1>3. CASE RunRefused(s)
  <2>1. /\ script' = [script EXCEPT ![s] = "ended"] /\ context' = context
        /\ noticed' = [noticed EXCEPT ![s] = <<"error">>]
    BY <1>1, <1>2, <1>3 DEF RunRefused, Noticed
  <2> QED  BY <1>1, <2>1 DEF ScriptInv, ScriptTypeOK, OneScript, ContextRuns, ScriptStates
<1>4. CASE RunScript(s)
  <2>1. context = NoScript /\ context' = s
    BY <1>4 DEF RunScript
  <2>2. \A u \in Scripts : script[u] \notin {"connecting", "up"}
    BY <2>1, ScriptsAssumption DEF ScriptInv, OneScript
  <2>3. ASSUME NEW st \in {"connecting", "up"}, script' = [script EXCEPT ![s] = st],
               Noticed(s, FALSE, "start")
        PROVE  ScriptInv'
    <3>1. noticed' = [noticed EXCEPT ![s] = <<"start">>]
      BY <1>1, <1>2, <2>3 DEF Noticed
    <3> QED
      BY <1>1, <2>1, <2>2, <2>3, <3>1 DEF ScriptInv, ScriptTypeOK, OneScript, ContextRuns, ScriptStates
  <2>4. ASSUME script' = [script EXCEPT ![s] = "refused"], Noticed(s, TRUE, "start")
        PROVE  ScriptInv'
    <3>1. noticed' = [noticed EXCEPT ![s] = <<"error", "start">>]
      BY <1>1, <1>2, <2>4 DEF Noticed
    <3> QED
      BY <1>1, <2>1, <2>2, <2>4, <3>1 DEF ScriptInv, ScriptTypeOK, OneScript, ContextRuns, ScriptStates
  <2> QED  BY <1>4, <2>3, <2>4 DEF RunScript
<1> QED  BY <1>3, <1>4

LEMMA ScriptStep == ScriptInv /\ [ScriptNext]_scriptVars => ScriptInv'
<1> SUFFICES ASSUME ScriptInv, [ScriptNext]_scriptVars PROVE ScriptInv'
  OBVIOUS
<1>1. CASE UNCHANGED scriptVars
  BY <1>1 DEF scriptVars, ScriptInv, ScriptTypeOK, OneScript, ContextRuns
<1>2. CASE StopScript
  BY <1>2 DEF StopScript, ScriptInv, ScriptTypeOK, OneScript, ContextRuns
<1>3. ASSUME NEW s \in Scripts, Connected(s) PROVE ScriptInv'
  BY <1>3 DEF Connected, ScriptInv, ScriptTypeOK, OneScript, ContextRuns, ScriptStates
<1>4. ASSUME NEW s \in Scripts, ConnectEnds(s) \/ ScriptExits(s) PROVE ScriptInv'
  BY <1>4, ExitInv DEF ConnectEnds, ScriptExits
<1> QED  BY <1>1, <1>2, <1>3, <1>4, RunInv DEF ScriptNext

LEMMA ScriptAlways == ScriptSpec => []ScriptInv
BY ScriptInitInv, ScriptStep, PTL DEF ScriptSpec

\* Every value stays in its type; what a client is told of a script is a start, an error
\* and an exit in an order that makes sense.
THEOREM ScriptTypes == ScriptSpec => []ScriptTypeOK
BY ScriptAlways, PTL DEF ScriptInv

\* There is never a second script, and stop reaches the one that runs.
THEOREM ScriptOneScript == ScriptSpec => []OneScript
BY ScriptAlways, PTL DEF ScriptInv

\* What is in m_context runs, connects, or has thrown when it was run.
THEOREM ScriptContextRuns == ScriptSpec => []ContextRuns
BY ScriptAlways, PTL DEF ScriptInv

(***************************************************************************)
(* The composition: a behaviour of the four is one of each, since a step   *)
(* of one is a stutter of the others.                                      *)
(***************************************************************************)
LEMMA ServicesCompose ==
    ServicesSpec => TasksSpec /\ FindSpec /\ PrefSpec /\ ScriptSpec
<1>1. ServicesInit => TasksInit /\ FindInit /\ PrefInit /\ ScriptInit
  BY DEF ServicesInit
<1>2. [ServicesNext]_allVars => /\ [TasksNext]_taskVars
                                /\ [FindNext]_findVars
                                /\ [PrefNext]_prefVars
                                /\ [ScriptNext]_scriptVars
  BY DEF ServicesNext, allVars
<1> QED
  BY <1>1, <1>2, PTL DEF ServicesSpec, TasksSpec, FindSpec, PrefSpec, ScriptSpec

\* The services side by side keep their types, and with them that no task and no search
\* has two answers and that a script's client is told its events in order.
THEOREM ServicesTypes == ServicesSpec => []ServicesTypeOK
BY ServicesCompose, TasksTypes, FindTypes, PrefTypes, ScriptTypes, PTL DEF ServicesTypeOK
=============================================================================
