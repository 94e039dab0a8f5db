------------------------- MODULE Connection_proofs -------------------------
(***************************************************************************)
(* Proofs about Connection. Its invariants are inductive with the relation *)
(* between the channel and the client of an FTP entity, and with what the  *)
(* list of callbacks holds.                                                *)
(***************************************************************************)
EXTENDS Connection, TLAPS

FtpChan == proto = "ftp" => chan = link

ListWaits == \A k \in waiting : call[k] = "waiting"

Busy(k) == call[k] \notin {"new", "answered", "failed"}

\* A chain has one call under way.
OneBusy == \A j, k \in Calls : Busy(j) /\ Busy(k) => j = k

ConnInv == /\ TypeOK
           /\ NeverTwice
           /\ NoStray
           /\ ReadyHasChannel
           /\ FtpChan
           /\ ListWaits
           /\ OneBusy

\* The states of a client over which a call may be sent, and which it leaves to be gone.
Carries == {"ready", "broken", "draining", "reset", "ended"}

\* What an event may do to the calls: it keeps them, loses one that was sent, or
\* resumes one of the list.
Settles ==
    \A k \in Calls : \/ call'[k] = call[k]
                     \/ call[k] = "sent" /\ call'[k] = "lost"
                     \/ k \in waiting /\ call'[k] \in {"answered", "broken", "lost", "sent"}

\* The same of an intermediate state of the calls, before the list is called.
Loses(cl) == \A k \in Calls : cl[k] = call[k] \/ (call[k] = "sent" /\ cl[k] = "lost")

LEMMA LoseFacts ==
    ASSUME NEW cl \in [Calls -> CallStates], NEW v, NEW c
    PROVE  /\ Lose(cl, v, c) \in [Calls -> CallStates]
           /\ \A k \in Calls : \/ Lose(cl, v, c)[k] = cl[k]
                               \/ cl[k] = "sent" /\ Lose(cl, v, c)[k] = "lost"
BY DEF Lose, InFlight, CallStates

LEMMA HangUpsFacts ==
    ASSUME NEW cn \in [Conns -> ConnStates], NEW cl \in [Calls -> CallStates], NEW v,
           NEW c \in Conns, NEW w \in HangUps(cn, cl, v, c)
    PROVE  /\ w.conn \in [Conns -> ConnStates]
           /\ w.call \in [Calls -> CallStates]
           /\ w.conn[c] \notin {"connecting", "ready"}
           /\ \A d \in Conns \ {c} : w.conn[d] = cn[d]
           /\ \A k \in Calls : w.call[k] = cl[k] \/ (cl[k] = "sent" /\ w.call[k] = "lost")
<1>1. CASE cn[c] = "ready"
  <2>1. HangUps(cn, cl, v, c) =
            {[conn |-> [cn EXCEPT ![c] = "reset"], call |-> Lose(cl, v, c)]}
            \cup {[conn |-> [cn EXCEPT ![c] = "draining"], call |-> cl] : k \in InFlight(cl, v, c)}
    BY <1>1 DEF HangUps
  <2>2. CASE w = [conn |-> [cn EXCEPT ![c] = "reset"], call |-> Lose(cl, v, c)]
    <3>1. w.conn = [cn EXCEPT ![c] = "reset"] /\ w.call = Lose(cl, v, c)
      BY <2>2
    <3> QED  BY <3>1, LoseFacts DEF ConnStates
  <2>3. CASE w = [conn |-> [cn EXCEPT ![c] = "draining"], call |-> cl]
    <3>1. w.conn = [cn EXCEPT ![c] = "draining"] /\ w.call = cl
      BY <2>3
    <3> QED  BY <3>1 DEF ConnStates
  <2> QED  BY <2>1, <2>2, <2>3
<1>2. CASE cn[c] = "broken"
  <2>1. w.conn = cn /\ w.call = Lose(cl, v, c)
    BY <1>2 DEF HangUps
  <2> QED  BY <1>2, <2>1, LoseFacts
<1>3. CASE cn[c] \in {"connecting", "session"}
  <2>1. HangUps(cn, cl, v, c) = {[conn |-> [cn EXCEPT ![c] = "abandoned"], call |-> cl]}
    <3>1. cn[c] # "ready" /\ cn[c] # "broken"
      BY <1>3
    <3> QED  BY <1>3, <3>1, Zenon DEF HangUps
  <2>2. w.conn = [cn EXCEPT ![c] = "abandoned"] /\ w.call = cl
    BY <2>1
  <2> QED  BY <2>2 DEF ConnStates
<1>4. CASE cn[c] = "unused"
  <2>1. w.conn = [cn EXCEPT ![c] = "gone"] /\ w.call = cl
    BY <1>4 DEF HangUps
  <2> QED  BY <2>1 DEF ConnStates
<1>5. CASE cn[c] \notin {"ready", "broken", "connecting", "session", "unused"}
  <2>1. w.conn = cn /\ w.call = cl
    BY <1>5 DEF HangUps
  <2> QED  BY <1>5, <2>1
<1> QED  BY <1>1, <1>2, <1>3, <1>4, <1>5

\* A client does not grow younger when it is ended.
LEMMA HangUpsAge ==
    ASSUME NEW cn \in [Conns -> ConnStates], NEW cl, NEW v,
           NEW c \in Conns, NEW w \in HangUps(cn, cl, v, c)
    PROVE  /\ cn[c] \in Carries => w.conn[c] \in Carries
           /\ cn[c] = "gone" => w.conn[c] = "gone"
<1>1. CASE cn[c] = "ready"
  <2>1. w.conn \in {[cn EXCEPT ![c] = "reset"], [cn EXCEPT ![c] = "draining"]}
    BY <1>1 DEF HangUps
  <2>2. w.conn[c] \in {"reset", "draining"}
    BY <2>1
  <2> QED  BY <1>1, <2>2 DEF Carries
<1>2. CASE cn[c] \in {"connecting", "session", "unused"}
  BY <1>2 DEF Carries
<1>3. CASE cn[c] \notin {"ready", "connecting", "session", "unused"}
  <2>1. w.conn = cn
    BY <1>3 DEF HangUps
  <2> QED  BY <2>1
<1> QED  BY <1>1, <1>2, <1>3

LEMMA ClosingsFacts ==
    ASSUME TypeOK,
           NEW cn \in [Conns -> ConnStates], NEW cl \in [Calls -> CallStates], NEW v,
           NEW w \in Closings(cn, cl, v)
    PROVE  /\ w.conn \in [Conns -> ConnStates]
           /\ w.call \in [Calls -> CallStates]
           /\ \A d \in Conns : w.conn[d] \in {"connecting", "ready"} => d # link /\ cn[d] = w.conn[d]
           /\ \A d \in Conns : /\ cn[d] \in Carries => w.conn[d] \in Carries
                               /\ cn[d] = "gone" => w.conn[d] = "gone"
           /\ \A k \in Calls : w.call[k] = cl[k] \/ (cl[k] = "sent" /\ w.call[k] = "lost")
<1>1. CASE link = None
  <2>1. w.conn = cn /\ w.call = cl
    BY <1>1 DEF Closings
  <2> QED  BY <1>1, <2>1, ConnsAssumption
<1>2. CASE link # None
  <2>1. link \in Conns /\ w \in HangUps(cn, cl, v, link)
    BY <1>2 DEF TypeOK, Closings
  <2> QED  BY <2>1, HangUpsFacts, HangUpsAge
<1> QED  BY <1>1, <1>2

LEMMA ResumedFacts ==
    ASSUME TypeOK, NEW cn, NEW cl \in [Calls -> CallStates], NEW ch \in Conns \cup {None}
    PROVE  /\ AllResumed(cn, cl, ch) \in [Calls -> CallStates]
           /\ \A k \in Calls \ waiting : AllResumed(cn, cl, ch)[k] = cl[k]
           /\ \A k \in waiting : AllResumed(cn, cl, ch)[k] \in {"answered", "broken", "lost", "sent"}
           /\ SentOver(ch) \in [Calls -> Conns \cup {None}]
<1>1. \A k \in Calls : Resumed(k, cn, ch) \in {"answered", "broken", "lost", "sent"}
  BY DEF Resumed
<1> QED  BY <1>1 DEF AllResumed, SentOver, CallStates, TypeOK

LEMMA ConnectOkFacts ==
    ASSUME TypeOK, NEW cn, NEW cl \in [Calls -> CallStates], NEW ch \in Conns \cup {None},
           Loses(cl), ConnectOk(cn, cl, ch)
    PROVE  /\ call' \in [Calls -> CallStates] /\ via' \in [Calls -> Conns \cup {None}]
           /\ waiting' = {}
           /\ Settles
BY ResumedFacts DEF ConnectOk, Settles, Loses, TypeOK

LEMMA CloseFacts ==
    ASSUME TypeOK, NEW cn \in [Conns -> ConnStates], NEW cl \in [Calls -> CallStates],
           Loses(cl), Close(cn, cl)
    PROVE  /\ TypeOK'
           /\ \A d \in Conns : conn'[d] \in {"connecting", "ready"} => d # link /\ cn[d] = conn'[d]
           /\ link' = None /\ isReady' = FALSE
           /\ FtpChan => FtpChan'
           /\ waiting' = waiting
           /\ Settles
<1>1. PICK w \in Closings(cn, cl, via) : conn' = w.conn /\ call' = w.call
  BY DEF Close
<1>2. /\ w.conn \in [Conns -> ConnStates] /\ w.call \in [Calls -> CallStates]
      /\ \A d \in Conns : w.conn[d] \in {"connecting", "ready"} => d # link /\ cn[d] = w.conn[d]
      /\ \A k \in Calls : w.call[k] = cl[k] \/ (cl[k] = "sent" /\ w.call[k] = "lost")
  BY ClosingsFacts
<1>3. Settles
  BY <1>1, <1>2 DEF Settles, Loses
<1>4. /\ link' = None /\ chan' = ChanLeft /\ connecting' = FALSE /\ isReady' = FALSE
      /\ UNCHANGED <<proto, waiting, via>>
  BY DEF Close, Cleared
<1>5. TypeOK'
  BY <1>1, <1>2, <1>4 DEF TypeOK, ChanLeft
<1>6. FtpChan => FtpChan'
  BY <1>4 DEF FtpChan, ChanLeft
<1> QED  BY <1>1, <1>2, <1>3, <1>4, <1>5, <1>6

\* What happens to the calls keeps the parts of the invariant about them.
LEMMA SettlesKeeps ==
    ASSUME TypeOK, ListWaits, OneBusy, Settles, waiting' = waiting \/ waiting' = {},
           \A k \in waiting' : call'[k] = call[k]
    PROVE  ListWaits' /\ OneBusy'
<1>1. ListWaits'
  BY DEF ListWaits
<1>2. \A k \in Calls : Busy(k)' => Busy(k)
  BY DEF Busy, Settles, ListWaits
<1> QED  BY <1>1, <1>2 DEF OneBusy

-----------------------------------------------------------------------------
LEMMA InitInv == Init => ConnInv
BY ConnsAssumption DEF Init, ConnInv, TypeOK, NeverTwice, NoStray, ReadyHasChannel, FtpChan,
   ListWaits, OneBusy, Busy, ConnStates, CallStates

LEMMA CallReadyInv == ASSUME ConnInv, NEW k \in Calls, CallReady(k) PROVE ConnInv'
<1> USE DEF CallReady, ConnInv
<1>1. Resumed(k, conn, chan) \in {"answered", "broken", "lost", "sent"}
  BY DEF Resumed
<1>2. TypeOK'
  BY <1>1 DEF TypeOK, CallStates
<1>3. ListWaits'
  BY <1>1 DEF ListWaits, MayCall, TypeOK
<1>4. OneBusy'
  BY <1>1 DEF OneBusy, Busy, MayCall, TypeOK
<1> QED
  BY <1>2, <1>3, <1>4 DEF NeverTwice, NoStray, ReadyHasChannel, FtpChan

LEMMA CallWaitsInv == ASSUME ConnInv, NEW k \in Calls, CallWaits(k) PROVE ConnInv'
<1> USE DEF CallWaits, ConnInv
<1>1. ListWaits' /\ OneBusy'
  BY DEF ListWaits, OneBusy, Busy, MayCall, TypeOK
<1>2. CASE connecting
  <2>1. TypeOK'
    BY <1>2 DEF TypeOK, CallStates
  <2> QED
    BY <1>1, <1>2, <2>1 DEF NeverTwice, NoStray, ReadyHasChannel, FtpChan
<1>3. CASE ~connecting
  <2>1. PICK c \in Conns :
           /\ conn[c] = "none"
           /\ conn' = [conn EXCEPT ![c] = "connecting"]
           /\ IF proto = "ftp" THEN link' = c /\ chan' = c ELSE UNCHANGED <<link, chan>>
    BY <1>3
  <2>2. TypeOK'
    BY <2>1 DEF TypeOK, CallStates, ConnStates
  <2>3. NoStray'
    <3>1. proto = "ftp" => link = None
      BY <1>3 DEF NeverTwice
    <3>2. proto = "ftp" => \A d \in Conns : conn[d] \notin {"connecting", "ready"}
      BY <3>1, ConnsAssumption DEF NoStray
    <3> QED  BY <2>1, <3>2 DEF NoStray, TypeOK
  <2> QED
    BY <1>1, <2>1, <2>2, <2>3 DEF NeverTwice, ReadyHasChannel, FtpChan
<1> QED  BY <1>2, <1>3

\* The three actions that close the entity and resume nobody.
LEMMA CloseInv ==
    ASSUME ConnInv, NEW cn \in [Conns -> ConnStates], NEW cl \in [Calls -> CallStates],
           Loses(cl), Close(cn, cl),
           \A d \in Conns : cn[d] \in {"connecting", "ready"} => conn[d] = cn[d]
    PROVE  ConnInv'
<1>1. /\ TypeOK'
      /\ \A d \in Conns : conn'[d] \in {"connecting", "ready"} => d # link /\ cn[d] = conn'[d]
      /\ link' = None /\ isReady' = FALSE
      /\ FtpChan'
      /\ waiting' = waiting
      /\ Settles
  BY CloseFacts DEF ConnInv
<1>2. proto' = proto
  BY DEF Close
<1>3. \A k \in Calls : call'[k] = call[k] \/ (call[k] = "sent" /\ call'[k] = "lost")
  <2>1. PICK w \in Closings(cn, cl, via) : conn' = w.conn /\ call' = w.call
    BY DEF Close
  <2>2. \A k \in Calls : w.call[k] = cl[k] \/ (cl[k] = "sent" /\ w.call[k] = "lost")
    BY ClosingsFacts DEF ConnInv
  <2> QED  BY <2>1, <2>2 DEF Loses
<1>4. ListWaits' /\ OneBusy'
  <2>1. \A k \in waiting' : call'[k] = call[k]
    BY <1>1, <1>3 DEF ConnInv, ListWaits, TypeOK
  <2> QED  BY <1>1, <2>1, SettlesKeeps DEF ConnInv
<1>5. NoStray'
  BY <1>1, <1>2 DEF ConnInv, NoStray
<1> QED
  BY <1>1, <1>4, <1>5 DEF ConnInv, NeverTwice, ReadyHasChannel

LEMMA CancelInv == ASSUME ConnInv, Cancel PROVE ConnInv'
BY CloseInv DEF Cancel, ConnInv, TypeOK, Loses

LEMMA EndsInv ==
    ASSUME ConnInv, NEW c \in Conns, ServerEnds(c) \/ Closed(c) PROVE ConnInv'
<1>1. Lose(call, via, c) \in [Calls -> CallStates] /\ Loses(Lose(call, via, c))
  BY LoseFacts DEF ConnInv, TypeOK, Loses
<1>2. ASSUME NEW s \in {"ended", "gone"}
      PROVE  /\ [conn EXCEPT ![c] = s] \in [Conns -> ConnStates]
             /\ \A d \in Conns : [conn EXCEPT ![c] = s][d] \in {"connecting", "ready"}
                                    => conn[d] = [conn EXCEPT ![c] = s][d]
  BY DEF ConnInv, TypeOK, ConnStates
<1> QED  BY <1>1, <1>2, CloseInv DEF ServerEnds, Closed

LEMMA FtpReadyInv == ASSUME ConnInv, NEW c \in Conns, FtpReady(c) PROVE ConnInv'
<1> USE DEF FtpReady, ConnInv
<1>1. /\ call' \in [Calls -> CallStates] /\ via' \in [Calls -> Conns \cup {None}]
      /\ waiting' = {} /\ Settles
  BY ConnectOkFacts DEF TypeOK, Loses
<1>2. TypeOK'
  BY <1>1 DEF TypeOK, ConnStates
<1>3. ListWaits' /\ OneBusy'
  BY <1>1, SettlesKeeps
<1>4. link = c
  BY DEF NoStray
<1>5. chan = c
  BY <1>4 DEF FtpChan
<1>6. NoStray'
  BY <1>4 DEF NoStray, TypeOK
<1> QED
  BY <1>2, <1>3, <1>4, <1>5, <1>6, ConnsAssumption DEF NeverTwice, ReadyHasChannel, FtpChan

LEMMA FtpFailsInv == ASSUME ConnInv, NEW c \in Conns, FtpFails(c) PROVE ConnInv'
<1> USE DEF FtpFails, ConnInv
<1>1. PICK w \in Closings([conn EXCEPT ![c] = "gone"], call, via) :
         conn' = w.conn /\ ConnectOk(w.conn, w.call, None)
  OBVIOUS
<1>2. [conn EXCEPT ![c] = "gone"] \in [Conns -> ConnStates] /\ call \in [Calls -> CallStates]
  BY DEF TypeOK, ConnStates
<1>3. /\ w.conn \in [Conns -> ConnStates] /\ w.call \in [Calls -> CallStates]
      /\ \A d \in Conns : w.conn[d] \in {"connecting", "ready"} => d # link
      /\ \A d \in Conns : w.conn[d] \in {"connecting", "ready"} => w.conn[d] = [conn EXCEPT ![c] = "gone"][d]
      /\ Loses(w.call)
  <2> DEFINE cn == [conn EXCEPT ![c] = "gone"]
  <2>1. cn \in [Conns -> ConnStates] /\ w \in Closings(cn, call, via)
    BY <1>1, <1>2
  <2> HIDE DEF cn
  <2>2. /\ w.conn \in [Conns -> ConnStates] /\ w.call \in [Calls -> CallStates]
        /\ \A d \in Conns : w.conn[d] \in {"connecting", "ready"} => d # link /\ cn[d] = w.conn[d]
        /\ \A k \in Calls : w.call[k] = call[k] \/ (call[k] = "sent" /\ w.call[k] = "lost")
    BY <1>2, <2>1, ClosingsFacts
  <2> QED  BY <2>2 DEF cn, Loses
<1>4. /\ call' \in [Calls -> CallStates] /\ via' \in [Calls -> Conns \cup {None}]
      /\ waiting' = {} /\ Settles
  BY <1>1, <1>3, ConnectOkFacts
<1>5. /\ link' = None /\ chan' = ChanLeft /\ connecting' = FALSE /\ isReady' = FALSE
      /\ proto' = proto
  BY DEF Cleared
<1>6. TypeOK'
  BY <1>1, <1>3, <1>4, <1>5 DEF TypeOK, ChanLeft
<1>7. ListWaits' /\ OneBusy'
  BY <1>4, SettlesKeeps
<1>8. FtpChan'
  BY <1>5 DEF FtpChan, ChanLeft
<1>9. NoStray'
  <2>1. \A d \in Conns : conn[d] \in {"connecting", "ready"} => link = d
    BY DEF NoStray
  <2>2. \A d \in Conns : conn'[d] \notin {"connecting", "ready"}
    BY <1>1, <1>3, <2>1 DEF TypeOK
  <2> QED  BY <2>2 DEF NoStray
<1> QED
  BY <1>5, <1>6, <1>7, <1>8, <1>9 DEF NeverTwice, ReadyHasChannel

LEMMA SftpInv ==
    ASSUME ConnInv, NEW c \in Conns, SshUp(c) \/ SshFails(c) \/ SftpOpens(c)
    PROVE  ConnInv'
<1>1. proto = "sftp" /\ proto' = "sftp"
  BY DEF SshUp, SshFails, SftpOpens
<1>2. NeverTwice' /\ NoStray' /\ FtpChan'
  BY <1>1 DEF NeverTwice, NoStray, FtpChan
<1>3. CASE SshUp(c)
  BY <1>2, <1>3 DEF SshUp, ConnInv, TypeOK, ConnStates, ReadyHasChannel, ListWaits, OneBusy, Busy
<1>4. ASSUME SshFails(c) \/ SftpOpens(c) PROVE ConnInv'
  <2>1. /\ call' \in [Calls -> CallStates] /\ via' \in [Calls -> Conns \cup {None}]
        /\ waiting' = {} /\ Settles
    BY <1>4, ConnectOkFacts DEF SshFails, SftpOpens, ConnInv, TypeOK, Loses
  <2>2. ListWaits' /\ OneBusy'
    BY <2>1, SettlesKeeps DEF ConnInv
  <2>3. TypeOK'
    BY <1>4, <2>1 DEF SshFails, SftpOpens, ConnInv, TypeOK, ConnStates
  <2>4. ReadyHasChannel'
    BY <1>4, ConnsAssumption DEF SshFails, SftpOpens, ReadyHasChannel
  <2> QED  BY <1>2, <2>2, <2>3, <2>4 DEF ConnInv
<1> QED  BY <1>3, <1>4

LEMMA SftpFailsFacts ==
    ASSUME ConnInv, NEW c \in Conns, SftpFails(c)
    PROVE  /\ TypeOK' /\ Settles /\ waiting' = {} /\ isReady' = FALSE
           /\ proto' = "sftp"
<1> DEFINE cn == [conn EXCEPT ![c] = IF @ = "session" THEN "unused" ELSE "gone"]
           cl == AllResumed(cn, call, chan)
<1>0. /\ proto' = "sftp" /\ waiting' = {} /\ via' = SentOver(chan)
      /\ \/ /\ conn' = cn /\ call' = cl
            /\ isReady' = FALSE /\ connecting' = FALSE
            /\ UNCHANGED <<link, chan>>
         \/ /\ \E w \in Closings(cn, cl, SentOver(chan)) : conn' = w.conn /\ call' = w.call
            /\ Cleared
  BY DEF SftpFails
<1>1. cn \in [Conns -> ConnStates]
  BY DEF ConnInv, TypeOK, ConnStates
<1>2. /\ cl \in [Calls -> CallStates]
      /\ \A k \in Calls \ waiting : cl[k] = call[k]
      /\ \A k \in waiting : cl[k] \in {"answered", "broken", "lost", "sent"}
      /\ SentOver(chan) \in [Calls -> Conns \cup {None}]
  <2>1. TypeOK /\ call \in [Calls -> CallStates] /\ chan \in Conns \cup {None}
    BY DEF ConnInv, TypeOK
  <2> HIDE DEF cn
  <2> QED  BY <2>1, ResumedFacts
<1>3. CASE /\ conn' = cn /\ call' = cl
           /\ isReady' = FALSE /\ connecting' = FALSE
           /\ UNCHANGED <<link, chan>>
  <2> HIDE DEF cn, cl
  <2>1. Settles
    BY <1>2, <1>3 DEF Settles
  <2> QED  BY <1>0, <1>1, <1>2, <1>3, <2>1 DEF ConnInv, TypeOK
<1>4. ASSUME NEW w \in Closings(cn, cl, SentOver(chan)), conn' = w.conn, call' = w.call, Cleared
      PROVE  TypeOK' /\ Settles /\ isReady' = FALSE
  <2> HIDE DEF cn, cl
  <2>1. /\ w.conn \in [Conns -> ConnStates] /\ w.call \in [Calls -> CallStates]
        /\ \A k \in Calls : w.call[k] = cl[k] \/ (cl[k] = "sent" /\ w.call[k] = "lost")
    BY <1>1, <1>2, <1>4, ClosingsFacts DEF ConnInv
  <2>2. Settles
    BY <1>2, <1>4, <2>1 DEF Settles
  <2>3. /\ link' = None /\ chan' = ChanLeft /\ connecting' = FALSE /\ isReady' = FALSE
    BY <1>4 DEF Cleared
  <2> QED  BY <1>0, <1>2, <1>4, <2>1, <2>2, <2>3 DEF ConnInv, TypeOK, ChanLeft
<1> QED  BY <1>0, <1>3, <1>4

LEMMA SftpFailsInv == ASSUME ConnInv, NEW c \in Conns, SftpFails(c) PROVE ConnInv'
<1>1. /\ TypeOK' /\ Settles /\ waiting' = {} /\ isReady' = FALSE
      /\ proto' = "sftp"
  BY SftpFailsFacts
<1>2. ListWaits' /\ OneBusy'
  BY <1>1, SettlesKeeps DEF ConnInv
<1> QED
  BY <1>1, <1>2 DEF ConnInv, NeverTwice, NoStray, FtpChan, ReadyHasChannel

LEMMA ReplyInv == ASSUME ConnInv, NEW k \in Calls, Reply(k) PROVE ConnInv'
<1> USE DEF Reply, ConnInv
<1>1. PICK a \in {"answered", "failed"} : call' = [call EXCEPT ![k] = a]
  OBVIOUS
<1>2. conn' = conn \/ conn' = [conn EXCEPT ![via[k]] = "reset"]
  OBVIOUS
<1>3. TypeOK'
  BY <1>1, <1>2 DEF TypeOK, CallStates, ConnStates
<1>4. ListWaits'
  BY <1>1 DEF ListWaits, TypeOK
<1>5. OneBusy'
  BY <1>1 DEF OneBusy, Busy, TypeOK
<1>6. NoStray'
  BY <1>2 DEF NoStray, TypeOK
<1> QED
  BY <1>3, <1>4, <1>5, <1>6 DEF NeverTwice, ReadyHasChannel, FtpChan

LEMMA DropsInv ==
    ASSUME ConnInv, NEW c \in Conns, ServerDrops(c) \/ ServerBreaks(c) PROVE ConnInv'
BY DEF ServerDrops, ServerBreaks, ConnInv, TypeOK, ConnStates, NeverTwice, NoStray,
       ReadyHasChannel, FtpChan, ListWaits, OneBusy, Busy

LEMMA StutterInv == ConnInv /\ UNCHANGED vars => ConnInv'
BY DEF vars, ConnInv, TypeOK, NeverTwice, NoStray, ReadyHasChannel, FtpChan, ListWaits,
       OneBusy, Busy

LEMMA StepInv == ConnInv /\ [Next]_vars => ConnInv'
BY CallReadyInv, CallWaitsInv, ReplyInv, CancelInv, FtpReadyInv, FtpFailsInv, SftpInv,
   SftpFailsInv, DropsInv, EndsInv, StutterInv DEF Next, Connect

LEMMA ConnAlways == Spec => []ConnInv
BY InitInv, StepInv, PTL DEF Spec

\* Every value stays in its type.
THEOREM ConnTypes == Spec => []TypeOK
BY ConnAlways, PTL DEF ConnInv

\* FTP is never asked to connect while it holds a client.
THEOREM ConnNeverTwice == Spec => []NeverTwice
BY ConnAlways, PTL DEF ConnInv

\* No open FTP client is left behind.
THEOREM ConnNoStray == Spec => []NoStray
BY ConnAlways, PTL DEF ConnInv

\* A ready entity has a channel.
THEOREM ConnReadyHasChannel == Spec => []ReadyHasChannel
BY ConnAlways, PTL DEF ConnInv

-----------------------------------------------------------------------------
(***************************************************************************)
(* What a call is sent over. A channel was opened once, that of an FTP     *)
(* entity when it is ready; from then on its client ages, and takes the    *)
(* calls that were sent with it when it is gone.                           *)
(***************************************************************************)
Carried(cn, cl, v) == \A k \in Calls : cl[k] = "sent" => v[k] # None /\ cn[v[k]] \in Carries

Opened(cn, ch) == ch # None => cn[ch] \in Carries \cup {"gone"}

CarryInv ==
    /\ ConnInv
    /\ Carried(conn, call, via)
    /\ proto = "sftp" \/ isReady => Opened(conn, chan)

LEMMA ClosingsCarry ==
    ASSUME ConnInv, NEW cn \in [Conns -> ConnStates], NEW cl \in [Calls -> CallStates],
           NEW v \in [Calls -> Conns \cup {None}], Carried(cn, cl, v),
           NEW w \in Closings(cn, cl, v)
    PROVE  /\ Carried(w.conn, w.call, v)
           /\ \A ch \in Conns \cup {None} : Opened(cn, ch) => Opened(w.conn, ch)
<1>1. /\ \A d \in Conns : /\ cn[d] \in Carries => w.conn[d] \in Carries
                          /\ cn[d] = "gone" => w.conn[d] = "gone"
      /\ \A k \in Calls : w.call[k] = cl[k] \/ (cl[k] = "sent" /\ w.call[k] = "lost")
  BY ClosingsFacts DEF ConnInv
<1>2. Carried(w.conn, w.call, v)
  <2> SUFFICES ASSUME NEW k \in Calls, w.call[k] = "sent"
               PROVE  v[k] # None /\ w.conn[v[k]] \in Carries
    BY DEF Carried
  <2>1. cl[k] = "sent"
    BY <1>1
  <2>2. v[k] \in Conns /\ v[k] # None /\ cn[v[k]] \in Carries
    BY <2>1 DEF Carried
  <2> QED  BY <1>1, <2>2
<1>3. ASSUME NEW ch \in Conns \cup {None}, Opened(cn, ch) PROVE Opened(w.conn, ch)
  BY <1>1, <1>3 DEF Opened
<1> QED  BY <1>2, <1>3

\* The callbacks are called with a channel that was opened, or with none.
LEMMA ResumedCarry ==
    ASSUME TypeOK, NEW cn, NEW cl \in [Calls -> CallStates], NEW ch \in Conns \cup {None},
           Carried(cn, cl, via), Opened(cn, ch)
    PROVE  Carried(cn, AllResumed(cn, cl, ch), SentOver(ch))
<1>1. ASSUME NEW k \in waiting, Resumed(k, cn, ch) = "sent" PROVE ch # None /\ cn[ch] \in Carries
  <2>1. ch # None
    BY <1>1 DEF Resumed
  <2>2. cn[ch] # "gone"
    BY <1>1, <2>1 DEF Resumed
  <2> QED  BY <2>1, <2>2 DEF Opened
<1> QED  BY <1>1 DEF Carried, AllResumed, SentOver, TypeOK

LEMMA CloseCarry ==
    ASSUME CarryInv, NEW cn \in [Conns -> ConnStates], NEW cl \in [Calls -> CallStates],
           Close(cn, cl), Carried(cn, cl, via), Opened(conn, chan) => Opened(cn, chan)
    PROVE  /\ Carried(conn, call, via)'
           /\ (proto = "sftp" \/ isReady => Opened(conn, chan))'
<1>1. PICK w \in Closings(cn, cl, via) : conn' = w.conn /\ call' = w.call
  BY DEF Close
<1>2. /\ Carried(w.conn, w.call, via)
      /\ \A ch \in Conns \cup {None} : Opened(cn, ch) => Opened(w.conn, ch)
  BY ClosingsCarry DEF CarryInv, ConnInv, TypeOK
<1>3. proto' = proto /\ via' = via /\ isReady' = FALSE /\ chan' \in {chan, None}
  BY DEF Close, Cleared, ChanLeft
<1>4. proto = "sftp" => Opened(w.conn, chan')
  BY <1>2, <1>3 DEF CarryInv, ConnInv, TypeOK, Opened
<1> QED  BY <1>1, <1>2, <1>3, <1>4 DEF Carried, Opened

LEMMA CancelCarry == ASSUME CarryInv, Cancel PROVE CarryInv'
BY CancelInv, CloseCarry DEF Cancel, CarryInv, ConnInv, TypeOK

LEMMA EndsCarry ==
    ASSUME CarryInv, NEW c \in Conns, ServerEnds(c) \/ Closed(c) PROVE CarryInv'
<1> DEFINE cl == Lose(call, via, c)
<1>1. PICK s \in {"ended", "gone"} : Close([conn EXCEPT ![c] = s], cl)
  BY DEF ServerEnds, Closed
<1> DEFINE cn == [conn EXCEPT ![c] = s]
<1>2. /\ cn \in [Conns -> ConnStates] /\ cl \in [Calls -> CallStates]
      /\ \A d \in Conns \ {c} : cn[d] = conn[d]
      /\ cn[c] \in Carries \cup {"gone"}
  BY LoseFacts DEF CarryInv, ConnInv, TypeOK, ConnStates, Carries
<1>3. \A k \in Calls : cl[k] = "sent" => call[k] = "sent" /\ via[k] # c
  BY DEF Lose, InFlight
<1>4. Close(cn, cl)
  BY <1>1
<1> HIDE DEF cn, cl
<1>5. Carried(cn, cl, via)
  BY <1>2, <1>3 DEF CarryInv, ConnInv, TypeOK, Carried
<1>6. Opened(conn, chan) => Opened(cn, chan)
  BY <1>2 DEF CarryInv, ConnInv, TypeOK, Opened
<1> QED  BY <1>2, <1>4, <1>5, <1>6, EndsInv, CloseCarry DEF CarryInv

LEMMA CallsCarry ==
    ASSUME CarryInv, NEW k \in Calls, CallReady(k) \/ CallWaits(k) \/ Reply(k)
    PROVE  CarryInv'
<1>1. CASE CallReady(k)
  <2>1. /\ Opened(conn, chan) /\ chan # None
        /\ call' = [call EXCEPT ![k] = Resumed(k, conn, chan)] /\ via' = [via EXCEPT ![k] = chan]
        /\ UNCHANGED <<proto, isReady, conn, chan>>
    BY <1>1 DEF CallReady, CarryInv, ConnInv, ReadyHasChannel
  <2>2. Resumed(k, conn, chan) = "sent" => conn[chan] \in Carries
    BY <2>1 DEF Resumed, Opened
  <2>3. Carried(conn, call, via)'
    BY <2>1, <2>2 DEF Carried, CarryInv, ConnInv, TypeOK
  <2> QED  BY <1>1, <2>1, <2>3, CallReadyInv DEF CarryInv
<1>2. CASE CallWaits(k)
  <2>1. /\ call' = [call EXCEPT ![k] = "waiting"] /\ UNCHANGED <<proto, isReady, via>>
        /\ isReady = FALSE
    BY <1>2 DEF CallWaits, CarryInv, ConnInv, TypeOK
  <2>2. /\ \A d \in Conns : conn[d] # "none" => conn'[d] = conn[d]
        /\ proto = "sftp" => chan' = chan
    BY <1>2 DEF CallWaits, CarryInv, ConnInv, TypeOK
  <2>3. Carried(conn, call, via)'
    BY <2>1, <2>2 DEF Carried, Carries, CarryInv, ConnInv, TypeOK
  <2>4. proto = "sftp" => Opened(conn, chan)'
    BY <2>2 DEF Opened, Carries, CarryInv, ConnInv, TypeOK
  <2> QED  BY <1>2, <2>1, <2>3, <2>4, CallWaitsInv DEF CarryInv
<1>3. CASE Reply(k)
  <2>1. PICK a \in {"answered", "failed"} : call' = [call EXCEPT ![k] = a]
    BY <1>3 DEF Reply
  <2>2. conn' = conn \/ (conn[via[k]] = "draining" /\ conn' = [conn EXCEPT ![via[k]] = "reset"])
    BY <1>3 DEF Reply
  <2>3. ASSUME NEW d \in Conns, conn'[d] # conn[d]
        PROVE  conn[d] \in Carries /\ conn'[d] \in Carries
    <3>1. d = via[k] /\ conn[d] = "draining" /\ conn'[d] = "reset"
      BY <2>2, <2>3 DEF CarryInv, ConnInv, TypeOK
    <3> QED  BY <3>1 DEF Carries
  <2>4. UNCHANGED <<proto, isReady, chan, via>>
    BY <1>3 DEF Reply
  <2>5. Carried(conn, call, via)'
    BY <2>1, <2>3, <2>4 DEF Carried, CarryInv, ConnInv, TypeOK
  <2>6. Opened(conn, chan) => Opened(conn, chan)'
    BY <2>3, <2>4 DEF Opened, CarryInv, ConnInv, TypeOK
  <2> QED  BY <1>3, <2>4, <2>5, <2>6, ReplyInv DEF CarryInv
<1> QED  BY <1>1, <1>2, <1>3

\* Clients that had not been ready.
LEMMA AgedCarry ==
    ASSUME CarryInv, NEW c \in Conns, NEW s \in ConnStates,
           conn[c] \notin Carries \cup {"gone"} \/ (conn[c] \in Carries /\ s \in Carries)
    PROVE  /\ [conn EXCEPT ![c] = s] \in [Conns -> ConnStates]
           /\ Carried([conn EXCEPT ![c] = s], call, via)
           /\ \A ch \in Conns \cup {None} : Opened(conn, ch) => Opened([conn EXCEPT ![c] = s], ch)
BY DEF Carried, Opened, CarryInv, ConnInv, TypeOK

LEMMA ReadyCarry ==
    ASSUME CarryInv, NEW c \in Conns, FtpReady(c) \/ SshFails(c) \/ SftpOpens(c)
    PROVE  CarryInv'
<1>1. PICK s \in {"ready", "gone"} : conn' = [conn EXCEPT ![c] = s]
  BY DEF FtpReady, SshFails, SftpOpens
<1>2. conn[c] \in {"connecting", "session"}
  BY DEF FtpReady, SshFails, SftpOpens
<1>3. /\ conn' \in [Conns -> ConnStates] /\ Carried(conn', call, via)
      /\ \A ch \in Conns \cup {None} : Opened(conn, ch) => Opened(conn', ch)
  BY <1>1, <1>2, AgedCarry DEF ConnStates, Carries
<1>4. PICK ch \in Conns \cup {None} : ConnectOk(conn', call, ch) /\ ch = chan'
  BY DEF FtpReady, SshFails, SftpOpens, CarryInv, ConnInv, TypeOK
<1>5. Opened(conn', ch)
  <2>1. CASE FtpReady(c)
    <3>1. ch = c
      BY <1>4, <2>1 DEF FtpReady, CarryInv, ConnInv, NoStray, FtpChan
    <3> QED  BY <2>1, <3>1, <1>1 DEF FtpReady, Opened, Carries, CarryInv, ConnInv, TypeOK
  <2>2. CASE SshFails(c)
    BY <1>3, <1>4, <2>2 DEF SshFails, CarryInv
  <2>3. CASE SftpOpens(c)
    BY <1>4, <2>3 DEF SftpOpens, Opened, Carries, CarryInv, ConnInv, TypeOK
  <2> QED  BY <2>1, <2>2, <2>3
<1>6. Carried(conn', AllResumed(conn', call, ch), SentOver(ch))
  BY <1>3, <1>5, ResumedCarry DEF CarryInv, ConnInv, TypeOK
<1>7. Carried(conn, call, via)'
  BY <1>4, <1>6 DEF ConnectOk, Carried
<1> QED  BY <1>4, <1>5, <1>7, FtpReadyInv, SftpInv DEF CarryInv, Opened

LEMMA FtpFailsCarry == ASSUME CarryInv, NEW c \in Conns, FtpFails(c) PROVE CarryInv'
<1> DEFINE cn == [conn EXCEPT ![c] = "gone"]
<1>1. PICK w \in Closings(cn, call, via) : conn' = w.conn /\ ConnectOk(w.conn, w.call, None)
  BY DEF FtpFails
<1>2. cn \in [Conns -> ConnStates] /\ Carried(cn, call, via)
  BY AgedCarry DEF FtpFails, ConnStates, Carries
<1> HIDE DEF cn
<1>3. /\ Carried(w.conn, w.call, via) /\ w.call \in [Calls -> CallStates]
  BY <1>1, <1>2, ClosingsCarry, ClosingsFacts DEF CarryInv, ConnInv, TypeOK
<1>4. Carried(w.conn, AllResumed(w.conn, w.call, None), SentOver(None))
  BY <1>3, ResumedCarry DEF CarryInv, ConnInv, Opened
<1>5. Carried(conn, call, via)'
  BY <1>1, <1>4 DEF ConnectOk, Carried
<1>6. proto' = "ftp" /\ isReady' = FALSE
  BY DEF FtpFails, Cleared
<1> QED  BY <1>5, <1>6, FtpFailsInv DEF CarryInv

LEMMA SftpFailsCarry == ASSUME CarryInv, NEW c \in Conns, SftpFails(c) PROVE CarryInv'
<1> DEFINE s == IF conn[c] = "session" THEN "unused" ELSE "gone"
           cn == [conn EXCEPT ![c] = s]
           cl == AllResumed(cn, call, chan)
<1>1. /\ proto = "sftp" /\ proto' = "sftp" /\ via' = SentOver(chan)
      /\ \/ conn' = cn /\ call' = cl /\ chan' = chan
         \/ /\ \E w \in Closings(cn, cl, SentOver(chan)) : conn' = w.conn /\ call' = w.call
            /\ Cleared
  BY DEF SftpFails, CarryInv, ConnInv, TypeOK
<1>2. s \in ConnStates /\ conn[c] \notin Carries \cup {"gone"}
  BY DEF SftpFails, ConnStates, Carries
<1> HIDE DEF s
<1>3. /\ cn \in [Conns -> ConnStates] /\ Carried(cn, call, via)
      /\ \A ch \in Conns \cup {None} : Opened(conn, ch) => Opened(cn, ch)
  BY <1>2, AgedCarry
<1>4. chan \in Conns \cup {None} /\ Opened(conn, chan)
  BY <1>1 DEF CarryInv, ConnInv, TypeOK
<1> HIDE DEF cn
<1>5. cl \in [Calls -> CallStates] /\ SentOver(chan) \in [Calls -> Conns \cup {None}]
  BY <1>4, ResumedFacts DEF CarryInv, ConnInv, TypeOK
<1>6. Opened(cn, chan) /\ Carried(cn, cl, SentOver(chan))
  BY <1>3, <1>4, ResumedCarry DEF CarryInv, ConnInv, TypeOK
<1> HIDE DEF cl
<1>7. Carried(conn, call, via)' /\ Opened(conn, chan)'
  <2>1. CASE conn' = cn /\ call' = cl /\ chan' = chan
    BY <1>1, <1>6, <2>1 DEF Carried, Opened
  <2>2. ASSUME NEW w \in Closings(cn, cl, SentOver(chan)), conn' = w.conn, call' = w.call, Cleared
        PROVE  Carried(conn, call, via)' /\ Opened(conn, chan)'
    <3>1. Carried(w.conn, w.call, SentOver(chan)) /\ Opened(w.conn, chan)
      BY <1>3, <1>4, <1>5, <1>6, ClosingsCarry DEF CarryInv
    <3>2. chan' \in {chan, None}
      BY <2>2 DEF Cleared, ChanLeft
    <3> QED  BY <1>1, <2>2, <3>1, <3>2 DEF Carried, Opened
  <2> QED  BY <1>1, <2>1, <2>2
<1> QED  BY <1>7, SftpFailsInv DEF CarryInv

LEMMA AgesCarry ==
    ASSUME CarryInv, NEW c \in Conns, SshUp(c) \/ ServerDrops(c) \/ ServerBreaks(c)
    PROVE  CarryInv'
<1>1. PICK s \in {"session", "gone", "broken"} :
         /\ conn' = [conn EXCEPT ![c] = s]
         /\ \/ conn[c] \in {"connecting", "session"}
            \/ conn[c] \in {"ready", "draining"} /\ s = "broken"
  BY DEF SshUp, ServerDrops, ServerBreaks
<1>2. /\ Carried(conn', call, via)
      /\ \A ch \in Conns \cup {None} : Opened(conn, ch) => Opened(conn', ch)
  BY <1>1, AgedCarry DEF ConnStates, Carries
<1>3. UNCHANGED <<proto, isReady, chan, call, via>>
  BY DEF SshUp, ServerDrops, ServerBreaks
<1>4. Carried(conn, call, via)' /\ (Opened(conn, chan) => Opened(conn, chan)')
  BY <1>2, <1>3 DEF Carried, Opened, CarryInv, ConnInv, TypeOK
<1> QED  BY <1>3, <1>4, SftpInv, DropsInv DEF CarryInv

LEMMA CarryInit == Init => CarryInv
BY InitInv DEF Init, CarryInv, Carried, Opened

LEMMA CarryStep == CarryInv /\ [Next]_vars => CarryInv'
<1>1. CarryInv /\ UNCHANGED vars => CarryInv'
  BY StutterInv DEF vars, CarryInv, Carried, Opened
<1> QED
  BY <1>1, CallsCarry, CancelCarry, EndsCarry, ReadyCarry, FtpFailsCarry, SftpFailsCarry, AgesCarry
  DEF Next, Connect

\* A call that was sent is over a client that will answer it or end.
THEOREM ConnSentIsCarried == Spec => []SentIsCarried
<1>1. CarryInv => SentIsCarried
  BY DEF CarryInv, Carried, Carries, SentIsCarried
<1> QED  BY <1>1, CarryInit, CarryStep, PTL DEF Spec

-----------------------------------------------------------------------------
Now == [k \in Calls |-> Answered(k)]

LEMMA AnsweredOf ==
    ASSUME TypeOK, NEW k \in Calls
    PROVE  /\ call[k] = "new" => Answered(k) = "new"
           /\ call[k] \in {"answered", "failed"} => Answered(k) = "answered"
           /\ call[k] \in {"waiting", "sent", "broken", "lost"} => Answered(k) = "open"
BY DEF Answered

LEMMA NowChanges ==
    ASSUME TypeOK, TypeOK', NEW k \in Calls,
           \A j \in Calls \ {k} : Answered(j)' = Answered(j)
    PROVE  Now' = [Now EXCEPT ![k] = Answered(k)']
BY DEF Now

\* An event that settles calls answers one of the list at most.
LEMMA SettlesPromise ==
    ASSUME ConnInv, TypeOK', Settles
    PROVE  [Promise!Next]_Now
<1>1. \A k \in Calls \ waiting : Answered(k)' = Answered(k)
  BY DEF Settles, Answered
<1>2. CASE \A k \in waiting : call'[k] # "answered"
  <2>1. \A k \in waiting : Answered(k) = "open" /\ Answered(k)' = "open"
    BY <1>2 DEF ConnInv, ListWaits, Settles, Answered, TypeOK
  <2> QED  BY <1>1, <2>1 DEF Now, TypeOK
<1>3. ASSUME NEW k \in waiting, call'[k] = "answered" PROVE [Promise!Next]_Now
  <2>1. k \in Calls /\ call[k] = "waiting"
    BY DEF ConnInv, TypeOK, ListWaits
  <2>2. \A j \in waiting : j = k
    BY <2>1 DEF ConnInv, TypeOK, ListWaits, OneBusy, Busy
  <2>3. Answered(k) = "open" /\ Answered(k)' = "answered"
    BY <1>3, <2>1 DEF Answered
  <2>4. Now' = [Now EXCEPT ![k] = "answered"]
    BY <1>1, <2>1, <2>2, <2>3, NowChanges DEF ConnInv
  <2> QED  BY <2>1, <2>3, <2>4 DEF Promise!Next, Promise!Answer, Now
<1> QED  BY <1>2, <1>3

LEMMA CallPromise ==
    ASSUME ConnInv, TypeOK', NEW k \in Calls, CallReady(k) \/ CallWaits(k)
    PROVE  [Promise!Next]_Now
<1>1. call[k] = "new"
  BY DEF CallReady, CallWaits, MayCall
<1>2. PICK s \in {"answered", "broken", "lost", "sent", "waiting"} : call' = [call EXCEPT ![k] = s]
  BY DEF CallReady, CallWaits, Resumed
<1>3. Answered(k) = "new" /\ Answered(k)' \in {"open", "answered"}
  BY <1>1, <1>2 DEF Answered, ConnInv, TypeOK
<1>4. Now' = [Now EXCEPT ![k] = Answered(k)']
  <2>1. \A j \in Calls \ {k} : Answered(j)' = Answered(j)
    BY <1>2 DEF Answered, ConnInv, TypeOK
  <2> QED  BY <2>1, NowChanges DEF ConnInv
<1> QED  BY <1>3, <1>4 DEF Promise!Next, Promise!Ask, Promise!Refuse, Now

LEMMA ReplyPromise ==
    ASSUME ConnInv, TypeOK', NEW k \in Calls, Reply(k)
    PROVE  [Promise!Next]_Now
<1>1. PICK a \in {"answered", "failed"} : call' = [call EXCEPT ![k] = a]
  BY DEF Reply
<1>2. Answered(k) = "open" /\ Answered(k)' = "answered"
  BY <1>1 DEF Reply, Answered, ConnInv, TypeOK
<1>3. Now' = [Now EXCEPT ![k] = "answered"]
  <2>1. \A j \in Calls \ {k} : Answered(j)' = Answered(j)
    BY <1>1 DEF Answered, ConnInv, TypeOK
  <2> QED  BY <1>2, <2>1, NowChanges DEF ConnInv
<1> QED  BY <1>2, <1>3 DEF Promise!Next, Promise!Answer, Now

LEMMA EventSettles ==
    ASSUME ConnInv,
           \/ Cancel
           \/ \E c \in Conns : Connect(c) \/ ServerBreaks(c) \/ ServerEnds(c) \/ Closed(c)
    PROVE  Settles
<1>1. CASE Cancel
  BY <1>1, CloseFacts DEF Cancel, ConnInv, TypeOK, Loses
<1>2. ASSUME NEW c \in Conns, ServerEnds(c) \/ Closed(c) PROVE Settles
  <2>1. Lose(call, via, c) \in [Calls -> CallStates] /\ Loses(Lose(call, via, c))
    BY LoseFacts DEF ConnInv, TypeOK, Loses
  <2>2. \A s \in {"ended", "gone"} : [conn EXCEPT ![c] = s] \in [Conns -> ConnStates]
    BY DEF ConnInv, TypeOK, ConnStates
  <2> QED  BY <1>2, <2>1, <2>2, CloseFacts DEF ServerEnds, Closed, ConnInv
<1>3. ASSUME NEW c \in Conns, FtpReady(c) \/ SshFails(c) \/ SftpOpens(c) PROVE Settles
  BY <1>3, ConnectOkFacts DEF FtpReady, SshFails, SftpOpens, ConnInv, TypeOK, Loses
<1>4. ASSUME NEW c \in Conns, FtpFails(c) PROVE Settles
  <2>1. PICK w \in Closings([conn EXCEPT ![c] = "gone"], call, via) :
           ConnectOk(w.conn, w.call, None)
    BY <1>4 DEF FtpFails
  <2>2. [conn EXCEPT ![c] = "gone"] \in [Conns -> ConnStates] /\ call \in [Calls -> CallStates]
    BY DEF ConnInv, TypeOK, ConnStates
  <2>3. w.call \in [Calls -> CallStates] /\ Loses(w.call)
    <3> DEFINE cn == [conn EXCEPT ![c] = "gone"]
    <3>1. cn \in [Conns -> ConnStates] /\ w \in Closings(cn, call, via)
      BY <2>1, <2>2
    <3> HIDE DEF cn
    <3> QED  BY <2>2, <3>1, ClosingsFacts DEF Loses, ConnInv
  <2> QED  BY <2>1, <2>3, ConnectOkFacts DEF ConnInv
<1>5. ASSUME NEW c \in Conns, SftpFails(c) PROVE Settles
  BY <1>5, SftpFailsFacts
<1>6. ASSUME NEW c \in Conns, SshUp(c) \/ ServerDrops(c) \/ ServerBreaks(c) PROVE Settles
  BY <1>6 DEF SshUp, ServerDrops, ServerBreaks, Settles
<1> QED  BY <1>1, <1>2, <1>3, <1>4, <1>5, <1>6 DEF Connect

LEMMA StepPromise == ConnInv /\ [Next]_vars => [Promise!Next]_Now
<1> SUFFICES ASSUME ConnInv, [Next]_vars PROVE [Promise!Next]_Now
  OBVIOUS
<1>1. TypeOK'
  BY StepInv DEF ConnInv
<1>2. CASE UNCHANGED vars
  BY <1>2 DEF vars, Now, Answered
<1>3. CASE Next
  BY <1>1, <1>3, CallPromise, ReplyPromise, SettlesPromise, EventSettles DEF Next
<1> QED  BY <1>2, <1>3

\* The calls of an entity implement the safety of Answers: a callback is called once
\* at most, and never before the call.
THEOREM ConnPromise == Spec => OneAnswer
<1>1. Init => Promise!Init
  BY DEF Init, Promise!Init, Answered
<1>2. ConnInv /\ [Next]_vars => [Promise!Next]_[k \in Calls |-> Answered(k)]
  BY StepPromise DEF Now
<1> QED  BY <1>1, <1>2, ConnAlways, PTL DEF Spec, OneAnswer, Promise!SafeSpec
=============================================================================
