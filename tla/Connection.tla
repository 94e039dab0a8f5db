----------------------------- MODULE Connection -----------------------------
(***************************************************************************)
(* The connection of an entity: ready and close of FileMappingEntity, with *)
(* connect and close of FTP (ftp.js) and SFTP (sftp.js), and the events of *)
(* the clients they use, old ones included.                                *)
(*                                                                         *)
(* An operation of an entity is a chain of calls, one at a time; each goes *)
(* through ready(), which connects first when there is no connection. The  *)
(* chain runs on after a cancel and then connects again, while the events  *)
(* of the connection that was closed are still to come.                    *)
(***************************************************************************)
EXTENDS Naturals, FiniteSets

CONSTANTS
    Calls,      \* the calls of the chain, each made once
    Tests,      \* those that are test(), made alone on their entity
    Conns,      \* connections that may be opened
    None

ASSUME CallsAssumption == Tests \subseteq Calls
ASSUME ConnsAssumption == None \notin Conns

(* Client objects of the ftp and ssh2 libraries, by what they can still do:*)
(* "connecting", "session" (ssh is up, its sftp channel is being opened),  *)
(* "ready", "broken" (the socket failed, its close event is to come),      *)
(* "draining" (ended, with a command to finish), "reset" and "ended" (the  *)
(* end or the close event is to come), "abandoned" (ended before it was    *)
(* ready), "unused" (ssh without sftp and without listeners), "gone".      *)
ConnStates == {"none", "connecting", "session", "ready", "broken", "draining",
               "reset", "ended", "abandoned", "unused", "gone"}

(* "waiting" for the connection; "sent" over it; "answered" and "failed":  *)
(* called back; "broken": resumed without a connection, it has thrown a    *)
(* TypeError; "lost": its handler was dropped by the client object.        *)
CallStates == {"new", "waiting", "sent", "answered", "failed", "broken", "lost"}

VARIABLES
    proto,      \* "ftp" or "sftp"
    isReady,    \* m_is_ready
    connecting, \* m_connect
    waiting,    \* m_ready_cb
    link,       \* m_ftp or m_ssh
    chan,       \* m_ftp or m_sftp: what a call is sent over
    conn,       \* the client objects
    call,       \* the calls
    via         \* the client object a call was sent over

vars == <<proto, isReady, connecting, waiting, link, chan, conn, call, via>>

(***************************************************************************)
(* The client objects.                                                     *)
(***************************************************************************)
InFlight(cl, v, c) == {k \in Calls : cl[k] = "sent" /\ v[k] = c}

Lose(cl, v, c) == [k \in Calls |-> IF k \in InFlight(cl, v, c) THEN "lost" ELSE cl[k]]

\* end(): with commands queued the client finishes them, otherwise it is reset
\* and drops the handler of the command under way.
HangUps_Not(cn, cl, v, c) == {[conn |-> cn, call |-> cl]}

HangUps(cn, cl, v, c) ==
    CASE cn[c] = "ready" ->
            {[conn |-> [cn EXCEPT ![c] = "reset"], call |-> Lose(cl, v, c)]}
            \cup {[conn |-> [cn EXCEPT ![c] = "draining"], call |-> cl] : k \in InFlight(cl, v, c)}
      [] cn[c] = "broken" -> {[conn |-> cn, call |-> Lose(cl, v, c)]}
      [] cn[c] \in {"connecting", "session"} ->
            {[conn |-> [cn EXCEPT ![c] = "abandoned"], call |-> cl]}
      [] cn[c] = "unused" -> {[conn |-> [cn EXCEPT ![c] = "gone"], call |-> cl]}
      [] OTHER -> {[conn |-> cn, call |-> cl]}

(***************************************************************************)
(* close of the entity, given the client objects and the calls as the      *)
(* event that closes has left them. It acts on the present connection,     *)
(* whosever event it is; SFTP forgets its channel with its client only.    *)
(***************************************************************************)
Closings(cn, cl, v) ==
    IF link = None THEN {[conn |-> cn, call |-> cl]} ELSE HangUps(cn, cl, v, link)

ChanLeft == IF link = None THEN chan ELSE None

Cleared_Half == link' = None /\ chan' = ChanLeft /\ connecting' = FALSE /\ UNCHANGED isReady

Cleared_Linked == UNCHANGED <<link, chan>> /\ connecting' = FALSE /\ isReady' = FALSE

Cleared == link' = None /\ chan' = ChanLeft /\ connecting' = FALSE /\ isReady' = FALSE

Close(cn, cl) ==
    /\ \E w \in Closings(cn, cl, via) : conn' = w.conn /\ call' = w.call
    /\ Cleared
    /\ UNCHANGED <<proto, waiting, via>>

(***************************************************************************)
(* ready of the entity: connect_ok calls the callbacks of m_ready_cb. That *)
(* of test looks at the error; that of an operation does not, and uses     *)
(* m_ftp or m_sftp at once.                                                *)
(***************************************************************************)
Resumed(k, cn, ch) ==
    CASE k \in Tests -> "answered"
      [] k \notin Tests /\ ch = None -> "broken"
      [] k \notin Tests /\ ch # None /\ cn[ch] = "gone" -> "lost"
      [] OTHER -> "sent"

AllResumed(cn, cl, ch) ==
    [k \in Calls |-> IF k \in waiting THEN Resumed(k, cn, ch) ELSE cl[k]]

SentOver_Fresh(ch) == [k \in waiting |-> ch]

SentOver(ch) == [k \in Calls |-> IF k \in waiting THEN ch ELSE via[k]]

\* The list is emptied before it is read.
ConnectOk_Empty(cn, cl, ch) == call' = cl /\ via' = via /\ waiting' = {}

\* The list is not emptied.
ConnectOk_Kept(cn, cl, ch) ==
    call' = AllResumed(cn, cl, ch) /\ via' = SentOver(ch) /\ UNCHANGED waiting

ConnectOk(cn, cl, ch) ==
    call' = AllResumed(cn, cl, ch) /\ via' = SentOver(ch) /\ waiting' = {}

\* The chain goes on when its last call was called back. A test is the only call.
MayCall(k) ==
    /\ call[k] = "new"
    /\ \A j \in Calls : call[j] \in {"new", "answered", "failed"}
    /\ \A j \in Calls : call[j] # "new" => j \notin Tests /\ k \notin Tests

\* With a connection the call is sent, or the test answered, at once.
CallReady(k) ==
    /\ MayCall(k)
    /\ isReady
    /\ call' = [call EXCEPT ![k] = Resumed(k, conn, chan)]
    /\ via' = [via EXCEPT ![k] = chan]
    /\ UNCHANGED <<proto, isReady, connecting, waiting, link, chan, conn>>

\* Without one it waits, and connects unless a connection is being made already. FTP
\* throws when it has a connection: see NeverTwice.
CallWaits(k) ==
    /\ MayCall(k)
    /\ ~isReady
    /\ call' = [call EXCEPT ![k] = "waiting"]
    /\ waiting' = waiting \cup {k}
    /\ connecting' = TRUE
    /\ IF connecting THEN UNCHANGED <<conn, link, chan>>
       ELSE \E c \in Conns :
                /\ conn[c] = "none"
                /\ conn' = [conn EXCEPT ![c] = "connecting"]
                /\ IF proto = "ftp" THEN link' = c /\ chan' = c ELSE UNCHANGED <<link, chan>>
    /\ UNCHANGED <<proto, isReady, via>>

\* cancel, and release at the end of the request.
Cancel == Close(conn, call)

(***************************************************************************)
(* The events of an FTP client.                                            *)
(***************************************************************************)
\* 'ready'
FtpReady(c) ==
    /\ proto = "ftp" /\ conn[c] = "connecting"
    /\ conn' = [conn EXCEPT ![c] = "ready"]
    /\ isReady' = TRUE /\ connecting' = FALSE
    /\ ConnectOk(conn', call, chan)
    /\ UNCHANGED <<proto, link, chan>>

\* 'error' before 'ready', of a client that was closed meanwhile too: the entity is
\* closed and the error handed to the callbacks, as an argument they do not look at.
FtpFails(c) ==
    /\ proto = "ftp" /\ conn[c] \in {"connecting", "abandoned"}
    /\ \E w \in Closings([conn EXCEPT ![c] = "gone"], call, via) :
          conn' = w.conn /\ ConnectOk(w.conn, w.call, None)
    /\ Cleared
    /\ UNCHANGED proto

(***************************************************************************)
(* The events of an SSH client and of its channel.                         *)
(***************************************************************************)
\* The connection is taken for ready before its channel is open.
SshUp_Ready(c) ==
    /\ proto = "sftp" /\ conn[c] = "connecting"
    /\ conn' = [conn EXCEPT ![c] = "session"]
    /\ link' = c /\ chan' = c
    /\ isReady' = TRUE /\ connecting' = FALSE
    /\ ConnectOk(conn', call, c)
    /\ UNCHANGED proto

SshUp(c) ==
    /\ proto = "sftp" /\ conn[c] = "connecting"
    /\ conn' = [conn EXCEPT ![c] = "session"]
    /\ link' = c
    /\ UNCHANGED <<proto, isReady, connecting, waiting, chan, call, via>>

SshFails(c) ==
    /\ proto = "sftp" /\ conn[c] = "connecting"
    /\ conn' = [conn EXCEPT ![c] = "gone"]
    /\ isReady' = FALSE /\ connecting' = FALSE
    /\ ConnectOk(conn', call, chan)
    /\ UNCHANGED <<proto, link, chan>>

\* The channel is the entity's whether or not the entity was closed meanwhile.
SftpOpens(c) ==
    /\ proto = "sftp" /\ conn[c] = "session"
    /\ conn' = [conn EXCEPT ![c] = "ready"]
    /\ chan' = c
    /\ isReady' = TRUE /\ connecting' = FALSE
    /\ ConnectOk(conn', call, c)
    /\ UNCHANGED <<proto, link>>

\* The error is handed on before the entity is closed: a callback that throws
\* leaves it open.
SftpFails(c) ==
    /\ proto = "sftp" /\ conn[c] \in {"session", "abandoned"}
    /\ LET cn == [conn EXCEPT ![c] = IF @ = "session" THEN "unused" ELSE "gone"]
           cl == AllResumed(cn, call, chan)
       IN IF \E k \in waiting : cl[k] = "broken"
          THEN /\ conn' = cn /\ call' = cl
               /\ isReady' = FALSE /\ connecting' = FALSE
               /\ UNCHANGED <<link, chan>>
          ELSE /\ \E w \in Closings(cn, cl, SentOver(chan)) : conn' = w.conn /\ call' = w.call
               /\ Cleared
    /\ via' = SentOver(chan)
    /\ waiting' = {}
    /\ UNCHANGED proto

(***************************************************************************)
(* The events both have.                                                   *)
(***************************************************************************)
\* The server answers a command; a client that was ended and has no other is reset.
Reply(k) ==
    /\ call[k] = "sent"
    /\ conn[via[k]] \in {"ready", "draining"}
    /\ \E a \in {"answered", "failed"} : call' = [call EXCEPT ![k] = a]
    /\ conn' = IF conn[via[k]] = "draining" /\ InFlight(call, via, via[k]) = {k}
               THEN [conn EXCEPT ![via[k]] = "reset"] ELSE conn
    /\ UNCHANGED <<proto, isReady, connecting, waiting, link, chan, via>>

\* The connection is gone before it was ready, with no error: nobody listens yet.
ServerDrops(c) ==
    /\ conn[c] \in {"connecting", "session"}
    /\ conn' = [conn EXCEPT ![c] = "gone"]
    /\ UNCHANGED <<proto, isReady, connecting, waiting, link, chan, call, via>>

\* 'error' of the socket once ready, which is ignored.
ServerBreaks(c) ==
    /\ conn[c] \in {"ready", "draining"}
    /\ conn' = [conn EXCEPT ![c] = "broken"]
    /\ UNCHANGED <<proto, isReady, connecting, waiting, link, chan, call, via>>

\* 'end'
ServerEnds(c) ==
    /\ conn[c] \in {"ready", "draining", "reset"}
    /\ Close([conn EXCEPT ![c] = "ended"], Lose(call, via, c))

\* 'close'
Closed(c) ==
    /\ conn[c] \in {"ended", "broken", "reset"}
    /\ Close([conn EXCEPT ![c] = "gone"], Lose(call, via, c))

-----------------------------------------------------------------------------
Init ==
    /\ proto \in {"ftp", "sftp"}
    /\ isReady = FALSE /\ connecting = FALSE /\ waiting = {}
    /\ link = None /\ chan = None
    /\ conn = [c \in Conns |-> "none"]
    /\ call = [k \in Calls |-> "new"]
    /\ via = [k \in Calls |-> None]

Connect(c) == \/ FtpReady(c) \/ FtpFails(c)
              \/ SshUp(c) \/ SshFails(c) \/ SftpOpens(c) \/ SftpFails(c)
              \/ ServerDrops(c)

Next ==
    \/ \E k \in Calls : CallReady(k) \/ CallWaits(k) \/ Reply(k)
    \/ Cancel
    \/ \E c \in Conns : Connect(c) \/ ServerBreaks(c) \/ ServerEnds(c) \/ Closed(c)

Spec == Init /\ [][Next]_vars

\* A connection that is being made ends in some way, the clients time out; a server
\* answers a command or loses the connection; the socket of a client that has reset
\* it, or whose other side is gone, closes. Nothing makes the server drop a
\* connection, or report the end of one that was given up.
FairSpec ==
    /\ Spec
    /\ \A c \in Conns :
          /\ WF_vars(conn[c] \in {"connecting", "session"} /\ Connect(c))
          /\ WF_vars(Closed(c))
    /\ \A k \in Calls : WF_vars(Reply(k))

-----------------------------------------------------------------------------
TypeOK ==
    /\ proto \in {"ftp", "sftp"}
    /\ isReady \in BOOLEAN /\ connecting \in BOOLEAN
    /\ waiting \subseteq Calls
    /\ link \in Conns \cup {None} /\ chan \in Conns \cup {None}
    /\ conn \in [Conns -> ConnStates]
    /\ call \in [Calls -> CallStates]
    /\ via \in [Calls -> Conns \cup {None}]

\* connect of FTP is never asked while it holds a client: the error it would throw
\* (ftp.js:61) is never seen, whatever was cancelled and whichever events came late.
NeverTwice == proto = "ftp" /\ link # None => connecting \/ isReady

\* A client of FTP that is open, or will be, is the one the entity holds, so that
\* close ends it: no connection is left open behind the entity's back.
NoStray == proto = "ftp" => \A c \in Conns : conn[c] \in {"connecting", "ready"} => link = c

\* m_is_ready says that there is a client to send over: no call that finds it set
\* uses a null m_ftp or m_sftp.
ReadyHasChannel == isReady => chan # None

\* A call that was sent is over a client that has still to answer it or to end, so that
\* it hears of one or of the other: never over a client that is gone, was given up or is
\* another's, although m_sftp outlives its connection and is used by the next one.
SentIsCarried ==
    \A k \in Calls : call[k] = "sent" =>
        via[k] # None /\ conn[via[k]] \in {"ready", "broken", "draining", "reset", "ended"}

Open(k) == call[k] \in {"waiting", "sent"}

\* The callback is in m_ready_cb and no connection is being made that would call it.
Forgotten(k) ==
    /\ call[k] = "waiting" /\ k \in waiting
    /\ \A c \in Conns : conn[c] \notin {"connecting", "session"}

\* A call that was made ends, or its callback is left behind in m_ready_cb because the
\* connect it waited for was closed or dropped: no other wait is without an end.
OpenEnds == \A k \in Calls : Open(k) ~> (~Open(k) \/ Forgotten(k))

Answered(k) ==
    CASE call[k] = "new" -> "new"
      [] call[k] \in {"answered", "failed"} -> "answered"
      [] OTHER -> "open"

Promise == INSTANCE Answers WITH call <- [k \in Calls |-> Answered(k)]

\* A callback is called once at most, over however many connections its call waits.
OneAnswer == Promise!SafeSpec

\* What ftp.js:85 says of a connection that fails: the error is thrown to the
\* callback. Refuted: it is passed as an argument, and the call goes on without.
FailureIsThrown == \A k \in Calls : call[k] # "broken"
=============================================================================
