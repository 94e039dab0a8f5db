------------------------------- MODULE Mirror -------------------------------
(***************************************************************************)
(* What a user may rely on when a directory is mapped to a server, with no *)
(* word of entities, records, listings or times: two directories, which    *)
(* their users change as they like, and a synchronisation that             *)
(*   - takes no content away that the user wrote here and no server has,   *)
(*   - deletes on the server only what the user wanted to be gone,         *)
(*   - removes or moves a local file only when it was asked to.            *)
(***************************************************************************)
EXTENDS Naturals

CONSTANT Names
VARIABLES
    server,     \* [Names -> File], the remote directory
    disk,       \* [Names -> File], the local one
    kept,       \* contents set aside in other local files
    unsent,     \* contents the user wrote and no server has
    asked,      \* names the user removed or renamed away
    edits       \* steps of the user and of the other clients so far

vars == <<server, disk, kept, unsent, asked, edits>>

File == [c : Nat, t : Nat]
Absent == [c |-> 0, t |-> 0]
Exists(f) == f.t # 0

\* The directory d becomes e by some file at n.
Placed(d, e, n) == e[n] \in File /\ Exists(e[n]) /\ e = [d EXCEPT ![n] = e[n]]

\* An absent file has no content to be lost.
Unsent(f) == Exists(f) /\ f.c \in unsent

Init ==
    /\ server \in [Names -> File] /\ disk \in [Names -> File]
    /\ kept = {} /\ unsent = {} /\ asked = {} /\ edits = 0

(***************************************************************************)
(* The user, and the other clients of the server                           *)
(***************************************************************************)

\* A new content takes the place of the old one, or the old one is written again.
Write(n) ==
    /\ Placed(disk, disk', n)
    /\ \/ Exists(disk[n]) /\ disk'[n].c = disk[n].c /\ UNCHANGED unsent
       \/ unsent' = (unsent \ {disk[n].c}) \cup {disk'[n].c}
    /\ UNCHANGED <<server, kept, asked>>

Erase(n) ==
    /\ disk' = [disk EXCEPT ![n] = Absent]
    /\ unsent' = unsent \ {disk[n].c}
    /\ UNCHANGED <<server, kept, asked>>

\* The name is put under control, and no file changes.
Add == UNCHANGED <<server, disk, kept, unsent, asked>>

Elsewhere(n) ==
    /\ Placed(server, server', n) \/ server' = [server EXCEPT ![n] = Absent]
    /\ UNCHANGED <<disk, kept, unsent, asked>>

Edit ==
    /\ edits' = edits + 1
    /\ Add \/ \E n \in Names : Write(n) \/ Erase(n) \/ Elsewhere(n)

\* A remove or a rename of the name is asked for.
Ask(n) ==
    /\ asked' = asked \cup {n}
    /\ UNCHANGED <<server, disk, kept, unsent, edits>>

(***************************************************************************)
(* The synchronisation                                                     *)
(***************************************************************************)

\* A file comes from the server; one that has something unsent is set aside.
Fetch(n) ==
    /\ Placed(disk, disk', n)
    /\ kept \subseteq kept'
    /\ Unsent(disk[n]) => disk[n].c \in kept'
    /\ UNCHANGED <<server, unsent, asked, edits>>

\* Files that are gone from the server go here as well, if nothing is lost.
Prune(S) ==
    /\ \A n \in S : ~Unsent(disk[n])
    /\ disk' = [n \in Names |-> IF n \in S THEN Absent ELSE disk[n]]
    /\ UNCHANGED <<server, kept, unsent, asked, edits>>

\* A file is sent, as it was or, when it changed meanwhile or the transfer failed, in parts.
Send(n) ==
    /\ Placed(server, server', n)
    /\ unsent' = unsent \ {server'[n].c}
    /\ UNCHANGED <<disk, kept, asked, edits>>

Delete(n) ==
    /\ n \in asked
    /\ server' = [server EXCEPT ![n] = Absent]
    /\ UNCHANGED <<disk, kept, unsent, asked, edits>>

Remove(n) ==
    /\ n \in asked
    /\ disk' = [disk EXCEPT ![n] = Absent]
    /\ unsent' = unsent \ {disk[n].c}
    /\ UNCHANGED <<server, kept, asked, edits>>

\* A rename takes the place of a file the user made there after he asked for it.
Move(n, m) ==
    /\ n \in asked
    /\ Exists(disk[n])
    /\ disk' = [disk EXCEPT ![m] = disk[n], ![n] = Absent]
    /\ unsent' = unsent \ ({disk[m].c} \ {disk[n].c})
    /\ UNCHANGED <<server, kept, asked, edits>>

Next ==
    \/ Edit
    \/ \E n \in Names : \/ Ask(n) \/ Fetch(n) \/ Send(n) \/ Delete(n) \/ Remove(n)
                        \/ \E m \in Names \ {n} : Move(n, m)
    \/ \E S \in SUBSET Names : Prune(S)

Spec == Init /\ [][Next]_vars
=============================================================================
