------------------------------ MODULE Answers ------------------------------
(***************************************************************************)
(* What the service promises its client: a call is answered once and, with *)
(* the scheduling of the event loop and of the threads, it is answered.    *)
(* The detailed modules implement it, or show where the code does not.     *)
(***************************************************************************)
CONSTANT Calls
VARIABLE call

States == {"new", "open", "answered"}

TypeOK == call \in [Calls -> States]

Init == call = [c \in Calls |-> "new"]

Ask(c) == call[c] = "new" /\ call' = [call EXCEPT ![c] = "open"]

\* A call that is answered in the turn in which it arrives.
Refuse(c) == call[c] = "new" /\ call' = [call EXCEPT ![c] = "answered"]

Answer(c) == call[c] = "open" /\ call' = [call EXCEPT ![c] = "answered"]

Next == \E c \in Calls : Ask(c) \/ Refuse(c) \/ Answer(c)

SafeSpec == Init /\ [][Next]_call

Fairness == \A c \in Calls : WF_call(Answer(c))

Spec == SafeSpec /\ Fairness
=============================================================================
