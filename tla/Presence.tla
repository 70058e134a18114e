------------------------------- MODULE Presence -------------------------------
(***************************************************************************)
(* What the transport promises the engine about its connections: the       *)
(* engine learns of each once, hears from it only as long as it has it,    *)
(* and loses each one that has ended, once and for good.                   *)
(***************************************************************************)
EXTENDS Naturals

CONSTANT Conns      \* the connections there will ever be

VARIABLES
    at,             \* connection -> what the engine knows of it
    ended,          \* connection -> has it ended, whoever ended it?
    handled         \* connection -> frames the engine has handled

vars == <<at, ended, handled>>

Init ==
    /\ at = [c \in Conns |-> "unknown"]
    /\ ended = [c \in Conns |-> FALSE]
    /\ handled = [c \in Conns |-> 0]

(* A connection may end at any time: whatever the engine handles may make  *)
(* it send more than some of its connections can take.                     *)
MayEnd == ended' \in {e \in [Conns -> BOOLEAN] : \A c \in Conns : ended[c] => e[c]}

Appears(c) ==
    /\ at[c] = "unknown"
    /\ at' = [at EXCEPT ![c] = "known"]
    /\ MayEnd /\ UNCHANGED handled

(* One that has ended is heard until the engine is told. *)
IsHeard(c) ==
    /\ at[c] = "known"
    /\ handled' = [handled EXCEPT ![c] = @ + 1]
    /\ MayEnd /\ UNCHANGED at

Disappears(c) ==
    /\ at[c] = "known" /\ ended[c]
    /\ at' = [at EXCEPT ![c] = "gone"]
    /\ MayEnd /\ UNCHANGED handled

Ends == MayEnd /\ UNCHANGED <<at, handled>>

Next == Ends \/ \E c \in Conns : Appears(c) \/ IsHeard(c) \/ Disappears(c)

Spec == Init /\ [][Next]_vars /\ \A c \in Conns : WF_vars(Disappears(c))
=============================================================================
