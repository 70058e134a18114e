----------------------------- MODULE GuessFloor -----------------------------
(***************************************************************************)
(* What a buzz round promises, with no frames, windows, timers, locks or   *)
(* points: while a round is open at most one player has the floor; a       *)
(* player gets the floor only if it has not spent its one guess of the     *)
(* round; having the floor and losing it again spends the guess unless     *)
(* the round is over; and a guess once spent comes back only with a new    *)
(* round.                                                                  *)
(***************************************************************************)
CONSTANTS Players, None

VARIABLES
    open,   \* may the floor be taken, or is it taken?
    floor,  \* who speaks, or None
    spent   \* who has used the guess of this round

floorVars == <<open, floor, spent>>

FloorInit == ~open /\ floor = None /\ spent = {}

(* A new track: nobody has guessed. *)
NewRound ==
    /\ floor = None
    /\ open' = TRUE /\ floor' = None /\ spent' = {}

(* One player takes the floor. *)
TakeFloor(p) ==
    /\ open /\ floor = None /\ p \notin spent
    /\ floor' = p
    /\ UNCHANGED <<open, spent>>

(* The guess is marked spent while the speaker still has the floor (a      *)
(* verdict that could not be read).                                        *)
MarkSpent ==
    /\ floor # None
    /\ spent' = spent \cup {floor}
    /\ UNCHANGED <<open, floor>>

(* The answer is judged; the round goes on or is decided. *)
Judge ==
    /\ floor # None
    /\ spent' = spent \cup {floor}
    /\ floor' = None
    /\ open' \in BOOLEAN

(* Guesses are withdrawn from players who have not guessed. *)
Withdraw(S) ==
    /\ open /\ floor = None
    /\ spent' = spent \cup S
    /\ UNCHANGED <<open, floor>>

(* The round ends with nobody judged. *)
Abandon ==
    /\ open' = FALSE /\ floor' = None
    /\ UNCHANGED spent

(* Between rounds the guesses are handed back. *)
Forget ==
    /\ ~open
    /\ spent' = {}
    /\ UNCHANGED <<open, floor>>

FloorNext ==
    \/ NewRound
    \/ \E p \in Players : TakeFloor(p)
    \/ MarkSpent
    \/ Judge
    \/ \E S \in SUBSET Players : Withdraw(S)
    \/ Abandon
    \/ Forget

FloorSpec == FloorInit /\ [][FloorNext]_floorVars
=============================================================================
