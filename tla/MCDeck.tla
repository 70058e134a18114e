---------------------------------- MODULE MCDeck ----------------------------------
(***************************************************************************)
(* Small instances of Deck: the volume with a deck that refuses now and    *)
(* then, and tokens with three callers.                                    *)
(***************************************************************************)
EXTENDS Deck

MCLimits ==
    { (* a fade and an admin; two fades *)
      [tokens |-> 1, logins |-> 1, restarts |-> 0, asks |-> 2, fades |-> 1],
      [tokens |-> 1, logins |-> 1, restarts |-> 0, asks |-> 0, fades |-> 2],
      (* three callers with two refreshes *)
      [tokens |-> 3, logins |-> 1, restarts |-> 0, asks |-> 1, fades |-> 0],
      (* refreshes, a second login and a restart *)
      [tokens |-> 4, logins |-> 2, restarts |-> 1, asks |-> 0, fades |-> 0] }

MCPercents == {40, 100}
=============================================================================
