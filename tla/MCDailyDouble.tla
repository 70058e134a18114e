---------------------------- MODULE MCDailyDouble ----------------------------
(* DailyDouble on a small instance: see the README for what the bounds      *)
(* reach.  Every player may be banned and all cells lie in one row, so      *)
(* players, songs and cells are each interchangeable.                       *)
EXTENDS DailyDouble, TLC

MCRowOf == [c \in Cells |-> 5]

Symmetry == Permutations(Players) \cup Permutations(Songs) \cup Permutations(Cells)
=============================================================================
