----------------------------- MODULE MCBuzzRound -----------------------------
(* BuzzRound on a small instance: see the README for what the bounds reach. *)
EXTENDS BuzzRound

MCRows  == {5}
MCTimes == {0, 5001}
=============================================================================
