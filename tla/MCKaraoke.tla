------------------------------ MODULE MCKaraoke ------------------------------
(* Karaoke on a small instance: see the README for what the bounds reach.   *)
EXTENDS Karaoke

MCThresholds == {50, 100}
=============================================================================
