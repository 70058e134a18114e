------------------------------- MODULE MCSession -------------------------------
EXTENDS Session

CONSTANTS c1, c2, d1, a1, a2

MCConns == {c1, c2}
MCWS == {c1}
MCIPs == {a1, a2}

(* From one address, and from two. *)
MCOrigins == {[c \in MCConns |-> a1], [c \in MCConns |-> IF c = c1 THEN a1 ELSE a2]}

MCDevices == {d1}
MCBanned == {d1}
=============================================================================
