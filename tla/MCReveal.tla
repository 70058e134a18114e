------------------------------- MODULE MCReveal -------------------------------
EXTENDS Reveal

CONSTANTS p1, p2

MCPlayers == {p1, p2}
MCLeavers == {p2}

Letters(a, s) == [f \in Fields |-> IF f = "artist" THEN a ELSE s]
MCSizes == {Letters(1, 2)}

Knobs(b, n, k, t) == [block |-> b, lockout |-> n, auto |-> k, alternate |-> t]
MCConfigs == {Knobs(TRUE, 1, TRUE, TRUE), Knobs(FALSE, 0, FALSE, FALSE)}
=============================================================================
