-------------------------------- MODULE MCSolo --------------------------------
EXTENDS Solo

CONSTANTS t1, t2, r1, r2

MCTracks == {t1, t2}
MCRequests == {r1, r2}
MCOrders == {<<t2>>}

Start(q, l, c, p, r, e, t, s) ==
    [playlist |-> q, loaded |-> l, cache |-> c, plays |-> p, rounds |-> r, edits |-> e,
     turns |-> t, syncs |-> s]

All(c) == [t \in MCTracks |-> c]

OnlyFirst == [t \in MCTracks |-> IF t = t1 THEN "lines" ELSE "none"]

(* A process that starts while its playlist is edited twice; a session with *)
(* an edit and a changed knob; two songs whose lyrics are fetched; a stage  *)
(* that connects again meanwhile; a stage that is away between two songs,   *)
(* of which one has no lyrics; and a round that starts then.                *)
MCStarts ==
    {Start(<<t1>>, FALSE, All("none"), 2, 0, 2, 0, 0),
     Start(<<t1>>, TRUE, All("none"), 2, 0, 1, 1, 0),
     Start(<<t1, t2>>, TRUE, All("absent"), 2, 0, 0, 0, 0),
     Start(<<t1>>, TRUE, All("absent"), 1, 0, 0, 0, 1),
     Start(<<t1, t2>>, TRUE, OnlyFirst, 2, 0, 0, 0, 2),
     Start(<<t1>>, TRUE, All("absent"), 1, 1, 0, 0, 0)}
=============================================================================
