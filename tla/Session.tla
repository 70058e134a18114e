-------------------------------- MODULE Session --------------------------------
(***************************************************************************)
(* A client's connection, from the limiter that admits it to the engine    *)
(* that forgets it.                                                        *)
(*                                                                         *)
(* One goroutine serves a session: it takes a slot, registers the          *)
(* connection with the hub and the engine, reads frames, and undoes all of *)
(* that.  The hub has a send queue and a writer goroutine per connection   *)
(* and drops a client that is too slow.  WebSocket sessions have an idle   *)
(* timer of their own.  The engine takes everything from one queue and     *)
(* keeps the registry of connections and players.                          *)
(*                                                                         *)
(* A frame is a Hello or any other; a Hello with a bad secret is answered  *)
(* like any other.  What a handler sends to a connection counts as one     *)
(* frame.                                                                  *)
(***************************************************************************)
EXTENDS Integers, Sequences, FiniteSets

CONSTANTS
    Conns,         \* sessions clients ask for; a reconnection is another one
    WS,            \* those over WebSocket
    IPs,           \* addresses
    Origins,       \* where the sessions may come from: session -> address
    Devices,       \* fingerprints
    Banned,        \* the players among them that an admin has banned
    NoDevice,      \* no fingerprint: the connection is its own player
    None,          \* no player
    MaxTotal,      \* sessions in all, 0 for any number
    MaxPerIP,      \* sessions of an address, 0 for any number
    SendDepth,     \* capacity of a send queue: sendQueueDepth
    CmdDepth,      \* capacity of the engine's queue
    MaxFrames      \* bound: frames that clients send

ASSUME ConstantsOK ==
    /\ WS \subseteq Conns /\ Banned \subseteq Devices /\ Origins \subseteq [Conns -> IPs]
    /\ MaxTotal \in Nat /\ MaxPerIP \in Nat /\ MaxFrames \in Nat
    /\ SendDepth \in Nat \ {0} /\ CmdDepth \in Nat \ {0}
    /\ NoDevice \notin Devices /\ None \notin Devices \cup Conns

Roles == {"mobile", "admin"}
Players == Devices \cup Conns
Hellos == [op : {"hello"}, dev : Devices \cup {NoDevice}, role : Roles]

VARIABLES
    phase,         \* how far the goroutine of each session is
    IP,            \* session -> its address
    total, perIP,  \* sessionLimiter
    (* Hub.  The stream is shut when either side has closed it. *)
    conns, role, out, closed, shut,
    (* idleTimer: callbacks that wait for its lock, of the timer that is     *)
    (* armed or of one that was replaced meanwhile; "stopped" in between.    *)
    due, expiring,
    lapsed,        \* history: has its timer gone off, with no reset since?
    (* Engine *)
    cmds,          \* what is to be done, in order
    known, boundTo, connByPl,                                     \* registry
    (* History and bounds *)
    forgotten,     \* connections the engine has removed
    moved,         \* connection, player: it was bound to that one, then to another
    handled,       \* connection -> frames handled
    frames

session == <<phase, IP, total, perIP>>
hub == <<conns, role, out, closed, shut>>
timer == <<due, expiring, lapsed>>
registry == <<known, boundTo, connByPl, forgotten, moved>>
vars == <<session, hub, timer, cmds, registry, handled, frames>>

Init ==
    /\ phase = [c \in Conns |-> "new"]
    /\ IP \in Origins /\ total = 0 /\ perIP = [a \in IPs |-> 0]
    /\ conns = {} /\ role = [c \in Conns |-> "mobile"] /\ out = [c \in Conns |-> 0]
    /\ closed = [c \in Conns |-> FALSE] /\ shut = [c \in Conns |-> FALSE]
    /\ due = [c \in Conns |-> {}] /\ expiring = {} /\ lapsed = {}
    /\ cmds = <<>>
    /\ known = {} /\ boundTo = [c \in Conns |-> None] /\ connByPl = [p \in Players |-> {}]
    /\ forgotten = {} /\ moved = {} /\ handled = [c \in Conns |-> 0] /\ frames = 0

-----------------------------------------------------------------------------
(* Sending.                                                                *)

StopsWriter(S) ==                                            \* a mutation of stop
    /\ closed' = [c \in Conns |-> closed[c] \/ c \in S]
    /\ UNCHANGED shut

(* conn.stop: the writer is told, and the stream is closed. *)
stop(S) ==
    /\ closed' = [c \in Conns |-> closed[c] \/ c \in S]
    /\ shut' = [c \in Conns |-> shut[c] \/ c \in S]

QueuesAnyway(S) ==                                        \* a mutation of Deliver
    /\ out' = [c \in Conns |-> IF c \in S \cap conns THEN out[c] + 1 ELSE out[c]]
    /\ UNCHANGED <<conns, closed, shut>>

(* A frame for each connection of S the hub has: whoever has no room for   *)
(* it is dropped.                                                          *)
Deliver(S) ==
    LET open == {c \in S \cap conns : ~closed[c]}
    IN  /\ out' = [c \in Conns |-> IF c \in open /\ out[c] < SendDepth THEN out[c] + 1 ELSE out[c]]
        /\ stop({c \in open : out[c] = SendDepth})
        /\ UNCHANGED conns

Admins == {c \in conns : role[c] = "admin"}

(* reset, after a frame was read or written: the armed timer gives way to  *)
(* a new one; a callback that has started cannot be called back.           *)
Reset(c) ==
    /\ due' = [due EXCEPT ![c] = IF @ = {} THEN {} ELSE {"replaced"}]
    /\ lapsed' = lapsed \ {c}
    /\ UNCHANGED expiring

Write(c) ==
    /\ c \in conns /\ ~closed[c] /\ ~shut[c] /\ out[c] > 0
    /\ out' = [out EXCEPT ![c] = @ - 1]
    /\ Reset(c)
    /\ UNCHANGED <<session, conns, role, closed, shut, cmds, registry, handled, frames>>

WriteFails(c) ==
    /\ c \in conns /\ ~closed[c] /\ out[c] > 0
    /\ out' = [out EXCEPT ![c] = @ - 1]
    /\ stop({c})
    /\ UNCHANGED <<session, conns, role, timer, cmds, registry, handled, frames>>

(* The client goes away, its network does, or the process of either does. *)
ClientCloses(c) ==
    /\ phase[c] \in {"added", "reading", "forwarding"} /\ ~shut[c]
    /\ shut' = [shut EXCEPT ![c] = TRUE]
    /\ UNCHANGED <<session, conns, role, out, closed, timer, cmds, registry, handled, frames>>

-----------------------------------------------------------------------------
(* The idle timer.                                                         *)

Armed(c) == c \in WS /\ phase[c] \in {"added", "reading", "forwarding", "left", "leaving"}

TimerExpires(c) ==
    /\ Armed(c) /\ "armed" \notin due[c]
    /\ due' = [due EXCEPT ![c] = @ \cup {"armed"}]
    /\ lapsed' = lapsed \cup {c}
    /\ UNCHANGED <<session, hub, expiring, cmds, registry, handled, frames>>

AnyTimer(c, k) == Armed(c)                                   \* a mutation of Current

(* fireFunc, under the lock: of the timer that is armed, and not stopped. *)
Current(c, k) == Armed(c) /\ k = "armed"

Fire(c, k) ==
    /\ k \in due[c]
    /\ due' = [due EXCEPT ![c] = @ \ {k}]
    /\ expiring' = IF Current(c, k) THEN expiring \cup {c} ELSE expiring
    /\ UNCHANGED <<session, hub, lapsed, cmds, registry, handled, frames>>

(* onExpire, without the lock. *)
Expire(c) ==
    /\ c \in expiring
    /\ expiring' = expiring \ {c}
    /\ shut' = [shut EXCEPT ![c] = TRUE]
    /\ UNCHANGED <<session, conns, role, out, closed, due, lapsed, cmds, registry, handled, frames>>

-----------------------------------------------------------------------------
(* A session's goroutine.                                                  *)

Goes(c, from, to) == phase[c] = from /\ phase' = [phase EXCEPT ![c] = to]

Admits(a) == (MaxTotal = 0 \/ total < MaxTotal) /\ (MaxPerIP = 0 \/ perIP[a] < MaxPerIP)

acquire(c) ==
    /\ Goes(c, "new", "admitted")
    /\ Admits(IP[c])
    /\ total' = total + 1 /\ perIP' = [perIP EXCEPT ![IP[c]] = @ + 1]
    /\ UNCHANGED <<IP, hub, timer, cmds, registry, handled, frames>>

Rejected(c) ==
    /\ Goes(c, "new", "rejected")
    /\ ~Admits(IP[c])
    /\ UNCHANGED <<IP, total, perIP, hub, timer, cmds, registry, handled, frames>>

(* The upgrade fails, or no control stream is opened in time. *)
NoStream(c) ==
    /\ Goes(c, "admitted", "refused")
    /\ UNCHANGED <<IP, total, perIP, hub, timer, cmds, registry, handled, frames>>

add(c) ==
    /\ Goes(c, "admitted", "added")
    /\ conns' = conns \cup {c}
    /\ UNCHANGED <<IP, total, perIP, role, out, closed, shut, timer, cmds, registry, handled, frames>>

(* A full queue makes a session's goroutine wait. *)
submit(cmd) == Len(cmds) < CmdDepth /\ cmds' = Append(cmds, cmd)

OnConnect(c) ==
    /\ Goes(c, "added", "reading")
    /\ submit([op |-> "connect", conn |-> c])
    /\ UNCHANGED <<IP, total, perIP, hub, timer, registry, handled, frames>>

ReadFrame(c) ==
    /\ Goes(c, "reading", "forwarding")
    /\ ~shut[c]
    /\ frames < MaxFrames /\ frames' = frames + 1
    /\ UNCHANGED <<IP, total, perIP, hub, timer, cmds, registry, handled>>

(* OnMessage.  The role the connection has by then goes with the frame; it *)
(* decides about admins' frames, which other modules take as given.        *)
OnMessage(c, f) ==
    /\ Goes(c, "forwarding", "reading")
    /\ IF c \in WS THEN Reset(c) ELSE UNCHANGED timer
    /\ submit([op |-> "frame", conn |-> c, frame |-> f])
    /\ UNCHANGED <<IP, total, perIP, hub, registry, handled, frames>>

(* A read fails as soon as the stream is closed, whoever did it. *)
OnDisconnect(c) ==
    /\ Goes(c, "reading", "left")
    /\ shut[c]
    /\ submit([op |-> "disconnect", conn |-> c])
    /\ UNCHANGED <<IP, total, perIP, hub, timer, registry, handled, frames>>

remove(c) ==
    /\ Goes(c, "left", "leaving")
    /\ conns' = conns \ {c}
    /\ role' = [role EXCEPT ![c] = "mobile"] /\ out' = [out EXCEPT ![c] = 0]
    /\ stop({c})
    /\ UNCHANGED <<IP, total, perIP, timer, cmds, registry, handled, frames>>

OnlyOfAStream(c) == IF phase[c] = "refused" THEN 0 ELSE 1       \* a mutation of Freed

(* The deferred release, after the idle timer was stopped: what waits for  *)
(* its lock then does nothing.                                             *)
Freed(c) == 1

release(c) ==
    /\ Goes(c, "leaving", "done") \/ Goes(c, "refused", "done")
    /\ total' = total - Freed(c)
    /\ perIP' = [perIP EXCEPT ![IP[c]] = @ - Freed(c)]
    /\ due' = [due EXCEPT ![c] = {}] /\ lapsed' = lapsed \ {c}
    /\ UNCHANGED <<IP, hub, expiring, cmds, registry, handled, frames>>

-----------------------------------------------------------------------------
(* The engine.                                                             *)

Takes(op) == cmds # <<>> /\ Head(cmds).op = op /\ cmds' = Tail(cmds)

AddConn ==
    /\ Takes("connect")
    /\ known' = known \cup {Head(cmds).conn}
    /\ UNCHANGED <<session, hub, timer, boundTo, connByPl, forgotten, moved, handled, frames>>

PlayerOf(c, dev) == IF dev = NoDevice THEN c ELSE dev

(* resolvePlayer: the set of the player a connection had before keeps it. *)
resolvePlayer(c, p) ==
    /\ known' = known \cup {c}
    /\ boundTo' = [boundTo EXCEPT ![c] = p]
    /\ connByPl' = [connByPl EXCEPT ![p] = @ \cup {c}]
    /\ moved' = (moved \ {<<c, p>>}) \cup
                   (IF boundTo[c] \in {None, p} THEN {} ELSE {<<c, boundTo[c]>>})

(* onHello: a ban is found out when the connection has been bound. *)
Hello(c, h) ==
    LET p == PlayerOf(c, h.dev)
    IN  /\ resolvePlayer(c, p)
        /\ role' = IF p \in Banned \/ c \notin conns THEN role ELSE [role EXCEPT ![c] = h.role]

Dispatch ==
    LET cmd == Head(cmds)  c == cmd.conn  f == cmd.frame
    IN  /\ Takes("frame")
        /\ handled' = [handled EXCEPT ![c] = @ + 1]
        /\ Deliver({c})
        /\ \/ f.op = "hello" /\ Hello(c, f)
           \/ f.op = "other" /\ UNCHANGED <<role, known, boundTo, connByPl, moved>>
        /\ UNCHANGED <<session, timer, forgotten, frames>>

LeavesThePlayer(c) == connByPl                               \* a mutation of Unbound

Unbound(c) ==
    IF boundTo[c] = None THEN connByPl ELSE [connByPl EXCEPT ![boundTo[c]] = @ \ {c}]

(* removeConn, and what the engine tells the others when the player is     *)
(* gone.                                                                   *)
RemoveConn ==
    LET c == Head(cmds).conn
    IN  /\ Takes("disconnect")
        /\ known' = known \ {c} /\ forgotten' = forgotten \cup {c}
        /\ boundTo' = [boundTo EXCEPT ![c] = None]
        /\ connByPl' = Unbound(c)
        /\ Deliver(IF boundTo[c] # None /\ connByPl'[boundTo[c]] = {} THEN Admins ELSE {})
        /\ UNCHANGED <<session, role, timer, moved, handled, frames>>

(* The run loop's tickers, and everything else it tells all of them. *)
Flush ==
    /\ \E S \in {Admins, conns} : Deliver(S)
    /\ UNCHANGED <<session, role, timer, cmds, registry, handled, frames>>

-----------------------------------------------------------------------------
Frames == Hellos \cup {[op |-> "other"]}

Serve(c) ==
    \/ acquire(c) \/ Rejected(c) \/ NoStream(c) \/ add(c) \/ OnConnect(c) \/ ReadFrame(c)
    \/ \E f \in Frames : OnMessage(c, f)
    \/ OnDisconnect(c) \/ remove(c) \/ release(c)

Transport(c) ==
    \/ Write(c) \/ WriteFails(c) \/ ClientCloses(c)
    \/ TimerExpires(c) \/ Expire(c)
    \/ \E k \in {"armed", "replaced"} : Fire(c, k)

Engine == AddConn \/ Dispatch \/ RemoveConn \/ Flush

Next == Engine \/ \E c \in Conns : Serve(c) \/ Transport(c)

Spec == Init /\ [][Next]_vars

(* The run loop takes what is queued, and a session's goroutine goes on    *)
(* whenever it can.  Nothing is assumed of clients, of the writers that    *)
(* send to them, or of timers.                                             *)
FairSpec ==
    /\ Spec
    /\ WF_vars(AddConn \/ Dispatch \/ RemoveConn)
    /\ \A c \in Conns : WF_vars(OnConnect(c) \/ (\E f \in Frames : OnMessage(c, f))
                                 \/ OnDisconnect(c) \/ remove(c) \/ release(c))

-----------------------------------------------------------------------------
TypeOK ==
    /\ phase \in [Conns -> {"new", "rejected", "admitted", "refused", "added", "reading",
                            "forwarding", "left", "leaving", "done"}]
    /\ total \in Nat /\ perIP \in [IPs -> Nat]
    /\ conns \subseteq Conns /\ role \in [Conns -> Roles]
    /\ out \in [Conns -> 0 .. SendDepth]
    /\ closed \in [Conns -> BOOLEAN] /\ shut \in [Conns -> BOOLEAN]
    /\ due \in [Conns -> SUBSET {"armed", "replaced"}]
    /\ expiring \subseteq WS /\ lapsed \subseteq WS
    /\ Len(cmds) <= CmdDepth
    /\ known \subseteq Conns /\ forgotten \subseteq Conns
    /\ boundTo \in [Conns -> Players \cup {None}]
    /\ connByPl \in [Players -> SUBSET Conns]
    /\ handled \in [Conns -> 0 .. MaxFrames] /\ frames \in 0 .. MaxFrames

(* Every slot is a session's, and every session that was admitted and has  *)
(* not ended has one: neither count leaks, whatever way a session ends,    *)
(* or admits more than it should.                                          *)
HasSlot == {c \in Conns : phase[c] \notin {"new", "rejected", "done"}}

SlotsAreSessions ==
    /\ total = Cardinality(HasSlot)
    /\ \A a \in IPs : perIP[a] = Cardinality({c \in HasSlot : IP[c] = a})
    /\ MaxTotal > 0 => total <= MaxTotal
    /\ MaxPerIP > 0 => \A a \in IPs : perIP[a] <= MaxPerIP

(* A player is online exactly as long as a connection that the engine has  *)
(* belongs to it - or did before another Hello of that connection, which   *)
(* the player's set outlives: that player stays online for good.           *)
OnlineMeansConnected ==
    \A p \in Players :
        connByPl[p] = {c \in known : boundTo[c] = p} \cup {c \in Conns : <<c, p>> \in moved}

(* The end of a connection is never lost: if the engine has one that has   *)
(* ended, whoever ended it, its goroutine is still to find the stream      *)
(* closed, or the engine's queue has the disconnection.                    *)
EndQueued(c) == \E i \in DOMAIN cmds : cmds[i].op = "disconnect" /\ cmds[i].conn = c

EndIsTold ==
    \A c \in known : closed[c] \/ shut[c] =>
        EndQueued(c) \/ (shut[c] /\ phase[c] \in {"reading", "forwarding"})

(* A reset that comes while the callback of an expired timer waits for the *)
(* lock saves the connection: it is condemned as idle only by a timer that *)
(* nothing has reset since it went off (idleTimer's generations).  What    *)
(* counts is the reset, not the frame: one that is read, or written, and   *)
(* has not reset the timer yet does not save the connection.               *)
ResetSaves == [][expiring' \ expiring \subseteq lapsed]_vars

(* The engine's view of the connections. *)
P == INSTANCE Presence WITH
        at <- [c \in Conns |-> IF c \in known THEN "known"
                               ELSE IF c \in forgotten THEN "gone" ELSE "unknown"],
        ended <- [c \in Conns |-> closed[c] \/ shut[c]]

(* The transport keeps its promises to the engine: a connection appears    *)
(* once, is heard only until it disappears, and disappears once, when it   *)
(* has ended - and does disappear then, also when it was the hub that      *)
(* dropped it because its client was too slow.                             *)
ImplementsPresence == P!Spec
=============================================================================
