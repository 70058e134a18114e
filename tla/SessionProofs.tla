---------------------------- MODULE SessionProofs ----------------------------
(***************************************************************************)
(* The safety of Session for any connections, addresses, devices, limits   *)
(* and depths of the queues, and that its steps are steps of Presence.     *)
(***************************************************************************)
EXTENDS Session, TLAPS, SequenceTheorems, FunctionTheorems, FiniteSetTheorems

Cmds ==
    [op : {"connect", "disconnect"}, conn : Conns]
        \cup [op : {"frame"}, conn : Conns, frame : Frames]

SessionTypes ==
    /\ phase \in [Conns -> {"new", "rejected", "admitted", "refused", "added", "reading",
                            "forwarding", "left", "leaving", "done"}]
    /\ IP \in [Conns -> IPs]
    /\ total \in Int /\ perIP \in [IPs -> Int]

HubTypes ==
    /\ conns \subseteq Conns /\ role \in [Conns -> Roles]
    /\ out \in [Conns -> 0 .. SendDepth]
    /\ closed \in [Conns -> BOOLEAN] /\ shut \in [Conns -> BOOLEAN]

TimerTypes ==
    /\ due \in [Conns -> SUBSET {"armed", "replaced"}]
    /\ expiring \subseteq WS /\ lapsed \subseteq WS

QueueTypes == cmds \in Seq(Cmds) /\ Len(cmds) <= CmdDepth

RegistryTypes ==
    /\ known \subseteq Conns /\ forgotten \subseteq Conns
    /\ boundTo \in [Conns -> Players \cup {None}]
    /\ connByPl \in [Players -> SUBSET Conns]
    /\ moved \subseteq Conns \X Players

FrameTypes == handled \in [Conns -> Nat] /\ frames \in 0 .. MaxFrames

(* A timer that went off has lapsed until it is reset.                     *)
ArmedIsLapsed == \A c \in Conns : "armed" \in due[c] => c \in lapsed

(* Where a goroutine is once it has told the engine of its connection, and *)
(* once it has told it of the end.                                         *)
Told == {"reading", "forwarding", "left", "leaving", "done"}
ToldEnd == {"left", "leaving", "done"}

Queued == 1 .. Len(cmds)
Announced(c) == \E i \in Queued : cmds[i].op = "connect" /\ cmds[i].conn = c

(* Of one connection: what is queued begins with its connect and ends with *)
(* its disconnect, if they are there.                                      *)
InOrder ==
    \A i, j \in Queued :
        i < j /\ cmds[i].conn = cmds[j].conn =>
            cmds[i].op # "disconnect" /\ cmds[j].op # "connect"

(* What the engine has or will have had before it takes a command. *)
QueueInv ==
    \A i \in Queued :
        LET cmd == cmds[i]  c == cmds[i].conn
        IN  /\ phase[c] \in Told /\ c \notin forgotten
            /\ cmd.op = "connect" => c \notin known
            /\ cmd.op # "connect" => c \in known \/ Announced(c)
            /\ cmd.op = "disconnect" => phase[c] \in ToldEnd /\ shut[c]

(* The engine knows of a connection what its goroutine has told it. *)
KnownInv ==
    /\ known \cap forgotten = {}
    /\ \A c \in known : phase[c] \in Told
    /\ \A c \in forgotten : phase[c] \in ToldEnd
    /\ \A c \in Conns : phase[c] \in Told \ ToldEnd => c \in known \/ Announced(c)

(* A player a connection is bound to is one it has not moved from, and     *)
(* only connections the engine has are bound.                              *)
BoundInv ==
    \A c \in Conns : boundTo[c] # None => c \in known /\ <<c, boundTo[c]>> \notin moved

(* The frames of a connection that were handled, are queued and about to   *)
(* be queued are among those that were read.                               *)
Pending(c) == {i \in Queued : cmds[i].op = "frame" /\ cmds[i].conn = c}
InHand(c) == IF phase[c] = "forwarding" THEN 1 ELSE 0
FramesInv == \A c \in Conns : handled[c] + Cardinality(Pending(c)) + InHand(c) <= frames

(* The counts of the limiter. *)
SlotsOf(a) == {c \in HasSlot : IP[c] = a}
CountInv ==
    /\ IsFiniteSet(HasSlot)
    /\ total = Cardinality(HasSlot)
    /\ \A a \in IPs : perIP[a] = Cardinality(SlotsOf(a))
LimitInv ==
    /\ MaxTotal > 0 => total <= MaxTotal
    /\ MaxPerIP > 0 => \A a \in IPs : perIP[a] <= MaxPerIP

(* A connection that is closed is shut; one whose goroutine has told of     *)
(* its end has the disconnect queued until the engine has taken it.        *)
ClosedInv == \A c \in Conns : closed[c] => shut[c]
Present(c) == c \in known \/ Announced(c)
EndInv == \A c \in Conns : phase[c] \in ToldEnd /\ Present(c) => EndQueued(c)

(* What a step may do: a goroutine does not go back, and only OnConnect    *)
(* tells the engine of it, only OnDisconnect of its end; what is shut      *)
(* stays shut; what is announced is known next, or still announced, and    *)
(* only OnConnect announces; a disconnect is queued until the connection   *)
(* is gone; the registry moves at the queue's head.                        *)
ToldMoves ==
    \A d \in Conns : /\ phase[d] \in Told => phase'[d] \in Told
                     /\ phase[d] \in ToldEnd => phase'[d] \in ToldEnd
                     /\ phase'[d] \in Told \ ToldEnd => phase[d] \in Told \ ToldEnd \/ OnConnect(d)
                     /\ phase[d] \in Told \ ToldEnd => phase'[d] \in Told \ ToldEnd \/ OnDisconnect(d)
ShutMoves == \A d \in Conns : shut[d] => shut'[d]
EndsMove == \A d \in Conns : (closed[d] => closed'[d]) /\ (shut[d] => shut'[d])
AnnouncedMoves == \A d \in Conns : Announced(d) => Announced(d)' \/ d \in known'
EndMoves ==
    \A d \in Conns : /\ Announced(d)' => Announced(d) \/ OnConnect(d)
                     /\ EndQueued(d) => EndQueued(d)' \/ ~Present(d)'
KnownMoves ==
    \/ UNCHANGED <<known, forgotten>>
    \/ /\ cmds # <<>> /\ Head(cmds).op = "connect"
       /\ known' = known \cup {Head(cmds).conn} /\ forgotten' = forgotten
    \/ /\ cmds # <<>> /\ Head(cmds).op = "disconnect" /\ Head(cmds).conn \in known
       /\ known' = known \ {Head(cmds).conn} /\ forgotten' = forgotten \cup {Head(cmds).conn}

-----------------------------------------------------------------------------
(* The queue: what is at its head, and where the rest goes.                *)

LEMMA HeadIsCmd ==
    ASSUME QueueTypes, cmds # <<>>
    PROVE  /\ Len(cmds) \in Nat \ {0} /\ Head(cmds) = cmds[1]
           /\ Head(cmds).conn \in Conns
           /\ Head(cmds).op \in {"connect", "frame", "disconnect"}
           /\ Head(cmds).op = "frame" => Head(cmds).frame \in Frames
  <1>1. Len(cmds) \in Nat \ {0} /\ Head(cmds) = cmds[1] /\ cmds[1] \in Cmds
    BY HeadTailProperties, EmptySeq, ElementOfSeq DEF QueueTypes
  <1>2. QED
    BY <1>1 DEF Cmds

LEMMA Pops ==
    ASSUME QueueTypes, cmds # <<>>, cmds' = Tail(cmds)
    PROVE  /\ Len(cmds) \in Nat \ {0} /\ Len(cmds') = Len(cmds) - 1
           /\ Queued' = 1 .. Len(cmds) - 1
           /\ \A i \in Queued' : i + 1 \in Queued /\ cmds'[i] = cmds[i + 1]
  <1>1. Len(cmds) \in Nat \ {0} /\ Len(cmds') = Len(cmds) - 1
    BY HeadTailProperties, HeadIsCmd, LenProperties DEF QueueTypes
  <1>2. \A i \in 1 .. Len(Tail(cmds)) : Tail(cmds)[i] = cmds[i + 1]
    BY HeadTailProperties DEF QueueTypes
  <1>3. QED
    BY <1>1, <1>2 DEF Queued

LEMMA Pushes ==
    ASSUME QueueTypes, NEW cmd \in Cmds, cmds' = Append(cmds, cmd)
    PROVE  /\ Len(cmds) \in Nat /\ Len(cmds') = Len(cmds) + 1
           /\ Queued' = 1 .. Len(cmds) + 1
           /\ cmds'[Len(cmds) + 1] = cmd
           /\ \A i \in Queued : cmds'[i] = cmds[i]
  <1>1. Len(cmds) \in Nat /\ Len(cmds') = Len(cmds) + 1 /\ cmds'[Len(cmds) + 1] = cmd
    BY AppendProperties, LenProperties DEF QueueTypes
  <1>2. \A i \in 1 .. Len(cmds) : cmds'[i] = cmds[i]
    BY AppendProperties DEF QueueTypes
  <1>3. QED
    BY <1>1, <1>2 DEF Queued

LEMMA CmdTypes ==
    ASSUME QueueTypes, NEW i \in Queued
    PROVE  cmds[i] \in Cmds /\ cmds[i].conn \in Conns /\ cmds[i].op \in {"connect", "frame", "disconnect"}
  <1>1. cmds[i] \in Cmds
    BY ElementOfSeq DEF QueueTypes, Queued
  <1>2. QED
    BY <1>1 DEF Cmds

(* The frame at the head is a Hello, or another that binds nobody.         *)
LEMMA DispatchHead ==
    ASSUME QueueTypes, Dispatch
    PROVE  /\ cmds # <<>> /\ cmds' = Tail(cmds)
           /\ Head(cmds).op = "frame" /\ Head(cmds).conn \in Conns
           /\ \/ /\ Head(cmds).frame \in Hellos
                 /\ Hello(Head(cmds).conn, Head(cmds).frame)
              \/ UNCHANGED <<role, known, boundTo, connByPl, moved>>
  <1>1. cmds # <<>> /\ cmds' = Tail(cmds) /\ Head(cmds).op = "frame"
    BY DEF Dispatch, Takes
  <1>2. Head(cmds).conn \in Conns /\ Head(cmds).frame \in Frames
    BY <1>1, HeadIsCmd
  <1>3. CASE Head(cmds).frame.op = "hello" /\ Hello(Head(cmds).conn, Head(cmds).frame)
    <2>1. Head(cmds).frame \in Hellos
      BY <1>2, <1>3 DEF Frames
    <2>2. QED
      BY <1>1, <1>2, <1>3, <2>1
  <1>4. CASE UNCHANGED <<role, known, boundTo, connByPl, moved>>
    BY <1>1, <1>2, <1>4
  <1>5. QED
    BY <1>3, <1>4 DEF Dispatch

(* Whose player a Hello makes of a connection. *)
LEMMA PlayerOfType ==
    ASSUME NEW c \in Conns, NEW h \in Hellos
    PROVE  PlayerOf(c, h.dev) \in Players
  BY DEF PlayerOf, Players, Hellos

LEMMA HeadTaken ==
    ASSUME QueueTypes, NEW op, Takes(op)
    PROVE  /\ cmds # <<>> /\ cmds' = Tail(cmds) /\ Head(cmds).op = op
           /\ Head(cmds).conn \in Conns
  BY HeadIsCmd DEF Takes

-----------------------------------------------------------------------------
(* The types of the variables, group by group. *)

(* The sessions and the limiter's counts. *)
LEMMA SessionTypesStep == SessionTypes /\ [Next]_vars => SessionTypes'
  <1> SUFFICES ASSUME SessionTypes, [Next]_vars
               PROVE  SessionTypes'
    OBVIOUS
  <1> USE ConstantsOK
         DEF vars, session, hub, timer, registry, Goes, SessionTypes, Freed
  <1>1. ASSUME NEW c \in Conns, acquire(c)
        PROVE  SessionTypes'
    BY <1>1 DEF acquire
  <1>2. ASSUME NEW c \in Conns, Rejected(c)
        PROVE  SessionTypes'
    BY <1>2 DEF Rejected
  <1>3. ASSUME NEW c \in Conns, NoStream(c)
        PROVE  SessionTypes'
    BY <1>3 DEF NoStream
  <1>4. ASSUME NEW c \in Conns, add(c)
        PROVE  SessionTypes'
    BY <1>4 DEF add
  <1>5. ASSUME NEW c \in Conns, OnConnect(c)
        PROVE  SessionTypes'
    BY <1>5 DEF OnConnect
  <1>6. ASSUME NEW c \in Conns, ReadFrame(c)
        PROVE  SessionTypes'
    BY <1>6 DEF ReadFrame
  <1>7. ASSUME NEW c \in Conns, NEW f \in Frames, OnMessage(c, f)
        PROVE  SessionTypes'
    BY <1>7 DEF OnMessage
  <1>8. ASSUME NEW c \in Conns, OnDisconnect(c)
        PROVE  SessionTypes'
    BY <1>8 DEF OnDisconnect
  <1>9. ASSUME NEW c \in Conns, remove(c)
        PROVE  SessionTypes'
    BY <1>9 DEF remove
  <1>10. ASSUME NEW c \in Conns, release(c)
        PROVE  SessionTypes'
    BY <1>10 DEF release
  <1>11. CASE UNCHANGED <<phase, IP, total, perIP>>
    BY <1>11
  <1>12. QED
    BY <1>1, <1>2, <1>3, <1>4, <1>5, <1>6, <1>7, <1>8, <1>9, <1>10, <1>11
       DEF Next, Engine, Serve, Transport, AddConn, Dispatch, RemoveConn, Flush, Write, WriteFails,
           ClientCloses, TimerExpires, Expire, Fire

(* The hub. *)
LEMMA HubTypesStep == QueueTypes /\ HubTypes /\ [Next]_vars => HubTypes'
  <1> SUFFICES ASSUME QueueTypes, HubTypes, [Next]_vars
               PROVE  HubTypes'
    OBVIOUS
  <1> USE ConstantsOK
         DEF vars, session, hub, timer, registry, Deliver, stop, Hello, HubTypes
  <1>1. ASSUME Dispatch
        PROVE  HubTypes'
    <2>1. \/ Head(cmds).frame \in Hellos /\ Hello(Head(cmds).conn, Head(cmds).frame)
          \/ UNCHANGED role
      BY <1>1, DispatchHead
    <2>2. \A h \in Hellos : h.role \in Roles
      BY DEF Hellos
    <2>3. role' \in [Conns -> Roles]
      BY <2>1, <2>2 DEF Hello
    <2>4. QED
      BY <1>1, <2>3 DEF Dispatch
  <1>2. ASSUME RemoveConn
        PROVE  HubTypes'
    BY <1>2 DEF RemoveConn
  <1>3. ASSUME Flush
        PROVE  HubTypes'
    BY <1>3 DEF Flush
  <1>4. ASSUME NEW c \in Conns, add(c)
        PROVE  HubTypes'
    BY <1>4 DEF add
  <1>5. ASSUME NEW c \in Conns, remove(c)
        PROVE  HubTypes'
    <2>1. out' \in [Conns -> 0 .. SendDepth]
      BY <1>5 DEF remove
    <2>2. closed' \in [Conns -> BOOLEAN] /\ shut' \in [Conns -> BOOLEAN]
      BY <1>5 DEF remove
    <2>3. role' \in [Conns -> Roles] /\ conns' \subseteq Conns
      BY <1>5 DEF remove, Roles
    <2>4. QED
      BY <2>1, <2>2, <2>3
  <1>6. ASSUME NEW c \in Conns, Write(c)
        PROVE  HubTypes'
    BY <1>6 DEF Write
  <1>7. ASSUME NEW c \in Conns, WriteFails(c)
        PROVE  HubTypes'
    BY <1>7 DEF WriteFails
  <1>8. ASSUME NEW c \in Conns, ClientCloses(c)
        PROVE  HubTypes'
    BY <1>8 DEF ClientCloses
  <1>9. ASSUME NEW c \in Conns, Expire(c)
        PROVE  HubTypes'
    BY <1>9 DEF Expire
  <1>10. CASE UNCHANGED <<conns, role, out, closed, shut>>
    BY <1>10
  <1>11. QED
    BY <1>1, <1>2, <1>3, <1>4, <1>5, <1>6, <1>7, <1>8, <1>9, <1>10
       DEF Next, Engine, Serve, Transport, AddConn, acquire, Rejected, NoStream, OnConnect, ReadFrame,
           OnMessage, OnDisconnect, release, TimerExpires, Fire

(* The idle timers. *)
LEMMA TimerTypesStep == TimerTypes /\ [Next]_vars => TimerTypes'
  <1> SUFFICES ASSUME TimerTypes, [Next]_vars
               PROVE  TimerTypes'
    OBVIOUS
  <1> USE ConstantsOK
         DEF vars, session, hub, timer, registry, Reset, TimerTypes, Armed, Current
  <1>1. ASSUME NEW c \in Conns, NEW f \in Frames, OnMessage(c, f)
        PROVE  TimerTypes'
    BY <1>1 DEF OnMessage
  <1>2. ASSUME NEW c \in Conns, release(c)
        PROVE  TimerTypes'
    BY <1>2 DEF release
  <1>3. ASSUME NEW c \in Conns, Write(c)
        PROVE  TimerTypes'
    BY <1>3 DEF Write
  <1>4. ASSUME NEW c \in Conns, TimerExpires(c)
        PROVE  TimerTypes'
    BY <1>4 DEF TimerExpires
  <1>5. ASSUME NEW c \in Conns, Expire(c)
        PROVE  TimerTypes'
    BY <1>5 DEF Expire
  <1>6. ASSUME NEW c \in Conns, NEW k \in {"armed", "replaced"}, Fire(c, k)
        PROVE  TimerTypes'
    BY <1>6 DEF Fire
  <1>7. CASE UNCHANGED <<due, expiring, lapsed>>
    BY <1>7
  <1>8. QED
    BY <1>1, <1>2, <1>3, <1>4, <1>5, <1>6, <1>7
       DEF Next, Engine, Serve, Transport, AddConn, Dispatch, RemoveConn, Flush, acquire, Rejected,
           NoStream, add, OnConnect, ReadFrame, OnDisconnect, remove, WriteFails, ClientCloses

(* The registry. *)
LEMMA RegistryTypesStep == QueueTypes /\ RegistryTypes /\ [Next]_vars => RegistryTypes'
  <1> SUFFICES ASSUME QueueTypes, RegistryTypes, [Next]_vars
               PROVE  RegistryTypes'
    OBVIOUS
  <1> USE ConstantsOK
         DEF vars, session, hub, timer, registry, Hello, resolvePlayer, RegistryTypes, Unbound
  <1>1. ASSUME AddConn
        PROVE  RegistryTypes'
    BY <1>1, HeadTaken DEF AddConn
  <1>2. ASSUME Dispatch
        PROVE  RegistryTypes'
    <2>1. CASE UNCHANGED <<role, known, boundTo, connByPl, moved>>
      BY <1>2, <2>1 DEF Dispatch
    <2>2. CASE /\ Head(cmds).frame \in Hellos
               /\ Hello(Head(cmds).conn, Head(cmds).frame)
      <3>1. Head(cmds).conn \in Conns
        BY <1>2, DispatchHead
      <3>2. PICK p \in Players : resolvePlayer(Head(cmds).conn, p)
        BY <2>2, <3>1, PlayerOfType DEF Hello
      <3>3. forgotten' = forgotten
        BY <1>2 DEF Dispatch
      <3>4. QED
        BY <3>1, <3>2, <3>3
    <2>3. QED
      BY <1>2, <2>1, <2>2, DispatchHead
  <1>3. ASSUME RemoveConn
        PROVE  RegistryTypes'
    BY <1>3, HeadTaken DEF RemoveConn
  <1>4. CASE UNCHANGED <<known, forgotten, boundTo, connByPl, moved>>
    BY <1>4
  <1>5. QED
    BY <1>1, <1>2, <1>3, <1>4
       DEF Next, Engine, Serve, Transport, Flush, acquire, Rejected, NoStream, add, OnConnect, ReadFrame,
           OnMessage, OnDisconnect, remove, release, Write, WriteFails, ClientCloses, TimerExpires,
           Expire, Fire

(* The queue. *)
LEMMA QueueTypesStep == QueueTypes /\ [Next]_vars => QueueTypes'
  <1> SUFFICES ASSUME QueueTypes, [Next]_vars
               PROVE  QueueTypes'
    OBVIOUS
  <1> USE ConstantsOK
         DEF vars, session, hub, timer, registry, submit, Takes, QueueTypes, Cmds
  <1>1. ASSUME AddConn
        PROVE  QueueTypes'
    BY <1>1 DEF AddConn
  <1>2. ASSUME Dispatch
        PROVE  QueueTypes'
    BY <1>2 DEF Dispatch
  <1>3. ASSUME RemoveConn
        PROVE  QueueTypes'
    BY <1>3 DEF RemoveConn
  <1>4. ASSUME NEW c \in Conns, OnConnect(c)
        PROVE  QueueTypes'
    BY <1>4 DEF OnConnect
  <1>5. ASSUME NEW c \in Conns, NEW f \in Frames, OnMessage(c, f)
        PROVE  QueueTypes'
    BY <1>5 DEF OnMessage
  <1>6. ASSUME NEW c \in Conns, OnDisconnect(c)
        PROVE  QueueTypes'
    BY <1>6 DEF OnDisconnect
  <1>7. CASE UNCHANGED <<cmds>>
    BY <1>7
  <1>8. QED
    BY <1>1, <1>2, <1>3, <1>4, <1>5, <1>6, <1>7
       DEF Next, Engine, Serve, Transport, Flush, acquire, Rejected, NoStream, add, ReadFrame, remove,
           release, Write, WriteFails, ClientCloses, TimerExpires, Expire, Fire

(* What has gone off has lapsed. *)
LEMMA ArmedStep == TimerTypes /\ ArmedIsLapsed /\ [Next]_vars => ArmedIsLapsed'
  <1> SUFFICES ASSUME TimerTypes, ArmedIsLapsed, [Next]_vars
               PROVE  ArmedIsLapsed'
    OBVIOUS
  <1> USE ConstantsOK
         DEF vars, session, hub, timer, registry, Reset, TimerTypes, ArmedIsLapsed
  <1>1. ASSUME NEW c \in Conns, NEW f \in Frames, OnMessage(c, f)
        PROVE  ArmedIsLapsed'
    BY <1>1 DEF OnMessage
  <1>2. ASSUME NEW c \in Conns, release(c)
        PROVE  ArmedIsLapsed'
    BY <1>2 DEF release
  <1>3. ASSUME NEW c \in Conns, Write(c)
        PROVE  ArmedIsLapsed'
    BY <1>3 DEF Write
  <1>4. ASSUME NEW c \in Conns, TimerExpires(c)
        PROVE  ArmedIsLapsed'
    BY <1>4 DEF TimerExpires
  <1>5. ASSUME NEW c \in Conns, NEW k \in {"armed", "replaced"}, Fire(c, k)
        PROVE  ArmedIsLapsed'
    BY <1>5 DEF Fire
  <1>6. CASE UNCHANGED <<due, lapsed>>
    BY <1>6
  <1>7. QED
    BY <1>1, <1>2, <1>3, <1>4, <1>5, <1>6
       DEF Next, Engine, Serve, Transport, AddConn, Dispatch, RemoveConn, Flush, acquire, Rejected,
           NoStream, add, OnConnect, ReadFrame, OnDisconnect, remove, WriteFails, ClientCloses, Expire

-----------------------------------------------------------------------------
(* What the engine knows: the order of what it is told. *)

(* What a connection says keeps its order: connect, frames, disconnect. *)
LEMMA OrderStep == QueueTypes /\ QueueInv /\ InOrder /\ [Next]_vars => InOrder'
  <1> SUFFICES ASSUME QueueTypes, QueueInv, InOrder, [Next]_vars
               PROVE  InOrder'
    OBVIOUS
  <1> USE ConstantsOK
         DEF vars, session, hub, timer, registry, submit, Takes, InOrder
  <1>1. ASSUME AddConn
        PROVE  InOrder'
    <2>1. cmds # <<>> /\ cmds' = Tail(cmds)
      BY <1>1 DEF AddConn
    <2>2. /\ Len(cmds) \in Nat \ {0} /\ Queued' = 1 .. Len(cmds) - 1
          /\ \A i \in Queued' : i + 1 \in Queued /\ cmds'[i] = cmds[i + 1]
      BY <2>1, Pops
    <2>3. QED
      BY <2>2 DEF Queued
  <1>2. ASSUME Dispatch
        PROVE  InOrder'
    <2>1. cmds # <<>> /\ cmds' = Tail(cmds)
      BY <1>2 DEF Dispatch
    <2>2. /\ Len(cmds) \in Nat \ {0} /\ Queued' = 1 .. Len(cmds) - 1
          /\ \A i \in Queued' : i + 1 \in Queued /\ cmds'[i] = cmds[i + 1]
      BY <2>1, Pops
    <2>3. QED
      BY <2>2 DEF Queued
  <1>3. ASSUME RemoveConn
        PROVE  InOrder'
    <2>1. cmds # <<>> /\ cmds' = Tail(cmds)
      BY <1>3 DEF RemoveConn
    <2>2. /\ Len(cmds) \in Nat \ {0} /\ Queued' = 1 .. Len(cmds) - 1
          /\ \A i \in Queued' : i + 1 \in Queued /\ cmds'[i] = cmds[i + 1]
      BY <2>1, Pops
    <2>3. QED
      BY <2>2 DEF Queued
  <1>4. ASSUME NEW c \in Conns, OnConnect(c)
        PROVE  InOrder'
    <2> DEFINE cmd == [op |-> "connect", conn |-> c]
    <2>1. cmd \in Cmds /\ cmds' = Append(cmds, cmd)
      BY <1>4 DEF OnConnect, Cmds
    <2>2. /\ Len(cmds) \in Nat /\ Queued' = 1 .. Len(cmds) + 1
          /\ cmds'[Len(cmds) + 1] = cmd
          /\ \A i \in Queued : cmds'[i] = cmds[i]
      BY <2>1, Pushes
    <2>3. phase[c] = "added" /\ cmd.conn = c /\ cmd.op = "connect"
      BY <1>4 DEF OnConnect, Goes
    <2> HIDE DEF cmd
    <2>4. \A i \in Queued : cmds[i].conn = c => FALSE
      BY <2>3 DEF QueueInv, Told, ToldEnd
    <2> SUFFICES ASSUME NEW i \in Queued', NEW j \in Queued', i < j, cmds'[i].conn = cmds'[j].conn
                 PROVE  cmds'[i].op # "disconnect" /\ cmds'[j].op # "connect"
      OBVIOUS
    <2>5. i \in Queued /\ cmds'[i] = cmds[i]
      BY <2>2 DEF Queued
    <2>6. CASE j \in Queued
      BY <2>2, <2>5, <2>6
    <2>7. CASE j \notin Queued
      BY <2>2, <2>3, <2>4, <2>5, <2>7 DEF Queued
    <2>8. QED
      BY <2>6, <2>7
  <1>5. ASSUME NEW c \in Conns, NEW f \in Frames, OnMessage(c, f)
        PROVE  InOrder'
    <2> DEFINE cmd == [op |-> "frame", conn |-> c, frame |-> f]
    <2>1. cmd \in Cmds /\ cmds' = Append(cmds, cmd)
      BY <1>5 DEF OnMessage, Cmds
    <2>2. /\ Len(cmds) \in Nat /\ Queued' = 1 .. Len(cmds) + 1
          /\ cmds'[Len(cmds) + 1] = cmd
          /\ \A i \in Queued : cmds'[i] = cmds[i]
      BY <2>1, Pushes
    <2>3. phase[c] = "forwarding" /\ cmd.conn = c /\ cmd.op = "frame"
      BY <1>5 DEF OnMessage, Goes
    <2> HIDE DEF cmd
    <2>4. \A i \in Queued : cmds[i].conn = c => cmds[i].op # "disconnect"
      BY <2>3 DEF QueueInv, Told, ToldEnd
    <2> SUFFICES ASSUME NEW i \in Queued', NEW j \in Queued', i < j, cmds'[i].conn = cmds'[j].conn
                 PROVE  cmds'[i].op # "disconnect" /\ cmds'[j].op # "connect"
      OBVIOUS
    <2>5. i \in Queued /\ cmds'[i] = cmds[i]
      BY <2>2 DEF Queued
    <2>6. CASE j \in Queued
      BY <2>2, <2>5, <2>6
    <2>7. CASE j \notin Queued
      BY <2>2, <2>3, <2>4, <2>5, <2>7 DEF Queued
    <2>8. QED
      BY <2>6, <2>7
  <1>6. ASSUME NEW c \in Conns, OnDisconnect(c)
        PROVE  InOrder'
    <2> DEFINE cmd == [op |-> "disconnect", conn |-> c]
    <2>1. cmd \in Cmds /\ cmds' = Append(cmds, cmd)
      BY <1>6 DEF OnDisconnect, Cmds
    <2>2. /\ Len(cmds) \in Nat /\ Queued' = 1 .. Len(cmds) + 1
          /\ cmds'[Len(cmds) + 1] = cmd
          /\ \A i \in Queued : cmds'[i] = cmds[i]
      BY <2>1, Pushes
    <2>3. phase[c] = "reading" /\ cmd.conn = c /\ cmd.op = "disconnect"
      BY <1>6 DEF OnDisconnect, Goes
    <2> HIDE DEF cmd
    <2>4. \A i \in Queued : cmds[i].conn = c => cmds[i].op # "disconnect"
      BY <2>3 DEF QueueInv, Told, ToldEnd
    <2> SUFFICES ASSUME NEW i \in Queued', NEW j \in Queued', i < j, cmds'[i].conn = cmds'[j].conn
                 PROVE  cmds'[i].op # "disconnect" /\ cmds'[j].op # "connect"
      OBVIOUS
    <2>5. i \in Queued /\ cmds'[i] = cmds[i]
      BY <2>2 DEF Queued
    <2>6. CASE j \in Queued
      BY <2>2, <2>5, <2>6
    <2>7. CASE j \notin Queued
      BY <2>2, <2>3, <2>4, <2>5, <2>7 DEF Queued
    <2>8. QED
      BY <2>6, <2>7
  <1>7. CASE UNCHANGED <<cmds>>
    BY <1>7 DEF Queued
  <1>8. QED
    BY <1>1, <1>2, <1>3, <1>4, <1>5, <1>6, <1>7
       DEF Next, Engine, Serve, Transport, Flush, acquire, Rejected, NoStream, add, ReadFrame, remove,
           release, Write, WriteFails, ClientCloses, TimerExpires, Expire, Fire

(* A goroutine does not go back, and only OnConnect makes it one that has told the engine. *)
LEMMA ToldStays == SessionTypes /\ [Next]_vars => ToldMoves
  <1> SUFFICES ASSUME SessionTypes, [Next]_vars
               PROVE  ToldMoves
    OBVIOUS
  <1> USE ConstantsOK
         DEF vars, session, hub, timer, registry, Goes, ToldMoves, SessionTypes, Told, ToldEnd
  <1>1. ASSUME NEW c \in Conns, acquire(c)
        PROVE  ToldMoves
    BY <1>1 DEF acquire
  <1>2. ASSUME NEW c \in Conns, Rejected(c)
        PROVE  ToldMoves
    BY <1>2 DEF Rejected
  <1>3. ASSUME NEW c \in Conns, NoStream(c)
        PROVE  ToldMoves
    BY <1>3 DEF NoStream
  <1>4. ASSUME NEW c \in Conns, add(c)
        PROVE  ToldMoves
    BY <1>4 DEF add
  <1>5. ASSUME NEW c \in Conns, OnConnect(c)
        PROVE  ToldMoves
    BY <1>5 DEF OnConnect
  <1>6. ASSUME NEW c \in Conns, ReadFrame(c)
        PROVE  ToldMoves
    BY <1>6 DEF ReadFrame
  <1>7. ASSUME NEW c \in Conns, NEW f \in Frames, OnMessage(c, f)
        PROVE  ToldMoves
    BY <1>7 DEF OnMessage
  <1>8. ASSUME NEW c \in Conns, OnDisconnect(c)
        PROVE  ToldMoves
    BY <1>8 DEF OnDisconnect
  <1>9. ASSUME NEW c \in Conns, remove(c)
        PROVE  ToldMoves
    BY <1>9 DEF remove
  <1>10. ASSUME NEW c \in Conns, release(c)
        PROVE  ToldMoves
    BY <1>10 DEF release
  <1>11. CASE UNCHANGED <<phase>>
    BY <1>11
  <1>12. QED
    BY <1>1, <1>2, <1>3, <1>4, <1>5, <1>6, <1>7, <1>8, <1>9, <1>10, <1>11
       DEF Next, Engine, Serve, Transport, AddConn, Dispatch, RemoveConn, Flush, Write, WriteFails,
           ClientCloses, TimerExpires, Expire, Fire

(* A stream that is shut stays so. *)
LEMMA ShutStays == HubTypes /\ [Next]_vars => ShutMoves
  <1> SUFFICES ASSUME HubTypes, [Next]_vars
               PROVE  ShutMoves
    OBVIOUS
  <1> USE ConstantsOK
         DEF vars, session, hub, timer, registry, Deliver, stop, ShutMoves, HubTypes
  <1>1. ASSUME Dispatch
        PROVE  ShutMoves
    BY <1>1 DEF Dispatch
  <1>2. ASSUME RemoveConn
        PROVE  ShutMoves
    BY <1>2 DEF RemoveConn
  <1>3. ASSUME Flush
        PROVE  ShutMoves
    BY <1>3 DEF Flush
  <1>4. ASSUME NEW c \in Conns, remove(c)
        PROVE  ShutMoves
    BY <1>4 DEF remove
  <1>5. ASSUME NEW c \in Conns, WriteFails(c)
        PROVE  ShutMoves
    BY <1>5 DEF WriteFails
  <1>6. ASSUME NEW c \in Conns, ClientCloses(c)
        PROVE  ShutMoves
    BY <1>6 DEF ClientCloses
  <1>7. ASSUME NEW c \in Conns, Expire(c)
        PROVE  ShutMoves
    BY <1>7 DEF Expire
  <1>8. CASE UNCHANGED <<shut>>
    BY <1>8
  <1>9. QED
    BY <1>1, <1>2, <1>3, <1>4, <1>5, <1>6, <1>7, <1>8
       DEF Next, Engine, Serve, Transport, AddConn, acquire, Rejected, NoStream, add, OnConnect,
           ReadFrame, OnMessage, OnDisconnect, release, Write, TimerExpires, Fire

(* What is announced is announced until it is known. *)
LEMMA AnnouncedStays == QueueTypes /\ [Next]_vars => AnnouncedMoves
  <1> SUFFICES ASSUME QueueTypes, [Next]_vars
               PROVE  AnnouncedMoves
    OBVIOUS
  <1> USE ConstantsOK
         DEF vars, session, hub, timer, registry, submit, Takes, AnnouncedMoves
  <1>1. ASSUME AddConn
        PROVE  AnnouncedMoves
    <2>1. cmds # <<>> /\ cmds' = Tail(cmds)
      BY <1>1 DEF AddConn
    <2>2. /\ Len(cmds) \in Nat \ {0} /\ Queued' = 1 .. Len(cmds) - 1
          /\ \A i \in Queued' : i + 1 \in Queued /\ cmds'[i] = cmds[i + 1]
      BY <2>1, Pops
    <2>3. Head(cmds) = cmds[1] /\ Head(cmds).op = "connect"
      BY <1>1, <2>1, HeadIsCmd DEF AddConn
    <2> SUFFICES ASSUME NEW d \in Conns, Announced(d)
                 PROVE  Announced(d)' \/ d \in known'
      OBVIOUS
    <2>4. PICK i \in Queued : cmds[i].op = "connect" /\ cmds[i].conn = d
      BY DEF Announced
    <2>5. CASE i = 1
      BY <1>1, <2>3, <2>4, <2>5 DEF AddConn
    <2>6. CASE i # 1
      <3>1. i - 1 \in Queued' /\ cmds'[i - 1] = cmds[i]
        BY <2>2, <2>6 DEF Queued
      <3>2. QED
        BY <2>4, <3>1 DEF Announced
    <2>7. QED
      BY <2>5, <2>6
  <1>2. ASSUME Dispatch
        PROVE  AnnouncedMoves
    <2>1. cmds # <<>> /\ cmds' = Tail(cmds)
      BY <1>2 DEF Dispatch
    <2>2. /\ Len(cmds) \in Nat \ {0} /\ Queued' = 1 .. Len(cmds) - 1
          /\ \A i \in Queued' : i + 1 \in Queued /\ cmds'[i] = cmds[i + 1]
      BY <2>1, Pops
    <2>3. Head(cmds) = cmds[1] /\ Head(cmds).op = "frame"
      BY <1>2, <2>1, HeadIsCmd DEF Dispatch
    <2> SUFFICES ASSUME NEW d \in Conns, Announced(d)
                 PROVE  Announced(d)' \/ d \in known'
      OBVIOUS
    <2>4. PICK i \in Queued : cmds[i].op = "connect" /\ cmds[i].conn = d
      BY DEF Announced
    <2>5. CASE i = 1
      BY <2>3, <2>4, <2>5 DEF Dispatch
    <2>6. CASE i # 1
      <3>1. i - 1 \in Queued' /\ cmds'[i - 1] = cmds[i]
        BY <2>2, <2>6 DEF Queued
      <3>2. QED
        BY <2>4, <3>1 DEF Announced
    <2>7. QED
      BY <2>5, <2>6
  <1>3. ASSUME RemoveConn
        PROVE  AnnouncedMoves
    <2>1. cmds # <<>> /\ cmds' = Tail(cmds)
      BY <1>3 DEF RemoveConn
    <2>2. /\ Len(cmds) \in Nat \ {0} /\ Queued' = 1 .. Len(cmds) - 1
          /\ \A i \in Queued' : i + 1 \in Queued /\ cmds'[i] = cmds[i + 1]
      BY <2>1, Pops
    <2>3. Head(cmds) = cmds[1] /\ Head(cmds).op = "disconnect"
      BY <1>3, <2>1, HeadIsCmd DEF RemoveConn
    <2> SUFFICES ASSUME NEW d \in Conns, Announced(d)
                 PROVE  Announced(d)' \/ d \in known'
      OBVIOUS
    <2>4. PICK i \in Queued : cmds[i].op = "connect" /\ cmds[i].conn = d
      BY DEF Announced
    <2>5. CASE i = 1
      BY <2>3, <2>4, <2>5 DEF RemoveConn
    <2>6. CASE i # 1
      <3>1. i - 1 \in Queued' /\ cmds'[i - 1] = cmds[i]
        BY <2>2, <2>6 DEF Queued
      <3>2. QED
        BY <2>4, <3>1 DEF Announced
    <2>7. QED
      BY <2>5, <2>6
  <1>4. ASSUME NEW c \in Conns, OnConnect(c)
        PROVE  AnnouncedMoves
    <2> DEFINE cmd == [op |-> "connect", conn |-> c]
    <2>1. cmd \in Cmds /\ cmds' = Append(cmds, cmd)
      BY <1>4 DEF OnConnect, Cmds
    <2>2. /\ Len(cmds) \in Nat /\ Queued' = 1 .. Len(cmds) + 1
          /\ cmds'[Len(cmds) + 1] = cmd
          /\ \A i \in Queued : cmds'[i] = cmds[i]
      BY <2>1, Pushes
    <2>3. \A d : Announced(d) => Announced(d)'
      BY <2>2 DEF Announced, Queued
    <2>4. QED
      BY <2>3
  <1>5. ASSUME NEW c \in Conns, NEW f \in Frames, OnMessage(c, f)
        PROVE  AnnouncedMoves
    <2> DEFINE cmd == [op |-> "frame", conn |-> c, frame |-> f]
    <2>1. cmd \in Cmds /\ cmds' = Append(cmds, cmd)
      BY <1>5 DEF OnMessage, Cmds
    <2>2. /\ Len(cmds) \in Nat /\ Queued' = 1 .. Len(cmds) + 1
          /\ cmds'[Len(cmds) + 1] = cmd
          /\ \A i \in Queued : cmds'[i] = cmds[i]
      BY <2>1, Pushes
    <2>3. \A d : Announced(d) => Announced(d)'
      BY <2>2 DEF Announced, Queued
    <2>4. QED
      BY <2>3
  <1>6. ASSUME NEW c \in Conns, OnDisconnect(c)
        PROVE  AnnouncedMoves
    <2> DEFINE cmd == [op |-> "disconnect", conn |-> c]
    <2>1. cmd \in Cmds /\ cmds' = Append(cmds, cmd)
      BY <1>6 DEF OnDisconnect, Cmds
    <2>2. /\ Len(cmds) \in Nat /\ Queued' = 1 .. Len(cmds) + 1
          /\ cmds'[Len(cmds) + 1] = cmd
          /\ \A i \in Queued : cmds'[i] = cmds[i]
      BY <2>1, Pushes
    <2>3. \A d : Announced(d) => Announced(d)'
      BY <2>2 DEF Announced, Queued
    <2>4. QED
      BY <2>3
  <1>7. CASE UNCHANGED <<cmds>>
    BY <1>7 DEF Announced, Queued
  <1>8. QED
    BY <1>1, <1>2, <1>3, <1>4, <1>5, <1>6, <1>7
       DEF Next, Engine, Serve, Transport, Flush, acquire, Rejected, NoStream, add, ReadFrame, remove,
           release, Write, WriteFails, ClientCloses, TimerExpires, Expire, Fire

(* Nobody is heard or lost whom the engine does not have. *)
LEMMA HeardIsKnown ==
    ASSUME QueueTypes, QueueInv, InOrder, cmds # <<>>
    PROVE  /\ 1 \in Queued /\ Head(cmds) = cmds[1] /\ Head(cmds).conn \in Conns
           /\ Head(cmds).op # "connect" => Head(cmds).conn \in known
           /\ Head(cmds).conn \notin forgotten
  <1>1. 1 \in Queued /\ Head(cmds) = cmds[1] /\ Head(cmds).conn \in Conns
    BY HeadIsCmd DEF Queued
  <1>2. ASSUME Head(cmds).op # "connect"
        PROVE  ~Announced(Head(cmds).conn)
    <2> SUFFICES ASSUME NEW i \in Queued, cmds[i].op = "connect", cmds[i].conn = Head(cmds).conn
                 PROVE  FALSE
      BY DEF Announced
    <2>1. i # 1 /\ 1 < i
      BY <1>1, <1>2, HeadIsCmd DEF Queued
    <2>2. QED
      BY <1>1, <2>1 DEF InOrder
  <1>3. QED
    BY <1>1, <1>2 DEF QueueInv

(* The registry moves at the head of the queue only. *)
LEMMA RegistryMoves == QueueTypes /\ QueueInv /\ InOrder /\ [Next]_vars => KnownMoves
  <1> SUFFICES ASSUME QueueTypes, QueueInv, InOrder, [Next]_vars
               PROVE  KnownMoves
    OBVIOUS
  <1> USE ConstantsOK
         DEF vars, KnownMoves, session, hub, timer, registry
  <1>1. ASSUME AddConn
        PROVE  KnownMoves
    BY <1>1, HeadTaken DEF AddConn
  <1>2. ASSUME Dispatch
        PROVE  KnownMoves
    <2>1. Head(cmds).conn \in known
      BY <1>2, HeardIsKnown, DispatchHead
    <2>2. CASE Hello(Head(cmds).conn, Head(cmds).frame)
      BY <1>2, <2>1, <2>2 DEF Hello, resolvePlayer, Dispatch
    <2>3. CASE UNCHANGED <<role, known, boundTo, connByPl, moved>>
      BY <1>2, <2>3 DEF Dispatch
    <2>4. QED
      BY <1>2, <2>2, <2>3, DispatchHead
  <1>3. ASSUME RemoveConn
        PROVE  KnownMoves
    BY <1>3, HeadTaken, HeardIsKnown DEF RemoveConn
  <1>4. CASE UNCHANGED <<known, forgotten>>
    BY <1>4
  <1>5. QED
    BY <1>1, <1>2, <1>3, <1>4
       DEF Next, Engine, Serve, Transport, Flush, acquire, Rejected, NoStream, add, OnConnect, ReadFrame,
           OnMessage, OnDisconnect, remove, release, Write, WriteFails, ClientCloses, TimerExpires,
           Expire, Fire

LEMMA KnownStep ==
    SessionTypes /\ RegistryTypes /\ QueueTypes /\ QueueInv /\ InOrder /\ KnownInv /\ [Next]_vars
        => KnownInv'
  <1> SUFFICES ASSUME SessionTypes, RegistryTypes, QueueTypes, QueueInv, InOrder, KnownInv, [Next]_vars
               PROVE  KnownInv'
    OBVIOUS
  <1> USE DEF ToldMoves, AnnouncedMoves
  <1>1. ToldMoves
    BY ToldStays
  <1>2. AnnouncedMoves
    BY AnnouncedStays
  <1>3. cmds # <<>> => 1 \in Queued /\ Head(cmds) = cmds[1] /\ Head(cmds).conn \in Conns
                       /\ Head(cmds).conn \notin forgotten
    BY HeardIsKnown
  <1>4. cmds # <<>> => phase[Head(cmds).conn] \in Told
    BY <1>3 DEF QueueInv
  <1>5. cmds # <<>> /\ Head(cmds).op = "disconnect" => phase[Head(cmds).conn] \in ToldEnd
    BY <1>3 DEF QueueInv
  <1>6. known \subseteq Conns /\ forgotten \subseteq Conns
    BY DEF RegistryTypes
  <1>7. ASSUME NEW d \in Conns, OnConnect(d)
        PROVE  Announced(d)'
    <2> DEFINE cmd == [op |-> "connect", conn |-> d]
    <2>1. cmd \in Cmds /\ cmds' = Append(cmds, cmd)
      BY <1>7 DEF OnConnect, submit, Cmds
    <2>2. Len(cmds) + 1 \in Queued' /\ cmds'[Len(cmds) + 1] = cmd
      BY <2>1, Pushes
    <2>3. QED
      BY <2>2 DEF Announced
  <1>8. CASE UNCHANGED <<known, forgotten>>
    BY <1>1, <1>2, <1>6, <1>7, <1>8 DEF KnownInv
  <1>9. CASE /\ cmds # <<>> /\ Head(cmds).op = "connect"
             /\ known' = known \cup {Head(cmds).conn} /\ forgotten' = forgotten
    BY <1>1, <1>2, <1>3, <1>4, <1>6, <1>7, <1>9 DEF KnownInv
  <1>10. CASE /\ cmds # <<>> /\ Head(cmds).op = "disconnect" /\ Head(cmds).conn \in known
              /\ known' = known \ {Head(cmds).conn} /\ forgotten' = forgotten \cup {Head(cmds).conn}
    <2> DEFINE h == Head(cmds).conn
    <2>1. phase[h] \in ToldEnd /\ phase'[h] \in ToldEnd /\ phase'[h] \in Told /\ h \in Conns
      BY <1>1, <1>3, <1>5, <1>10 DEF Told, ToldEnd
    <2>2. \A d \in Conns : phase'[d] \in Told \ ToldEnd => d # h
      BY <2>1
    <2> HIDE DEF h
    <2>3. known' = known \ {h} /\ forgotten' = forgotten \cup {h}
      BY <1>10 DEF h
    <2>4. \A d \in Conns : phase'[d] \in Told \ ToldEnd => d \in known' \/ Announced(d)'
      BY <1>1, <1>2, <1>7, <2>2, <2>3 DEF KnownInv
    <2>5. QED
      BY <1>1, <1>6, <2>1, <2>3, <2>4 DEF KnownInv
  <1>11. QED
    BY <1>8, <1>9, <1>10, RegistryMoves DEF KnownMoves

(* What the invariant of the queue says of a command, and that no step     *)
(* undoes it, but the taking of a command of the same connection.          *)
QueuedOK(cmd) ==
    LET c == cmd.conn
    IN  /\ phase[c] \in Told /\ c \notin forgotten
        /\ cmd.op = "connect" => c \notin known
        /\ cmd.op # "connect" => c \in known \/ Announced(c)
        /\ cmd.op = "disconnect" => phase[c] \in ToldEnd /\ shut[c]

LEMMA QueuedStays ==
    ASSUME ToldMoves, ShutMoves, AnnouncedMoves, KnownMoves,
           NEW cmd \in Cmds, QueuedOK(cmd),
           ~UNCHANGED <<known, forgotten>> => cmd.conn # Head(cmds).conn
    PROVE  QueuedOK(cmd)'
  <1>1. cmd.conn \in Conns
    BY DEF Cmds
  <1> DEFINE c == cmd.conn
  <1>2. phase[c] \in Told => phase'[c] \in Told
    BY <1>1 DEF ToldMoves
  <1>3. phase[c] \in ToldEnd => phase'[c] \in ToldEnd
    BY <1>1 DEF ToldMoves
  <1>4. shut[c] => shut'[c]
    BY <1>1 DEF ShutMoves
  <1>5. Announced(c) => Announced(c)' \/ c \in known'
    BY <1>1 DEF AnnouncedMoves
  <1>6. c \in known' <=> c \in known
    BY <1>1 DEF KnownMoves
  <1>7. c \in forgotten' <=> c \in forgotten
    BY <1>1 DEF KnownMoves
  <1>8. QED
    BY <1>2, <1>3, <1>4, <1>5, <1>6, <1>7 DEF QueuedOK

LEMMA QueueStep ==
    SessionTypes /\ HubTypes /\ QueueTypes /\ QueueInv /\ InOrder /\ KnownInv /\ [Next]_vars
        => QueueInv'
  <1> SUFFICES ASSUME SessionTypes, HubTypes, QueueTypes, QueueInv, InOrder, KnownInv, [Next]_vars
               PROVE  QueueInv'
    OBVIOUS
  <1>1. ToldMoves /\ ShutMoves /\ AnnouncedMoves /\ KnownMoves
    BY ToldStays, ShutStays, AnnouncedStays, RegistryMoves
  <1>2. \A i \in Queued : QueuedOK(cmds[i])
    BY DEF QueueInv, QueuedOK
  <1>3. \A i \in Queued : cmds[i] \in Cmds
    BY CmdTypes
  <1>4. (\A i \in Queued' : QueuedOK(cmds[i])') => QueueInv'
    BY DEF QueueInv, QueuedOK
  (* The rest of the queue moves up. *)
  <1>5. ASSUME cmds # <<>>, cmds' = Tail(cmds)
        PROVE  QueueInv'
    <2>1. /\ Len(cmds) \in Nat /\ Queued' = 1 .. Len(cmds) - 1
          /\ \A i \in Queued' : i + 1 \in Queued /\ cmds'[i] = cmds[i + 1]
      BY <1>5, Pops
    <2>2. 1 \in Queued /\ Head(cmds) = cmds[1]
      BY <1>5, HeardIsKnown
    <2>3. ASSUME NEW i \in Queued'
          PROVE  QueuedOK(cmds[i])'
      <3>1. PICK cmd \in Cmds : QueuedOK(cmd) /\ cmds'[i] = cmd /\ cmd = cmds[i + 1]
        BY <1>2, <1>3, <2>1
      <3>2. 1 < i + 1 /\ i + 1 \in Queued
        BY <2>1 DEF Queued
      <3>3. cmd.conn = Head(cmds).conn =>
                Head(cmds).op # "disconnect" /\ cmd.op # "connect"
        BY <2>2, <3>1, <3>2 DEF InOrder
      <3>4. CASE UNCHANGED <<known, forgotten>> \/ cmd.conn # Head(cmds).conn
        <4>1. QueuedOK(cmd)'
          BY <1>1, <3>1, <3>4, QueuedStays
        <4>2. QED
          BY <3>1, <4>1 DEF QueuedOK
      <3>5. CASE /\ known' = known \cup {Head(cmds).conn} /\ forgotten' = forgotten
                 /\ cmd.conn = Head(cmds).conn
        <4>1. cmd.conn \in known' /\ cmd.op # "connect" /\ cmd.conn \in Conns
          BY <3>1, <3>3, <3>5 DEF Cmds
        <4>2. /\ phase'[cmd.conn] \in Told /\ cmd.conn \notin forgotten'
              /\ cmd.op = "disconnect" => phase'[cmd.conn] \in ToldEnd /\ shut'[cmd.conn]
          BY <1>1, <3>1, <3>5, <4>1 DEF QueuedOK, ToldMoves, ShutMoves
        <4>3. QED
          BY <3>1, <4>1, <4>2 DEF QueuedOK
      <3>6. QED
        BY <1>1, <3>3, <3>4, <3>5 DEF KnownMoves
    <2>4. QED
      BY <1>4, <2>3
  (* A new one joins it. *)
  <1>6. ASSUME NEW cmd \in Cmds, cmds' = Append(cmds, cmd), UNCHANGED <<known, forgotten>>,
               QueuedOK(cmd)'
        PROVE  QueueInv'
    <2>1. /\ Len(cmds) \in Nat /\ Queued' = 1 .. Len(cmds) + 1
          /\ cmds'[Len(cmds) + 1] = cmd
          /\ \A i \in Queued : cmds'[i] = cmds[i]
      BY <1>6, Pushes
    <2>2. ASSUME NEW i \in Queued'
          PROVE  QueuedOK(cmds[i])'
      <3>1. CASE i \in Queued
        <4>1. PICK old \in Cmds : QueuedOK(old) /\ cmds'[i] = old
          BY <1>2, <1>3, <2>1, <3>1
        <4>2. QueuedOK(old)'
          BY <1>1, <1>6, <4>1, QueuedStays
        <4>3. QED
          BY <4>1, <4>2 DEF QueuedOK
      <3>2. CASE i \notin Queued
        <4>1. cmds'[i] = cmd
          BY <2>1, <3>2 DEF Queued
        <4>2. QED
          BY <1>6, <4>1 DEF QueuedOK
      <3>3. QED
        BY <3>1, <3>2
    <2>3. QED
      BY <1>4, <2>2
  <1>7. ASSUME NEW c \in Conns, OnConnect(c)
        PROVE  QueueInv'
    <2> DEFINE cmd == [op |-> "connect", conn |-> c]
    <2>1. /\ cmd \in Cmds /\ cmds' = Append(cmds, cmd) /\ phase[c] = "added"
          /\ phase'[c] = "reading" /\ UNCHANGED <<known, forgotten>>
      BY <1>7 DEF OnConnect, Goes, submit, Cmds, registry, SessionTypes
    <2>2. c \notin known /\ c \notin forgotten
      BY <2>1 DEF KnownInv, Told, ToldEnd
    <2>3. QueuedOK(cmd)'
      BY <2>1, <2>2 DEF QueuedOK, Told
    <2>4. QED
      BY <1>6, <2>1, <2>3
  <1>8. ASSUME NEW c \in Conns, NEW f \in Frames, OnMessage(c, f)
        PROVE  QueueInv'
    <2> DEFINE cmd == [op |-> "frame", conn |-> c, frame |-> f]
    <2>1. /\ cmd \in Cmds /\ cmds' = Append(cmds, cmd) /\ phase[c] = "forwarding"
          /\ phase'[c] = "reading" /\ UNCHANGED <<known, forgotten>>
      BY <1>8 DEF OnMessage, Goes, submit, Cmds, registry, SessionTypes
    <2>2. c \notin forgotten /\ (c \in known \/ Announced(c))
      BY <2>1 DEF KnownInv, Told, ToldEnd
    <2>3. QueuedOK(cmd)'
      BY <1>1, <2>1, <2>2 DEF QueuedOK, Told, AnnouncedMoves
    <2>4. QED
      BY <1>6, <2>1, <2>3
  <1>9. ASSUME NEW c \in Conns, OnDisconnect(c)
        PROVE  QueueInv'
    <2> DEFINE cmd == [op |-> "disconnect", conn |-> c]
    <2>1. /\ cmd \in Cmds /\ cmds' = Append(cmds, cmd) /\ phase[c] = "reading" /\ shut[c]
          /\ phase'[c] = "left" /\ UNCHANGED <<known, forgotten>>
      BY <1>9 DEF OnDisconnect, Goes, submit, Cmds, registry, SessionTypes
    <2>2. c \notin forgotten /\ (c \in known \/ Announced(c))
      BY <2>1 DEF KnownInv, Told, ToldEnd
    <2>3. QueuedOK(cmd)'
      BY <1>1, <2>1, <2>2 DEF QueuedOK, Told, ToldEnd, AnnouncedMoves, ShutMoves
    <2>4. QED
      BY <1>6, <2>1, <2>3
  (* Nothing else touches the queue, nor then the registry. *)
  <1>10. CASE UNCHANGED <<cmds, known, forgotten>>
    <2>1. ASSUME NEW i \in Queued
          PROVE  QueuedOK(cmds[i])'
      <3>1. PICK old \in Cmds : QueuedOK(old) /\ cmds'[i] = old
        BY <1>2, <1>3, <1>10
      <3>2. QueuedOK(old)'
        BY <1>1, <1>10, <3>1, QueuedStays
      <3>3. QED
        BY <3>1, <3>2 DEF QueuedOK
    <2>2. QED
      BY <1>4, <1>10, <2>1 DEF Queued
  <1>11. CASE AddConn \/ Dispatch \/ RemoveConn
    BY <1>5, <1>11 DEF AddConn, Dispatch, RemoveConn, Takes
  <1>12. QED
    BY <1>7, <1>8, <1>9, <1>10, <1>11
       DEF Next, Engine, Serve, Transport, vars, session, hub, timer, registry,
           Flush, acquire, Rejected, NoStream, add, ReadFrame, remove, release, Write, WriteFails,
           ClientCloses, TimerExpires, Expire, Fire

-----------------------------------------------------------------------------
(* Who is online. *)

(* Being bound to a player, and being lost, keep both invariants. *)
LEMMA BindsKeepsBound ==
    ASSUME RegistryTypes, BoundInv, NEW c \in Conns, NEW p \in Players, resolvePlayer(c, p)
    PROVE  BoundInv'
  <1>1. p # None
    BY ConstantsOK DEF Players
  <1>2. boundTo'[c] = p /\ c \in known' /\ \A d \in Conns \ {c} : boundTo'[d] = boundTo[d]
    BY DEF resolvePlayer, RegistryTypes
  <1>3. <<c, p>> \notin moved'
    BY DEF resolvePlayer
  <1>4. ASSUME NEW d \in Conns \ {c}, boundTo[d] # None
        PROVE  <<d, boundTo[d]>> \notin moved' /\ d \in known'
    BY <1>4 DEF resolvePlayer, BoundInv
  <1>5. QED
    BY <1>2, <1>3, <1>4 DEF BoundInv

LEMMA BindsKeepsOnline ==
    ASSUME RegistryTypes, BoundInv, OnlineMeansConnected,
           NEW c \in Conns, NEW p \in Players, resolvePlayer(c, p)
    PROVE  OnlineMeansConnected'
  <1> SUFFICES ASSUME NEW q \in Players, NEW d
               PROVE  d \in connByPl'[q] <=>
                          \/ d \in known' /\ boundTo'[d] = q
                          \/ d \in Conns /\ <<d, q>> \in moved'
    BY DEF OnlineMeansConnected, RegistryTypes
  <1>1. /\ known' = known \cup {c}
        /\ boundTo'[c] = p /\ \A e \in Conns \ {c} : boundTo'[e] = boundTo[e]
        /\ connByPl'[p] = connByPl[p] \cup {c}
        /\ \A r \in Players \ {p} : connByPl'[r] = connByPl[r]
    BY DEF resolvePlayer, RegistryTypes
  <1>2. d \in connByPl[q] <=> \/ d \in known /\ boundTo[d] = q
                              \/ d \in Conns /\ <<d, q>> \in moved
    BY DEF OnlineMeansConnected
  <1>3. \A e, r : <<e, r>> \in moved' <=>
            \/ <<e, r>> \in moved /\ <<e, r>> # <<c, p>>
            \/ e = c /\ r = boundTo[c] /\ boundTo[c] \notin {None, p}
    BY DEF resolvePlayer
  <1>4. known \subseteq Conns
    BY DEF RegistryTypes
  <1>5. CASE d # c
    BY <1>1, <1>2, <1>3, <1>4, <1>5
  <1>6. CASE d = c /\ q = p
    BY <1>1, <1>6
  <1>7. CASE d = c /\ q # p
    <2>1. q # None
      BY ConstantsOK DEF Players
    <2>2. boundTo[c] = q => c \in known
      BY <2>1 DEF BoundInv
    <2>3. d \in connByPl'[q] <=> c \in connByPl[q]
      BY <1>1, <1>7
    <2>4. <<c, q>> \in moved' <=> <<c, q>> \in moved \/ boundTo[c] = q
      BY <1>3, <1>7, <2>1
    <2>5. QED
      BY <1>1, <1>2, <1>7, <2>2, <2>3, <2>4
  <1>8. QED
    BY <1>5, <1>6, <1>7

(* Who is bound is known, and not to a player it has moved from. *)
LEMMA BoundStep == QueueTypes /\ RegistryTypes /\ BoundInv /\ [Next]_vars => BoundInv'
  <1> SUFFICES ASSUME QueueTypes, RegistryTypes, BoundInv, [Next]_vars
               PROVE  BoundInv'
    OBVIOUS
  <1> USE ConstantsOK
         DEF vars, session, hub, timer, registry
  <1>1. ASSUME AddConn
        PROVE  BoundInv'
    BY <1>1 DEF AddConn, BoundInv
  <1>2. ASSUME Dispatch
        PROVE  BoundInv'
    <2>1. CASE UNCHANGED <<role, known, boundTo, connByPl, moved>>
      BY <1>2, <2>1 DEF Dispatch, BoundInv
    <2>2. CASE /\ Head(cmds).frame \in Hellos
               /\ Hello(Head(cmds).conn, Head(cmds).frame)
      <3>1. Head(cmds).conn \in Conns
        BY <1>2, DispatchHead
      <3>2. PICK p \in Players : resolvePlayer(Head(cmds).conn, p)
        BY <2>2, <3>1, PlayerOfType DEF Hello
      <3>3. QED
        BY <3>1, <3>2, BindsKeepsBound
    <2>3. QED
      BY <1>2, <2>1, <2>2, DispatchHead
  <1>3. ASSUME RemoveConn
        PROVE  BoundInv'
    BY <1>3, HeadTaken DEF RemoveConn, BoundInv, RegistryTypes
  <1>4. CASE UNCHANGED <<known, boundTo, moved>>
    BY <1>4 DEF BoundInv
  <1>5. QED
    BY <1>1, <1>2, <1>3, <1>4
       DEF Next, Engine, Serve, Transport, Flush, acquire, Rejected, NoStream, add, OnConnect, ReadFrame,
           OnMessage, OnDisconnect, remove, release, Write, WriteFails, ClientCloses, TimerExpires,
           Expire, Fire

(* A player's set is who is bound to it, or has moved from it. *)
LEMMA OnlineStep ==
    QueueTypes /\ RegistryTypes /\ BoundInv /\ OnlineMeansConnected /\ [Next]_vars => OnlineMeansConnected'
  <1> SUFFICES ASSUME QueueTypes, RegistryTypes, BoundInv, OnlineMeansConnected, [Next]_vars
               PROVE  OnlineMeansConnected'
    OBVIOUS
  <1> USE ConstantsOK
         DEF vars, session, hub, timer, registry
  <1>1. ASSUME AddConn
        PROVE  OnlineMeansConnected'
    <2>1. Head(cmds).conn \in Conns
      BY <1>1, HeadTaken DEF AddConn
    <2>2. boundTo[Head(cmds).conn] = None \/ Head(cmds).conn \in known
      BY <2>1 DEF BoundInv
    <2>3. \A p \in Players : p # None
      BY ConstantsOK DEF Players
    <2>4. QED
      BY <1>1, <2>2, <2>3 DEF AddConn, OnlineMeansConnected
  <1>2. ASSUME Dispatch
        PROVE  OnlineMeansConnected'
    <2>1. CASE UNCHANGED <<role, known, boundTo, connByPl, moved>>
      BY <1>2, <2>1 DEF Dispatch, OnlineMeansConnected
    <2>2. CASE /\ Head(cmds).frame \in Hellos
               /\ Hello(Head(cmds).conn, Head(cmds).frame)
      <3>1. Head(cmds).conn \in Conns
        BY <1>2, DispatchHead
      <3>2. PICK p \in Players : resolvePlayer(Head(cmds).conn, p)
        BY <2>2, <3>1, PlayerOfType DEF Hello
      <3>3. QED
        BY <3>1, <3>2, BindsKeepsOnline
    <2>3. QED
      BY <1>2, <2>1, <2>2, DispatchHead
  <1>3. ASSUME RemoveConn
        PROVE  OnlineMeansConnected'
    <2>1. PICK c \in Conns : c = Head(cmds).conn
      BY <1>3, HeadTaken DEF RemoveConn
    <2>2. /\ known' = known \ {c} /\ boundTo' = [boundTo EXCEPT ![c] = None] /\ moved' = moved
          /\ connByPl' = Unbound(c)
      BY <1>3, <2>1 DEF RemoveConn
    <2>3. \A p \in Players : p # None
      BY ConstantsOK DEF Players
    <2>4. boundTo'[c] = None /\ \A d \in Conns \ {c} : boundTo'[d] = boundTo[d]
      BY <2>2 DEF RegistryTypes
    <2>5. \A p \in Players :
              connByPl'[p] = IF p = boundTo[c] THEN connByPl[p] \ {c} ELSE connByPl[p]
      BY <2>2, <2>3 DEF Unbound, RegistryTypes
    <2> SUFFICES ASSUME NEW q \in Players, NEW d
                 PROVE  d \in connByPl'[q] <=>
                            \/ d \in known' /\ boundTo'[d] = q
                            \/ d \in Conns /\ <<d, q>> \in moved'
      BY <2>5 DEF OnlineMeansConnected, RegistryTypes
    <2>6. d \in connByPl[q] <=> \/ d \in known /\ boundTo[d] = q
                                \/ d \in Conns /\ <<d, q>> \in moved
      BY DEF OnlineMeansConnected
    <2>7. known \subseteq Conns
      BY DEF RegistryTypes
    <2>8. CASE d # c
      BY <2>2, <2>4, <2>5, <2>6, <2>7, <2>8
    <2>9. CASE d = c
      <3>1. boundTo[c] = q => <<c, q>> \notin moved
        BY <2>3 DEF BoundInv
      <3>2. QED
        BY <2>2, <2>3, <2>4, <2>5, <2>6, <2>9, <3>1
    <2>10. QED
      BY <2>8, <2>9
  <1>4. CASE UNCHANGED <<known, boundTo, connByPl, moved>>
    BY <1>4 DEF OnlineMeansConnected
  <1>5. QED
    BY <1>1, <1>2, <1>3, <1>4
       DEF Next, Engine, Serve, Transport, Flush, acquire, Rejected, NoStream, add, OnConnect, ReadFrame,
           OnMessage, OnDisconnect, remove, release, Write, WriteFails, ClientCloses, TimerExpires,
           Expire, Fire

-----------------------------------------------------------------------------
(* The limiter. *)

(* Slots and counts change together. *)
SlotMoves ==
    /\ IP' = IP
    /\ \/ UNCHANGED <<HasSlot, total, perIP>>
       \/ \E c \in Conns :
             /\ c \notin HasSlot /\ HasSlot' = HasSlot \cup {c}
             /\ Admits(IP[c])
             /\ total' = total + 1 /\ perIP' = [perIP EXCEPT ![IP[c]] = @ + 1]
       \/ \E c \in Conns :
             /\ c \in HasSlot /\ HasSlot' = HasSlot \ {c}
             /\ total' = total - 1 /\ perIP' = [perIP EXCEPT ![IP[c]] = @ - 1]

(* What a step does to the slots. *)
LEMMA SlotsMove == SessionTypes /\ [Next]_vars => SlotMoves
  <1> SUFFICES ASSUME SessionTypes, [Next]_vars
               PROVE  SlotMoves
    OBVIOUS
  <1> USE DEF vars, session
  <1>1. ASSUME NEW c \in Conns, acquire(c)
        PROVE  SlotMoves
    <2>1. c \notin HasSlot /\ HasSlot' = HasSlot \cup {c}
      BY <1>1 DEF acquire, HasSlot, Goes, SessionTypes
    <2>2. QED
      BY <1>1, <2>1 DEF acquire, SlotMoves
  <1>2. ASSUME NEW c \in Conns, Rejected(c)
        PROVE  SlotMoves
    <2>1. HasSlot' = HasSlot
      BY <1>2 DEF Rejected, HasSlot, Goes, SessionTypes
    <2>2. UNCHANGED <<IP, total, perIP>>
      BY <1>2 DEF Rejected
    <2>3. QED
      BY <2>1, <2>2 DEF SlotMoves
  <1>3. ASSUME NEW c \in Conns, NoStream(c)
        PROVE  SlotMoves
    <2>1. HasSlot' = HasSlot
      BY <1>3 DEF NoStream, HasSlot, Goes, SessionTypes
    <2>2. UNCHANGED <<IP, total, perIP>>
      BY <1>3 DEF NoStream
    <2>3. QED
      BY <2>1, <2>2 DEF SlotMoves
  <1>4. ASSUME NEW c \in Conns, add(c)
        PROVE  SlotMoves
    <2>1. HasSlot' = HasSlot
      BY <1>4 DEF add, HasSlot, Goes, SessionTypes
    <2>2. UNCHANGED <<IP, total, perIP>>
      BY <1>4 DEF add
    <2>3. QED
      BY <2>1, <2>2 DEF SlotMoves
  <1>5. ASSUME NEW c \in Conns, OnConnect(c)
        PROVE  SlotMoves
    <2>1. HasSlot' = HasSlot
      BY <1>5 DEF OnConnect, HasSlot, Goes, SessionTypes
    <2>2. UNCHANGED <<IP, total, perIP>>
      BY <1>5 DEF OnConnect
    <2>3. QED
      BY <2>1, <2>2 DEF SlotMoves
  <1>6. ASSUME NEW c \in Conns, ReadFrame(c)
        PROVE  SlotMoves
    <2>1. HasSlot' = HasSlot
      BY <1>6 DEF ReadFrame, HasSlot, Goes, SessionTypes
    <2>2. UNCHANGED <<IP, total, perIP>>
      BY <1>6 DEF ReadFrame
    <2>3. QED
      BY <2>1, <2>2 DEF SlotMoves
  <1>7. ASSUME NEW c \in Conns, NEW f \in Frames, OnMessage(c, f)
        PROVE  SlotMoves
    <2>1. HasSlot' = HasSlot
      BY <1>7 DEF OnMessage, HasSlot, Goes, SessionTypes
    <2>2. UNCHANGED <<IP, total, perIP>>
      BY <1>7 DEF OnMessage
    <2>3. QED
      BY <2>1, <2>2 DEF SlotMoves
  <1>8. ASSUME NEW c \in Conns, OnDisconnect(c)
        PROVE  SlotMoves
    <2>1. HasSlot' = HasSlot
      BY <1>8 DEF OnDisconnect, HasSlot, Goes, SessionTypes
    <2>2. UNCHANGED <<IP, total, perIP>>
      BY <1>8 DEF OnDisconnect
    <2>3. QED
      BY <2>1, <2>2 DEF SlotMoves
  <1>9. ASSUME NEW c \in Conns, remove(c)
        PROVE  SlotMoves
    <2>1. HasSlot' = HasSlot
      BY <1>9 DEF remove, HasSlot, Goes, SessionTypes
    <2>2. UNCHANGED <<IP, total, perIP>>
      BY <1>9 DEF remove
    <2>3. QED
      BY <2>1, <2>2 DEF SlotMoves
  <1>10. ASSUME NEW c \in Conns, release(c)
        PROVE  SlotMoves
    <2>1. c \in HasSlot /\ HasSlot' = HasSlot \ {c}
      BY <1>10 DEF release, HasSlot, Goes, SessionTypes
    <2>2. QED
      BY <1>10, <2>1 DEF release, Freed, SlotMoves
  <1>11. CASE UNCHANGED <<phase, IP, total, perIP>>
    BY <1>11 DEF SlotMoves, HasSlot
  <1>12. QED
    BY <1>1, <1>2, <1>3, <1>4, <1>5, <1>6, <1>7, <1>8, <1>9, <1>10, <1>11
       DEF Next, Engine, Serve, Transport, AddConn, Dispatch, RemoveConn, Flush, Write, WriteFails,
           ClientCloses, TimerExpires, Expire, Fire

(* One more of an address, or one less. *)
LEMMA SlotsOfGrow ==
    ASSUME SessionTypes, IP' = IP, NEW c \in Conns, HasSlot' = HasSlot \cup {c}, NEW a
    PROVE  SlotsOf(a)' = IF IP[c] = a THEN SlotsOf(a) \cup {c} ELSE SlotsOf(a)
  BY DEF SlotsOf

LEMMA SlotsOfShrink ==
    ASSUME SessionTypes, IP' = IP, NEW c \in Conns, HasSlot' = HasSlot \ {c}, NEW a
    PROVE  SlotsOf(a)' = IF IP[c] = a THEN SlotsOf(a) \ {c} ELSE SlotsOf(a)
  BY DEF SlotsOf

LEMMA SlotsOfFinite == IsFiniteSet(HasSlot) => \A a : IsFiniteSet(SlotsOf(a)) /\ SlotsOf(a) \subseteq HasSlot
  BY FS_Subset DEF SlotsOf

LEMMA CountStep == SessionTypes /\ CountInv /\ SlotMoves => CountInv'
  <1> SUFFICES ASSUME SessionTypes, CountInv, SlotMoves
               PROVE  CountInv'
    OBVIOUS
  <1>1. IsFiniteSet(HasSlot) /\ Cardinality(HasSlot) \in Nat
    BY FS_CardinalityType DEF CountInv
  <1>2. \A a : IsFiniteSet(SlotsOf(a)) /\ Cardinality(SlotsOf(a)) \in Nat
    BY <1>1, SlotsOfFinite, FS_CardinalityType
  <1>3. CASE UNCHANGED <<IP, HasSlot, total, perIP>>
    BY <1>3 DEF CountInv, SlotsOf
  <1>4. ASSUME NEW c \in Conns, c \notin HasSlot, HasSlot' = HasSlot \cup {c}, IP' = IP,
               total' = total + 1, perIP' = [perIP EXCEPT ![IP[c]] = @ + 1]
        PROVE  CountInv'
    <2>1. IsFiniteSet(HasSlot') /\ Cardinality(HasSlot') = Cardinality(HasSlot) + 1
      BY <1>1, <1>4, FS_AddElement
    <2>2. ASSUME NEW a \in IPs
          PROVE  perIP'[a] = Cardinality(SlotsOf(a)')
      <3>1. CASE a = IP[c]
        <4>1. SlotsOf(a)' = SlotsOf(a) \cup {c} /\ c \notin SlotsOf(a)
          BY <1>4, <3>1, SlotsOfGrow DEF SlotsOf
        <4>2. Cardinality(SlotsOf(a)') = Cardinality(SlotsOf(a)) + 1
          BY <1>2, <4>1, FS_AddElement
        <4>3. perIP'[a] = perIP[a] + 1
          BY <1>4, <3>1 DEF SessionTypes
        <4>4. QED
          BY <4>2, <4>3 DEF CountInv
      <3>2. CASE a # IP[c]
        <4>1. SlotsOf(a)' = SlotsOf(a) /\ perIP'[a] = perIP[a]
          BY <1>4, <3>2, SlotsOfGrow DEF SessionTypes
        <4>2. QED
          BY <4>1 DEF CountInv
      <3>3. QED
        BY <3>1, <3>2
    <2>3. QED
      BY <1>4, <2>1, <2>2 DEF CountInv
  <1>5. ASSUME NEW c \in Conns, c \in HasSlot, HasSlot' = HasSlot \ {c}, IP' = IP,
               total' = total - 1, perIP' = [perIP EXCEPT ![IP[c]] = @ - 1]
        PROVE  CountInv'
    <2>1. IsFiniteSet(HasSlot') /\ Cardinality(HasSlot') = Cardinality(HasSlot) - 1
      BY <1>1, <1>5, FS_RemoveElement
    <2>2. ASSUME NEW a \in IPs
          PROVE  perIP'[a] = Cardinality(SlotsOf(a)')
      <3>1. CASE a = IP[c]
        <4>1. SlotsOf(a)' = SlotsOf(a) \ {c} /\ c \in SlotsOf(a)
          BY <1>5, <3>1, SlotsOfShrink DEF SlotsOf
        <4>2. Cardinality(SlotsOf(a)') = Cardinality(SlotsOf(a)) - 1
          BY <1>2, <4>1, FS_RemoveElement
        <4>3. perIP'[a] = perIP[a] - 1
          BY <1>5, <3>1 DEF SessionTypes
        <4>4. QED
          BY <4>2, <4>3 DEF CountInv
      <3>2. CASE a # IP[c]
        <4>1. SlotsOf(a)' = SlotsOf(a) /\ perIP'[a] = perIP[a]
          BY <1>5, <3>2, SlotsOfShrink DEF SessionTypes
        <4>2. QED
          BY <4>1 DEF CountInv
      <3>3. QED
        BY <3>1, <3>2
    <2>3. QED
      BY <1>5, <2>1, <2>2 DEF CountInv
  <1>6. QED
    BY <1>3, <1>4, <1>5 DEF SlotMoves

LEMMA LimitStep == SessionTypes /\ LimitInv /\ SlotMoves => LimitInv'
  <1> SUFFICES ASSUME SessionTypes, LimitInv, SlotMoves
               PROVE  LimitInv'
    OBVIOUS
  <1>1. CASE UNCHANGED <<total, perIP>>
    BY <1>1 DEF LimitInv
  <1>2. ASSUME NEW c \in Conns, Admits(IP[c]),
               total' = total + 1, perIP' = [perIP EXCEPT ![IP[c]] = @ + 1]
        PROVE  LimitInv'
    <2>1. MaxTotal > 0 => total' <= MaxTotal
      BY <1>2, ConstantsOK DEF Admits, SessionTypes
    <2>2. MaxPerIP > 0 => \A a \in IPs : perIP'[a] <= MaxPerIP
      BY <1>2, ConstantsOK DEF Admits, SessionTypes, LimitInv
    <2>3. QED
      BY <2>1, <2>2 DEF LimitInv
  <1>3. ASSUME NEW c \in Conns,
               total' = total - 1, perIP' = [perIP EXCEPT ![IP[c]] = @ - 1]
        PROVE  LimitInv'
    BY <1>3, ConstantsOK DEF SessionTypes, LimitInv
  <1>4. QED
    BY <1>1, <1>2, <1>3 DEF SlotMoves

-----------------------------------------------------------------------------
(* The frames. *)

LEMMA PendingFinite == QueueTypes => \A c : IsFiniteSet(Pending(c)) /\ Cardinality(Pending(c)) \in Nat
  <1> SUFFICES ASSUME QueueTypes, NEW c
               PROVE  IsFiniteSet(Pending(c)) /\ Cardinality(Pending(c)) \in Nat
    OBVIOUS
  <1>1. Len(cmds) \in Int
    BY LenProperties DEF QueueTypes
  <1>2. IsFiniteSet(1 .. Len(cmds))
    BY <1>1, FS_Interval
  <1>3. IsFiniteSet(Pending(c))
    BY <1>2, FS_Subset DEF Pending, Queued
  <1>4. QED
    BY <1>3, FS_CardinalityType

(* Taking a command off the queue takes it off what is pending. *)
LEMMA PendingPops ==
    ASSUME QueueTypes, cmds # <<>>, cmds' = Tail(cmds), NEW c
    PROVE  Cardinality(Pending(c)') =
               IF Head(cmds).op = "frame" /\ Head(cmds).conn = c
                   THEN Cardinality(Pending(c)) - 1 ELSE Cardinality(Pending(c))
  <1> DEFINE new == Pending(c)'
             rest == Pending(c) \ {1}
             f == [i \in new |-> i + 1]
  <1>1. /\ Len(cmds) \in Nat \ {0} /\ Queued' = 1 .. Len(cmds) - 1 /\ Queued = 1 .. Len(cmds)
        /\ \A i \in Queued' : cmds'[i] = cmds[i + 1]
        /\ Head(cmds) = cmds[1]
    BY Pops, HeadIsCmd DEF Queued
  <1>2. new = {i \in Queued' : cmds[i + 1].op = "frame" /\ cmds[i + 1].conn = c}
    BY <1>1 DEF Pending
  <1>3. rest = {i \in 2 .. Len(cmds) : cmds[i].op = "frame" /\ cmds[i].conn = c}
    BY <1>1 DEF Pending
  <1>4. new \subseteq Int
    BY <1>1, <1>2
  <1>5. f \in [new -> rest]
    <2>1. \A i \in new : i + 1 \in rest
      BY <1>1, <1>2, <1>3
    <2> HIDE DEF new, rest
    <2>2. QED
      BY <2>1
  <1>6. \A i, j \in new : f[i] = f[j] => i = j
    <2> HIDE DEF new
    <2>1. QED
      BY <1>4
  <1>7. \A j \in rest : \E i \in new : f[i] = j
    <2>1. \A j \in rest : j - 1 \in new /\ (j - 1) + 1 = j
      BY <1>1, <1>2, <1>3
    <2> HIDE DEF new, rest
    <2>2. QED
      BY <2>1
  <1>8. IsFiniteSet(new)
    <2>1. IsFiniteSet(1 .. Len(cmds) - 1)
      BY <1>1, FS_Interval
    <2>2. QED
      BY <1>1, <1>2, <2>1, FS_Subset
  <1>9. Cardinality(rest) = Cardinality(new)
    <2> HIDE DEF new, rest, f
    <2>1. f \in Bijection(new, rest)
      BY <1>5, <1>6, <1>7, Fun_IsBij
    <2>2. QED
      BY <1>8, <2>1, FS_Bijection DEF ExistsBijection
  <1>10. 1 \in Pending(c) <=> Head(cmds).op = "frame" /\ Head(cmds).conn = c
    BY <1>1 DEF Pending
  <1>11. Cardinality(rest) = IF 1 \in Pending(c) THEN Cardinality(Pending(c)) - 1
                                                 ELSE Cardinality(Pending(c))
    BY PendingFinite, FS_RemoveElement
  <1>12. QED
    BY <1>9, <1>10, <1>11

(* A frame that joins the queue is pending; nothing else is. *)
LEMMA PendingPushes ==
    ASSUME QueueTypes, NEW cmd \in Cmds, cmds' = Append(cmds, cmd), NEW c
    PROVE  Cardinality(Pending(c)') =
               IF cmd.op = "frame" /\ cmd.conn = c
                   THEN Cardinality(Pending(c)) + 1 ELSE Cardinality(Pending(c))
  <1>1. /\ Len(cmds) \in Nat /\ Queued' = 1 .. Len(cmds) + 1 /\ Queued = 1 .. Len(cmds)
        /\ cmds'[Len(cmds) + 1] = cmd
        /\ \A i \in Queued : cmds'[i] = cmds[i]
    BY Pushes DEF Queued
  <1>2. Pending(c)' = IF cmd.op = "frame" /\ cmd.conn = c
                          THEN Pending(c) \cup {Len(cmds) + 1} ELSE Pending(c)
    <2>1. \A i \in Queued' : i \in Queued \/ i = Len(cmds) + 1
      BY <1>1
    <2>2. Queued \subseteq Queued' /\ Len(cmds) + 1 \in Queued' /\ Len(cmds) + 1 \notin Queued
      BY <1>1
    <2>3. QED
      BY <1>1, <2>1, <2>2, Zenon DEF Pending
  <1>3. Len(cmds) + 1 \notin Pending(c)
    BY <1>1 DEF Pending
  <1>4. QED
    BY <1>2, <1>3, PendingFinite, FS_AddElement

(* The frames that are handled, queued and in hand have been read. *)
LEMMA FramesStep ==
    SessionTypes /\ QueueTypes /\ FrameTypes /\ FramesInv /\ [Next]_vars => FramesInv'
  <1> SUFFICES ASSUME SessionTypes, QueueTypes, FrameTypes, FramesInv, [Next]_vars
               PROVE  FramesInv'
    OBVIOUS
  <1> USE ConstantsOK
         DEF vars, session, hub, timer, registry
  <1>1. ASSUME AddConn
        PROVE  FramesInv'
    <2>1. cmds # <<>> /\ cmds' = Tail(cmds) /\ Head(cmds).op = "connect"
      BY <1>1, HeadTaken DEF AddConn
    <2>2. \A d \in Conns : Cardinality(Pending(d)') = Cardinality(Pending(d)) /\ InHand(d)' = InHand(d)
      BY <1>1, <2>1, PendingPops DEF AddConn, InHand
    <2>3. UNCHANGED <<handled, frames>>
      BY <1>1 DEF AddConn
    <2>4. QED
      BY <2>2, <2>3 DEF FramesInv
  <1>2. ASSUME Dispatch
        PROVE  FramesInv'
    <2> DEFINE h == Head(cmds).conn
    <2>1. cmds # <<>> /\ cmds' = Tail(cmds) /\ Head(cmds).op = "frame" /\ h \in Conns
      BY <1>2, DispatchHead
    <2>2. \A d \in Conns : Cardinality(Pending(d)') =
              IF d = h THEN Cardinality(Pending(d)) - 1 ELSE Cardinality(Pending(d))
      BY <2>1, PendingPops
    <2>3. /\ \A d \in Conns : handled'[d] = IF d = h THEN handled[d] + 1 ELSE handled[d]
          /\ frames' = frames /\ phase' = phase
      BY <1>2, <2>1 DEF Dispatch, FrameTypes
    <2>4. \A d \in Conns : InHand(d)' = InHand(d) /\ InHand(d) \in Int
      BY <2>3 DEF InHand
    <2>5. \A d \in Conns : handled[d] \in Int /\ Cardinality(Pending(d)) \in Int
      BY PendingFinite DEF FrameTypes
    <2> HIDE DEF h
    <2>6. QED
      BY <2>2, <2>3, <2>4, <2>5 DEF FramesInv
  <1>3. ASSUME RemoveConn
        PROVE  FramesInv'
    <2>1. cmds # <<>> /\ cmds' = Tail(cmds) /\ Head(cmds).op = "disconnect"
      BY <1>3, HeadTaken DEF RemoveConn
    <2>2. \A d \in Conns : Cardinality(Pending(d)') = Cardinality(Pending(d)) /\ InHand(d)' = InHand(d)
      BY <1>3, <2>1, PendingPops DEF RemoveConn, InHand
    <2>3. UNCHANGED <<handled, frames>>
      BY <1>3 DEF RemoveConn
    <2>4. QED
      BY <2>2, <2>3 DEF FramesInv
  <1>4. ASSUME NEW c \in Conns, acquire(c)
        PROVE  FramesInv'
    <2>1. \A d \in Conns : InHand(d)' = InHand(d)
      BY <1>4 DEF acquire, Goes, InHand, SessionTypes
    <2>2. UNCHANGED <<cmds, handled, frames>>
      BY <1>4 DEF acquire
    <2>3. QED
      BY <2>1, <2>2 DEF FramesInv, Pending, Queued
  <1>5. ASSUME NEW c \in Conns, Rejected(c)
        PROVE  FramesInv'
    <2>1. \A d \in Conns : InHand(d)' = InHand(d)
      BY <1>5 DEF Rejected, Goes, InHand, SessionTypes
    <2>2. UNCHANGED <<cmds, handled, frames>>
      BY <1>5 DEF Rejected
    <2>3. QED
      BY <2>1, <2>2 DEF FramesInv, Pending, Queued
  <1>6. ASSUME NEW c \in Conns, NoStream(c)
        PROVE  FramesInv'
    <2>1. \A d \in Conns : InHand(d)' = InHand(d)
      BY <1>6 DEF NoStream, Goes, InHand, SessionTypes
    <2>2. UNCHANGED <<cmds, handled, frames>>
      BY <1>6 DEF NoStream
    <2>3. QED
      BY <2>1, <2>2 DEF FramesInv, Pending, Queued
  <1>7. ASSUME NEW c \in Conns, add(c)
        PROVE  FramesInv'
    <2>1. \A d \in Conns : InHand(d)' = InHand(d)
      BY <1>7 DEF add, Goes, InHand, SessionTypes
    <2>2. UNCHANGED <<cmds, handled, frames>>
      BY <1>7 DEF add
    <2>3. QED
      BY <2>1, <2>2 DEF FramesInv, Pending, Queued
  <1>8. ASSUME NEW c \in Conns, OnConnect(c)
        PROVE  FramesInv'
    <2> DEFINE cmd == [op |-> "connect", conn |-> c]
    <2>1. cmd \in Cmds /\ cmds' = Append(cmds, cmd) /\ cmd.op # "frame"
      BY <1>8 DEF OnConnect, submit, Cmds
    <2>2. \A d \in Conns : Cardinality(Pending(d)') = Cardinality(Pending(d))
      BY <2>1, PendingPushes
    <2>3. \A d \in Conns : InHand(d)' = InHand(d)
      BY <1>8 DEF OnConnect, Goes, InHand, SessionTypes
    <2>4. UNCHANGED <<handled, frames>>
      BY <1>8 DEF OnConnect
    <2>5. QED
      BY <2>2, <2>3, <2>4 DEF FramesInv
  <1>9. ASSUME NEW c \in Conns, ReadFrame(c)
        PROVE  FramesInv'
    <2>1. /\ \A d \in Conns : InHand(d)' = (IF d = c THEN 1 ELSE InHand(d)) /\ InHand(d) \in Int
          /\ InHand(c) = 0
      BY <1>9 DEF ReadFrame, Goes, InHand, SessionTypes
    <2>2. UNCHANGED <<cmds, handled>> /\ frames' = frames + 1
      BY <1>9 DEF ReadFrame
    <2>3. \A d \in Conns : Cardinality(Pending(d)') = Cardinality(Pending(d))
      BY <2>2 DEF Pending, Queued
    <2>4. /\ \A d \in Conns : handled[d] \in Int /\ Cardinality(Pending(d)) \in Int
          /\ frames \in Int
      BY PendingFinite DEF FrameTypes
    <2>5. QED
      BY <2>1, <2>2, <2>3, <2>4 DEF FramesInv
  <1>10. ASSUME NEW c \in Conns, NEW f \in Frames, OnMessage(c, f)
        PROVE  FramesInv'
    <2> DEFINE cmd == [op |-> "frame", conn |-> c, frame |-> f]
    <2>1. cmd \in Cmds /\ cmds' = Append(cmds, cmd)
      BY <1>10 DEF OnMessage, submit, Cmds
    <2>2. \A d \in Conns : Cardinality(Pending(d)') =
              IF d = c THEN Cardinality(Pending(d)) + 1 ELSE Cardinality(Pending(d))
      BY <2>1, PendingPushes
    <2>3. /\ \A d \in Conns : InHand(d)' = (IF d = c THEN 0 ELSE InHand(d)) /\ InHand(d) \in Int
          /\ InHand(c) = 1
      BY <1>10 DEF OnMessage, Goes, InHand, SessionTypes
    <2>4. UNCHANGED <<handled, frames>>
      BY <1>10 DEF OnMessage
    <2>5. /\ \A d \in Conns : handled[d] \in Int /\ Cardinality(Pending(d)) \in Int
          /\ frames \in Int
      BY PendingFinite DEF FrameTypes
    <2>6. QED
      BY <2>2, <2>3, <2>4, <2>5 DEF FramesInv
  <1>11. ASSUME NEW c \in Conns, OnDisconnect(c)
        PROVE  FramesInv'
    <2> DEFINE cmd == [op |-> "disconnect", conn |-> c]
    <2>1. cmd \in Cmds /\ cmds' = Append(cmds, cmd) /\ cmd.op # "frame"
      BY <1>11 DEF OnDisconnect, submit, Cmds
    <2>2. \A d \in Conns : Cardinality(Pending(d)') = Cardinality(Pending(d))
      BY <2>1, PendingPushes
    <2>3. \A d \in Conns : InHand(d)' = InHand(d)
      BY <1>11 DEF OnDisconnect, Goes, InHand, SessionTypes
    <2>4. UNCHANGED <<handled, frames>>
      BY <1>11 DEF OnDisconnect
    <2>5. QED
      BY <2>2, <2>3, <2>4 DEF FramesInv
  <1>12. ASSUME NEW c \in Conns, remove(c)
        PROVE  FramesInv'
    <2>1. \A d \in Conns : InHand(d)' = InHand(d)
      BY <1>12 DEF remove, Goes, InHand, SessionTypes
    <2>2. UNCHANGED <<cmds, handled, frames>>
      BY <1>12 DEF remove
    <2>3. QED
      BY <2>1, <2>2 DEF FramesInv, Pending, Queued
  <1>13. ASSUME NEW c \in Conns, release(c)
        PROVE  FramesInv'
    <2>1. \A d \in Conns : InHand(d)' = InHand(d)
      BY <1>13 DEF release, Goes, InHand, SessionTypes
    <2>2. UNCHANGED <<cmds, handled, frames>>
      BY <1>13 DEF release
    <2>3. QED
      BY <2>1, <2>2 DEF FramesInv, Pending, Queued
  <1>14. CASE UNCHANGED <<phase, cmds, handled, frames>>
    BY <1>14 DEF FramesInv, InHand, Pending, Queued
  <1>15. QED
    BY <1>1, <1>2, <1>3, <1>4, <1>5, <1>6, <1>7, <1>8, <1>9, <1>10, <1>11, <1>12, <1>13, <1>14
       DEF Next, Engine, Serve, Transport, Flush, Write, WriteFails, ClientCloses, TimerExpires, Expire,
           Fire

(* The counts of frames. *)
LEMMA FrameTypesStep == QueueTypes /\ FrameTypes /\ [Next]_vars => FrameTypes'
  <1> SUFFICES ASSUME QueueTypes, FrameTypes, [Next]_vars
               PROVE  FrameTypes'
    OBVIOUS
  <1> USE ConstantsOK
         DEF vars, session, hub, timer, registry, FrameTypes
  <1>1. ASSUME Dispatch
        PROVE  FrameTypes'
    BY <1>1, DispatchHead DEF Dispatch
  <1>2. ASSUME NEW c \in Conns, ReadFrame(c)
        PROVE  FrameTypes'
    BY <1>2 DEF ReadFrame
  <1>3. CASE UNCHANGED <<handled, frames>>
    BY <1>3
  <1>4. QED
    BY <1>1, <1>2, <1>3
       DEF Next, Engine, Serve, Transport, AddConn, RemoveConn, Flush, acquire, Rejected, NoStream, add,
           OnConnect, OnMessage, OnDisconnect, remove, release, Write, WriteFails, ClientCloses,
           TimerExpires, Expire, Fire

-----------------------------------------------------------------------------
(* The ends of the connections. *)

(* What is closed is shut. *)
LEMMA ClosedStep == HubTypes /\ ClosedInv /\ [Next]_vars => ClosedInv'
  <1> SUFFICES ASSUME HubTypes, ClosedInv, [Next]_vars
               PROVE  ClosedInv'
    OBVIOUS
  <1> USE ConstantsOK
         DEF vars, session, hub, timer, registry, Deliver, stop, ClosedInv, HubTypes
  <1>1. ASSUME Dispatch
        PROVE  ClosedInv'
    BY <1>1 DEF Dispatch
  <1>2. ASSUME RemoveConn
        PROVE  ClosedInv'
    BY <1>2 DEF RemoveConn
  <1>3. ASSUME Flush
        PROVE  ClosedInv'
    BY <1>3 DEF Flush
  <1>4. ASSUME NEW c \in Conns, remove(c)
        PROVE  ClosedInv'
    BY <1>4 DEF remove
  <1>5. ASSUME NEW c \in Conns, WriteFails(c)
        PROVE  ClosedInv'
    BY <1>5 DEF WriteFails
  <1>6. ASSUME NEW c \in Conns, ClientCloses(c)
        PROVE  ClosedInv'
    BY <1>6 DEF ClientCloses
  <1>7. ASSUME NEW c \in Conns, Expire(c)
        PROVE  ClosedInv'
    BY <1>7 DEF Expire
  <1>8. CASE UNCHANGED <<closed, shut>>
    BY <1>8
  <1>9. QED
    BY <1>1, <1>2, <1>3, <1>4, <1>5, <1>6, <1>7, <1>8
       DEF Next, Engine, Serve, Transport, AddConn, acquire, Rejected, NoStream, add, OnConnect,
           ReadFrame, OnMessage, OnDisconnect, release, Write, TimerExpires, Fire

(* A disconnect moves up, unless it is the one that is taken, and that is   *)
(* the last of what its connection said.                                   *)
LEMMA EndPops ==
    ASSUME QueueTypes, InOrder, cmds # <<>>, cmds' = Tail(cmds),
           Head(cmds).op = "disconnect" => Head(cmds).conn \notin known'
    PROVE  EndMoves
  <1>1. /\ Len(cmds) \in Nat \ {0} /\ Queued' = 1 .. Len(cmds) - 1
        /\ \A i \in Queued' : i + 1 \in Queued /\ cmds'[i] = cmds[i + 1]
    BY Pops
  <1>2. Head(cmds) = cmds[1] /\ 1 \in Queued
    BY <1>1, HeadIsCmd DEF Queued
  <1>3. DOMAIN cmds = Queued /\ DOMAIN cmds' = Queued'
    BY HeadTailProperties, LenProperties DEF QueueTypes, Queued
  <1> SUFFICES ASSUME NEW d \in Conns
               PROVE  /\ Announced(d)' => Announced(d)
                      /\ EndQueued(d) => EndQueued(d)' \/ ~Present(d)'
    BY DEF EndMoves
  <1>4. Announced(d)' => Announced(d)
    BY <1>1 DEF Announced
  <1>5. ASSUME EndQueued(d)
        PROVE  EndQueued(d)' \/ ~Present(d)'
    <2>1. PICK i \in Queued : cmds[i].op = "disconnect" /\ cmds[i].conn = d
      BY <1>3, <1>5 DEF EndQueued
    <2>2. CASE i = 1
      <3>1. d \notin known'
        BY <1>2, <2>1, <2>2
      <3>2. ASSUME NEW j \in Queued', cmds'[j].op = "connect", cmds'[j].conn = d
            PROVE  FALSE
        <4>1. j + 1 \in Queued /\ cmds[j + 1].op = "connect" /\ cmds[j + 1].conn = d
          BY <1>1, <3>2
        <4>2. 1 < j + 1
          BY <1>1, <3>2
        <4>3. QED
          BY <1>2, <2>1, <2>2, <4>1, <4>2 DEF InOrder
      <3>3. QED
        BY <3>1, <3>2 DEF Present, Announced
    <2>3. CASE i # 1
      <3>1. i - 1 \in Queued' /\ cmds'[i - 1] = cmds[i]
        BY <1>1, <2>3 DEF Queued
      <3>2. QED
        BY <1>3, <2>1, <3>1 DEF EndQueued
    <2>4. QED
      BY <2>2, <2>3
  <1>6. QED
    BY <1>4, <1>5

(* What is queued behind it does not hide a disconnect. *)
LEMMA EndPushes ==
    ASSUME QueueTypes, NEW cmd \in Cmds, cmds' = Append(cmds, cmd),
           cmd.op = "connect" => OnConnect(cmd.conn)
    PROVE  EndMoves /\ (cmd.op = "disconnect" => EndQueued(cmd.conn)')
  <1>1. /\ Len(cmds) \in Nat /\ Queued' = 1 .. Len(cmds) + 1
        /\ cmds'[Len(cmds) + 1] = cmd
        /\ \A i \in Queued : cmds'[i] = cmds[i]
    BY Pushes
  <1>2. DOMAIN cmds = Queued /\ DOMAIN cmds' = Queued'
    BY <1>1, AppendProperties, LenProperties DEF QueueTypes, Queued
  <1>3. \A i \in Queued : i \in Queued'
    BY <1>1 DEF Queued
  <1>4. \A i \in Queued' : i \in Queued \/ i = Len(cmds) + 1
    BY <1>1 DEF Queued
  <1>5. \A d \in Conns : EndQueued(d) => EndQueued(d)'
    BY <1>1, <1>2, <1>3 DEF EndQueued
  <1>6. \A d \in Conns : Announced(d)' => Announced(d) \/ OnConnect(d)
    BY <1>1, <1>4 DEF Announced
  <1>7. cmd.op = "disconnect" => EndQueued(cmd.conn)'
    <2>1. Len(cmds) + 1 \in DOMAIN cmds'
      BY <1>1, <1>2
    <2>2. QED
      BY <1>1, <2>1 DEF EndQueued
  <1>8. QED
    BY <1>5, <1>6, <1>7 DEF EndMoves

(* What OnDisconnect queues. *)
LEMMA EndIsQueued ==
    ASSUME QueueTypes, NEW c \in Conns, OnDisconnect(c)
    PROVE  EndMoves /\ EndQueued(c)'
  <1> DEFINE cmd == [op |-> "disconnect", conn |-> c]
  <1>1. cmd \in Cmds /\ cmds' = Append(cmds, cmd) /\ cmd.op = "disconnect" /\ cmd.conn = c
    BY DEF OnDisconnect, submit, Cmds
  <1> HIDE DEF cmd
  <1>2. QED
    BY <1>1, EndPushes

LEMMA EndsStay == QueueTypes /\ QueueInv /\ InOrder /\ RegistryTypes /\ [Next]_vars => EndMoves
  <1> SUFFICES ASSUME QueueTypes, QueueInv, InOrder, RegistryTypes, [Next]_vars
               PROVE  EndMoves
    OBVIOUS
  <1> USE ConstantsOK
         DEF vars, session, hub, timer, registry
  <1>1. ASSUME AddConn
        PROVE  EndMoves
    <2>1. cmds # <<>> /\ cmds' = Tail(cmds) /\ Head(cmds).op = "connect"
      BY <1>1, HeadTaken DEF AddConn
    <2>2. QED
      BY <2>1, EndPops
  <1>2. ASSUME Dispatch
        PROVE  EndMoves
    <2>1. cmds # <<>> /\ cmds' = Tail(cmds) /\ Head(cmds).op = "frame"
      BY <1>2, DispatchHead
    <2>2. QED
      BY <2>1, EndPops
  <1>3. ASSUME RemoveConn
        PROVE  EndMoves
    <2>1. cmds # <<>> /\ cmds' = Tail(cmds)
      BY <1>3, HeadTaken DEF RemoveConn
    <2>2. Head(cmds).conn \notin known'
      BY <1>3 DEF RemoveConn
    <2>3. QED
      BY <2>1, <2>2, EndPops
  <1>4. ASSUME NEW c \in Conns, OnConnect(c)
        PROVE  EndMoves
    <2> DEFINE cmd == [op |-> "connect", conn |-> c]
    <2>1. cmd \in Cmds /\ cmds' = Append(cmds, cmd) /\ cmd.conn = c
      BY <1>4 DEF OnConnect, submit, Cmds
    <2> HIDE DEF cmd
    <2>2. QED
      BY <1>4, <2>1, EndPushes
  <1>5. ASSUME NEW c \in Conns, NEW f \in Frames, OnMessage(c, f)
        PROVE  EndMoves
    <2> DEFINE cmd == [op |-> "frame", conn |-> c, frame |-> f]
    <2>1. cmd \in Cmds /\ cmds' = Append(cmds, cmd) /\ cmd.op = "frame"
      BY <1>5 DEF OnMessage, submit, Cmds
    <2> HIDE DEF cmd
    <2>2. QED
      BY <2>1, EndPushes
  <1>6. ASSUME NEW c \in Conns, OnDisconnect(c)
        PROVE  EndMoves
    BY <1>6, EndIsQueued
  <1>7. CASE UNCHANGED <<cmds>>
    <2>1. Queued' = Queued
      BY <1>7 DEF Queued
    <2>2. \A d : Announced(d)' = Announced(d) /\ EndQueued(d)' = EndQueued(d)
      BY <1>7, <2>1 DEF Announced, EndQueued
    <2>3. QED
      BY <2>2 DEF EndMoves
  <1>8. QED
    BY <1>1, <1>2, <1>3, <1>4, <1>5, <1>6, <1>7
       DEF Next, Engine, Serve, Transport, Flush, acquire, Rejected, NoStream, add, ReadFrame, remove,
           release, Write, WriteFails, ClientCloses, TimerExpires, Expire, Fire

(* No end is lost: who has told of it was present then, and the disconnect *)
(* is queued for as long as the connection is.                             *)
LEMMA EndStep ==
    SessionTypes /\ QueueTypes /\ RegistryTypes /\ QueueInv /\ InOrder /\ KnownInv /\ EndInv
        /\ [Next]_vars => EndInv'
  <1> SUFFICES ASSUME SessionTypes, QueueTypes, RegistryTypes, QueueInv, InOrder, KnownInv, EndInv,
                      [Next]_vars,
                      NEW d \in Conns, phase'[d] \in ToldEnd, Present(d)'
               PROVE  EndQueued(d)'
    BY DEF EndInv
  <1>1. ToldMoves /\ EndMoves /\ KnownMoves
    BY ToldStays, EndsStay, RegistryMoves
  <1>2. ~OnConnect(d)
    BY DEF OnConnect, Goes, SessionTypes, ToldEnd
  <1>3. d \in known' => Present(d)
    <2>1. cmds # <<>> => 1 \in Queued /\ Head(cmds) = cmds[1]
      BY HeardIsKnown
    <2>2. QED
      BY <1>1, <2>1 DEF KnownMoves, Present, Announced
  <1>4. Present(d)
    BY <1>1, <1>2, <1>3 DEF EndMoves, Present
  <1>5. phase[d] \in Told
    BY <1>4 DEF Present, Announced, KnownInv, QueueInv
  <1>6. CASE phase[d] \in ToldEnd
    <2>1. EndQueued(d)
      BY <1>4, <1>6 DEF EndInv
    <2>2. QED
      BY <1>1, <2>1 DEF EndMoves
  <1>7. CASE phase[d] \notin ToldEnd
    <2>1. OnDisconnect(d)
      BY <1>1, <1>5, <1>7 DEF ToldMoves
    <2>2. QED
      BY <2>1, EndIsQueued
  <1>8. QED
    BY <1>6, <1>7

-----------------------------------------------------------------------------
(* Together. *)

IInv ==
    /\ SessionTypes /\ HubTypes /\ TimerTypes /\ QueueTypes /\ RegistryTypes /\ FrameTypes
    /\ ArmedIsLapsed /\ InOrder /\ QueueInv /\ KnownInv
    /\ BoundInv /\ OnlineMeansConnected
    /\ CountInv /\ LimitInv /\ FramesInv
    /\ ClosedInv /\ EndInv

LEMMA InitInv == Init => IInv
  <1> SUFFICES ASSUME Init
               PROVE  IInv
    OBVIOUS
  <1> USE ConstantsOK DEF Init
  <1>1. SessionTypes /\ HubTypes /\ TimerTypes
    BY DEF SessionTypes, HubTypes, TimerTypes, Roles
  <1>2. cmds = <<>> /\ Len(cmds) = 0 /\ cmds \in Seq(Cmds)
    <2>1. Len(<<>>) = 0
      OBVIOUS
    <2>2. QED
      BY <2>1, EmptySeq
  <1>3. Queued = {}
    BY <1>2 DEF Queued
  <1>4. QueueTypes
    BY <1>2 DEF QueueTypes
  <1>5. RegistryTypes /\ FrameTypes /\ ArmedIsLapsed
    BY DEF RegistryTypes, FrameTypes, ArmedIsLapsed
  <1>6. InOrder /\ QueueInv
    BY <1>3 DEF InOrder, QueueInv
  <1>7. KnownInv /\ BoundInv
    BY DEF KnownInv, BoundInv, Told, ToldEnd
  <1>8. OnlineMeansConnected
    BY DEF OnlineMeansConnected
  <1>9. CountInv /\ LimitInv
    <2>1. HasSlot = {}
      BY DEF HasSlot
    <2>2. \A a : SlotsOf(a) = {}
      BY <2>1 DEF SlotsOf
    <2>3. IsFiniteSet({}) /\ Cardinality({}) = 0
      BY FS_EmptySet
    <2>4. total = 0 /\ \A a \in IPs : perIP[a] = 0
      OBVIOUS
    <2>5. IsFiniteSet(HasSlot) /\ Cardinality(HasSlot) = 0 /\ \A a : Cardinality(SlotsOf(a)) = 0
      BY <2>1, <2>2, <2>3
    <2>6. CountInv
      BY <2>4, <2>5 DEF CountInv
    <2>7. LimitInv
      BY <2>4 DEF LimitInv
    <2>8. QED
      BY <2>6, <2>7
  <1>10. FramesInv
    <2>1. \A c \in Conns : Pending(c) = {} /\ InHand(c) = 0
      BY <1>3 DEF Pending, InHand
    <2>2. Cardinality({}) = 0
      BY FS_EmptySet
    <2>3. frames = 0 /\ \A c \in Conns : handled[c] = 0
      OBVIOUS
    <2>4. \A c \in Conns : Cardinality(Pending(c)) = 0
      BY <2>1, <2>2
    <2>5. QED
      BY <2>1, <2>3, <2>4 DEF FramesInv
  <1>11. ClosedInv /\ EndInv
    BY DEF ClosedInv, EndInv, ToldEnd
  <1>12. QED
    BY <1>1, <1>4, <1>5, <1>6, <1>7, <1>8, <1>9, <1>10, <1>11 DEF IInv

LEMMA NextInv == IInv /\ [Next]_vars => IInv'
  BY SessionTypesStep, HubTypesStep, TimerTypesStep, QueueTypesStep, RegistryTypesStep,
     FrameTypesStep, ArmedStep, OrderStep, QueueStep, KnownStep, BoundStep, OnlineStep,
     SlotsMove, CountStep, LimitStep, FramesStep, ClosedStep, EndStep
     DEF IInv

(* The inductive invariant of a session. *)
THEOREM SessionInvariant == Spec => []IInv
  BY InitInv, NextInv, PTL DEF Spec

LEMMA IInvTypeOK == IInv => TypeOK
  <1> SUFFICES ASSUME IInv
               PROVE  TypeOK
    OBVIOUS
  <1>1. total \in Nat /\ perIP \in [IPs -> Nat]
    <2>1. total \in Nat
      BY FS_CardinalityType DEF IInv, CountInv
    <2>2. \A a \in IPs : perIP[a] \in Nat
      BY SlotsOfFinite, FS_CardinalityType DEF IInv, CountInv
    <2>3. QED
      BY <2>1, <2>2 DEF IInv, SessionTypes
  <1>2. handled \in [Conns -> 0 .. MaxFrames]
    <2>1. \A c \in Conns : Cardinality(Pending(c)) \in Nat /\ InHand(c) \in Nat
      BY PendingFinite DEF IInv, InHand
    <2>2. \A c \in Conns : handled[c] <= frames
      BY <2>1 DEF IInv, FramesInv, FrameTypes
    <2>3. QED
      BY <2>2, ConstantsOK DEF IInv, FrameTypes
  <1>3. QED
    BY <1>1, <1>2
       DEF IInv, TypeOK, SessionTypes, HubTypes, TimerTypes, QueueTypes, RegistryTypes, FrameTypes

(* Every variable stays in its type; in particular neither count of the    *)
(* limiter falls below zero, no send queue is longer than its capacity,    *)
(* and no connection has more frames handled than were read.               *)
THEOREM TypeCorrect == Spec => []TypeOK
  BY SessionInvariant, IInvTypeOK, PTL

(* sessionLimiter's counts are those of the sessions that hold a slot, in  *)
(* all and of each address, and stay within the limits - whichever way     *)
(* each session ends.                                                      *)
THEOREM SlotsAreAlwaysSessions == Spec => []SlotsAreSessions
  <1>1. IInv => SlotsAreSessions
    BY DEF IInv, CountInv, LimitInv, SlotsAreSessions, SlotsOf
  <1>2. QED
    BY <1>1, SessionInvariant, PTL

(* connByPl, on which a player's being online depends, has exactly the     *)
(* connections the engine has of the player, and those that left it by a   *)
(* Hello as another player.                                                *)
THEOREM OnlineAlwaysMeansConnected == Spec => []OnlineMeansConnected
  BY SessionInvariant, PTL DEF IInv

(* However many callbacks of a connection's timers wait for the lock, and  *)
(* in whatever order they get it, a reset in between saves the connection  *)
(* from those that had gone off.                                           *)
THEOREM ResetsAlwaysSave == Spec => ResetSaves
  <1>1. IInv /\ [Next]_vars => [expiring' \ expiring \subseteq lapsed]_vars
    <2> SUFFICES ASSUME IInv, [Next]_vars
                 PROVE  expiring' \ expiring \subseteq lapsed
      OBVIOUS
    <2>1. ASSUME NEW c \in Conns, NEW k \in {"armed", "replaced"}, Fire(c, k)
          PROVE  expiring' \ expiring \subseteq lapsed
      BY <2>1 DEF Fire, Current, IInv, ArmedIsLapsed
    <2>2. CASE expiring' \subseteq expiring
      BY <2>2
    <2>3. QED
      BY <2>1, <2>2
         DEF Next, Engine, Serve, Transport, vars, session, hub, timer, AddConn, Dispatch, RemoveConn, Flush,
             acquire, Rejected, NoStream, add, OnConnect, ReadFrame, OnMessage, OnDisconnect, remove,
             release, Reset, Write, WriteFails, ClientCloses, TimerExpires, Expire
  <1>2. QED
    BY <1>1, SessionInvariant, PTL DEF Spec, ResetSaves

(* Whoever ends a connection that the engine has - the hub that drops it,   *)
(* its writer, its idle timer, the client - the session's goroutine will   *)
(* still find the stream closed, or the engine's queue has the disconnect. *)
THEOREM EndIsAlwaysTold == Spec => []EndIsTold
  <1>1. IInv => EndIsTold
    <2> SUFFICES ASSUME IInv, NEW c \in known, closed[c] \/ shut[c]
                 PROVE  EndQueued(c) \/ (shut[c] /\ phase[c] \in {"reading", "forwarding"})
      BY DEF EndIsTold
    <2>1. c \in Conns
      BY DEF IInv, RegistryTypes
    <2>2. shut[c]
      BY <2>1 DEF IInv, ClosedInv
    <2>3. phase[c] \in Told
      BY DEF IInv, KnownInv
    <2>4. phase[c] \in ToldEnd => EndQueued(c)
      BY <2>1 DEF IInv, EndInv, Present
    <2>5. QED
      BY <2>2, <2>3, <2>4 DEF Told, ToldEnd
  <1>2. QED
    BY <1>1, SessionInvariant, PTL

-----------------------------------------------------------------------------
(* The steps of Presence. *)

At == [c \in Conns |-> IF c \in known THEN "known"
                       ELSE IF c \in forgotten THEN "gone" ELSE "unknown"]
Ended == [c \in Conns |-> closed[c] \/ shut[c]]

(* What has ended stays so. *)
LEMMA EndedMoves == HubTypes /\ [Next]_vars => EndsMove
  <1> SUFFICES ASSUME HubTypes, [Next]_vars
               PROVE  EndsMove
    OBVIOUS
  <1> USE ConstantsOK
         DEF vars, session, hub, timer, registry, Deliver, stop, EndsMove, HubTypes
  <1>1. ASSUME Dispatch
        PROVE  EndsMove
    BY <1>1 DEF Dispatch
  <1>2. ASSUME RemoveConn
        PROVE  EndsMove
    BY <1>2 DEF RemoveConn
  <1>3. ASSUME Flush
        PROVE  EndsMove
    BY <1>3 DEF Flush
  <1>4. ASSUME NEW c \in Conns, remove(c)
        PROVE  EndsMove
    BY <1>4 DEF remove
  <1>5. ASSUME NEW c \in Conns, WriteFails(c)
        PROVE  EndsMove
    BY <1>5 DEF WriteFails
  <1>6. ASSUME NEW c \in Conns, ClientCloses(c)
        PROVE  EndsMove
    BY <1>6 DEF ClientCloses
  <1>7. ASSUME NEW c \in Conns, Expire(c)
        PROVE  EndsMove
    BY <1>7 DEF Expire
  <1>8. CASE UNCHANGED <<closed, shut>>
    BY <1>8
  <1>9. QED
    BY <1>1, <1>2, <1>3, <1>4, <1>5, <1>6, <1>7, <1>8
       DEF Next, Engine, Serve, Transport, AddConn, acquire, Rejected, NoStream, add, OnConnect,
           ReadFrame, OnMessage, OnDisconnect, release, Write, TimerExpires, Fire

LEMMA EndedStays == HubTypes /\ HubTypes' /\ [Next]_vars => P!MayEnd
  <1> SUFFICES ASSUME HubTypes, HubTypes', [Next]_vars
               PROVE  P!MayEnd
    OBVIOUS
  <1>1. Ended \in [Conns -> BOOLEAN] /\ Ended' \in [Conns -> BOOLEAN]
    BY DEF HubTypes, Ended
  <1>2. \A d \in Conns : Ended[d] => Ended'[d]
    <2> SUFFICES ASSUME NEW d \in Conns
                 PROVE  Ended[d] => Ended'[d]
      OBVIOUS
    <2>1. Ended[d] = (closed[d] \/ shut[d]) /\ Ended'[d] = (closed'[d] \/ shut'[d])
      BY DEF Ended
    <2>2. EndsMove
      BY EndedMoves
    <2>3. (closed[d] => closed'[d]) /\ (shut[d] => shut'[d])
      BY <2>2, Zenon DEF EndsMove
    <2>4. QED
      BY <2>1, <2>3
  <1>3. QED
    BY <1>1, <1>2 DEF P!MayEnd, Ended

LEMMA DispatchIsHeard ==
    ASSUME IInv, HubTypes', Dispatch
    PROVE  \E c \in Conns : P!IsHeard(c)
  <1>1. PICK h \in Conns : h = Head(cmds).conn /\ cmds # <<>> /\ Head(cmds).op = "frame"
    BY DispatchHead DEF IInv
  <1>2. h \in known
    BY <1>1, HeardIsKnown DEF IInv
  <1>3. UNCHANGED <<known, forgotten>>
    <2>1. [Next]_vars
      BY DEF Next, Engine
    <2>2. KnownMoves
      BY <2>1, RegistryMoves DEF IInv
    <2>3. QED
      BY <1>1, <2>2 DEF KnownMoves
  <1>4. At[h] = "known" /\ At' = At
    BY <1>1, <1>2, <1>3 DEF At
  <1>5. handled' = [handled EXCEPT ![h] = @ + 1]
    BY <1>1 DEF Dispatch
  <1>6. P!MayEnd
    BY EndedStays DEF IInv, Next, Engine
  <1>7. P!IsHeard(h)
    BY <1>4, <1>5, <1>6 DEF P!IsHeard, At
  <1>8. QED
    BY <1>7

LEMMA AddConnAppears ==
    ASSUME IInv, HubTypes', AddConn
    PROVE  \E c \in Conns : P!Appears(c)
  <1>1. PICK h \in Conns : h = Head(cmds).conn /\ cmds # <<>> /\ Head(cmds).op = "connect" /\ cmds[1] = Head(cmds) /\ 1 \in Queued
    BY HeadTaken, HeardIsKnown DEF AddConn, IInv
  <1>2. h \notin known /\ h \notin forgotten
    BY <1>1 DEF IInv, QueueInv
  <1>3. known' = known \cup {h} /\ forgotten' = forgotten /\ handled' = handled
    BY <1>1 DEF AddConn, registry
  <1>4. At[h] = "unknown" /\ At' = [At EXCEPT ![h] = "known"]
    BY <1>1, <1>2, <1>3 DEF At
  <1>5. P!MayEnd
    BY EndedStays DEF IInv, Next, Engine
  <1>6. P!Appears(h)
    BY <1>3, <1>4, <1>5 DEF P!Appears, At
  <1>7. QED
    BY <1>6

LEMMA RemoveConnDisappears ==
    ASSUME IInv, HubTypes', RemoveConn
    PROVE  \E c \in Conns : P!Disappears(c)
  <1>1. PICK h \in Conns : h = Head(cmds).conn /\ cmds # <<>> /\ Head(cmds).op = "disconnect" /\ cmds[1] = Head(cmds) /\ 1 \in Queued
    BY HeadTaken, HeardIsKnown DEF RemoveConn, IInv
  <1>2. h \in known /\ shut[h]
    BY <1>1, HeardIsKnown DEF IInv, QueueInv
  <1>3. known' = known \ {h} /\ forgotten' = forgotten \cup {h} /\ handled' = handled
    BY <1>1 DEF RemoveConn
  <1>4. At[h] = "known" /\ Ended[h] /\ At' = [At EXCEPT ![h] = "gone"]
    BY <1>1, <1>2, <1>3 DEF At, Ended
  <1>5. P!MayEnd
    BY EndedStays DEF IInv, Next, Engine
  <1>6. P!Disappears(h)
    BY <1>3, <1>4, <1>5 DEF P!Disappears, At, Ended
  <1>7. QED
    BY <1>6

LEMMA StepIsAbstract == IInv /\ IInv' /\ [Next]_vars => [P!Next]_(P!vars)
  <1> SUFFICES ASSUME IInv, HubTypes', [Next]_vars
               PROVE  P!Next
    BY DEF IInv
  <1>1. CASE AddConn \/ Dispatch \/ RemoveConn
    <2>1. \E c \in Conns : P!Appears(c) \/ P!IsHeard(c) \/ P!Disappears(c)
      <3>1. CASE AddConn
        BY <3>1, AddConnAppears
      <3>2. CASE Dispatch
        BY <3>2, DispatchIsHeard
      <3>3. CASE RemoveConn
        BY <3>3, RemoveConnDisappears
      <3>4. QED
        BY <1>1, <3>1, <3>2, <3>3
    <2>2. QED
      BY <2>1 DEF P!Next
  <1>2. CASE UNCHANGED <<known, forgotten, handled>>
    <2>1. P!MayEnd
      BY EndedStays DEF IInv
    <2>2. QED
      BY <1>2, <2>1 DEF P!Next, P!Ends
  <1>3. QED
    BY <1>1, <1>2
       DEF Next, Engine, Serve, Transport, vars, session, hub, timer, registry,
           Flush, acquire, Rejected, NoStream, add, OnConnect, ReadFrame, OnMessage, OnDisconnect,
           remove, release, Write, WriteFails, ClientCloses, TimerExpires, Expire, Fire

LEMMA InitIsAbstract == Init => P!Init
  BY DEF Init, P!Init

(* What limiter, hub, timers, queue and engine do together is what         *)
(* Presence promises: each connection appears to the engine once, is heard *)
(* only while the engine has it, and disappears once, when it has ended.   *)
THEOREM ImplementsPresenceSafely == Spec => P!Init /\ [][P!Next]_(P!vars)
  BY SessionInvariant, InitIsAbstract, StepIsAbstract, PTL DEF Spec

=============================================================================
