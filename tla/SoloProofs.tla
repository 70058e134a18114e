------------------------------ MODULE SoloProofs ------------------------------
(***************************************************************************)
(* The safety of Solo for any playlist, requests, orders and bounds,       *)
(* however requests overlap, commands to the deck fail, lyrics come late   *)
(* and the trivia game interferes.                                         *)
(***************************************************************************)
EXTENDS Solo, TLAPS, WellFoundedInduction

Listed(q) == q \in Seq(Tracks) /\ Once(q)

ModeTypes ==
    /\ active \in BOOLEAN /\ paused \in BOOLEAN /\ shuffle \in BOOLEAN /\ repeat \in Repeats
    /\ currentTrack \in Tracks \cup {None}
    /\ index \in Int /\ index >= -1
    /\ plays \in Nat /\ playToken \in 0 .. plays

GameTypes ==
    /\ game \in {"LOBBY", "LIVE", "GAME_OVER"} /\ curTrack \in Tracks \cup {None}
    /\ rounds \in Nat /\ roundKey \in 0 .. rounds

DeckTypes ==
    /\ deck \in [track : Tracks \cup {None}, playing : BOOLEAN]
    /\ ended \in BOOLEAN /\ failed \in BOOLEAN /\ muted \in BOOLEAN /\ overridden \in BOOLEAN

View == [lines : Tracks \cup {None}, status : {"", "loading", "ready", "none"}, play : Nat]

StageTypes ==
    /\ stage \in BOOLEAN /\ unseen \in BOOLEAN /\ strayed \in BOOLEAN /\ syncs \in Nat
    /\ view \in View

Waiter ==
    [by : {"solo", "trivia"}, token : Nat, track : Tracks, sync : Nat, late : BOOLEAN,
     got : {"nothing"} \cup Outcomes]

LyricTypes ==
    /\ cache \in [Tracks -> {"absent", "fetching"} \cup Outcomes]
    /\ fetches \in [Tracks -> Nat]
    /\ waiters \subseteq Waiter

(* Every list is one: the rows, the engine's copy, and what a request has  *)
(* read and not handed over yet.                                           *)
ListTypes ==
    /\ Listed(queue) /\ Listed(playlist)
    /\ Named(playlist) \subseteq added /\ added \subseteq Tracks
    /\ request \in [Requests -> [step : {"idle", "written", "read"}, list : Seq(Tracks)]]
    /\ \A r \in Requests : /\ Once(request[r].list)
                           /\ request[r].step = "idle" => request[r] = Idle
    /\ overlapped \subseteq Requests /\ unsynced \in BOOLEAN

(* Two requests that run at once know that they overlap; one that does not *)
(* has read the list as it is.                                             *)
EditsInv ==
    /\ \A r, s \in Requests : ~Free(r) /\ ~Free(s) /\ r # s => r \in overlapped
    /\ \A r \in Requests : request[r].step = "read" /\ r \notin overlapped =>
                               request[r].list = playlist

(* A goroutine that waits for the play that is on is for its song. *)
TokenInv ==
    /\ active => playToken # 0
    /\ view.play <= plays
    /\ \A w \in waiters : w.by = "solo" =>
           w.token \in 1 .. plays /\ (w.token = playToken => w.track = currentTrack)

(* Who waits waits for a fetch that is under way, or has its answer; lines *)
(* stay in the cache; and somebody waits as long as the stage has not been *)
(* told of this play.                                                      *)
FedInv ==
    \A w \in waiters : /\ w.got = "nothing" => fetches[w.track] > 0
                       /\ w.got = "lines" => cache[w.track] = "lines"

Settled == view.play = playToken /\ view.status \in {"ready", "none"}
AwaitedInv ==
    active /\ stage => Settled \/ \E w \in waiters : w.by = "solo" /\ w.token = playToken

(* What a page shows, connected or not.  One that has been there since the  *)
(* song started has no other song's lines; one that is there has them only *)
(* after a game; and who was told that they are ready is told so again,    *)
(* since the cache has them.                                               *)
LinesInv ==
    active /\ ~strayed /\ ~overridden =>
        /\ ~unseen => view.lines \in {None, currentTrack}
        /\ stage => view.lines \in {None, currentTrack} \/ game = "GAME_OVER"
        /\ view.play = playToken /\ view.status = "ready" =>
               view.lines = currentTrack /\ cache[currentTrack] = "lines"

IInv ==
    /\ ModeTypes /\ GameTypes /\ DeckTypes /\ StageTypes /\ LyricTypes /\ ListTypes
    /\ EditsInv /\ TokenInv /\ FedInv /\ AwaitedInv
    /\ IndexIsCurrent /\ SoloOwnsTheDeck /\ LinesInv /\ OneFetchPerSong /\ QueueInSync

-----------------------------------------------------------------------------
(* Lists.  What Kept computes follows by induction on the rows it has read, *)
(* here as the least row for which it would be wrong.                       *)

LEMMA Least ==
    ASSUME NEW T, T \subseteq Nat, T # {}
    PROVE  \E n \in T : \A m \in T : n <= m
  <1>1. PICK n \in T : \A m \in T : <<m, n>> \notin OpToRel(<, Nat)
    BY NatLessThanWellFounded, WFMin, Zenon
  <1>2. \A m \in T : m \in Nat /\ n \in Nat /\ ~(m < n)
    BY <1>1, Zenon DEF OpToRel
  <1>3. \A m \in T : n <= m
    BY <1>2
  <1>4. QED
    BY <1>1, <1>3, Zenon

(* What Kept makes of row n, when k is what it has made of those before. *)
KeptStep(q, S, k, n) ==
    IF n = 0 THEN <<>> ELSE IF q[n] \in S THEN Append(k[n - 1], q[n]) ELSE k[n - 1]

(* The function Kept defines is there. *)
LEMMA KeptDefined ==
    ASSUME NEW q, NEW S, NEW N \in Nat
    PROVE  \E k : k = [n \in 0 .. N |-> KeptStep(q, S, k, n)]
  <1> DEFINE Step(k, n) == KeptStep(q, S, k, n)
             T == {m \in 0 .. N : ~ \E k : k = [n \in 0 .. m |-> Step(k, n)]}
  <1> USE DEF KeptStep
  <1>4. T \subseteq Nat
    OBVIOUS
  <1>1. ASSUME T # {}
        PROVE  FALSE
    <2>1. PICK m \in T : \A j \in T : m <= j
      <3> HIDE DEF T
      <3>1. QED
        BY <1>1, <1>4, Least, Zenon
    <2>9. m \in 0 .. N /\ ~ \E k : k = [n \in 0 .. m |-> Step(k, n)]
      BY <2>1
    <2>2. m # 0
      <3>1. [n \in 0 .. 0 |-> <<>>] = [n \in 0 .. 0 |-> Step([i \in 0 .. 0 |-> <<>>], n)]
        OBVIOUS
      <3>2. \E k : k = [n \in 0 .. 0 |-> Step(k, n)]
        <4> HIDE DEF Step
        <4> QED
          BY <3>1, Zenon
      <3>3. QED
        BY <2>9, <3>2
    <2>3. m - 1 \in 0 .. N /\ m - 1 \notin T
      <3>1. m - 1 \in 0 .. N /\ ~(m <= m - 1)
        BY <2>9, <2>2
      <3> HIDE DEF T
      <3>2. QED
        BY <2>1, <3>1
    <2>4. PICK k : k = [n \in 0 .. m - 1 |-> Step(k, n)]
      BY <2>3
    <2> DEFINE l == [n \in 0 .. m |-> IF n = m THEN Step(k, m) ELSE k[n]]
    <2>5. l = [n \in 0 .. m |-> Step(l, n)]
      <3>1. m \in Nat
        BY <2>1
      <3>2. \A n \in 0 .. m : n # m => n \in 0 .. m - 1
        BY <3>1
      <3>3. \A n \in 0 .. m : n # 0 => n - 1 \in 0 .. m /\ n - 1 # m
        BY <3>1
      <3>4. \A n \in 0 .. m - 1 : k[n] = Step(k, n)
        BY <2>4
      <3>5. \A n \in 0 .. m : n # 0 => l[n - 1] = k[n - 1]
        BY <3>3
      <3>6. \A n \in 0 .. m : l[n] = Step(k, n)
        BY <3>2, <3>4
      <3>7. \A n \in 0 .. m : Step(k, n) = Step(l, n)
        BY <3>5
      <3>8. QED
        BY <3>6, <3>7
    <2>6. \E h : h = [n \in 0 .. m |-> Step(h, n)]
      BY <2>5
    <2>7. QED
      BY <2>9, <2>6
  <1>2. N \in 0 .. N /\ N \notin T
    <2> HIDE DEF T
    <2>1. QED
      BY <1>1
  <1>3. QED
    BY <1>2, Zenon

LEMMA AppendOnce ==
    ASSUME NEW q, Listed(q), NEW t \in Tracks, ~In(q, t)
    PROVE  Listed(Append(q, t)) /\ \A u : In(Append(q, t), u) <=> In(q, u) \/ u = t
  <1> DEFINE a == Append(q, t)
  <1>1. q \in Seq(Tracks) /\ Len(q) \in Nat /\ DOMAIN q = 1 .. Len(q)
    BY DEF Listed
  <1>2. /\ a \in Seq(Tracks) /\ DOMAIN a = 1 .. Len(q) + 1
        /\ a[Len(q) + 1] = t /\ \A i \in 1 .. Len(q) : a[i] = q[i]
    BY <1>1
  <1> HIDE DEF a
  <1>3. \A i \in DOMAIN a : i \in DOMAIN q \/ i = Len(q) + 1
    BY <1>1, <1>2
  <1>4. \A i \in DOMAIN q : i \in DOMAIN a /\ a[i] = q[i] /\ q[i] # t
    BY <1>1, <1>2 DEF In
  <1>5. Len(q) + 1 \in DOMAIN a
    BY <1>1, <1>2
  <1>6. Once(a)
    BY <1>2, <1>3, <1>4 DEF Listed, Once
  <1>7. \A u : In(a, u) <=> In(q, u) \/ u = t
    BY <1>2, <1>3, <1>4, <1>5 DEF In
  <1>8. QED
    BY <1>2, <1>6, <1>7 DEF Listed, a

LEMMA KeptIs ==
    ASSUME NEW q, Listed(q), NEW S
    PROVE  Listed(Kept(q, S)) /\ \A t : In(Kept(q, S), t) <=> In(q, t) /\ t \in S
  <1> DEFINE N == Len(q)
             k == CHOOSE k : k = [n \in 0 .. N |-> KeptStep(q, S, k, n)]
             Good(n) == Listed(k[n]) /\ \A t : In(k[n], t) <=> t \in S /\ \E i \in 1 .. n : q[i] = t
             T == {n \in 0 .. N : ~Good(n)}
  <1>1. Kept(q, S) = k[N]
    BY DEF Kept, KeptStep
  <1>2. N \in Nat /\ q \in Seq(Tracks) /\ \A i \in 1 .. N : q[i] \in Tracks
    BY DEF Listed
  <1>3. k = [n \in 0 .. N |-> KeptStep(q, S, k, n)]
    <2> HIDE DEF N
    <2>1. \E f : f = [n \in 0 .. N |-> KeptStep(q, S, f, n)]
      BY <1>2, KeptDefined, Zenon
    <2>2. QED
      BY <2>1, Zenon
  <1> HIDE DEF k, N
  <1>4. k[0] = <<>> /\ \A n \in 1 .. N : k[n] = IF q[n] \in S THEN Append(k[n - 1], q[n])
                                                ELSE k[n - 1]
    <2>1. 0 \in 0 .. N /\ \A n \in 1 .. N : n \in 0 .. N /\ n # 0
      BY <1>2
    <2>2. QED
      BY <1>3, <2>1, Zenon DEF KeptStep
  <1>9. T \subseteq Nat
    OBVIOUS
  <1> HIDE DEF T
  <1>5. ASSUME T # {}
        PROVE  FALSE
    <2>1. PICK n \in T : \A j \in T : n <= j
      BY <1>5, <1>9, Least, Zenon
    <2>2. n \in 0 .. N /\ ~Good(n)
      BY <2>1 DEF T
    <2>3. n # 0
      <3>1. Listed(<<>>) /\ \A t : ~In(<<>>, t)
        BY DEF Listed, Once, In
      <3>2. \A u : ~ \E i \in 1 .. 0 : q[i] = u
        OBVIOUS
      <3>3. Good(0)
        BY <1>4, <3>1, <3>2
      <3>4. QED
        BY <2>2, <3>3
    <2>4. n \in 1 .. N /\ n - 1 \in 0 .. N
      BY <1>2, <2>2, <2>3
    <2>5. Good(n - 1)
      <3>1. n - 1 \notin T
        BY <2>1, <2>2, <2>4
      <3>2. QED
        BY <2>4, <3>1 DEF T
    <2> DEFINE j == k[n - 1]
               t == q[n]
    <2>6. Listed(j) /\ \A u : In(j, u) <=> u \in S /\ \E i \in 1 .. n - 1 : q[i] = u
      BY <2>5
    <2>7. t \in Tracks /\ ~ \E i \in 1 .. n - 1 : q[i] = t
      BY <1>2, <2>4 DEF Listed, Once, N
    <2>8. \A u : (\E i \in 1 .. n : q[i] = u) <=> (u = t \/ \E i \in 1 .. n - 1 : q[i] = u)
      BY <2>4
    <2> HIDE DEF j, t
    <2>9. k[n] = IF t \in S THEN Append(j, t) ELSE j
      BY <1>4, <2>4 DEF j, t
    <2>10. Good(n)
      <3>1. CASE t \in S
        <4>1. Listed(Append(j, t)) /\ \A u : In(Append(j, t), u) <=> In(j, u) \/ u = t
          BY <2>6, <2>7, AppendOnce
        <4>2. QED
          BY <2>6, <2>8, <2>9, <3>1, <4>1
      <3>2. CASE t \notin S
        BY <2>6, <2>8, <2>9, <3>2
      <3>3. QED
        BY <3>1, <3>2
    <2>11. QED
      BY <2>2, <2>10
  <1>6. Good(N)
    <2>1. N \in 0 .. N
      BY <1>2
    <2>2. QED
      BY <1>5, <2>1 DEF T
  <1>7. \A t : In(q, t) <=> \E i \in 1 .. N : q[i] = t
    BY DEF In, N, Listed
  <1>8. QED
    BY <1>1, <1>6, <1>7

(* Two lists with nothing in common. *)
LEMMA ConcatOnce ==
    ASSUME NEW q, NEW r, Listed(q), Listed(r), \A t : ~(In(q, t) /\ In(r, t))
    PROVE  Listed(q \o r) /\ \A t : In(q \o r, t) <=> In(q, t) \/ In(r, t)
  <1> DEFINE c == q \o r
             m == Len(q)
  <1>1. /\ q \in Seq(Tracks) /\ r \in Seq(Tracks) /\ m \in Nat /\ Len(r) \in Nat
        /\ DOMAIN q = 1 .. m /\ DOMAIN r = 1 .. Len(r)
    BY DEF Listed
  <1>2. /\ c \in Seq(Tracks) /\ DOMAIN c = 1 .. m + Len(r)
        /\ \A i \in 1 .. m + Len(r) : c[i] = IF i <= m THEN q[i] ELSE r[i - m]
    BY <1>1
  <1> HIDE DEF c, m
  <1>3. \A i \in DOMAIN c : \/ i \in DOMAIN q /\ c[i] = q[i]
                            \/ i - m \in DOMAIN r /\ c[i] = r[i - m]
    BY <1>1, <1>2
  <1>4. \A i \in DOMAIN q : i \in DOMAIN c /\ c[i] = q[i]
    BY <1>1, <1>2
  <1>5. \A i \in DOMAIN r : i + m \in DOMAIN c /\ c[i + m] = r[i]
    BY <1>1, <1>2
  <1>6. \A i, j \in DOMAIN c : i - m = j - m => i = j
    BY <1>1, <1>2
  <1>7. Once(c)
    BY <1>3, <1>6 DEF Listed, Once, In
  <1>8. \A t : In(c, t) <=> In(q, t) \/ In(r, t)
    BY <1>3, <1>4, <1>5 DEF In
  <1>9. QED
    BY <1>2, <1>7, <1>8 DEF Listed, c

-----------------------------------------------------------------------------
(* What the steps have in common: a song starts, the session ends, or a     *)
(* report of a song's end finds no session.                                 *)

PlaysAt(i) ==
    /\ soloKaraokePlayAt(i)
    /\ active' = TRUE /\ overridden' = overridden
    /\ active \/ game # "LIVE"
    /\ ended' \in {ended, FALSE}

Quits ==
    /\ soloKaraokeDeactivate
    /\ overridden' = FALSE
    /\ ended' \in {ended, FALSE}

Ignores ==
    /\ ~active
    /\ ended' = FALSE
    /\ UNCHANGED <<solo, queue, knobs, trivia, http, deck, failed, muted, overridden, lyrics, theStage,
                   counts>>

Steps ==
    \/ EditsPlaylist \/ Lyrics \/ Trivia
    \/ \E i \in 0 .. Len(queue) - 1 : PlaysAt(i)
    \/ Quits \/ Ignores
    \/ Pause \/ Resume \/ Seek \/ TrackEnds
    \/ \E s \in BOOLEAN, r \in Repeats : SetKnobs(s, r)

LEMMA ForwardEffect ==
    ASSUME IInv, active, StepForward, ended' \in {ended, FALSE}
    PROVE  (\E i \in 0 .. Len(queue) - 1 : PlaysAt(i)) \/ Quits
  <1>1. CASE NextIndexes = {}
    BY <1>1 DEF StepForward, Quits
  <1>2. CASE NextIndexes # {}
    <2>1. PICK i \in NextIndexes : soloKaraokePlayAt(i)
      BY <1>2 DEF StepForward
    <2>2. UNCHANGED <<active, overridden>>
      BY <1>2 DEF StepForward
    <2>3. i \in 0 .. Len(queue) - 1
      <3>1. index \in Int /\ index >= -1 /\ Len(queue) \in Nat
        BY DEF IInv, ModeTypes, ListTypes, Listed
      <3>2. QED
        BY <3>1 DEF NextIndexes
    <2>4. PlaysAt(i)
      BY <2>1, <2>2 DEF PlaysAt, IInv, ModeTypes
    <2>5. QED
      BY <2>3, <2>4
  <1>3. QED
    BY <1>1, <1>2

LEMMA NextSteps == IInv /\ [Next]_vars => [Steps]_vars
  <1> SUFFICES ASSUME IInv, Next
               PROVE  Steps
    OBVIOUS
  <1>1. /\ index \in Int /\ index >= -1 /\ Len(queue) \in Nat /\ active \in BOOLEAN
        /\ queue # <<>> => Len(queue) # 0
    BY DEF IInv, ModeTypes, ListTypes, Listed
  <1>2. ASSUME NEW t \in Tracks \cup {None}, Play(t)
        PROVE  Steps
    <2>1. PICK i \in 0 .. Len(queue) - 1 : soloKaraokePlayAt(i)
      BY <1>2 DEF Play
    <2>2. PlaysAt(i)
      BY <1>2, <2>1 DEF Play, PlaysAt
    <2>3. QED
      BY <2>2 DEF Steps
  <1>3. CASE Stop
    BY <1>3 DEF Stop, Quits, Steps
  <1>4. CASE NextTrack
    BY <1>4, ForwardEffect DEF NextTrack, Steps
  <1>5. CASE Prev
    <2> DEFINE i == IF index - 1 < 0 THEN 0 ELSE index - 1
    <2>1. active /\ queue # <<>> /\ soloKaraokePlayAt(i)
      BY <1>5 DEF Prev
    <2>2. i \in 0 .. Len(queue) - 1
      <3>1. index = -1 \/ index \in 0 .. Len(queue) - 1
        BY <2>1 DEF IInv, IndexIsCurrent, Indexed
      <3>2. QED
        BY <1>1, <2>1, <3>1
    <2> HIDE DEF i
    <2>3. PlaysAt(i)
      BY <1>1, <1>5, <2>1 DEF PlaysAt, Prev
    <2>4. QED
      BY <2>2, <2>3 DEF Steps
  <1>6. CASE TrackEnded
    <2>1. ended' = FALSE
      BY <1>6 DEF TrackEnded
    <2>2. CASE ~active
      BY <1>6, <2>2 DEF TrackEnded, Ignores, Steps
    <2>3. CASE active /\ repeat = "one" /\ Indexed
      <3>1. soloKaraokePlayAt(index) /\ UNCHANGED <<active, overridden>>
        BY <1>6, <2>3 DEF TrackEnded, soloKaraokeAdvance
      <3>2. PlaysAt(index) /\ index \in 0 .. Len(queue) - 1
        BY <1>1, <2>1, <2>3, <3>1 DEF PlaysAt, Indexed
      <3>3. QED
        BY <3>2 DEF Steps
    <2>4. CASE active /\ ~(repeat = "one" /\ Indexed)
      <3>1. StepForward
        BY <1>6, <2>4 DEF TrackEnded, soloKaraokeAdvance
      <3>2. QED
        BY <2>1, <2>4, <3>1, ForwardEffect DEF Steps
    <2>5. QED
      BY <1>1, <2>2, <2>3, <2>4
  <1>7. QED
    BY <1>2, <1>3, <1>4, <1>5, <1>6 DEF Next, Playback, Steps

-----------------------------------------------------------------------------
(* The pieces a step is made of. *)

LEMMA SongAt ==
    ASSUME IInv, NEW i \in 0 .. Len(queue) - 1
    PROVE  queue[i + 1] \in Tracks /\ queue[i + 1] # None /\ In(queue, queue[i + 1])
  <1>1. queue \in Seq(Tracks)
    BY DEF IInv, ListTypes, Listed
  <1>2. i + 1 \in DOMAIN queue
    BY <1>1
  <1>3. QED
    BY <1>1, <1>2, ConstantsOK DEF In

LEMMA NewIndexIs ==
    ASSUME IInv, NEW q, Listed(q)
    PROVE  /\ NewIndex(q) \in Int /\ NewIndex(q) >= -1
           /\ currentTrack # None =>
                  IF In(q, currentTrack)
                  THEN NewIndex(q) \in 0 .. Len(q) - 1 /\ q[NewIndex(q) + 1] = currentTrack
                  ELSE NewIndex(q) = -1
  <1>1. index \in Int /\ index >= -1
    BY DEF IInv, ModeTypes
  <1>2. CASE currentTrack = None
    BY <1>1, <1>2 DEF NewIndex
  <1>3. CASE currentTrack # None /\ In(q, currentTrack)
    <2> DEFINE i == CHOOSE i \in DOMAIN q : q[i] = currentTrack
    <2>1. i \in DOMAIN q /\ q[i] = currentTrack
      BY <1>3, Zenon DEF In
    <2>2. NewIndex(q) = i - 1
      BY <1>3 DEF NewIndex
    <2> HIDE DEF i
    <2>3. i \in 1 .. Len(q) /\ Len(q) \in Nat
      BY <2>1 DEF Listed
    <2>4. QED
      BY <1>3, <2>1, <2>2, <2>3
  <1>4. CASE currentTrack # None /\ ~In(q, currentTrack)
    BY <1>4 DEF NewIndex
  <1>5. QED
    BY <1>2, <1>3, <1>4

(* The deck when the page has paused it. *)
LEMMA SilentIs ==
    ASSUME DeckTypes
    PROVE  /\ Silent \in [track : Tracks \cup {None}, playing : BOOLEAN]
           /\ Silent.track = deck.track /\ Silent.playing = FALSE
  BY DEF DeckTypes, Silent

(* The deck after a command, whether it worked or not. *)
LEMMA LoadTypes ==
    ASSUME DeckTypes, NEW t \in Tracks, loadAndPlayTrack(t)
    PROVE  /\ deck' \in [track : Tracks \cup {None}, playing : BOOLEAN]
           /\ failed' \in BOOLEAN /\ muted' \in BOOLEAN
  <1>1. CASE deck' = [track |-> t, playing |-> TRUE] /\ failed' = FALSE /\ muted' = FALSE
    BY <1>1
  <1>2. CASE failed' = TRUE /\ deck' \in {deck, Silent} /\ UNCHANGED muted
    BY <1>2, SilentIs DEF DeckTypes
  <1>3. QED
    BY <1>1, <1>2 DEF loadAndPlayTrack

LEMMA TellTypes ==
    ASSUME DeckTypes, NEW play \in BOOLEAN, TellDeck(play)
    PROVE  /\ deck' \in [track : Tracks \cup {None}, playing : BOOLEAN]
           /\ failed' \in BOOLEAN /\ muted' \in BOOLEAN
           /\ deck'.track = deck.track
           /\ ~failed' => ~failed /\ deck'.playing = (play /\ deck.track # None)
  <1>1. /\ Doing(play) \in [track : Tracks \cup {None}, playing : BOOLEAN]
        /\ Doing(play).track = deck.track /\ Doing(play).playing = (play /\ deck.track # None)
    BY DEF DeckTypes, Doing
  <1>2. PICK d : d = Doing(play)
    OBVIOUS
  <1>3. CASE deck' = d /\ muted' = (muted /\ ~play) /\ UNCHANGED failed
    BY <1>1, <1>2, <1>3 DEF DeckTypes
  <1>4. CASE failed' = TRUE /\ deck' \in {deck, d} /\ UNCHANGED muted
    BY <1>1, <1>2, <1>4 DEF DeckTypes
  <1>5. QED
    BY <1>2, <1>3, <1>4 DEF TellDeck

LEMMA FetchEffect ==
    ASSUME LyricTypes, OneFetchPerSong, NEW t \in Tracks, lyricFetch(t)
    PROVE  /\ cache' \in [Tracks -> {"absent", "fetching"} \cup Outcomes]
           /\ fetches' \in [Tracks -> Nat]
           /\ OneFetchPerSong'
  <1>1. CASE cache[t] = "absent"
    BY <1>1 DEF lyricFetch, LyricTypes, OneFetchPerSong, Outcomes
  <1>2. CASE cache[t] # "absent"
    BY <1>2 DEF lyricFetch, LyricTypes, OneFetchPerSong
  <1>3. QED
    BY <1>1, <1>2

LEMMA SentIs ==
    ASSUME NEW v \in View, NEW by \in {"solo", "trivia"}, NEW token \in Nat, NEW t \in Tracks,
           NEW o \in Outcomes \cup {"nothing"}
    PROVE  LET s == Sent(v, by, token, t, o)
           IN  /\ s \in View
               /\ s.lines = IF o = "lines" THEN t ELSE v.lines
               /\ by = "solo" => /\ s.play = token /\ s.status \in {"ready", "none"}
                                 /\ s.status = "ready" => o = "lines"
               /\ by = "trivia" => s.play = v.play /\ s.status = v.status
  BY DEF Sent, View

LEMMA FetchAndSendIs ==
    ASSUME LyricTypes, NEW by \in {"solo", "trivia"}, NEW token \in Nat, NEW t \in Tracks,
           NEW v \in View, NEW n \in Nat, NEW heard \in BOOLEAN,
           FetchAndSend(by, token, t, v, n, heard)
    PROVE  /\ lyricFetch(t)
           /\ \E o \in Outcomes : view' = Sent(v, by, token, t, o) \/ view' = v
           /\ view' \in View
           /\ waiters' \subseteq Waiter
           /\ \A w \in waiters' : w \in waiters \/ (w.by = by /\ w.token = token /\ w.track = t)
  <1>1. CASE cache[t] \in Outcomes
    <2>1. /\ view' = (IF heard THEN Sent(v, by, token, t, cache[t]) ELSE v)
          /\ waiters' = waiters /\ lyricFetch(t)
      BY <1>1 DEF FetchAndSend
    <2>2. view' \in View
      BY <1>1, <2>1, SentIs
    <2>3. QED
      BY <1>1, <2>1, <2>2 DEF LyricTypes
  <1>2. CASE cache[t] \notin Outcomes
    <2> DEFINE w == [by |-> by, token |-> token, track |-> t, sync |-> n, late |-> FALSE,
                     got |-> "nothing"]
    <2>1. view' = v /\ waiters' = waiters \cup {w} /\ lyricFetch(t)
      BY <1>2 DEF FetchAndSend
    <2>2. w \in Waiter /\ w.by = by /\ w.token = token /\ w.track = t
      BY DEF Waiter
    <2> HIDE DEF w
    <2>3. "lines" \in Outcomes
      BY DEF Outcomes
    <2>4. QED
      BY <2>1, <2>2, <2>3 DEF LyricTypes
  <1>3. QED
    BY <1>1, <1>2

LEMMA ClearedIs ==
    ASSUME NEW v \in View
    PROVE  /\ Cleared(v) \in View /\ Cleared(v).lines = None
           /\ Cleared(v).play = v.play /\ Cleared(v).status = v.status
  BY DEF Cleared, View

LEMMA BlankIs == Blank \in View /\ Blank.lines = None /\ Blank.play = 0 /\ Blank.status = ""
  BY DEF Blank, View

(* The page when the lines have been cleared, if it is there. *)
LEMMA HeardIs ==
    ASSUME view \in View
    PROVE  /\ Heard \in View /\ Heard.play = view.play /\ Heard.status = view.status
           /\ Heard.lines \in {view.lines, None} /\ (stage => Heard.lines = None)
           /\ ~stage => Heard = view
  BY ClearedIs DEF Heard

(* The page when it has been told the game's state. *)
LEMMA SyncedIs ==
    ASSUME view \in View, NEW v \in Synced
    PROVE  /\ v \in View /\ v.play = view.play /\ v.status = view.status
           /\ v.lines \in {view.lines, None} /\ (game = "LOBBY" => v.lines = None)
  <1>1. v \in {view, Cleared(view)} /\ (game = "LOBBY" => v = Cleared(view))
    BY DEF Synced
  <1>2. QED
    BY <1>1, ClearedIs

(* What asking for lyrics does to a stage that shows v, and who waits after. *)
LEMMA AskIs ==
    ASSUME LyricTypes, NEW by \in {"solo", "trivia"}, NEW token \in Nat, NEW t \in Tracks,
           NEW v \in View, NEW n \in Nat, NEW heard \in BOOLEAN,
           FetchAndSend(by, token, t, v, n, heard)
    PROVE  /\ view'.play \in {v.play, token}
           /\ view'.lines \in {v.lines, t}
           /\ by = "solo" => \/ view' = v
                             \/ view'.status = "ready" => view'.lines = t /\ cache'[t] = "lines"
           /\ \A w \in waiters' : w \in waiters \/ (w.by = by /\ w.token = token /\ w.track = t)
  <1>1. CASE cache[t] \in Outcomes
    <2>1. PICK o \in Outcomes : o = cache[t]
      BY <1>1
    <2>2. PICK s : s = Sent(v, by, token, t, o)
      OBVIOUS
    <2>3. /\ view' = IF heard THEN s ELSE v
          /\ waiters' = waiters /\ cache' = cache
      BY <2>1, <2>2 DEF FetchAndSend, lyricFetch, Outcomes
    <2>4. /\ s.lines = IF o = "lines" THEN t ELSE v.lines
          /\ by = "solo" => s.play = token /\ (s.status = "ready" => o = "lines")
          /\ by = "trivia" => s.play = v.play
      BY <2>2, SentIs
    <2>5. QED
      BY <2>1, <2>3, <2>4
  <1>2. CASE cache[t] \notin Outcomes
    <2>1. view' = v /\ cache[t] # "lines"
      BY <1>2 DEF FetchAndSend, Outcomes
    <2>2. \A w \in waiters' : w \in waiters \/ (w.by = by /\ w.token = token /\ w.track = t)
      BY FetchAndSendIs
    <2>3. QED
      BY <2>1, <2>2
  <1>3. QED
    BY <1>1, <1>2

(* A fetch that is asked for is under way or has brought something. *)
LEMMA FetchComes ==
    ASSUME LyricTypes, OneFetchPerSong, NEW t \in Tracks, lyricFetch(t)
    PROVE  /\ \A u \in Tracks : fetches[u] > 0 => fetches'[u] > 0
           /\ cache[t] \notin Outcomes => fetches'[t] > 0
           /\ \A u \in Tracks : cache[u] = "lines" => cache'[u] = "lines"
  <1>1. /\ fetches \in [Tracks -> Nat] /\ cache[t] \in {"absent", "fetching"} \cup Outcomes
        /\ cache \in [Tracks -> {"absent", "fetching"} \cup Outcomes]
    BY DEF LyricTypes
  <1>2. CASE cache[t] = "absent"
    BY <1>1, <1>2 DEF lyricFetch
  <1>3. CASE cache[t] # "absent"
    BY <1>1, <1>3 DEF lyricFetch, OneFetchPerSong
  <1>4. QED
    BY <1>2, <1>3

(* Who asks is told at once, or waits for a fetch. *)
LEMMA AskComes ==
    ASSUME LyricTypes, OneFetchPerSong, NEW by \in {"solo", "trivia"}, NEW token \in Nat,
           NEW t \in Tracks, NEW v \in View, NEW n \in Nat, NEW heard \in BOOLEAN,
           FetchAndSend(by, token, t, v, n, heard)
    PROVE  /\ waiters \subseteq waiters'
           /\ \A w \in waiters' : w \in waiters \/ (w.got = "nothing" /\ fetches'[w.track] > 0)
           /\ by = "solo" /\ heard =>
                             \/ view'.play = token /\ view'.status \in {"ready", "none"}
                             \/ \E w \in waiters' : w.by = "solo" /\ w.token = token
           /\ by = "trivia" => view'.play = v.play /\ view'.status = v.status
  <1>1. CASE cache[t] \in Outcomes
    <2>1. PICK o \in Outcomes : o = cache[t]
      BY <1>1
    <2>2. view' = (IF heard THEN Sent(v, by, token, t, o) ELSE v) /\ waiters' = waiters
      BY <1>1, <2>1 DEF FetchAndSend
    <2>3. QED
      BY <2>2, SentIs
  <1>2. CASE cache[t] \notin Outcomes
    <2> DEFINE w == [by |-> by, token |-> token, track |-> t, sync |-> n, late |-> FALSE,
                     got |-> "nothing"]
    <2>1. view' = v /\ waiters' = waiters \cup {w} /\ lyricFetch(t)
      BY <1>2 DEF FetchAndSend
    <2>2. fetches'[t] > 0
      BY <1>2, <2>1, FetchComes
    <2>3. w.by = by /\ w.token = token /\ w.track = t /\ w.got = "nothing"
      OBVIOUS
    <2> HIDE DEF w
    <2>4. QED
      BY <2>1, <2>2, <2>3
  <1>3. QED
    BY <1>1, <1>2

(* A step in which the stage is told everything again: what it has then,   *)
(* from v, the page after the state's frame, and who waits.                *)
LEMMA SyncIs ==
    ASSUME ModeTypes, StageTypes, LyricTypes, IndexIsCurrent, OneFetchPerSong, sendFullSync
    PROVE  \E v \in View :
              /\ v.play = view.play /\ v.status = view.status
              /\ v.lines \in {view.lines, None} /\ (game = "LOBBY" => v.lines = None)
              /\ ~active => view' = v /\ UNCHANGED lyrics
              /\ active => /\ view' \in View /\ lyricFetch(currentTrack)
                           /\ view'.play \in {view.play, playToken}
                           /\ view'.lines \in {v.lines, currentTrack}
                           /\ \/ view' = v
                              \/ view'.status = "ready" =>
                                     view'.lines = currentTrack /\ cache'[currentTrack] = "lines"
                           /\ cache[currentTrack] = "lines" => view'.lines = currentTrack
                           /\ waiters' \subseteq Waiter
                           /\ \A w \in waiters' :
                                 \/ w \in waiters
                                 \/ /\ w.by = "solo" /\ w.token = playToken /\ w.track = currentTrack
                                    /\ w.got = "nothing" /\ fetches'[w.track] > 0
                           /\ \/ view'.play = playToken /\ view'.status \in {"ready", "none"}
                              \/ \E w \in waiters' : w.by = "solo" /\ w.token = playToken
  <1>1. PICK v \in Synced :
            IF active THEN FetchAndSend("solo", playToken, currentTrack, v, syncs + 1, TRUE)
            ELSE view' = v /\ UNCHANGED lyrics
    BY DEF sendFullSync
  <1>2. view \in View
    BY DEF StageTypes
  <1>3. /\ v \in View /\ v.play = view.play /\ v.status = view.status
        /\ v.lines \in {view.lines, None} /\ (game = "LOBBY" => v.lines = None)
    BY <1>2, SyncedIs
  <1>4. CASE ~active
    BY <1>1, <1>3, <1>4
  <1>5. CASE active
    <2>1. currentTrack \in Tracks /\ playToken \in Nat /\ syncs + 1 \in Nat
      BY <1>5 DEF IndexIsCurrent, ModeTypes, StageTypes
    <2>2. PICK k \in Nat, t \in Tracks, n \in Nat : k = playToken /\ t = currentTrack /\ n = syncs + 1
      BY <2>1
    <2>3. FetchAndSend("solo", k, t, v, n, TRUE)
      BY <1>1, <1>5, <2>2
    <2>4. PICK h \in BOOLEAN : FetchAndSend("solo", k, t, v, n, h)
      BY <2>3
    <2>5. /\ lyricFetch(t) /\ view' \in View /\ waiters' \subseteq Waiter
      BY <1>3, <2>4, FetchAndSendIs
    <2>6. /\ view'.play \in {v.play, k} /\ view'.lines \in {v.lines, t}
          /\ view' = v \/ (view'.status = "ready" => view'.lines = t /\ cache'[t] = "lines")
          /\ \A w \in waiters' : w \in waiters \/ (w.by = "solo" /\ w.token = k /\ w.track = t)
      BY <1>3, <2>4, AskIs
    <2>7. cache[t] = "lines" => view'.lines = t
      <3>1. cache[t] = "lines" => view' = Sent(v, "solo", k, t, "lines")
        BY <2>3 DEF FetchAndSend, Outcomes
      <3>2. Sent(v, "solo", k, t, "lines").lines = t
        BY DEF Sent
      <3>3. QED
        BY <3>1, <3>2
    <2>8. \A w \in waiters' : w \in waiters \/ (w.got = "nothing" /\ fetches'[w.track] > 0)
      BY <1>3, <2>4, AskComes
    <2>9. \/ view'.play = k /\ view'.status \in {"ready", "none"}
          \/ \E w \in waiters' : w.by = "solo" /\ w.token = k
      BY <1>3, <2>3, AskComes
    <2>10. QED
      BY <1>3, <1>5, <2>2, <2>5, <2>6, <2>7, <2>8, <2>9
  <1>6. QED
    BY <1>4, <1>5

LEMMA ToldIs ==
    ASSUME NEW w \in Waiter, NEW t, NEW o \in Outcomes
    PROVE  /\ Told(w, t, o) \in Waiter /\ Told(w, t, o).by = w.by
           /\ Told(w, t, o).token = w.token /\ Told(w, t, o).track = w.track
           /\ Told(w, t, o).got = "nothing" => w.got = "nothing" /\ w.track # t
           /\ Told(w, t, o).got = "lines" => w.got = "lines" \/ (w.track = t /\ o = "lines")
  BY DEF Told, Waiter, Outcomes

LEMMA LateIs ==
    ASSUME NEW w \in Waiter
    PROVE  LET l == [w EXCEPT !.late = TRUE]
           IN  /\ l \in Waiter /\ l.by = w.by /\ l.token = w.token /\ l.track = w.track
               /\ l.got = w.got
  BY DEF Waiter

(* A request that edits the list: others that run know of the overlap. *)
LEMMA WriteEffect ==
    ASSUME IInv, NEW r \in Requests, Writes(r)
    PROVE  /\ request' \in [Requests -> [step : {"idle", "written", "read"}, list : Seq(Tracks)]]
           /\ Free(r) /\ request'[r] = [step |-> "written", list |-> <<>>]
           /\ \A s \in Requests \ {r} : request'[s] = request[s]
           /\ overlapped' \subseteq Requests
           /\ \A s \in Requests \ {r} : ~Free(s) => /\ s \in overlapped' /\ r \in overlapped'
                                                    /\ overlapped \subseteq overlapped'
  <1>1. /\ Free(r) /\ request' = [request EXCEPT ![r].step = "written"]
        /\ overlapped' = IF {s \in Requests : ~Free(s)} = {} THEN {}
                         ELSE overlapped \cup {s \in Requests : ~Free(s)} \cup {r}
    BY DEF Writes
  <1>2. /\ request \in [Requests -> [step : {"idle", "written", "read"}, list : Seq(Tracks)]]
        /\ overlapped \subseteq Requests
    BY DEF IInv, ListTypes
  <1>3. [request[r] EXCEPT !.step = "written"] = [step |-> "written", list |-> <<>>]
    BY <1>1 DEF Free, Idle
  <1>4. request' = [request EXCEPT ![r] = [step |-> "written", list |-> <<>>]]
    BY <1>1, <1>3
  <1>5. QED
    BY <1>1, <1>2, <1>4

-----------------------------------------------------------------------------
(* The types, step by step. *)

(* The session. *)
LEMMA ModeTypesStep == IInv /\ [Steps]_vars => ModeTypes'
  <1> SUFFICES ASSUME IInv, [Steps]_vars
               PROVE  ModeTypes'
    OBVIOUS
  <1> USE ConstantsOK
         DEF vars, solo, knobs, trivia, http, lyrics, theStage, theDeck, counts, IInv, ModeTypes,
             Writes
  <1>1. ASSUME NEW r \in Requests, ReloadSoloKaraokeQueue(r)
        PROVE  ModeTypes'
    <2>1. Listed(request[r].list)
      BY DEF ListTypes, Listed
    <2>2. index' \in Int /\ index' >= -1
      BY <1>1, <2>1, NewIndexIs DEF ReloadSoloKaraokeQueue
    <2>3. UNCHANGED <<active, paused, shuffle, repeat, currentTrack, plays, playToken>>
      BY <1>1 DEF ReloadSoloKaraokeQueue
    <2>4. QED
      BY <2>2, <2>3
  <1>2. ASSUME NEW i \in 0 .. Len(queue) - 1, PlaysAt(i)
        PROVE  ModeTypes'
    <2>1. /\ active' = TRUE /\ paused' = FALSE /\ UNCHANGED <<shuffle, repeat>>
          /\ currentTrack' = queue[i + 1] /\ index' = i /\ plays' = plays + 1 /\ playToken' = plays + 1
      BY <1>2 DEF PlaysAt, soloKaraokePlayAt
    <2>2. queue[i + 1] \in Tracks
      BY SongAt
    <2>3. i \in Int /\ i >= -1 /\ plays + 1 \in Nat /\ plays + 1 \in 0 .. plays + 1
      OBVIOUS
    <2>4. QED
      BY <2>1, <2>2, <2>3
  <1>3. ASSUME Quits
        PROVE  ModeTypes'
    <2>1. /\ active' = FALSE /\ currentTrack' = None /\ paused' = FALSE /\ playToken' = 0
          /\ UNCHANGED <<index, shuffle, repeat, plays>>
      BY <1>3 DEF Quits, soloKaraokeDeactivate
    <2>2. 0 \in 0 .. plays
      OBVIOUS
    <2>3. QED
      BY <2>1, <2>2
  <1>4. ASSUME Pause
        PROVE  ModeTypes'
    BY <1>4 DEF Pause
  <1>5. ASSUME Resume
        PROVE  ModeTypes'
    BY <1>5 DEF Resume
  <1>6. ASSUME NEW b \in BOOLEAN, NEW r \in Repeats, SetKnobs(b, r)
        PROVE  ModeTypes'
    BY <1>6 DEF SetKnobs
  <1>7. CASE UNCHANGED <<active, paused, shuffle, repeat, currentTrack, index, plays, playToken>>
    BY <1>7
  <1>8. QED
    BY <1>1, <1>2, <1>3, <1>4, <1>5, <1>6, <1>7
       DEF Steps, EditsPlaylist, Lyrics, Trivia, Writes, soloKaraokePlayAt, soloKaraokeDeactivate,
           AddTrack, RemoveTrack, Reorder, ListPlaylist, GraceOver, Send, Evict, FetchDone,
           StageConnects, Resync, sendFullSync, StageDrops, Ignores, Seek, TrackEnds, StartGame,
           EnterKaraoke, EndRound, AdminPlayback, EndGame, ResetToLobby, SelectCell

(* The trivia game. *)
LEMMA GameTypesStep == IInv /\ [Steps]_vars => GameTypes'
  <1> SUFFICES ASSUME IInv, [Steps]_vars
               PROVE  GameTypes'
    OBVIOUS
  <1> USE ConstantsOK
         DEF vars, solo, knobs, trivia, http, lyrics, theStage, theDeck, counts, IInv, GameTypes,
             Writes
  <1>1. ASSUME StartGame
        PROVE  GameTypes'
    BY <1>1 DEF StartGame
  <1>2. ASSUME EnterKaraoke
        PROVE  GameTypes'
    BY <1>2 DEF EnterKaraoke
  <1>3. ASSUME EndRound
        PROVE  GameTypes'
    BY <1>3 DEF EndRound
  <1>4. ASSUME EndGame
        PROVE  GameTypes'
    BY <1>4 DEF EndGame
  <1>5. ASSUME ResetToLobby
        PROVE  GameTypes'
    BY <1>5 DEF ResetToLobby
  <1>6. ASSUME NEW t \in Tracks, SelectCell(t)
        PROVE  GameTypes'
    BY <1>6 DEF SelectCell
  <1>7. CASE UNCHANGED <<game, curTrack, rounds, roundKey>>
    BY <1>7
  <1>8. QED
    BY <1>1, <1>2, <1>3, <1>4, <1>5, <1>6, <1>7
       DEF Steps, EditsPlaylist, Lyrics, Trivia, Writes, soloKaraokePlayAt, soloKaraokeDeactivate,
           AddTrack, RemoveTrack, Reorder, ListPlaylist, ReloadSoloKaraokeQueue, GraceOver, Send,
           Evict, FetchDone, StageConnects, Resync, sendFullSync, StageDrops, PlaysAt, Quits,
           Ignores, Pause, Resume, Seek, TrackEnds, SetKnobs, AdminPlayback

(* The deck. *)
LEMMA DeckTypesStep == IInv /\ [Steps]_vars => DeckTypes'
  <1> SUFFICES ASSUME IInv, [Steps]_vars
               PROVE  DeckTypes'
    OBVIOUS
  <1> USE ConstantsOK
         DEF vars, solo, knobs, trivia, http, lyrics, theStage, theDeck, counts, IInv, DeckTypes,
             Writes
  <1>1. ASSUME NEW i \in 0 .. Len(queue) - 1, PlaysAt(i)
        PROVE  DeckTypes'
    <2>1. loadAndPlayTrack(queue[i + 1]) /\ overridden' = overridden /\ ended' \in {ended, FALSE}
      BY <1>1 DEF PlaysAt, soloKaraokePlayAt
    <2>2. deck' \in [track : Tracks \cup {None}, playing : BOOLEAN] /\ failed' \in BOOLEAN /\ muted' \in BOOLEAN
      BY <2>1, SongAt, LoadTypes
    <2>3. QED
      BY <2>1, <2>2
  <1>2. ASSUME Quits
        PROVE  DeckTypes'
    <2>1. PICK play \in BOOLEAN : TellDeck(play)
      BY <1>2 DEF Quits, soloKaraokeDeactivate
    <2>2. deck' \in [track : Tracks \cup {None}, playing : BOOLEAN] /\ failed' \in BOOLEAN /\ muted' \in BOOLEAN
      BY <2>1, TellTypes
    <2>3. ended' \in BOOLEAN /\ overridden' \in BOOLEAN
      BY <1>2 DEF Quits, Overrides, ModeTypes, soloKaraokeDeactivate
    <2>4. QED
      BY <2>2, <2>3
  <1>3. ASSUME Ignores
        PROVE  DeckTypes'
    BY <1>3 DEF Ignores
  <1>4. ASSUME Pause
        PROVE  DeckTypes'
    <2>1. PICK play \in BOOLEAN : TellDeck(play)
      BY <1>4 DEF Pause
    <2>2. deck' \in [track : Tracks \cup {None}, playing : BOOLEAN] /\ failed' \in BOOLEAN /\ muted' \in BOOLEAN
      BY <2>1, TellTypes
    <2>3. ended' \in BOOLEAN /\ overridden' \in BOOLEAN
      BY <1>4 DEF Pause, Overrides, ModeTypes
    <2>4. QED
      BY <2>2, <2>3
  <1>5. ASSUME Resume
        PROVE  DeckTypes'
    <2>1. PICK play \in BOOLEAN : TellDeck(play)
      BY <1>5 DEF Resume
    <2>2. deck' \in [track : Tracks \cup {None}, playing : BOOLEAN] /\ failed' \in BOOLEAN /\ muted' \in BOOLEAN
      BY <2>1, TellTypes
    <2>3. ended' \in BOOLEAN /\ overridden' \in BOOLEAN
      BY <1>5 DEF Resume, Overrides, ModeTypes
    <2>4. QED
      BY <2>2, <2>3
  <1>6. ASSUME Seek
        PROVE  DeckTypes'
    <2>1. currentTrack \in Tracks
      BY <1>6 DEF Seek, IndexIsCurrent, ModeTypes
    <2>2. deck' \in [track : Tracks \cup {None}, playing : BOOLEAN] /\ failed' \in BOOLEAN /\ muted' \in BOOLEAN
      <3>1. loadAndPlayTrack(currentTrack) =>
                deck' \in [track : Tracks \cup {None}, playing : BOOLEAN] /\ failed' \in BOOLEAN /\ muted' \in BOOLEAN
        BY <2>1, LoadTypes
      <3>2. /\ [track |-> currentTrack, playing |-> FALSE] \in [track : Tracks \cup {None}, playing : BOOLEAN]
            /\ [track |-> currentTrack, playing |-> TRUE] \in [track : Tracks \cup {None}, playing : BOOLEAN]
            /\ [deck EXCEPT !.playing = FALSE] \in [track : Tracks \cup {None}, playing : BOOLEAN]
        BY <2>1
      <3>3. SeekDeck
        BY <1>6 DEF Seek
      <3>4. QED
        BY <3>1, <3>2, <3>3 DEF SeekDeck
    <2>3. QED
      BY <1>6, <2>2 DEF Seek
  <1>7. ASSUME TrackEnds
        PROVE  DeckTypes'
    <2>1. deck' = Silent /\ ended' = stage /\ muted' = (muted \/ ~stage) /\ UNCHANGED <<failed, overridden>>
      BY <1>7 DEF TrackEnds
    <2>2. QED
      BY <2>1, SilentIs DEF StageTypes
  <1>8. ASSUME EnterKaraoke
        PROVE  DeckTypes'
    <2>1. PICK play \in BOOLEAN : TellDeck(play)
      BY <1>8 DEF EnterKaraoke
    <2>2. deck' \in [track : Tracks \cup {None}, playing : BOOLEAN] /\ failed' \in BOOLEAN /\ muted' \in BOOLEAN
      BY <2>1, TellTypes
    <2>3. ended' \in BOOLEAN /\ overridden' \in BOOLEAN
      BY <1>8 DEF EnterKaraoke, Overrides, ModeTypes
    <2>4. QED
      BY <2>2, <2>3
  <1>9. ASSUME EndRound
        PROVE  DeckTypes'
    <2>1. PICK play \in BOOLEAN : TellDeck(play)
      BY <1>9 DEF EndRound
    <2>2. deck' \in [track : Tracks \cup {None}, playing : BOOLEAN] /\ failed' \in BOOLEAN /\ muted' \in BOOLEAN
      BY <2>1, TellTypes
    <2>3. ended' \in BOOLEAN /\ overridden' \in BOOLEAN
      BY <1>9 DEF EndRound, Overrides, ModeTypes
    <2>4. QED
      BY <2>2, <2>3
  <1>10. ASSUME AdminPlayback
        PROVE  DeckTypes'
    <2>1. \/ \E play \in BOOLEAN : TellDeck(play)
          \/ deck' = [track |-> curTrack, playing |-> TRUE] /\ UNCHANGED <<failed, muted>>
      BY <1>10 DEF AdminPlayback
    <2>3. [track |-> curTrack, playing |-> TRUE] \in [track : Tracks \cup {None}, playing : BOOLEAN]
      BY DEF GameTypes
    <2>2. deck' \in [track : Tracks \cup {None}, playing : BOOLEAN] /\ failed' \in BOOLEAN /\ muted' \in BOOLEAN
      BY <2>1, <2>3, TellTypes
    <2>4. QED
      BY <1>10, <2>2 DEF AdminPlayback, Overrides, ModeTypes
  <1>11. ASSUME EndGame
        PROVE  DeckTypes'
    <2>1. UNCHANGED theDeck \/ (Overrides /\ TellDeck(FALSE) /\ UNCHANGED ended)
      BY <1>11 DEF EndGame
    <2>2. CASE UNCHANGED theDeck
      BY <2>2
    <2>3. CASE Overrides /\ TellDeck(FALSE) /\ UNCHANGED ended
      BY <2>3, TellTypes DEF Overrides, ModeTypes
    <2>4. QED
      BY <2>1, <2>2, <2>3
  <1>12. ASSUME NEW t \in Tracks, SelectCell(t)
        PROVE  DeckTypes'
    <2>1. deck' \in {deck, [track |-> t, playing |-> TRUE]} /\ Overrides /\ UNCHANGED <<ended, failed, muted>>
      BY <1>12 DEF SelectCell
    <2>2. [track |-> t, playing |-> TRUE] \in [track : Tracks \cup {None}, playing : BOOLEAN]
      OBVIOUS
    <2>3. deck' \in [track : Tracks \cup {None}, playing : BOOLEAN]
      BY <2>1, <2>2
    <2>4. QED
      BY <2>1, <2>3 DEF Overrides, ModeTypes
  <1>13. ASSUME sendFullSync
         PROVE  DeckTypes'
    <2>1. deck' \in {deck, Silent} /\ muted' \in BOOLEAN /\ UNCHANGED <<ended, failed, overridden>>
      BY <1>13 DEF sendFullSync, PlayFrame
    <2>2. QED
      BY <2>1, SilentIs
  <1>14. ASSUME StageDrops
         PROVE  DeckTypes'
    <2>1. /\ deck' \in {deck, Silent} /\ ended' \in {ended, FALSE} /\ muted' \in BOOLEAN
          /\ UNCHANGED <<failed, overridden>>
      BY <1>14 DEF StageDrops
    <2>2. QED
      BY <2>1, SilentIs
  <1>15. CASE UNCHANGED <<deck, ended, failed, muted, overridden>>
    BY <1>15
  <1>16. QED
    BY <1>1, <1>2, <1>3, <1>4, <1>5, <1>6, <1>7, <1>8, <1>9, <1>10, <1>11, <1>12, <1>13, <1>14,
       <1>15
       DEF Steps, EditsPlaylist, Lyrics, Trivia, Writes, soloKaraokePlayAt, soloKaraokeDeactivate,
           AddTrack, RemoveTrack, Reorder, ListPlaylist, ReloadSoloKaraokeQueue, GraceOver, Send,
           Evict, FetchDone, StageConnects, Resync, SetKnobs, StartGame, ResetToLobby

(* The stage. *)
LEMMA StageTypesStep == IInv /\ [Steps]_vars => StageTypes'
  <1> SUFFICES ASSUME IInv, [Steps]_vars
               PROVE  StageTypes'
    OBVIOUS
  <1> USE ConstantsOK
         DEF vars, solo, knobs, trivia, http, lyrics, theStage, theDeck, counts, IInv, StageTypes,
             Writes
  <1>1. ASSUME NEW w \in waiters, GraceOver(w)
        PROVE  StageTypes'
    <2>1. w.token \in Nat
      BY DEF LyricTypes, Waiter
    <2>2. [view EXCEPT !.status = "loading", !.play = w.token] \in View
      BY <2>1 DEF View
    <2>3. QED
      BY <1>1, <2>2 DEF GraceOver
  <1>2. ASSUME NEW w \in waiters, Send(w)
        PROVE  StageTypes'
    <2>1. /\ w.by \in {"solo", "trivia"} /\ w.token \in Nat /\ w.track \in Tracks
          /\ w.got \in Outcomes \cup {"nothing"}
      BY DEF LyricTypes, Waiter
    <2>2. Sent(view, w.by, w.token, w.track, w.got) \in View
      BY <2>1, SentIs
    <2>3. QED
      BY <1>2, <2>2 DEF Send, ModeTypes
  <1>3. ASSUME sendFullSync
        PROVE  StageTypes'
    <2>1. view' \in View
      BY <1>3, SyncIs
    <2>2. stage' = TRUE /\ syncs' = syncs + 1 /\ UNCHANGED <<unseen, strayed>>
      BY <1>3 DEF sendFullSync
    <2>3. QED
      BY <2>1, <2>2
  <1>4. ASSUME StageDrops
        PROVE  StageTypes'
    BY <1>4, BlankIs DEF StageDrops
  <1>5. ASSUME NEW i \in 0 .. Len(queue) - 1, PlaysAt(i)
        PROVE  StageTypes'
    <2>1. /\ unseen' = ~stage /\ strayed' = FALSE /\ UNCHANGED <<stage, syncs>>
          /\ FetchAndSend("solo", plays + 1, queue[i + 1], Heard, syncs, stage)
      BY <1>5 DEF PlaysAt, soloKaraokePlayAt
    <2>2. plays + 1 \in Nat /\ queue[i + 1] \in Tracks
      BY SongAt DEF ModeTypes
    <2>3. view' \in View
      BY <2>1, <2>2, HeardIs, FetchAndSendIs
    <2>4. QED
      BY <2>1, <2>3
  <1>6. ASSUME EnterKaraoke
        PROVE  StageTypes'
    <2>1. /\ strayed' = (strayed \/ active) /\ UNCHANGED <<stage, unseen, syncs>>
          /\ IF curTrack = None THEN UNCHANGED view
             ELSE FetchAndSend("trivia", roundKey, curTrack, view, syncs, stage)
      BY <1>6 DEF EnterKaraoke
    <2>2. roundKey \in Nat /\ (curTrack # None => curTrack \in Tracks)
      BY DEF GameTypes
    <2>3. view' \in View
      BY <2>1, <2>2, FetchAndSendIs
    <2>4. QED
      BY <2>1, <2>3 DEF ModeTypes
  <1>7. ASSUME NEW t \in Tracks, SelectCell(t)
        PROVE  StageTypes'
    BY <1>7, HeardIs DEF SelectCell
  <1>8. ASSUME StartGame
        PROVE  StageTypes'
    BY <1>8, HeardIs DEF StartGame
  <1>9. ASSUME EndRound
        PROVE  StageTypes'
    BY <1>9, HeardIs DEF EndRound
  <1>10. ASSUME ResetToLobby
         PROVE  StageTypes'
    BY <1>10, HeardIs DEF ResetToLobby, ModeTypes
  <1>11. CASE UNCHANGED <<stage, unseen, strayed, syncs, view>>
    BY <1>11
  <1>12. QED
    BY <1>1, <1>2, <1>3, <1>4, <1>5, <1>6, <1>7, <1>8, <1>9, <1>10, <1>11
       DEF Steps, EditsPlaylist, Lyrics, Trivia, Writes, soloKaraokePlayAt, soloKaraokeDeactivate,
           AddTrack, RemoveTrack, Reorder, ListPlaylist, ReloadSoloKaraokeQueue, Evict, FetchDone,
           Quits, Ignores, Pause, Resume, Seek, TrackEnds, SetKnobs, AdminPlayback, EndGame,
           StageConnects, Resync

(* Lyrics on their way. *)
LEMMA LyricTypesStep == IInv /\ [Steps]_vars => LyricTypes'
  <1> SUFFICES ASSUME IInv, [Steps]_vars
               PROVE  LyricTypes'
    OBVIOUS
  <1> USE ConstantsOK
         DEF vars, solo, knobs, trivia, http, lyrics, theStage, theDeck, counts, IInv, LyricTypes,
             Writes
  <1>1. ASSUME NEW w \in waiters, GraceOver(w)
        PROVE  LyricTypes'
    <2>1. [w EXCEPT !.late = TRUE] \in Waiter
      BY LateIs
    <2>2. QED
      BY <1>1, <2>1 DEF GraceOver
  <1>2. ASSUME NEW w \in waiters, Send(w)
        PROVE  LyricTypes'
    BY <1>2 DEF Send
  <1>3. ASSUME NEW t \in Tracks, Evict(t)
        PROVE  LyricTypes'
    BY <1>3 DEF Evict
  <1>4. ASSUME NEW t \in Tracks, NEW o \in Outcomes, FetchDone(t, o)
        PROVE  LyricTypes'
    <2>1. \A w \in waiters : Told(w, t, o) \in Waiter
      BY ToldIs
    <2>2. waiters' \subseteq Waiter
      BY <1>4, <2>1 DEF FetchDone
    <2>3. cache' \in [Tracks -> {"absent", "fetching"} \cup Outcomes]
      BY <1>4 DEF FetchDone
    <2>4. fetches' \in [Tracks -> Nat]
      BY <1>4 DEF FetchDone
    <2>5. QED
      BY <2>2, <2>3, <2>4
  <1>5. ASSUME sendFullSync
        PROVE  LyricTypes'
    <2>1. IF active THEN waiters' \subseteq Waiter /\ lyricFetch(currentTrack) ELSE UNCHANGED lyrics
      BY <1>5, SyncIs
    <2>2. active => currentTrack \in Tracks
      BY DEF IndexIsCurrent, ModeTypes
    <2>3. QED
      BY <2>1, <2>2, FetchEffect
  <1>6. ASSUME NEW i \in 0 .. Len(queue) - 1, PlaysAt(i)
        PROVE  LyricTypes'
    <2>1. FetchAndSend("solo", plays + 1, queue[i + 1], Heard, syncs, stage)
      BY <1>6 DEF PlaysAt, soloKaraokePlayAt
    <2>2. plays + 1 \in Nat /\ queue[i + 1] \in Tracks /\ syncs \in Nat /\ stage \in BOOLEAN
      BY SongAt DEF ModeTypes, StageTypes
    <2>3. Heard \in View
      BY HeardIs DEF StageTypes
    <2>4. waiters' \subseteq Waiter /\ lyricFetch(queue[i + 1])
      BY <2>1, <2>2, <2>3, FetchAndSendIs
    <2>5. QED
      BY <2>2, <2>4, FetchEffect
  <1>7. ASSUME EnterKaraoke
        PROVE  LyricTypes'
    <2>1. CASE curTrack = None
      BY <1>7, <2>1 DEF EnterKaraoke
    <2>2. CASE curTrack # None
      <3>1. FetchAndSend("trivia", roundKey, curTrack, view, syncs, stage)
        BY <1>7, <2>2 DEF EnterKaraoke
      <3>2. /\ roundKey \in Nat /\ curTrack \in Tracks /\ view \in View /\ syncs \in Nat
            /\ stage \in BOOLEAN
        BY <2>2 DEF GameTypes, StageTypes
      <3>3. waiters' \subseteq Waiter /\ lyricFetch(curTrack)
        BY <3>1, <3>2, FetchAndSendIs
      <3>4. QED
        BY <3>2, <3>3, FetchEffect
    <2>3. QED
      BY <2>1, <2>2
  <1>8. ASSUME NEW t \in Tracks, SelectCell(t)
        PROVE  LyricTypes'
    <2>1. lyricFetch(t) /\ waiters' = waiters
      BY <1>8 DEF SelectCell
    <2>2. QED
      BY <2>1, FetchEffect
  <1>9. CASE UNCHANGED <<cache, fetches, waiters>>
    BY <1>9
  <1>10. QED
    BY <1>1, <1>2, <1>3, <1>4, <1>5, <1>6, <1>7, <1>8, <1>9
       DEF Steps, EditsPlaylist, Lyrics, Trivia, Writes, soloKaraokePlayAt, soloKaraokeDeactivate,
           AddTrack, RemoveTrack, Reorder, ListPlaylist, ReloadSoloKaraokeQueue, StageDrops,
           Quits, Ignores, Pause, Resume, Seek, TrackEnds, SetKnobs, StartGame, EndRound,
           AdminPlayback, EndGame, ResetToLobby, StageConnects, Resync

(* A reordering neither loses a row nor makes one up. *)
LEMMA ReorderedIs ==
    ASSUME NEW q, NEW order, Listed(q), Listed(order)
    PROVE  Listed(Reordered(q, order)) /\ \A t : In(Reordered(q, order), t) <=> In(q, t)
  <1> DEFINE a == Kept(order, Named(q))
             b == Kept(q, Tracks \ Named(order))
  <1>1. Listed(a) /\ \A t : In(a, t) <=> In(order, t) /\ t \in Named(q)
    BY KeptIs
  <1>2. Listed(b) /\ \A t : In(b, t) <=> In(q, t) /\ t \in Tracks \ Named(order)
    BY KeptIs
  <1>3. \A t : (In(q, t) \/ In(order, t)) => t \in Tracks
    BY DEF Listed, In
  <1> HIDE DEF a, b
  <1>4. \A t : ~(In(a, t) /\ In(b, t))
    BY <1>1, <1>2 DEF Named
  <1>5. Listed(a \o b) /\ \A t : In(a \o b, t) <=> In(a, t) \/ In(b, t)
    BY <1>1, <1>2, <1>4, ConcatOnce
  <1>6. \A t : In(a, t) \/ In(b, t) <=> In(q, t)
    BY <1>1, <1>2, <1>3 DEF Named
  <1>7. QED
    BY <1>5, <1>6 DEF Reordered, a, b

(* The lists and who edits them. *)
LEMMA ListTypesStep == IInv /\ [Steps]_vars => ListTypes'
  <1> SUFFICES ASSUME IInv, [Steps]_vars
               PROVE  ListTypes'
    OBVIOUS
  <1> USE ConstantsOK
         DEF vars, solo, knobs, trivia, http, lyrics, theStage, theDeck, counts, IInv, ListTypes
  <1>1. ASSUME NEW r \in Requests, NEW t \in Tracks, AddTrack(r, t)
        PROVE  ListTypes'
    <2>1. Writes(r)
      BY <1>1 DEF AddTrack
    <2>2. /\ request' \in [Requests -> [step : {"idle", "written", "read"}, list : Seq(Tracks)]]
          /\ request'[r] = [step |-> "written", list |-> <<>>]
          /\ \A s \in Requests \ {r} : request'[s] = request[s]
          /\ overlapped' \subseteq Requests
      BY <2>1, WriteEffect
    <2>3. \A s \in Requests : Once(request'[s].list) /\ (request'[s].step = "idle" => request'[s] = Idle)
      <3>1. Once(<<>>)
        BY DEF Once
      <3>2. request'[r].step = "written" /\ request'[r].list = <<>>
        BY <2>2
      <3>3. QED
        BY <2>2, <3>1, <3>2
    <2>4. UNCHANGED <<queue, unsynced>>
      BY <2>1 DEF Writes
    <2>5. Listed(playlist') /\ Named(playlist') \subseteq added' /\ added' \subseteq Tracks
      <3>1. t \notin added /\ playlist' = Append(playlist, t) /\ added' = added \cup {t}
        BY <1>1 DEF AddTrack
      <3>2. ~In(playlist, t)
        BY <3>1 DEF Named
      <3>3. Listed(playlist') /\ \A u : In(playlist', u) <=> In(playlist, u) \/ u = t
        BY <3>1, <3>2, AppendOnce
      <3>4. QED
        BY <3>1, <3>3 DEF Named
    <2>6. QED
      BY <2>2, <2>3, <2>4, <2>5
  <1>2. ASSUME NEW r \in Requests, NEW t \in Tracks, RemoveTrack(r, t)
        PROVE  ListTypes'
    <2>1. Writes(r)
      BY <1>2 DEF RemoveTrack
    <2>2. /\ request' \in [Requests -> [step : {"idle", "written", "read"}, list : Seq(Tracks)]]
          /\ request'[r] = [step |-> "written", list |-> <<>>]
          /\ \A s \in Requests \ {r} : request'[s] = request[s]
          /\ overlapped' \subseteq Requests
      BY <2>1, WriteEffect
    <2>3. \A s \in Requests : Once(request'[s].list) /\ (request'[s].step = "idle" => request'[s] = Idle)
      <3>1. Once(<<>>)
        BY DEF Once
      <3>2. request'[r].step = "written" /\ request'[r].list = <<>>
        BY <2>2
      <3>3. QED
        BY <2>2, <3>1, <3>2
    <2>4. UNCHANGED <<queue, unsynced>>
      BY <2>1 DEF Writes
    <2>5. Listed(playlist') /\ Named(playlist') \subseteq added' /\ added' \subseteq Tracks
      <3>1. playlist' = Kept(playlist, Tracks \ {t}) /\ added' = added
        BY <1>2 DEF RemoveTrack
      <3>2. Listed(playlist') /\ \A u : In(playlist', u) => In(playlist, u)
        BY <3>1, KeptIs
      <3>3. QED
        BY <3>1, <3>2 DEF Named
    <2>6. QED
      BY <2>2, <2>3, <2>4, <2>5
  <1>3. ASSUME NEW r \in Requests, NEW order \in Orders, Reorder(r, order)
        PROVE  ListTypes'
    <2>1. Writes(r)
      BY <1>3 DEF Reorder
    <2>2. /\ request' \in [Requests -> [step : {"idle", "written", "read"}, list : Seq(Tracks)]]
          /\ request'[r] = [step |-> "written", list |-> <<>>]
          /\ \A s \in Requests \ {r} : request'[s] = request[s]
          /\ overlapped' \subseteq Requests
      BY <2>1, WriteEffect
    <2>3. \A s \in Requests : Once(request'[s].list) /\ (request'[s].step = "idle" => request'[s] = Idle)
      <3>1. Once(<<>>)
        BY DEF Once
      <3>2. request'[r].step = "written" /\ request'[r].list = <<>>
        BY <2>2
      <3>3. QED
        BY <2>2, <3>1, <3>2
    <2>4. UNCHANGED <<queue, unsynced>>
      BY <2>1 DEF Writes
    <2>5. Listed(playlist') /\ Named(playlist') \subseteq added' /\ added' \subseteq Tracks
      <3>1. playlist' = Reordered(playlist, order) /\ added' = added
        BY <1>3 DEF Reorder
      <3>2. Listed(order)
        BY DEF Listed
      <3>3. Listed(playlist') /\ \A t : In(playlist', t) <=> In(playlist, t)
        BY <3>1, <3>2, ReorderedIs
      <3>4. QED
        BY <3>1, <3>3 DEF Named
    <2>6. QED
      BY <2>2, <2>3, <2>4, <2>5
  <1>4. ASSUME NEW r \in Requests, ListPlaylist(r)
        PROVE  ListTypes'
    <2>1. request' = [request EXCEPT ![r] = [step |-> "read", list |-> playlist]]
      BY <1>4 DEF ListPlaylist
    <2>2. [step |-> "read", list |-> playlist] \in [step : {"idle", "written", "read"}, list : Seq(Tracks)]
      BY DEF Listed
    <2>3. /\ request' \in [Requests -> [step : {"idle", "written", "read"}, list : Seq(Tracks)]]
          /\ request'[r].step = "read" /\ request'[r].list = playlist
          /\ \A s \in Requests \ {r} : request'[s] = request[s]
      BY <2>1, <2>2
    <2>4. \A s \in Requests : Once(request'[s].list) /\ (request'[s].step = "idle" => request'[s] = Idle)
      BY <2>3 DEF Listed
    <2>5. UNCHANGED <<queue, playlist, added, overlapped, unsynced>>
      BY <1>4 DEF ListPlaylist
    <2>6. QED
      BY <2>3, <2>4, <2>5
  <1>5. ASSUME NEW r \in Requests, ReloadSoloKaraokeQueue(r)
        PROVE  ListTypes'
    <2>1. request' = [request EXCEPT ![r] = Idle] /\ queue' = request[r].list
      BY <1>5 DEF ReloadSoloKaraokeQueue, NewQueue
    <2>2. Idle \in [step : {"idle", "written", "read"}, list : Seq(Tracks)] /\ Once(Idle.list)
      BY DEF Idle, Once
    <2>3. /\ request' \in [Requests -> [step : {"idle", "written", "read"}, list : Seq(Tracks)]]
          /\ request'[r] = Idle
          /\ \A s \in Requests \ {r} : request'[s] = request[s]
      BY <2>1, <2>2
    <2>4. \A s \in Requests : Once(request'[s].list) /\ (request'[s].step = "idle" => request'[s] = Idle)
      BY <2>2, <2>3
    <2>5. Listed(queue')
      BY <2>1 DEF Listed
    <2>6. UNCHANGED <<playlist, added, overlapped>> /\ unsynced' \in BOOLEAN
      BY <1>5 DEF ReloadSoloKaraokeQueue
    <2>7. QED
      BY <2>3, <2>4, <2>5, <2>6
  <1>6. CASE UNCHANGED <<queue, playlist, added, request, overlapped, unsynced>>
    BY <1>6
  <1>7. QED
    BY <1>1, <1>2, <1>3, <1>4, <1>5, <1>6
       DEF Steps, EditsPlaylist, Lyrics, Trivia, Writes, soloKaraokePlayAt, soloKaraokeDeactivate,
           GraceOver, Send, Evict, FetchDone, StageConnects, Resync, sendFullSync, StageDrops,
           PlaysAt, Quits, Ignores, Pause, Resume, Seek, TrackEnds, SetKnobs, StartGame,
           EnterKaraoke, EndRound, AdminPlayback, EndGame, ResetToLobby, SelectCell

-----------------------------------------------------------------------------
(* What holds between them. *)

(* Overlaps are known. *)
LEMMA EditsStep == IInv /\ [Steps]_vars => EditsInv'
  <1> SUFFICES ASSUME IInv, [Steps]_vars
               PROVE  EditsInv'
    OBVIOUS
  <1> USE ConstantsOK
         DEF vars, solo, knobs, trivia, http, lyrics, theStage, theDeck, counts, IInv, EditsInv
  <1>1. ASSUME NEW r \in Requests, NEW t \in Tracks, AddTrack(r, t)
        PROVE  EditsInv'
    <2>1. /\ request'[r] = [step |-> "written", list |-> <<>>]
          /\ \A s \in Requests \ {r} : /\ request'[s] = request[s]
                                       /\ ~Free(s) => s \in overlapped' /\ r \in overlapped'
      BY <1>1, WriteEffect DEF AddTrack
    <2>2. \A s, u \in Requests : ~Free(s)' /\ ~Free(u)' /\ s # u => s \in overlapped'
      BY <2>1 DEF Free
    <2>3. \A s \in Requests : request'[s].step = "read" => s \in overlapped'
      BY <2>1 DEF Free, Idle
    <2>4. QED
      BY <2>2, <2>3
  <1>2. ASSUME NEW r \in Requests, NEW t \in Tracks, RemoveTrack(r, t)
        PROVE  EditsInv'
    <2>1. /\ request'[r] = [step |-> "written", list |-> <<>>]
          /\ \A s \in Requests \ {r} : /\ request'[s] = request[s]
                                       /\ ~Free(s) => s \in overlapped' /\ r \in overlapped'
      BY <1>2, WriteEffect DEF RemoveTrack
    <2>2. \A s, u \in Requests : ~Free(s)' /\ ~Free(u)' /\ s # u => s \in overlapped'
      BY <2>1 DEF Free
    <2>3. \A s \in Requests : request'[s].step = "read" => s \in overlapped'
      BY <2>1 DEF Free, Idle
    <2>4. QED
      BY <2>2, <2>3
  <1>3. ASSUME NEW r \in Requests, NEW order \in Orders, Reorder(r, order)
        PROVE  EditsInv'
    <2>1. /\ request'[r] = [step |-> "written", list |-> <<>>]
          /\ \A s \in Requests \ {r} : /\ request'[s] = request[s]
                                       /\ ~Free(s) => s \in overlapped' /\ r \in overlapped'
      BY <1>3, WriteEffect DEF Reorder
    <2>2. \A s, u \in Requests : ~Free(s)' /\ ~Free(u)' /\ s # u => s \in overlapped'
      BY <2>1 DEF Free
    <2>3. \A s \in Requests : request'[s].step = "read" => s \in overlapped'
      BY <2>1 DEF Free, Idle
    <2>4. QED
      BY <2>2, <2>3
  <1>4. ASSUME NEW r \in Requests, ListPlaylist(r)
        PROVE  EditsInv'
    <2>1. /\ request[r].step = "written" /\ UNCHANGED <<playlist, overlapped>>
          /\ request' = [request EXCEPT ![r] = [step |-> "read", list |-> playlist]]
      BY <1>4 DEF ListPlaylist
    <2>2. /\ request'[r] = [step |-> "read", list |-> playlist]
          /\ \A s \in Requests \ {r} : request'[s] = request[s]
      BY <2>1 DEF ListTypes
    <2>3. ~Free(r)
      BY <2>1 DEF Free, Idle
    <2>4. QED
      BY <2>1, <2>2, <2>3 DEF Free
  <1>5. ASSUME NEW r \in Requests, ReloadSoloKaraokeQueue(r)
        PROVE  EditsInv'
    <2>1. UNCHANGED <<playlist, overlapped>> /\ request' = [request EXCEPT ![r] = Idle]
      BY <1>5 DEF ReloadSoloKaraokeQueue
    <2>2. request'[r] = Idle /\ \A s \in Requests \ {r} : request'[s] = request[s]
      BY <2>1 DEF ListTypes
    <2>3. Idle.step = "idle"
      BY DEF Idle
    <2>4. QED
      BY <2>1, <2>2, <2>3 DEF Free
  <1>6. CASE UNCHANGED <<request, overlapped, playlist>>
    BY <1>6 DEF Free
  <1>7. QED
    BY <1>1, <1>2, <1>3, <1>4, <1>5, <1>6
       DEF Steps, EditsPlaylist, Lyrics, Trivia, Writes, soloKaraokePlayAt, soloKaraokeDeactivate,
           GraceOver, Send, Evict, FetchDone, StageConnects, Resync, sendFullSync, StageDrops,
           PlaysAt, Quits, Ignores, Pause, Resume, Seek, TrackEnds, SetKnobs, StartGame,
           EnterKaraoke, EndRound, AdminPlayback, EndGame, ResetToLobby, SelectCell

(* The queue is the playlist. *)
LEMMA SyncStep == IInv /\ [Steps]_vars => QueueInSync'
  <1> SUFFICES ASSUME IInv, [Steps]_vars
               PROVE  QueueInSync'
    OBVIOUS
  <1> USE ConstantsOK
         DEF vars, solo, knobs, trivia, http, lyrics, theStage, theDeck, counts, IInv, QueueInSync
  <1>1. ASSUME NEW r \in Requests, NEW t \in Tracks, AddTrack(r, t)
        PROVE  QueueInSync'
    <2>1. request'[r] = [step |-> "written", list |-> <<>>]
      BY <1>1, WriteEffect DEF AddTrack
    <2>2. ~Free(r)'
      BY <2>1 DEF Free, Idle
    <2>3. QED
      BY <2>2
  <1>2. ASSUME NEW r \in Requests, NEW t \in Tracks, RemoveTrack(r, t)
        PROVE  QueueInSync'
    <2>1. request'[r] = [step |-> "written", list |-> <<>>]
      BY <1>2, WriteEffect DEF RemoveTrack
    <2>2. ~Free(r)'
      BY <2>1 DEF Free, Idle
    <2>3. QED
      BY <2>2
  <1>3. ASSUME NEW r \in Requests, NEW order \in Orders, Reorder(r, order)
        PROVE  QueueInSync'
    <2>1. request'[r] = [step |-> "written", list |-> <<>>]
      BY <1>3, WriteEffect DEF Reorder
    <2>2. ~Free(r)'
      BY <2>1 DEF Free, Idle
    <2>3. QED
      BY <2>2
  <1>4. ASSUME NEW r \in Requests, ListPlaylist(r)
        PROVE  QueueInSync'
    <2>1. request'[r].step = "read"
      BY <1>4 DEF ListPlaylist, ListTypes
    <2>2. ~Free(r)'
      BY <2>1 DEF Free, Idle
    <2>3. QED
      BY <2>2
  <1>5. ASSUME NEW r \in Requests, ReloadSoloKaraokeQueue(r)
        PROVE  QueueInSync'
    <2>1. /\ request[r].step = "read" /\ queue' = request[r].list /\ playlist' = playlist
          /\ unsynced' = (r \in overlapped)
      BY <1>5 DEF ReloadSoloKaraokeQueue, NewQueue
    <2>2. r \notin overlapped => request[r].list = playlist
      BY <2>1 DEF EditsInv
    <2>3. QED
      BY <2>1, <2>2
  <1>6. CASE UNCHANGED <<request, unsynced, queue, playlist>>
    BY <1>6 DEF Free
  <1>7. QED
    BY <1>1, <1>2, <1>3, <1>4, <1>5, <1>6
       DEF Steps, EditsPlaylist, Lyrics, Trivia, Writes, soloKaraokePlayAt, soloKaraokeDeactivate,
           GraceOver, Send, Evict, FetchDone, StageConnects, Resync, sendFullSync, StageDrops,
           PlaysAt, Quits, Ignores, Pause, Resume, Seek, TrackEnds, SetKnobs, StartGame,
           EnterKaraoke, EndRound, AdminPlayback, EndGame, ResetToLobby, SelectCell

(* The index. *)
LEMMA IndexStep == IInv /\ [Steps]_vars => IndexIsCurrent'
  <1> SUFFICES ASSUME IInv, [Steps]_vars
               PROVE  IndexIsCurrent'
    OBVIOUS
  <1> USE ConstantsOK
         DEF vars, solo, knobs, trivia, http, lyrics, theStage, theDeck, counts, IInv,
             IndexIsCurrent, Indexed
  <1>1. ASSUME NEW r \in Requests, ReloadSoloKaraokeQueue(r)
        PROVE  IndexIsCurrent'
    <2>1. /\ UNCHANGED <<active, currentTrack>>
          /\ queue' = request[r].list /\ index' = NewIndex(request[r].list)
      BY <1>1 DEF ReloadSoloKaraokeQueue, NewQueue
    <2>2. PICK q : q = request[r].list
      OBVIOUS
    <2>3. Listed(q)
      BY <2>2 DEF ListTypes, Listed
    <2>4. currentTrack # None => IF In(q, currentTrack)
                                 THEN NewIndex(q) \in 0 .. Len(q) - 1 /\ q[NewIndex(q) + 1] = currentTrack
                                 ELSE NewIndex(q) = -1
      BY <2>3, NewIndexIs
    <2>5. In(queue', currentTrack') = In(q, currentTrack)
      BY <2>1, <2>2
    <2>6. QED
      BY <2>1, <2>2, <2>4, <2>5
  <1>2. ASSUME NEW i \in 0 .. Len(queue) - 1, PlaysAt(i)
        PROVE  IndexIsCurrent'
    <2>1. queue' = queue /\ currentTrack' = queue[i + 1] /\ index' = i
      BY <1>2 DEF PlaysAt, soloKaraokePlayAt
    <2>2. currentTrack' # None /\ In(queue', currentTrack')
      BY <2>1, SongAt
    <2>3. QED
      BY <2>1, <2>2
  <1>3. ASSUME Quits
        PROVE  IndexIsCurrent'
    BY <1>3 DEF Quits, soloKaraokeDeactivate
  <1>4. CASE UNCHANGED <<active, currentTrack, queue, index>>
    BY <1>4 DEF In
  <1>5. QED
    BY <1>1, <1>2, <1>3, <1>4
       DEF Steps, EditsPlaylist, Lyrics, Trivia, Writes, soloKaraokePlayAt, soloKaraokeDeactivate,
           AddTrack, RemoveTrack, Reorder, ListPlaylist, GraceOver, Send, Evict, FetchDone,
           StageConnects, Resync, sendFullSync, StageDrops, Ignores, Pause, Resume, Seek,
           TrackEnds, SetKnobs, StartGame, EnterKaraoke, EndRound, AdminPlayback, EndGame,
           ResetToLobby, SelectCell

(* One fetch per song. *)
LEMMA OneFetchStep == IInv /\ [Steps]_vars => OneFetchPerSong'
  <1> SUFFICES ASSUME IInv, [Steps]_vars
               PROVE  OneFetchPerSong'
    OBVIOUS
  <1> USE ConstantsOK
         DEF vars, solo, knobs, trivia, http, lyrics, theStage, theDeck, counts, IInv,
             OneFetchPerSong
  <1>1. ASSUME NEW t \in Tracks, Evict(t)
        PROVE  OneFetchPerSong'
    BY <1>1 DEF Evict, LyricTypes
  <1>2. ASSUME NEW t \in Tracks, NEW o \in Outcomes, FetchDone(t, o)
        PROVE  OneFetchPerSong'
    <2>1. fetches[t] > 0 /\ fetches' = [fetches EXCEPT ![t] = fetches[t] - 1] /\ cache' = [cache EXCEPT ![t] = o]
      BY <1>2 DEF FetchDone
    <2>2. o # "fetching" /\ fetches[t] = 1
      BY <2>1 DEF Outcomes
    <2>3. QED
      BY <2>1, <2>2 DEF LyricTypes
  <1>3. ASSUME sendFullSync
        PROVE  OneFetchPerSong'
    <2>1. CASE active
      <3>1. lyricFetch(currentTrack)
        BY <1>3, <2>1 DEF sendFullSync, FetchAndSend
      <3>2. currentTrack \in Tracks
        BY <2>1 DEF IndexIsCurrent, ModeTypes
      <3>3. QED
        BY <3>1, <3>2, FetchEffect
    <2>2. CASE ~active
      BY <1>3, <2>2 DEF sendFullSync
    <2>3. QED
      BY <2>1, <2>2
  <1>4. ASSUME NEW i \in 0 .. Len(queue) - 1, PlaysAt(i)
        PROVE  OneFetchPerSong'
    <2>1. lyricFetch(queue[i + 1])
      BY <1>4 DEF PlaysAt, soloKaraokePlayAt, FetchAndSend
    <2>2. QED
      BY <2>1, SongAt, FetchEffect
  <1>5. ASSUME EnterKaraoke
        PROVE  OneFetchPerSong'
    <2>1. CASE curTrack = None
      BY <1>5, <2>1 DEF EnterKaraoke
    <2>2. CASE curTrack # None
      <3>1. lyricFetch(curTrack)
        BY <1>5, <2>2 DEF EnterKaraoke, FetchAndSend
      <3>2. curTrack \in Tracks
        BY <2>2 DEF GameTypes
      <3>3. QED
        BY <3>1, <3>2, FetchEffect
    <2>3. QED
      BY <2>1, <2>2
  <1>6. ASSUME NEW t \in Tracks, SelectCell(t)
        PROVE  OneFetchPerSong'
    <2>1. lyricFetch(t)
      BY <1>6 DEF SelectCell
    <2>2. QED
      BY <2>1, FetchEffect
  <1>7. CASE UNCHANGED <<cache, fetches>>
    BY <1>7
  <1>8. QED
    BY <1>1, <1>2, <1>3, <1>4, <1>5, <1>6, <1>7
       DEF Steps, EditsPlaylist, Lyrics, Trivia, Writes, soloKaraokePlayAt, soloKaraokeDeactivate,
           AddTrack, RemoveTrack, Reorder, ListPlaylist, ReloadSoloKaraokeQueue, GraceOver, Send,
           StageDrops, Quits, Ignores, Pause, Resume, Seek, TrackEnds, SetKnobs, StartGame,
           EndRound, AdminPlayback, EndGame, ResetToLobby, StageConnects, Resync

(* The deck is the session's. *)
LEMMA OwnsStep == IInv /\ [Steps]_vars => SoloOwnsTheDeck'
  <1> SUFFICES ASSUME IInv, [Steps]_vars
               PROVE  SoloOwnsTheDeck'
    OBVIOUS
  <1> USE ConstantsOK
         DEF vars, solo, knobs, trivia, http, lyrics, theStage, theDeck, counts, IInv,
             SoloOwnsTheDeck
  <1>1. ASSUME NEW i \in 0 .. Len(queue) - 1, PlaysAt(i)
        PROVE  SoloOwnsTheDeck'
    <2>1. loadAndPlayTrack(queue[i + 1]) /\ paused' = FALSE /\ currentTrack' = queue[i + 1]
      BY <1>1 DEF PlaysAt, soloKaraokePlayAt
    <2>2. game' = game /\ overridden' = overridden /\ (active \/ game # "LIVE")
      BY <1>1 DEF PlaysAt, soloKaraokePlayAt
    <2>3. failed' \/ (deck'.track = currentTrack' /\ deck'.playing)
      BY <2>1 DEF loadAndPlayTrack
    <2>4. QED
      BY <2>1, <2>2, <2>3
  <1>2. ASSUME Quits
        PROVE  SoloOwnsTheDeck'
    BY <1>2 DEF Quits, soloKaraokeDeactivate
  <1>3. ASSUME Ignores
        PROVE  SoloOwnsTheDeck'
    BY <1>3 DEF Ignores
  <1>4. ASSUME Pause
        PROVE  SoloOwnsTheDeck'
    <2>1. TellDeck(FALSE) /\ paused' = TRUE /\ active
          /\ UNCHANGED <<active, currentTrack, game, ended, overridden>>
      BY <1>4 DEF Pause
    <2>2. /\ deck'.track = deck.track
          /\ ~failed' => ~failed /\ deck'.playing = (FALSE /\ deck.track # None)
      BY <2>1, TellTypes
    <2>3. currentTrack # None
      BY <2>1 DEF IndexIsCurrent
    <2>4. failed' \in BOOLEAN /\ deck'.playing \in BOOLEAN
      BY DeckTypesStep DEF DeckTypes
    <2>5. QED
      BY <2>1, <2>2, <2>3, <2>4
  <1>5. ASSUME Resume
        PROVE  SoloOwnsTheDeck'
    <2>1. TellDeck(TRUE) /\ paused' = FALSE /\ active
          /\ UNCHANGED <<active, currentTrack, game, ended, overridden>>
      BY <1>5 DEF Resume
    <2>2. /\ deck'.track = deck.track
          /\ ~failed' => ~failed /\ deck'.playing = (TRUE /\ deck.track # None)
      BY <2>1, TellTypes
    <2>3. currentTrack # None
      BY <2>1 DEF IndexIsCurrent
    <2>4. failed' \in BOOLEAN /\ deck'.playing \in BOOLEAN
      BY DeckTypesStep DEF DeckTypes
    <2>5. QED
      BY <2>1, <2>2, <2>3, <2>4
  <1>6. ASSUME Seek
        PROVE  SoloOwnsTheDeck'
    <2>1. SeekDeck /\ UNCHANGED <<active, currentTrack, paused, game, ended, overridden>>
      BY <1>6 DEF Seek
    <2>2. \/ failed' = TRUE
          \/ ~paused /\ deck' = [track |-> currentTrack, playing |-> TRUE]
          \/ paused /\ deck' = [track |-> currentTrack, playing |-> FALSE]
      BY <2>1 DEF SeekDeck, loadAndPlayTrack
    <2>3. \/ failed' = TRUE
          \/ deck'.track = currentTrack /\ (deck'.playing => ~paused) /\ (~deck'.playing => paused)
      BY <2>2
    <2>4. QED
      BY <2>1, <2>3
  <1>7. ASSUME TrackEnds
        PROVE  SoloOwnsTheDeck'
    <2>1. deck' = Silent /\ ended' = stage /\ muted' = (muted \/ ~stage)
      BY <1>7 DEF TrackEnds
    <2>2. deck'.track = deck.track /\ ~deck'.playing /\ (ended' \/ muted')
      BY <2>1, SilentIs DEF StageTypes
    <2>3. UNCHANGED <<active, currentTrack, paused, game, failed, overridden>>
      BY <1>7 DEF TrackEnds
    <2>4. QED
      BY <2>1, <2>2, <2>3
  <1>8. ASSUME StartGame
        PROVE  SoloOwnsTheDeck'
    BY <1>8 DEF StartGame, MayStartGame
  <1>9. ASSUME EnterKaraoke
        PROVE  SoloOwnsTheDeck'
    <2>1. overridden' = (overridden \/ active) /\ active' = active
      BY <1>9 DEF EnterKaraoke, Overrides
    <2>2. QED
      BY <2>1
  <1>10. ASSUME EndRound
        PROVE  SoloOwnsTheDeck'
    <2>1. overridden' = (overridden \/ active) /\ active' = active
      BY <1>10 DEF EndRound, Overrides
    <2>2. QED
      BY <2>1
  <1>11. ASSUME AdminPlayback
        PROVE  SoloOwnsTheDeck'
    <2>1. overridden' = (overridden \/ active) /\ active' = active
      BY <1>11 DEF AdminPlayback, Overrides
    <2>2. QED
      BY <2>1
  <1>12. ASSUME EndGame
        PROVE  SoloOwnsTheDeck'
    <2>1. CASE curTrack = None
      <3>1. UNCHANGED <<active, currentTrack, paused, deck, ended, failed, muted, overridden>> /\ game' = "GAME_OVER"
        BY <1>12, <2>1 DEF EndGame
      <3>2. QED
        BY <3>1
    <2>2. CASE curTrack # None
      <3>1. overridden' = (overridden \/ active) /\ active' = active
        BY <1>12, <2>2 DEF EndGame, Overrides
      <3>2. QED
        BY <3>1
    <2>3. QED
      BY <2>1, <2>2
  <1>13. ASSUME ResetToLobby
        PROVE  SoloOwnsTheDeck'
    BY <1>13 DEF ResetToLobby
  <1>14. ASSUME NEW t \in Tracks, SelectCell(t)
        PROVE  SoloOwnsTheDeck'
    <2>1. overridden' = (overridden \/ active) /\ active' = active
      BY <1>14 DEF SelectCell, Overrides
    <2>2. QED
      BY <2>1
  <1>15. ASSUME sendFullSync
         PROVE  SoloOwnsTheDeck'
    <2>1. UNCHANGED <<active, currentTrack, paused, game, ended, failed, overridden>>
      BY <1>15 DEF sendFullSync
    <2>2. active => deck' = Silent /\ muted' = (muted \/ deck.playing)
      BY <1>15 DEF sendFullSync, PlayFrame
    <2>3. active => deck'.track = deck.track /\ ~deck'.playing
      BY <2>2, SilentIs
    <2>4. QED
      BY <2>1, <2>2, <2>3 DEF DeckTypes
  <1>16. ASSUME StageDrops
         PROVE  SoloOwnsTheDeck'
    <2>1. UNCHANGED <<active, currentTrack, paused, game, failed, overridden>>
      BY <1>16 DEF StageDrops
    <2>2. /\ deck' \in {deck, Silent}
          /\ muted' = (muted \/ deck'.playing # deck.playing \/ ended' # ended)
      BY <1>16 DEF StageDrops
    <2>3. deck'.track = deck.track /\ (deck'.playing => deck.playing)
      BY <2>2, SilentIs
    <2>4. ~deck'.playing => muted' \/ (~deck.playing /\ ended' = ended /\ muted' = muted)
      BY <2>2, SilentIs DEF DeckTypes
    <2>5. QED
      BY <2>1, <2>3, <2>4
  <1>17. CASE UNCHANGED <<active, currentTrack, paused, game, deck, ended, failed, muted, overridden>>
    BY <1>17
  <1>18. QED
    BY <1>1, <1>2, <1>3, <1>4, <1>5, <1>6, <1>7, <1>8, <1>9, <1>10, <1>11, <1>12, <1>13, <1>14,
       <1>15, <1>16, <1>17
       DEF Steps, EditsPlaylist, Lyrics, Trivia, Writes, soloKaraokePlayAt, soloKaraokeDeactivate,
           AddTrack, RemoveTrack, Reorder, ListPlaylist, ReloadSoloKaraokeQueue, GraceOver, Send,
           Evict, FetchDone, StageConnects, Resync, SetKnobs

-----------------------------------------------------------------------------
(* Lyrics reach the song they are for. *)

(* Who waits for a play waits for its song. *)
LEMMA TokenStep == IInv /\ [Steps]_vars => TokenInv'
  <1> SUFFICES ASSUME IInv, [Steps]_vars
               PROVE  TokenInv'
    OBVIOUS
  <1> USE ConstantsOK
         DEF vars, solo, knobs, trivia, http, lyrics, theStage, theDeck, counts, IInv, TokenInv
  <1>1. ASSUME NEW w \in waiters, GraceOver(w)
        PROVE  TokenInv'
    <2>1. w \in Waiter
      BY DEF LyricTypes
    <2>2. \A v \in waiters' : \E u \in waiters : v.by = u.by /\ v.token = u.token /\ v.track = u.track
      BY <1>1, <2>1, LateIs DEF GraceOver
    <2>3. UNCHANGED <<active, playToken, currentTrack, plays>> /\ w.by = "solo" /\ w \in waiters
      BY <1>1 DEF GraceOver
    <2>4. view'.play <= plays
      <3>1. w.token <= plays
        BY <2>3 DEF ModeTypes
      <3>2. view' = view \/ view' = [view EXCEPT !.status = "loading", !.play = w.token]
        BY <1>1 DEF GraceOver
      <3>3. QED
        BY <3>1, <3>2 DEF StageTypes, View
    <2>5. QED
      BY <2>2, <2>3, <2>4
  <1>2. ASSUME NEW w \in waiters, Send(w)
        PROVE  TokenInv'
    <2>1. waiters' \subseteq waiters /\ UNCHANGED <<active, playToken, currentTrack, plays>>
      BY <1>2 DEF Send
    <2>2. /\ w.by \in {"solo", "trivia"} /\ w.token \in Nat /\ w.track \in Tracks
          /\ w.got \in Outcomes \cup {"nothing"} /\ view \in View
      BY DEF LyricTypes, Waiter, StageTypes
    <2>3. view' = view \/ view' = Sent(view, w.by, w.token, w.track, w.got)
      BY <1>2 DEF Send
    <2>4. view'.play \in {view.play, w.token} /\ (w.by = "trivia" => view'.play = view.play)
      BY <2>2, <2>3, SentIs
    <2>5. w.by = "solo" => w.token <= plays
      BY DEF ModeTypes
    <2>6. QED
      BY <2>1, <2>2, <2>4, <2>5
  <1>3. ASSUME NEW t \in Tracks, NEW o \in Outcomes, FetchDone(t, o)
        PROVE  TokenInv'
    <2>1. \A u \in waiters : Told(u, t, o).by = u.by /\ Told(u, t, o).token = u.token /\ Told(u, t, o).track = u.track
      BY ToldIs DEF LyricTypes
    <2>2. waiters' = {Told(u, t, o) : u \in waiters} /\ UNCHANGED <<active, playToken, currentTrack, plays, view>>
      BY <1>3 DEF FetchDone
    <2>3. \A v \in waiters' : \E u \in waiters : v.by = u.by /\ v.token = u.token /\ v.track = u.track
      BY <2>1, <2>2
    <2>4. QED
      BY <2>2, <2>3
  <1>4. ASSUME sendFullSync
        PROVE  TokenInv'
    <2>1. UNCHANGED <<active, playToken, currentTrack, plays>>
      BY <1>4 DEF sendFullSync
    <2>2. /\ view'.play = view.play \/ (active /\ view'.play = playToken)
          /\ \A w \in waiters' : w \in waiters \/ (active /\ w.token = playToken /\ w.track = currentTrack)
      BY <1>4, SyncIs
    <2>3. playToken <= plays /\ (active => playToken \in 1 .. plays)
      BY DEF ModeTypes
    <2>4. QED
      BY <2>1, <2>2, <2>3
  <1>5. ASSUME StageDrops
        PROVE  TokenInv'
    <2>1. UNCHANGED <<active, playToken, currentTrack, plays, waiters>> /\ view' \in {view, Blank}
      BY <1>5 DEF StageDrops
    <2>2. view'.play \in {view.play, 0}
      BY <2>1, BlankIs
    <2>3. 0 <= plays
      BY DEF ModeTypes
    <2>4. QED
      BY <2>1, <2>2, <2>3
  <1>6. ASSUME NEW i \in 0 .. Len(queue) - 1, PlaysAt(i)
        PROVE  TokenInv'
    <2> DEFINE t == queue[i + 1]
               k == plays + 1
    <2>1. /\ plays' = k /\ playToken' = k /\ currentTrack' = t
          /\ FetchAndSend("solo", k, t, Heard, syncs, stage)
      BY <1>6 DEF PlaysAt, soloKaraokePlayAt
    <2>2. /\ plays \in Nat /\ syncs \in Nat /\ view \in View /\ view.play \in Nat
          /\ view.play <= plays /\ stage \in BOOLEAN
      BY DEF ModeTypes, StageTypes, View
    <2>a. t \in Tracks
      BY SongAt
    <2>3. /\ k \in Nat /\ k > plays /\ k # 0 /\ view.play <= k
          /\ k \in 1 .. k /\ \A j \in 1 .. plays : j \in 1 .. k /\ j # k
      BY <2>2
    <2> HIDE DEF t, k
    <2>4. /\ \A v \in waiters' : v \in waiters \/ (v.by = "solo" /\ v.token = k /\ v.track = t)
          /\ view'.play \in {view.play, k}
      <3>1. PICK v \in View : v = Heard /\ v.play = view.play
        BY <2>2, HeardIs
      <3>2. FetchAndSend("solo", k, t, v, syncs, stage)
        BY <2>1, <3>1
      <3>3. QED
        BY <2>2, <2>a, <2>3, <3>1, <3>2, AskIs
    <2>5. view'.play <= plays'
      BY <2>1, <2>3, <2>4
    <2>6. \A w \in waiters' : w.by = "solo" =>
              w.token \in 1 .. plays' /\ (w.token = playToken' => w.track = currentTrack')
      BY <2>1, <2>3, <2>4 DEF TokenInv
    <2>7. QED
      BY <2>1, <2>3, <2>5, <2>6
  <1>7. ASSUME Quits
        PROVE  TokenInv'
    <2>1. /\ active' = FALSE /\ playToken' = 0 /\ UNCHANGED <<plays, waiters, view>>
      BY <1>7 DEF Quits, soloKaraokeDeactivate
    <2>2. \A w \in waiters : w.by = "solo" => w.token # 0
      BY DEF ModeTypes
    <2>3. QED
      BY <2>1, <2>2
  <1>8. ASSUME EnterKaraoke
        PROVE  TokenInv'
    <2>1. UNCHANGED <<active, playToken, currentTrack, plays>>
      BY <1>8 DEF EnterKaraoke
    <2>2. CASE curTrack = None
      BY <1>8, <2>1, <2>2 DEF EnterKaraoke
    <2>3. CASE curTrack # None
      <3>1. FetchAndSend("trivia", roundKey, curTrack, view, syncs, stage)
        BY <1>8, <2>3 DEF EnterKaraoke
      <3>2. /\ roundKey \in Nat /\ curTrack \in Tracks /\ view \in View /\ syncs \in Nat
            /\ stage \in BOOLEAN
        BY <2>3 DEF GameTypes, StageTypes
      <3>3. /\ \E o \in Outcomes : view' = Sent(view, "trivia", roundKey, curTrack, o) \/ view' = view
            /\ \A v \in waiters' : v \in waiters \/ v.by = "trivia"
        BY <3>1, <3>2, FetchAndSendIs
      <3>4. view'.play = view.play
        BY <3>2, <3>3, SentIs
      <3>5. QED
        BY <2>1, <3>3, <3>4
    <2>4. QED
      BY <2>2, <2>3
  <1>9. ASSUME NEW t \in Tracks, SelectCell(t)
        PROVE  TokenInv'
    <2>1. UNCHANGED <<active, stage, playToken, currentTrack, plays, waiters>> /\ view' = Heard
      BY <1>9 DEF SelectCell
    <2>2. view'.play = view.play
      BY <2>1, HeardIs DEF StageTypes
    <2>3. QED
      BY <2>1, <2>2
  <1>10. ASSUME StartGame
         PROVE  TokenInv'
    <2>1. UNCHANGED <<active, stage, playToken, currentTrack, plays, waiters>> /\ view' = Heard
      BY <1>10 DEF StartGame
    <2>2. view'.play = view.play
      BY <2>1, HeardIs DEF StageTypes
    <2>3. QED
      BY <2>1, <2>2
  <1>11. ASSUME EndRound
         PROVE  TokenInv'
    <2>1. UNCHANGED <<active, stage, playToken, currentTrack, plays, waiters>> /\ view' = Heard
      BY <1>11 DEF EndRound
    <2>2. view'.play = view.play
      BY <2>1, HeardIs DEF StageTypes
    <2>3. QED
      BY <2>1, <2>2
  <1>12. ASSUME ResetToLobby
         PROVE  TokenInv'
    <2>1. UNCHANGED <<active, stage, playToken, currentTrack, plays, waiters>> /\ view' = Heard
      BY <1>12 DEF ResetToLobby
    <2>2. view'.play = view.play
      BY <2>1, HeardIs DEF StageTypes
    <2>3. QED
      BY <2>1, <2>2
  <1>13. CASE UNCHANGED <<active, playToken, currentTrack, plays, view, waiters>>
    BY <1>13
  <1>14. QED
    BY <1>1, <1>2, <1>3, <1>4, <1>5, <1>6, <1>7, <1>8, <1>9, <1>10, <1>11, <1>12, <1>13
       DEF Steps, EditsPlaylist, Lyrics, Trivia, Writes, soloKaraokePlayAt, soloKaraokeDeactivate,
           AddTrack, RemoveTrack, Reorder, ListPlaylist, ReloadSoloKaraokeQueue, Evict, Ignores,
           Pause, Resume, Seek, TrackEnds, SetKnobs, AdminPlayback, EndGame, StageConnects, Resync

(* The stage has the lines of the song that plays. *)
LEMMA LinesStep == IInv /\ [Steps]_vars => LinesInv'
  <1> SUFFICES ASSUME IInv, [Steps]_vars
               PROVE  LinesInv'
    OBVIOUS
  <1> USE ConstantsOK
         DEF vars, solo, knobs, trivia, http, lyrics, theStage, theDeck, counts, IInv, LinesInv
  <1>a. active => currentTrack \in Tracks
    BY DEF IndexIsCurrent, ModeTypes
  <1>1. ASSUME NEW w \in waiters, GraceOver(w)
        PROVE  LinesInv'
    <2>1. UNCHANGED <<active, stage, unseen, strayed, overridden, playToken, currentTrack, game, cache>>
      BY <1>1 DEF GraceOver
    <2>2. view' = view \/ view' = [view EXCEPT !.status = "loading", !.play = w.token]
      BY <1>1 DEF GraceOver
    <2>3. view' = view \/ (view'.lines = view.lines /\ view'.status # "ready")
      BY <2>2 DEF StageTypes, View
    <2>4. QED
      BY <2>1, <2>3
  <1>2. ASSUME NEW w \in waiters, Send(w)
        PROVE  LinesInv'
    <2>1. UNCHANGED <<active, stage, unseen, overridden, playToken, currentTrack, game, cache>>
      BY <1>2 DEF Send
    <2>2. /\ w.by \in {"solo", "trivia"} /\ w.token \in Nat /\ w.track \in Tracks
          /\ w.got \in Outcomes \cup {"nothing"} /\ view \in View
      BY DEF LyricTypes, Waiter, StageTypes
    <2>3. CASE ~(stage /\ Wanted(w))
      <3>1. UNCHANGED <<view, strayed>>
        BY <1>2, <2>3 DEF Send
      <3>2. QED
        BY <2>1, <3>1
    <2>4. CASE stage /\ Wanted(w) /\ w.by = "trivia"
      <3>1. active => strayed'
        BY <1>2, <2>4 DEF Send
      <3>2. QED
        BY <2>1, <3>1
    <2>5. CASE stage /\ Wanted(w) /\ w.by = "solo"
      <3>1. view' = Sent(view, "solo", w.token, w.track, w.got) /\ (strayed => strayed')
        BY <1>2, <2>5 DEF Send
      <3>2. w.token = playToken
        BY <2>5 DEF Wanted
      <3>3. w.track = currentTrack
        BY <2>5, <3>2 DEF TokenInv
      <3>4. /\ view'.lines \in {currentTrack, view.lines}
            /\ view'.status = "ready" => view'.lines = currentTrack /\ w.got = "lines"
        BY <2>2, <3>1, <3>3, SentIs
      <3>5. w.got = "lines" => cache[currentTrack] = "lines"
        BY <3>3 DEF FedInv
      <3>6. QED
        BY <2>1, <3>1, <3>4, <3>5
    <2>6. QED
      BY <2>2, <2>3, <2>4, <2>5
  <1>3. ASSUME sendFullSync
        PROVE  LinesInv'
    <2>1. UNCHANGED <<active, unseen, strayed, overridden, playToken, currentTrack, game>>
      BY <1>3 DEF sendFullSync
    <2>2. CASE active /\ ~strayed /\ ~overridden
      <3>1. PICK v \in View :
                /\ v.play = view.play /\ v.status = view.status
                /\ v.lines \in {view.lines, None} /\ (game = "LOBBY" => v.lines = None)
                /\ view'.lines \in {v.lines, currentTrack} /\ lyricFetch(currentTrack)
                /\ \/ view' = v
                   \/ view'.status = "ready" =>
                          view'.lines = currentTrack /\ cache'[currentTrack] = "lines"
                /\ cache[currentTrack] = "lines" => view'.lines = currentTrack
        BY <1>3, <2>2, SyncIs
      <3>3. cache[currentTrack] = "lines" => cache'[currentTrack] = "lines"
        BY <1>a, <2>2, <3>1, FetchComes
      <3>4. game \in {"LOBBY", "GAME_OVER"}
        BY <2>2 DEF SoloOwnsTheDeck, GameTypes
      <3>5. ~unseen => view'.lines \in {None, currentTrack}
        BY <2>2, <3>1
      <3>6. view'.lines \in {None, currentTrack} \/ game = "GAME_OVER"
        BY <3>1, <3>4
      <3>7. view'.play = playToken /\ view'.status = "ready" =>
                view'.lines = currentTrack /\ cache'[currentTrack] = "lines"
        BY <2>2, <3>1, <3>3
      <3>8. QED
        BY <2>1, <3>5, <3>6, <3>7
    <2>3. QED
      BY <2>1, <2>2
  <1>4. ASSUME StageDrops
        PROVE  LinesInv'
    <2>1. /\ UNCHANGED <<active, unseen, strayed, overridden, playToken, currentTrack, cache>>
          /\ stage' = FALSE /\ view' \in {view, Blank}
      BY <1>4 DEF StageDrops
    <2>2. view' = view \/ (view'.lines = None /\ view'.status = "")
      BY <2>1, BlankIs
    <2>3. QED
      BY <2>1, <2>2
  <1>5. ASSUME NEW i \in 0 .. Len(queue) - 1, PlaysAt(i)
        PROVE  LinesInv'
    <2> DEFINE t == queue[i + 1]
               k == plays + 1
    <2>1. /\ playToken' = k /\ currentTrack' = t /\ stage' = stage /\ unseen' = ~stage
          /\ FetchAndSend("solo", k, t, Heard, syncs, stage)
      BY <1>5 DEF PlaysAt, soloKaraokePlayAt
    <2>2. /\ plays \in Nat /\ syncs \in Nat /\ view \in View /\ view.play \in Nat
          /\ view.play <= plays /\ stage \in BOOLEAN
      BY DEF ModeTypes, StageTypes, TokenInv, View
    <2>a. t \in Tracks
      BY SongAt
    <2>b. k \in Nat /\ view.play # k
      BY <2>2
    <2> HIDE DEF t, k
    <2>3. PICK v \in View : v = Heard /\ v.play = view.play /\ (stage => v.lines = None)
      BY <2>2, HeardIs
    <2>4. FetchAndSend("solo", k, t, v, syncs, stage)
      BY <2>1, <2>3
    <2>5. /\ view'.lines \in {v.lines, t}
          /\ view' = v \/ (view'.status = "ready" => view'.lines = t /\ cache'[t] = "lines")
      BY <2>2, <2>a, <2>b, <2>4, AskIs
    <2>6. view'.play = k => view' # v
      BY <2>b, <2>3
    <2>7. QED
      BY <2>1, <2>3, <2>5, <2>6
  <1>6. ASSUME Quits
        PROVE  LinesInv'
    BY <1>6 DEF Quits, soloKaraokeDeactivate
  <1>7. ASSUME EnterKaraoke
        PROVE  LinesInv'
    <2>1. overridden' = (overridden \/ active) /\ active' = active
      BY <1>7 DEF EnterKaraoke, Overrides
    <2>2. QED
      BY <2>1
  <1>8. ASSUME EndRound
        PROVE  LinesInv'
    <2>1. overridden' = (overridden \/ active) /\ active' = active
      BY <1>8 DEF EndRound, Overrides
    <2>2. QED
      BY <2>1
  <1>9. ASSUME AdminPlayback
        PROVE  LinesInv'
    <2>1. overridden' = (overridden \/ active) /\ active' = active
      BY <1>9 DEF AdminPlayback, Overrides
    <2>2. QED
      BY <2>1
  <1>10. ASSUME EndGame
         PROVE  LinesInv'
    <2>1. CASE curTrack = None
      <3>1. /\ UNCHANGED <<active, stage, unseen, strayed, overridden, view, playToken, currentTrack, cache>>
            /\ game' = "GAME_OVER"
        BY <1>10, <2>1 DEF EndGame
      <3>2. QED
        BY <3>1
    <2>2. CASE curTrack # None
      <3>1. overridden' = (overridden \/ active) /\ active' = active
        BY <1>10, <2>2 DEF EndGame, Overrides
      <3>2. QED
        BY <3>1
    <2>3. QED
      BY <2>1, <2>2
  <1>11. ASSUME NEW t \in Tracks, SelectCell(t)
         PROVE  LinesInv'
    <2>1. overridden' = (overridden \/ active) /\ active' = active
      BY <1>11 DEF SelectCell, Overrides
    <2>2. QED
      BY <2>1
  <1>12. ASSUME StartGame
         PROVE  LinesInv'
    BY <1>12 DEF StartGame, MayStartGame
  <1>13. ASSUME ResetToLobby
         PROVE  LinesInv'
    <2>1. /\ UNCHANGED <<active, stage, unseen, overridden, playToken, currentTrack, cache>>
          /\ view' = Heard /\ strayed' = (strayed \/ (active /\ stage))
      BY <1>13 DEF ResetToLobby
    <2>2. ~stage => view' = view
      BY <2>1 DEF Heard
    <2>3. QED
      BY <2>1, <2>2
  <1>14. ASSUME NEW t \in Tracks, NEW o \in Outcomes, FetchDone(t, o)
         PROVE  LinesInv'
    <2>1. /\ UNCHANGED <<active, stage, unseen, strayed, overridden, view, playToken, currentTrack, game>>
          /\ fetches[t] > 0 /\ cache' = [cache EXCEPT ![t] = o]
      BY <1>14 DEF FetchDone
    <2>2. cache[t] # "lines"
      BY <2>1 DEF LyricTypes, OneFetchPerSong
    <2>3. active /\ cache[currentTrack] = "lines" => cache'[currentTrack] = "lines"
      BY <1>a, <2>1, <2>2 DEF LyricTypes
    <2>4. QED
      BY <2>1, <2>3
  <1>15. ASSUME NEW t \in Tracks, Evict(t)
         PROVE  LinesInv'
    <2>1. /\ UNCHANGED <<active, stage, unseen, strayed, overridden, view, playToken, currentTrack, game>>
          /\ cache[t] = "error" /\ cache' = [cache EXCEPT ![t] = "absent"]
      BY <1>15 DEF Evict
    <2>2. active /\ cache[currentTrack] = "lines" => cache'[currentTrack] = "lines"
      BY <1>a, <2>1 DEF LyricTypes
    <2>3. QED
      BY <2>1, <2>2
  <1>16. CASE UNCHANGED <<active, stage, unseen, strayed, overridden, view, playToken, currentTrack,
                          game, cache>>
    BY <1>16
  <1>17. QED
    BY <1>1, <1>2, <1>3, <1>4, <1>5, <1>6, <1>7, <1>8, <1>9, <1>10, <1>11, <1>12, <1>13, <1>14,
       <1>15, <1>16
       DEF Steps, EditsPlaylist, Lyrics, Trivia, Writes, soloKaraokePlayAt, soloKaraokeDeactivate,
           AddTrack, RemoveTrack, Reorder, ListPlaylist, ReloadSoloKaraokeQueue, StageConnects,
           Resync, Ignores, Pause, Resume, Seek, TrackEnds, SetKnobs

(* Whoever waits, waits for a fetch under way or has its answer. *)
LEMMA FedStep == IInv /\ [Steps]_vars => FedInv'
  <1> SUFFICES ASSUME IInv, [Steps]_vars
               PROVE  FedInv'
    OBVIOUS
  <1> USE ConstantsOK
         DEF vars, solo, knobs, trivia, http, lyrics, theStage, theDeck, counts, IInv, FedInv
  <1>1. ASSUME NEW w \in waiters, GraceOver(w)
        PROVE  FedInv'
    <2>1. w \in Waiter
      BY DEF LyricTypes
    <2>2. PICK l \in Waiter : l = [w EXCEPT !.late = TRUE] /\ l.track = w.track /\ l.got = w.got
      BY <2>1, LateIs
    <2>3. waiters' = (waiters \ {w}) \cup {l} /\ UNCHANGED <<fetches, cache>>
      BY <1>1, <2>2 DEF GraceOver
    <2>4. QED
      BY <2>2, <2>3
  <1>2. ASSUME NEW w \in waiters, Send(w)
        PROVE  FedInv'
    <2>1. waiters' \subseteq waiters /\ UNCHANGED <<fetches, cache>>
      BY <1>2 DEF Send
    <2>2. QED
      BY <2>1
  <1>3. ASSUME NEW t \in Tracks, NEW o \in Outcomes, FetchDone(t, o)
        PROVE  FedInv'
    <2>1. \A u \in waiters :
              /\ Told(u, t, o).track = u.track /\ u.track \in Tracks
              /\ Told(u, t, o).got = "nothing" => u.got = "nothing" /\ u.track # t
              /\ Told(u, t, o).got = "lines" => u.got = "lines" \/ (u.track = t /\ o = "lines")
      BY ToldIs DEF LyricTypes, Waiter
    <2>2. /\ waiters' = {Told(u, t, o) : u \in waiters} /\ fetches[t] > 0
          /\ fetches' = [fetches EXCEPT ![t] = fetches[t] - 1] /\ cache' = [cache EXCEPT ![t] = o]
      BY <1>3 DEF FetchDone
    <2>3. \A u \in Tracks : u # t => fetches'[u] = fetches[u] /\ cache'[u] = cache[u]
      BY <2>2 DEF LyricTypes
    <2>4. cache'[t] = o /\ cache[t] # "lines"
      BY <2>2 DEF LyricTypes, OneFetchPerSong
    <2>5. \A u \in waiters : /\ Told(u, t, o).got = "nothing" => fetches'[u.track] > 0
                             /\ Told(u, t, o).got = "lines" => cache'[u.track] = "lines"
      BY <2>1, <2>3, <2>4
    <2>6. QED
      BY <2>1, <2>2, <2>5
  <1>4. ASSUME sendFullSync
        PROVE  FedInv'
    <2>1. IF active
          THEN /\ lyricFetch(currentTrack)
               /\ \A w \in waiters' : w \in waiters \/ (w.got = "nothing" /\ fetches'[w.track] > 0)
          ELSE UNCHANGED lyrics
      BY <1>4, SyncIs
    <2>2. CASE active
      <3>1. currentTrack \in Tracks
        BY <2>2 DEF IndexIsCurrent, ModeTypes
      <3>2. \A w \in waiters : /\ fetches[w.track] > 0 => fetches'[w.track] > 0
                               /\ cache[w.track] = "lines" => cache'[w.track] = "lines"
        BY <2>1, <2>2, <3>1, FetchComes DEF LyricTypes, Waiter
      <3>3. QED
        BY <2>1, <2>2, <3>2
    <2>3. CASE ~active
      BY <2>1, <2>3
    <2>4. QED
      BY <2>2, <2>3
  <1>5. ASSUME NEW i \in 0 .. Len(queue) - 1, PlaysAt(i)
        PROVE  FedInv'
    <2> DEFINE t == queue[i + 1]
               k == plays + 1
    <2>1. lyricFetch(t) /\ FetchAndSend("solo", k, t, Heard, syncs, stage)
      BY <1>5 DEF PlaysAt, soloKaraokePlayAt, FetchAndSend
    <2>2. t \in Tracks
      BY SongAt
    <2>3. k \in Nat
      BY DEF ModeTypes
    <2>4. syncs \in Nat /\ view \in View /\ stage \in BOOLEAN
      BY DEF StageTypes
    <2> HIDE DEF t, k
    <2>5. \A u \in waiters : /\ fetches[u.track] > 0 => fetches'[u.track] > 0
                             /\ cache[u.track] = "lines" => cache'[u.track] = "lines"
      BY <2>1, <2>2, FetchComes DEF LyricTypes, Waiter
    <2>6. \A u \in waiters' : u \in waiters \/ (u.got = "nothing" /\ fetches'[u.track] > 0)
      <3>1. PICK v \in View : v = Heard
        BY <2>4, HeardIs
      <3>2. FetchAndSend("solo", k, t, v, syncs, stage)
        BY <2>1, <3>1
      <3>3. QED
        BY <2>2, <2>3, <2>4, <3>2, AskComes
    <2>7. QED
      BY <2>5, <2>6
  <1>6. ASSUME EnterKaraoke
        PROVE  FedInv'
    <2>1. CASE curTrack = None
      BY <1>6, <2>1 DEF EnterKaraoke
    <2>2. CASE curTrack # None
      <3>1. FetchAndSend("trivia", roundKey, curTrack, view, syncs, stage)
        BY <1>6, <2>2 DEF EnterKaraoke
      <3>2. /\ roundKey \in Nat /\ curTrack \in Tracks /\ view \in View /\ syncs \in Nat
            /\ stage \in BOOLEAN
        BY <2>2 DEF GameTypes, StageTypes
      <3>3. lyricFetch(curTrack)
        BY <3>1 DEF FetchAndSend
      <3>4. \A u \in waiters : /\ fetches[u.track] > 0 => fetches'[u.track] > 0
                               /\ cache[u.track] = "lines" => cache'[u.track] = "lines"
        BY <3>2, <3>3, FetchComes DEF LyricTypes, Waiter
      <3>5. \A u \in waiters' : u \in waiters \/ (u.got = "nothing" /\ fetches'[u.track] > 0)
        BY <3>1, <3>2, AskComes
      <3>6. QED
        BY <3>4, <3>5
    <2>3. QED
      BY <2>1, <2>2
  <1>7. ASSUME NEW t \in Tracks, SelectCell(t)
        PROVE  FedInv'
    <2>1. lyricFetch(t) /\ waiters' = waiters
      BY <1>7 DEF SelectCell
    <2>2. \A u \in waiters : /\ fetches[u.track] > 0 => fetches'[u.track] > 0
                             /\ cache[u.track] = "lines" => cache'[u.track] = "lines"
      BY <2>1, FetchComes DEF LyricTypes, Waiter
    <2>3. QED
      BY <2>1, <2>2
  <1>8. ASSUME NEW t \in Tracks, Evict(t)
        PROVE  FedInv'
    <2>1. cache[t] = "error" /\ cache' = [cache EXCEPT ![t] = "absent"] /\ UNCHANGED <<fetches, waiters>>
      BY <1>8 DEF Evict
    <2>2. \A u \in waiters : u.track \in Tracks /\ (cache[u.track] = "lines" => cache'[u.track] = "lines")
      BY <2>1 DEF LyricTypes, Waiter
    <2>3. QED
      BY <2>1, <2>2
  <1>9. CASE UNCHANGED <<waiters, fetches, cache>>
    BY <1>9
  <1>10. QED
    BY <1>1, <1>2, <1>3, <1>4, <1>5, <1>6, <1>7, <1>8, <1>9
       DEF Steps, EditsPlaylist, Lyrics, Trivia, Writes, soloKaraokePlayAt, soloKaraokeDeactivate,
           AddTrack, RemoveTrack, Reorder, ListPlaylist, ReloadSoloKaraokeQueue, StageConnects,
           Resync, StageDrops, Quits, Ignores, Pause, Resume, Seek, TrackEnds, SetKnobs,
           StartGame, EndRound, AdminPlayback, EndGame, ResetToLobby

(* Until the stage has been told, somebody waits who will tell it. *)
LEMMA AwaitedStep == IInv /\ [Steps]_vars => AwaitedInv'
  <1> SUFFICES ASSUME IInv, [Steps]_vars
               PROVE  AwaitedInv'
    OBVIOUS
  <1> USE ConstantsOK
         DEF vars, solo, knobs, trivia, http, lyrics, theStage, theDeck, counts, IInv, AwaitedInv,
             Settled
  <1>1. ASSUME NEW w \in waiters, GraceOver(w)
        PROVE  AwaitedInv'
    <2>1. UNCHANGED <<active, stage, playToken>>
      BY <1>1 DEF GraceOver
    <2>2. w \in Waiter
      BY DEF LyricTypes
    <2>3. PICK l \in Waiter : l = [w EXCEPT !.late = TRUE] /\ l.by = w.by /\ l.token = w.token
      BY <2>2, LateIs
    <2>4. waiters' = (waiters \ {w}) \cup {l} /\ w.by = "solo"
      BY <1>1, <2>3 DEF GraceOver
    <2>5. CASE stage /\ w.token = playToken
      BY <2>1, <2>3, <2>4, <2>5
    <2>6. CASE ~(stage /\ w.token = playToken)
      <3>1. view' = view
        BY <1>1, <2>4, <2>6 DEF GraceOver, Wanted
      <3>2. QED
        BY <2>1, <2>3, <2>4, <2>6, <3>1
    <2>7. QED
      BY <2>5, <2>6
  <1>2. ASSUME NEW w \in waiters, Send(w)
        PROVE  AwaitedInv'
    <2>1. UNCHANGED <<active, stage, playToken>> /\ waiters' = waiters \ {w}
      BY <1>2 DEF Send
    <2>2. /\ w.by \in {"solo", "trivia"} /\ w.token \in Nat /\ w.track \in Tracks
          /\ w.got \in Outcomes \cup {"nothing"} /\ view \in View
      BY DEF LyricTypes, Waiter, StageTypes
    <2>3. CASE stage /\ Wanted(w)
      <3>1. view' = Sent(view, w.by, w.token, w.track, w.got)
        BY <1>2, <2>3 DEF Send
      <3>2. CASE w.by = "solo"
        <4>1. w.token = playToken
          BY <2>3, <3>2 DEF Wanted
        <4>2. view'.play = playToken /\ view'.status \in {"ready", "none"}
          BY <2>2, <3>1, <3>2, <4>1, SentIs
        <4>3. QED
          BY <2>1, <4>2
      <3>3. CASE w.by = "trivia"
        <4>1. view'.play = view.play /\ view'.status = view.status
          BY <2>2, <3>1, <3>3, SentIs
        <4>2. QED
          BY <2>1, <3>3, <4>1
      <3>4. QED
        BY <2>2, <3>2, <3>3
    <2>4. CASE ~(stage /\ Wanted(w))
      <3>1. view' = view
        BY <1>2, <2>4 DEF Send
      <3>2. stage => ~(w.by = "solo" /\ w.token = playToken)
        BY <2>4 DEF Wanted
      <3>3. QED
        BY <2>1, <3>1, <3>2
    <2>5. QED
      BY <2>3, <2>4
  <1>3. ASSUME NEW t \in Tracks, NEW o \in Outcomes, FetchDone(t, o)
        PROVE  AwaitedInv'
    <2>1. \A u \in waiters : Told(u, t, o).by = u.by /\ Told(u, t, o).token = u.token
      BY ToldIs DEF LyricTypes
    <2>2. /\ waiters' = {Told(u, t, o) : u \in waiters}
          /\ UNCHANGED <<active, stage, playToken, view>>
      BY <1>3 DEF FetchDone
    <2>3. QED
      BY <2>1, <2>2
  <1>4. ASSUME sendFullSync
        PROVE  AwaitedInv'
    <2>1. UNCHANGED <<active, playToken>>
      BY <1>4 DEF sendFullSync
    <2>2. active => \/ view'.play = playToken /\ view'.status \in {"ready", "none"}
                    \/ \E w \in waiters' : w.by = "solo" /\ w.token = playToken
      BY <1>4, SyncIs
    <2>3. QED
      BY <2>1, <2>2
  <1>5. ASSUME StageDrops
        PROVE  AwaitedInv'
    BY <1>5 DEF StageDrops
  <1>6. ASSUME NEW i \in 0 .. Len(queue) - 1, PlaysAt(i)
        PROVE  AwaitedInv'
    <2> DEFINE t == queue[i + 1]
               k == plays + 1
    <2>1. /\ playToken' = k /\ stage' = stage
          /\ FetchAndSend("solo", k, t, Heard, syncs, stage)
      BY <1>6 DEF PlaysAt, soloKaraokePlayAt
    <2>2. t \in Tracks
      BY SongAt
    <2>3. k \in Nat
      BY DEF ModeTypes
    <2>4. syncs \in Nat /\ view \in View /\ stage \in BOOLEAN
      BY DEF StageTypes
    <2> HIDE DEF t, k
    <2>5. PICK v \in View : v = Heard
      BY <2>4, HeardIs
    <2>6. FetchAndSend("solo", k, t, v, syncs, stage)
      BY <2>1, <2>5
    <2>7. stage => \/ view'.play = k /\ view'.status \in {"ready", "none"}
                   \/ \E w \in waiters' : w.by = "solo" /\ w.token = k
      <3>1. PICK h \in BOOLEAN : h = stage /\ FetchAndSend("solo", k, t, v, syncs, h)
        BY <2>4, <2>6
      <3>2. QED
        BY <2>2, <2>3, <2>4, <3>1, AskComes
    <2>8. QED
      BY <2>1, <2>7
  <1>7. ASSUME Quits
        PROVE  AwaitedInv'
    BY <1>7 DEF Quits, soloKaraokeDeactivate
  <1>8. ASSUME EnterKaraoke
        PROVE  AwaitedInv'
    <2>1. UNCHANGED <<active, stage, playToken>>
      BY <1>8 DEF EnterKaraoke
    <2>2. CASE curTrack = None
      BY <1>8, <2>1, <2>2 DEF EnterKaraoke
    <2>3. CASE curTrack # None
      <3>1. FetchAndSend("trivia", roundKey, curTrack, view, syncs, stage)
        BY <1>8, <2>3 DEF EnterKaraoke
      <3>2. /\ roundKey \in Nat /\ curTrack \in Tracks /\ view \in View /\ syncs \in Nat
            /\ stage \in BOOLEAN
        BY <2>3 DEF GameTypes, StageTypes
      <3>3. /\ waiters \subseteq waiters'
            /\ view'.play = view.play /\ view'.status = view.status
        BY <3>1, <3>2, AskComes
      <3>4. QED
        BY <2>1, <3>3
    <2>4. QED
      BY <2>2, <2>3
  <1>9. ASSUME NEW t \in Tracks, SelectCell(t)
        PROVE  AwaitedInv'
    <2>1. UNCHANGED <<active, stage, playToken, currentTrack, plays, waiters>> /\ view' = Heard
      BY <1>9 DEF SelectCell
    <2>2. view'.play = view.play /\ view'.status = view.status
      BY <2>1, HeardIs DEF StageTypes
    <2>3. QED
      BY <2>1, <2>2
  <1>10. ASSUME StartGame
         PROVE  AwaitedInv'
    <2>1. UNCHANGED <<active, stage, playToken, currentTrack, plays, waiters>> /\ view' = Heard
      BY <1>10 DEF StartGame
    <2>2. view'.play = view.play /\ view'.status = view.status
      BY <2>1, HeardIs DEF StageTypes
    <2>3. QED
      BY <2>1, <2>2
  <1>11. ASSUME EndRound
         PROVE  AwaitedInv'
    <2>1. UNCHANGED <<active, stage, playToken, currentTrack, plays, waiters>> /\ view' = Heard
      BY <1>11 DEF EndRound
    <2>2. view'.play = view.play /\ view'.status = view.status
      BY <2>1, HeardIs DEF StageTypes
    <2>3. QED
      BY <2>1, <2>2
  <1>12. ASSUME ResetToLobby
         PROVE  AwaitedInv'
    <2>1. UNCHANGED <<active, stage, playToken, currentTrack, plays, waiters>> /\ view' = Heard
      BY <1>12 DEF ResetToLobby
    <2>2. view'.play = view.play /\ view'.status = view.status
      BY <2>1, HeardIs DEF StageTypes
    <2>3. QED
      BY <2>1, <2>2
  <1>13. CASE UNCHANGED <<active, stage, view, playToken, waiters>>
    BY <1>13
  <1>14. QED
    BY <1>1, <1>2, <1>3, <1>4, <1>5, <1>6, <1>7, <1>8, <1>9, <1>10, <1>11, <1>12, <1>13
       DEF Steps, EditsPlaylist, Lyrics, Trivia, Writes, soloKaraokePlayAt, soloKaraokeDeactivate,
           AddTrack, RemoveTrack, Reorder, ListPlaylist, ReloadSoloKaraokeQueue, Evict, Ignores,
           Pause, Resume, Seek, TrackEnds, SetKnobs, AdminPlayback, EndGame, StageConnects, Resync

-----------------------------------------------------------------------------
LEMMA InitInv == Init => IInv
  <1> SUFFICES ASSUME NEW b \in Starts, Init, bound = b,
                      queue = IF b.loaded THEN b.playlist ELSE <<>>,
                      playlist = b.playlist,
                      cache = b.cache,
                      unsynced = ~b.loaded,
                      added = {b.playlist[i] : i \in DOMAIN b.playlist}
               PROVE  IInv
    BY DEF Init
  <1>1. /\ active = FALSE /\ currentTrack = None /\ index = 0 /\ shuffle = FALSE /\ repeat = ""
        /\ playToken = 0 /\ paused = FALSE /\ game = "LOBBY" /\ curTrack = None /\ roundKey = 0
        /\ request = [r \in Requests |-> Idle]
        /\ deck = [track |-> None, playing |-> FALSE] /\ ended = FALSE
        /\ stage = TRUE /\ view = Blank
        /\ fetches = [t \in Tracks |-> 0] /\ waiters = {}
        /\ failed = FALSE /\ muted = FALSE /\ overridden = FALSE
        /\ unseen = FALSE /\ strayed = FALSE /\ overlapped = {}
        /\ plays = 0 /\ rounds = 0 /\ syncs = 0
    BY DEF Init
  <1>2. /\ b.playlist \in Seq(Tracks) /\ Once(b.playlist) /\ b.loaded \in BOOLEAN
        /\ b.cache \in [Tracks -> {"absent", "lines", "none"}]
    BY ConstantsOK
  <1>3. ModeTypes /\ GameTypes /\ DeckTypes
    <2>1. ModeTypes
      <3> index = 0 /\ plays = 0 /\ playToken = 0
        BY <1>1
      <3>1. index \in Int /\ index >= -1 /\ plays \in Nat /\ playToken \in 0 .. plays
        OBVIOUS
      <3>2. /\ active \in BOOLEAN /\ paused \in BOOLEAN /\ shuffle \in BOOLEAN
            /\ repeat \in Repeats /\ currentTrack \in Tracks \cup {None}
        BY <1>1 DEF Repeats
      <3>3. QED
        BY <3>1, <3>2 DEF ModeTypes
    <2>2. GameTypes
      <3> rounds = 0 /\ roundKey = 0
        BY <1>1
      <3>1. rounds \in Nat /\ roundKey \in 0 .. rounds
        OBVIOUS
      <3>2. QED
        BY <1>1, <3>1 DEF GameTypes
    <2>3. DeckTypes
      BY <1>1 DEF DeckTypes
    <2>4. QED
      BY <2>1, <2>2, <2>3
  <1>4. StageTypes
    BY <1>1, BlankIs DEF StageTypes
  <1>5. LyricTypes /\ OneFetchPerSong
    BY <1>1, <1>2 DEF LyricTypes, OneFetchPerSong, Outcomes
  <1>6. ListTypes
    <2>1. Listed(<<>>) /\ Idle \in [step : {"idle", "written", "read"}, list : Seq(Tracks)]
          /\ Once(Idle.list)
      BY DEF Listed, Once, Idle
    <2>2. Named(playlist) \subseteq added /\ added \subseteq Tracks
      BY <1>2 DEF Named, In
    <2>3. QED
      BY <1>1, <1>2, <2>1, <2>2 DEF ListTypes, Listed
  <1>7. EditsInv
    BY <1>1 DEF EditsInv, Free, Idle
  <1>8. TokenInv
    <2>1. view.play = 0 /\ plays = 0 /\ waiters = {} /\ active = FALSE
      BY <1>1, BlankIs
    <2>2. QED
      BY <2>1 DEF TokenInv
  <1>9. IndexIsCurrent /\ SoloOwnsTheDeck /\ LinesInv
    BY <1>1 DEF IndexIsCurrent, SoloOwnsTheDeck, LinesInv
  <1>10. QueueInSync
    BY <1>2 DEF QueueInSync
  <1>11. FedInv /\ AwaitedInv
    BY <1>1 DEF FedInv, AwaitedInv
  <1>12. QED
    BY <1>3, <1>4, <1>5, <1>6, <1>7, <1>8, <1>9, <1>10, <1>11 DEF IInv

LEMMA NextInv == IInv /\ [Next]_vars => IInv'
  <1> SUFFICES ASSUME IInv, [Next]_vars
               PROVE  IInv'
    OBVIOUS
  <1>1. [Steps]_vars
    BY NextSteps
  <1>2. ModeTypes' /\ GameTypes' /\ DeckTypes'
    BY <1>1, ModeTypesStep, GameTypesStep, DeckTypesStep
  <1>3. StageTypes' /\ LyricTypes' /\ ListTypes'
    BY <1>1, StageTypesStep, LyricTypesStep, ListTypesStep
  <1>4. EditsInv' /\ TokenInv'
    BY <1>1, EditsStep, TokenStep
  <1>5. IndexIsCurrent' /\ SoloOwnsTheDeck' /\ LinesInv'
    BY <1>1, IndexStep, OwnsStep, LinesStep
  <1>6. OneFetchPerSong' /\ QueueInSync'
    BY <1>1, OneFetchStep, SyncStep
  <1>7. FedInv' /\ AwaitedInv'
    BY <1>1, FedStep, AwaitedStep
  <1>8. QED
    BY <1>2, <1>3, <1>4, <1>5, <1>6, <1>7 DEF IInv

(* The session, the deck, the lists and the lyrics stay together. *)
THEOREM SoloInvariant == Spec => []IInv
  <1>1. QED
    BY InitInv, NextInv, PTL DEF Spec

(* Every variable has its type, and no edit of the playlist, alone or with *)
(* others, leaves a row twice on a list: ReorderSoloKaraokePlaylist keeps  *)
(* the rows there are, whatever order a stale tab sends.                   *)
THEOREM TypeCorrect == Spec => []TypeOK
  <1>1. IInv => TypeOK
    <2> SUFFICES ASSUME IInv
                 PROVE  TypeOK
      OBVIOUS
    <2> USE DEF IInv
    <2>1. view.lines \in Tracks \cup {None} /\ view.status \in {"", "loading", "ready", "none"}
      BY DEF StageTypes, View
    <2>2. deck.track \in Tracks \cup {None} /\ deck.playing \in BOOLEAN
      BY DEF DeckTypes
    <2>3. \A q \in {queue, playlist} : q \in Seq(Tracks) /\ Once(q)
      BY DEF ListTypes, Listed
    <2>4. QED
      BY <2>1, <2>2, <2>3
         DEF ModeTypes, GameTypes, DeckTypes, StageTypes, LyricTypes, ListTypes, TypeOK
  <1>2. QED
    BY <1>1, SoloInvariant, PTL

(* soloKaraokeState.index is where the song that plays is, or -1 when it   *)
(* was removed, through every reload of the queue and every step in it.    *)
THEOREM IndexAlwaysCurrent == Spec => []IndexIsCurrent
  <1>1. IInv => IndexIsCurrent
    BY DEF IInv
  <1>2. QED
    BY <1>1, SoloInvariant, PTL

(* Until the trivia game's controls act over it, a session has the deck,   *)
(* and no game runs: the deck plays the session's song, or is paused, or   *)
(* the song's end is on its way, or a command has failed, or the stage     *)
(* connected again, asked for everything or went away, and nobody has told *)
(* the deck to play since.                                                 *)
THEOREM SoloAlwaysOwnsTheDeck == Spec => []SoloOwnsTheDeck
  <1>1. IInv => SoloOwnsTheDeck
    BY DEF IInv
  <1>2. QED
    BY <1>1, SoloInvariant, PTL

(* No goroutine that waited for lyrics and no stage that connects again    *)
(* puts another song's lines on the stage, and "ready" is not said without *)
(* them, also where a state frame has cleared them: the cache has them     *)
(* still.  The lines that stay are those of a page that was away when the  *)
(* song started and came back after a game.                                *)
THEOREM LyricsAlwaysOfTheSong == Spec => []LyricsOfTheSong
  <1>1. IInv => LyricsOfTheSong
    BY DEF IInv, LinesInv, LyricsOfTheSong
  <1>2. QED
    BY <1>1, SoloInvariant, PTL

(* When the edits are over and the last did not overlap, the engine's      *)
(* queue is the playlist.                                                  *)
THEOREM QueueAlwaysInSync == Spec => []QueueInSync
  <1>1. IInv => QueueInSync
    BY DEF IInv
  <1>2. QED
    BY <1>1, SoloInvariant, PTL

(* As long as the stage has not been told how the lyrics of the song        *)
(* turned out, a goroutine of fetchAndSendLyrics waits that will tell it,   *)
(* for a fetch that is under way or with its answer: what is left for the  *)
(* lyrics to arrive is that fetches end and goroutines run.  And           *)
(* lyricFetch never has two fetches of one song under way.                 *)
THEOREM LyricsAlwaysOnTheirWay == Spec => []LyricsOnTheirWay
  <1>1. IInv => LyricsOnTheirWay
    <2> SUFFICES ASSUME IInv, active, stage, ~Settled
                 PROVE  \E w \in waiters : /\ w.by = "solo" /\ w.token = playToken
                                           /\ w.got # "nothing" \/ fetches[w.track] > 0
      BY DEF LyricsOnTheirWay, Settled, IInv
    <2>1. PICK w \in waiters : w.by = "solo" /\ w.token = playToken
      BY DEF IInv, AwaitedInv
    <2>2. w.got # "nothing" \/ fetches[w.track] > 0
      BY DEF IInv, FedInv
    <2>3. QED
      BY <2>1, <2>2
  <1>2. QED
    BY <1>1, SoloInvariant, PTL

=============================================================================
