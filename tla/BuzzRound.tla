------------------------------ MODULE BuzzRound ------------------------------
(***************************************************************************)
(* One buzz round of the engine: a track starts, players buzz, the buzzes  *)
(* of a short window are ordered by their server arrival time, the winner  *)
(* takes the round's distributed lock, an admin grades the spoken answer,  *)
(* and the round pays, reopens or ends.                                    *)
(*                                                                         *)
(* The engine runs every handler on one goroutine, so a handler is one     *)
(* step.  What interleaves is what is in flight around it: buzz frames of  *)
(* the phones, grade frames of the admins, window timers, and the calls to *)
(* the lock, which may fail.                                               *)
(*                                                                         *)
(* LOBBY, TRANSITION and DAILY_DOUBLE treat the messages of this module as *)
(* BOARD does (a buzz or a grade is refused), and are not told apart here. *)
(* LOCKED is entered and left inside awardBuzzWinner, so no handler ever   *)
(* sees it.  The letters of the reveal, the votes and the cells are the    *)
(* business of other modules.                                              *)
(***************************************************************************)
EXTENDS Scoring, FiniteSets

CONSTANTS
    Players,     \* everyone who ever said Hello with a phone
    Admins,      \* admin connections, each with at most one grade in flight
    Rows,        \* rows of the board
    Times,       \* the values of now - trackStartMs that are told apart
    Arrivals,    \* the server arrival stamps a buzz may carry
    MaxRounds,   \* bound: rounds started in a behaviour
    Bannable,    \* bound: the players an admin may kick and ban
    RedisLock,   \* is the lock in Redis: may calls fail and keys expire?
    Stale,       \* a buzz frame whose nonce has been outrun
    None         \* no player, no frame, no stamp

Verdicts == {"correct", "partial", "incorrect", "bad"}
States   == {"BOARD", "ROUND_ACTIVE", "ADJUDICATE", "KARAOKE", "GAME_OVER"}
Keys     == 0 .. MaxRounds              \* round keys; 0 is the empty key

(* gradePartial re-anchors the clock 5001 ms in the past. *)
ReanchorMs == 5001

ASSUME ConstantsOK ==
    /\ Rows \subseteq Int
    /\ Times \subseteq Nat
    /\ {0, ReanchorMs} \subseteq Times
    /\ Arrivals \subseteq Nat
    /\ MaxRounds \in Nat
    /\ Bannable \subseteq Players
    /\ RedisLock \in BOOLEAN
    /\ None \notin Players
    /\ None \notin Arrivals
    /\ Stale \notin Arrivals
    /\ Stale # None

GradeFrames == [for : Players, verdict : Verdicts]

VARIABLES
    state,        \* Engine.state
    online,       \* players with a live connection
    banned,       \* players with Banned set
    guessed,      \* players with GuessedThisTrack set
    revealLocked, \* Engine.revealLocked
    roundKey,     \* Engine.roundKey
    rounds,       \* round keys minted so far
    curRow,       \* Engine.curRow
    track,        \* Engine.curTrack # nil
    windowOpen,   \* Engine.buzzWindowOpen
    contenders,   \* Engine.buzzContenders: player -> arrival stamp or None
    buzzWinner,   \* Engine.buzzWinner
    elapsed,      \* now - Engine.trackStartMs
    pausedAt,     \* Engine.pausedAtMs
    partial,      \* Engine.partial
    locks,        \* round keys held in the lock store
    timers,       \* pending AfterFunc resolutions per round key
    buzzes,       \* player -> stamp of its buzz frame in flight, Stale or None
    grades,       \* admin -> grade frame on its way to the engine, or None
    (* The rest is history, kept for the properties only. *)
    heard,        \* earliest stamp at which the open window heard a player
    verdicts,     \* verdicts applied to a player in this round
    paid,         \* points paid out in this round
    lockFault     \* a call to the lock failed in this round

engineVars == <<state, guessed, revealLocked, roundKey, rounds, curRow, track,
                buzzWinner, elapsed, pausedAt, partial>>
windowVars == <<windowOpen, contenders, heard>>
peopleVars == <<online, banned>>
lockVars   == <<locks, lockFault>>
history    == <<verdicts, paid>>
vars == <<engineVars, windowVars, peopleVars, lockVars, history,
          timers, buzzes, grades>>

NoContender == [p \in Players |-> None]

Init ==
    /\ state = "BOARD"
    /\ online = {} /\ banned = {} /\ guessed = {}
    /\ revealLocked = FALSE
    /\ roundKey = 0 /\ rounds = 0 /\ curRow = 0 /\ track = FALSE
    /\ windowOpen = FALSE /\ contenders = NoContender
    /\ buzzWinner = None
    /\ elapsed = 0 /\ pausedAt = 0
    /\ partial = [active |-> FALSE, remaining |-> 0]
    /\ locks = {}
    /\ timers = [k \in Keys |-> 0]
    /\ buzzes = [p \in Players |-> None]
    /\ grades = [a \in Admins |-> None]
    /\ heard = NoContender
    /\ verdicts = [p \in Players |-> 0]
    /\ paid = 0
    /\ lockFault = FALSE

-----------------------------------------------------------------------------
(* Parts of handlers.                                                      *)

(* NonceGate.Bump, seen from the frames: every buzz in flight carries the  *)
(* counter of before, and Validate compares for equality.                  *)
BumpNonce(frames) ==
    [p \in Players |-> IF frames[p] = None THEN None ELSE Stale]

transitionTo(s) ==
    /\ state' = s
    /\ buzzes' = BumpNonce(buzzes)

ReleaseForgotten == UNCHANGED lockVars                       \* a mutation of Release

(* lock.Release: the engine ignores the error it may return. *)
Release ==
    \/ /\ locks' = locks \ {roundKey}
       /\ UNCHANGED lockFault
    \/ /\ RedisLock
       /\ roundKey \in locks
       /\ lockFault' = TRUE
       /\ UNCHANGED locks

CloseWindowKeepsFlag ==                                      \* a mutation of CloseWindow
    contenders' = NoContender /\ heard' = NoContender /\ UNCHANGED windowOpen

CloseWindow ==
    /\ windowOpen' = FALSE
    /\ contenders' = NoContender
    /\ heard' = NoContender

resumeAudioWrongSign == elapsed' = elapsed - pausedAt        \* a mutation of resumeAudio

resumeAudio == elapsed' = pausedAt

-----------------------------------------------------------------------------
(* Connections.  A connection's frames are read before its end is noticed, *)
(* so a phone that goes has no buzz of its own left in flight.             *)

Connect(p) ==
    /\ p \notin online
    /\ online' = online \cup {p}
    /\ UNCHANGED <<engineVars, windowVars, banned, lockVars, history, timers, buzzes, grades>>

Disconnect(p) ==
    /\ p \in online
    /\ buzzes[p] = None
    /\ online' = online \ {p}
    /\ UNCHANGED <<engineVars, windowVars, banned, lockVars, history, timers, buzzes, grades>>

(* onAdminKick with Ban: the connection is not closed. *)
KickAndBan(p) ==
    /\ p \in Bannable \ banned
    /\ banned' = banned \cup {p}
    /\ UNCHANGED <<engineVars, windowVars, online, lockVars, history, timers, buzzes, grades>>

-----------------------------------------------------------------------------
(* Rounds.                                                                 *)

(* selectCell is refused while a round is live; otherwise startTrack. *)
SelectCell(row) ==
    /\ state \notin {"ROUND_ACTIVE", "ADJUDICATE"}
    /\ rounds < MaxRounds
    /\ rounds' = rounds + 1
    /\ roundKey' = rounds + 1
    /\ curRow' = row
    /\ track' = TRUE
    /\ elapsed' = 0
    /\ pausedAt' = 0
    /\ buzzWinner' = None
    /\ partial' = [active |-> FALSE, remaining |-> 0]
    /\ guessed' = {}
    /\ revealLocked' = FALSE
    /\ CloseWindow
    /\ transitionTo("ROUND_ACTIVE")
    /\ verdicts' = [p \in Players |-> 0]
    /\ paid' = 0
    /\ lockFault' = FALSE
    /\ UNCHANGED <<peopleVars, locks, timers, grades>>

Tick(t) ==
    /\ state \in {"ROUND_ACTIVE", "ADJUDICATE"}
    /\ t > elapsed
    /\ elapsed' = t
    /\ UNCHANGED <<state, guessed, revealLocked, roundKey, rounds, curRow, track, buzzWinner,
                   pausedAt, partial, windowVars, peopleVars, lockVars, history,
                   timers, buzzes, grades>>

(* adminReveal has no guard on the state: the round goes to karaoke as is. *)
AdminReveal ==
    /\ buzzWinner' = None
    /\ Release
    /\ resumeAudio
    /\ transitionTo("KARAOKE")
    /\ UNCHANGED <<guessed, revealLocked, roundKey, rounds, curRow, track, pausedAt, partial,
                   windowVars, peopleVars, history, timers, grades>>

(* endRound, by the admin in any state or by the end of an unguessed track. *)
EndRound ==
    /\ Release
    /\ track' = FALSE
    /\ buzzWinner' = None
    /\ CloseWindow
    /\ partial' = [active |-> FALSE, remaining |-> 0]
    /\ transitionTo("BOARD")
    /\ UNCHANGED <<guessed, revealLocked, roundKey, rounds, curRow, elapsed, pausedAt,
                   peopleVars, history, timers, grades>>

(* The karaoke is voted out or its track ends: countdown, then the board. *)
LeaveKaraoke ==
    /\ state = "KARAOKE"
    /\ track' = FALSE
    /\ transitionTo("BOARD")
    /\ UNCHANGED <<guessed, revealLocked, roundKey, rounds, curRow, buzzWinner, elapsed,
                   pausedAt, partial, windowVars, peopleVars, lockVars, history, timers, grades>>

(* admin.endGame leaves the round as it stands. *)
EndGame ==
    /\ transitionTo("GAME_OVER")
    /\ UNCHANGED <<guessed, revealLocked, roundKey, rounds, curRow, track, buzzWinner, elapsed,
                   pausedAt, partial, windowVars, peopleVars, lockVars, history, timers, grades>>

(* ResetToLobby (and StartGame, which adds nothing here). *)
ResetToLobby ==
    /\ state = "GAME_OVER"
    /\ track' = FALSE
    /\ curRow' = 0
    /\ roundKey' = 0
    /\ elapsed' = 0
    /\ pausedAt' = 0
    /\ buzzWinner' = None
    /\ CloseWindow
    /\ guessed' = {}
    /\ transitionTo("BOARD")
    /\ verdicts' = [p \in Players |-> 0]
    /\ paid' = 0
    /\ UNCHANGED <<revealLocked, rounds, partial, peopleVars, lockVars, timers, grades>>

(* onAdminPlayback; the clock runs on while the music is paused. *)
Pause ==
    /\ track
    /\ pausedAt' = elapsed
    /\ UNCHANGED <<state, guessed, revealLocked, roundKey, rounds, curRow, track, buzzWinner,
                   elapsed, partial, windowVars, peopleVars, lockVars, history,
                   timers, buzzes, grades>>

Resume ==
    /\ track
    /\ resumeAudio
    /\ UNCHANGED <<state, guessed, revealLocked, roundKey, rounds, curRow, track, buzzWinner,
                   pausedAt, partial, windowVars, peopleVars, lockVars, history,
                   timers, buzzes, grades>>

(* lockOutReveal: the answer is all but shown, so buzzing is closed. *)
LockOutReveal ==
    /\ state = "ROUND_ACTIVE"
    /\ ~revealLocked
    /\ revealLocked' = TRUE
    /\ guessed' = guessed \cup online
    /\ UNCHANGED <<state, roundKey, rounds, curRow, track, buzzWinner, elapsed, pausedAt,
                   partial, windowVars, peopleVars, lockVars, history, timers, buzzes, grades>>

-----------------------------------------------------------------------------
(* Buzzing.                                                                *)

(* A phone buzzes: it echoes the nonce of the last envelope it was sent,   *)
(* and the transport stamps the arrival before the frame is queued.  (One  *)
(* sent outside an open round is refused for the state it meets, or for    *)
(* the nonce if the state has changed: it is left out.)                    *)
SendBuzz(p, at) ==
    /\ state = "ROUND_ACTIVE"
    /\ p \in online
    /\ buzzes[p] = None
    /\ buzzes' = [buzzes EXCEPT ![p] = at]
    /\ UNCHANGED <<engineVars, windowVars, peopleVars, lockVars, history, timers, grades>>

BuzzAccepted(p) ==
    /\ state = "ROUND_ACTIVE"
    /\ ~revealLocked
    /\ buzzes[p] # Stale
    /\ p \notin banned
    /\ p \notin guessed

addContenderLatest(p, at) == [contenders EXCEPT ![p] = at]   \* a mutation of addContender

(* addContender keeps one entry per player, the earliest. *)
addContender(p, at) ==
    [contenders EXCEPT ![p] = IF @ = None \/ at < @ THEN at ELSE @]

Hear(p, at) ==
    heard' = [heard EXCEPT ![p] = IF @ = None \/ at < @ THEN at ELSE @]

BuzzRefused(p) ==
    /\ buzzes[p] # None
    /\ ~BuzzAccepted(p)
    /\ buzzes' = [buzzes EXCEPT ![p] = None]
    /\ UNCHANGED <<engineVars, windowVars, peopleVars, lockVars, history, timers, grades>>

BuzzJoinsWindow(p) ==
    /\ buzzes[p] # None
    /\ BuzzAccepted(p)
    /\ windowOpen
    /\ contenders' = addContender(p, buzzes[p])
    /\ Hear(p, buzzes[p])
    /\ buzzes' = [buzzes EXCEPT ![p] = None]
    /\ UNCHANGED <<engineVars, windowOpen, peopleVars, lockVars, history, timers, grades>>

(* The first buzz opens the window and schedules its resolution. *)
BuzzOpensWindow(p) ==
    /\ buzzes[p] # None
    /\ BuzzAccepted(p)
    /\ ~windowOpen
    /\ windowOpen' = TRUE
    /\ contenders' = [NoContender EXCEPT ![p] = buzzes[p]]
    /\ Hear(p, buzzes[p])
    /\ timers' = [timers EXCEPT ![roundKey] = @ + 1]
    /\ buzzes' = [buzzes EXCEPT ![p] = None]
    /\ UNCHANGED <<engineVars, peopleVars, lockVars, history, grades>>

EligibleDespiteLockout ==                                    \* a mutation of Eligible
    {p \in Players : contenders[p] # None /\ p \in online \ banned}

(* Contenders that are still eligible when the window is resolved. *)
Eligible == {p \in Players : contenders[p] # None /\ p \in online \ (banned \cup guessed)}

(* A stable sort of a shuffle: the earliest stamp, ties broken at random. *)
Earliest == {p \in Eligible : \A q \in Eligible : contenders[p] <= contenders[q]}

StaleTimer(k) == state # "ROUND_ACTIVE" \/ roundKey # k \/ ~windowOpen

TimerIgnored(k) ==
    /\ timers[k] > 0
    /\ StaleTimer(k)
    /\ timers' = [timers EXCEPT ![k] = @ - 1]
    /\ UNCHANGED <<engineVars, windowVars, peopleVars, lockVars, history, buzzes, grades>>

NobodyEligible(k) ==
    /\ timers[k] > 0
    /\ ~StaleTimer(k)
    /\ Eligible = {}
    /\ CloseWindow
    /\ timers' = [timers EXCEPT ![k] = @ - 1]
    /\ UNCHANGED <<engineVars, peopleVars, lockVars, history, buzzes, grades>>

(* TryAcquire says no, or fails: the whole window loses.  A failed call    *)
(* may still have set the key (its answer was lost).                       *)
WindowLoses(k) ==
    /\ timers[k] > 0
    /\ ~StaleTimer(k)
    /\ Eligible # {}
    /\ \/ k \in locks /\ UNCHANGED lockVars
       \/ RedisLock /\ lockFault' = TRUE /\ locks' \in {locks, locks \cup {k}}
    /\ CloseWindow
    /\ timers' = [timers EXCEPT ![k] = @ - 1]
    /\ UNCHANGED <<engineVars, peopleVars, history, buzzes, grades>>

(* TryAcquire wins: awardBuzzWinner, through LOCKED to ADJUDICATE. *)
WindowWon(k, p) ==
    /\ timers[k] > 0
    /\ ~StaleTimer(k)
    /\ p \in Earliest
    /\ k \notin locks
    /\ locks' = locks \cup {k}
    /\ buzzWinner' = p
    /\ pausedAt' = elapsed
    /\ transitionTo("ADJUDICATE")
    /\ CloseWindow
    /\ timers' = [timers EXCEPT ![k] = @ - 1]
    /\ UNCHANGED <<guessed, revealLocked, roundKey, rounds, curRow, track, elapsed, partial,
                   peopleVars, lockFault, history, grades>>

(* Redis forgets a key that is five minutes old. *)
LockExpires(k) ==
    /\ RedisLock
    /\ k \in locks
    /\ locks' = locks \ {k}
    /\ UNCHANGED <<engineVars, windowVars, peopleVars, lockFault, history, timers, buzzes, grades>>

-----------------------------------------------------------------------------
(* Grading.                                                                *)

(* An admin grades the guess its screen shows; the frame says only what    *)
(* the verdict is, and travels without a nonce.                            *)
SendGrade(a, v) ==
    /\ state = "ADJUDICATE"
    /\ grades[a] = None
    /\ grades' = [grades EXCEPT ![a] = [for |-> buzzWinner, verdict |-> v]]
    /\ UNCHANGED <<engineVars, windowVars, peopleVars, lockVars, history, timers, buzzes>>

TakeGrade(a) ==
    /\ grades[a] # None
    /\ grades' = [grades EXCEPT ![a] = None]

(* onGrade outside ADJUDICATE: somebody else's grade came first. *)
GradeIgnored(a) ==
    /\ TakeGrade(a)
    /\ state # "ADJUDICATE"
    /\ UNCHANGED <<engineVars, windowVars, peopleVars, lockVars, history, timers, buzzes>>

MarkGuessedForgotten == state = "ADJUDICATE" /\ UNCHANGED guessed  \* a mutation of MarkGuessed

(* What every verdict does first.  (players[buzzWinner] always resolves:   *)
(* the registry never forgets a player.)                                   *)
MarkGuessed ==
    /\ state = "ADJUDICATE"
    /\ guessed' = guessed \cup {buzzWinner}

Judged(pts) ==
    /\ verdicts' = [verdicts EXCEPT ![buzzWinner] = @ + 1]
    /\ paid' = paid + pts

GradeBadVerdict(a) ==
    /\ TakeGrade(a)
    /\ grades[a].verdict = "bad"
    /\ MarkGuessed
    /\ UNCHANGED <<state, revealLocked, roundKey, rounds, curRow, track, buzzWinner, elapsed,
                   pausedAt, partial, windowVars, peopleVars, lockVars, history, timers, buzzes>>

gradeCorrect(a) ==
    /\ TakeGrade(a)
    /\ grades[a].verdict = "correct"
    /\ MarkGuessed
    /\ LET pool == RoundPool(curRow, partial.active, partial.remaining)
       IN  \E pts \in CurrentPointsFromPool(pool.max, pool.base, pausedAt) : Judged(pts)
    /\ buzzWinner' = None
    /\ Release
    /\ resumeAudio
    /\ transitionTo("KARAOKE")
    /\ UNCHANGED <<revealLocked, roundKey, rounds, curRow, track, pausedAt, partial,
                   windowVars, peopleVars, timers>>

gradeFirstPartial(a) ==
    /\ TakeGrade(a)
    /\ grades[a].verdict = "partial"
    /\ MarkGuessed
    /\ ~partial.active
    /\ Judged(PartialPoints)
    /\ \E rest \in RemainingAfterPartial(curRow, pausedAt) :
           partial' = [active |-> TRUE, remaining |-> rest]
    /\ elapsed' = ReanchorMs
    /\ buzzWinner' = None
    /\ Release
    /\ transitionTo("ROUND_ACTIVE")
    /\ UNCHANGED <<revealLocked, roundKey, rounds, curRow, track, pausedAt,
                   windowVars, peopleVars, timers>>

gradeSecondPartial(a) ==
    /\ TakeGrade(a)
    /\ grades[a].verdict = "partial"
    /\ MarkGuessed
    /\ partial.active
    /\ Judged(PartialPoints)
    /\ partial' = [active |-> TRUE, remaining |-> RemainingAfterSecond(partial.remaining)]
    /\ buzzWinner' = None
    /\ Release
    /\ resumeAudio
    /\ transitionTo("KARAOKE")
    /\ UNCHANGED <<revealLocked, roundKey, rounds, curRow, track, pausedAt,
                   windowVars, peopleVars, timers>>

gradeIncorrect(a) ==
    /\ TakeGrade(a)
    /\ grades[a].verdict = "incorrect"
    /\ MarkGuessed
    /\ Judged(0)
    /\ resumeAudio
    /\ buzzWinner' = None
    /\ Release
    /\ transitionTo("ROUND_ACTIVE")
    /\ UNCHANGED <<revealLocked, roundKey, rounds, curRow, track, pausedAt, partial,
                   windowVars, peopleVars, timers>>

-----------------------------------------------------------------------------
People ==
    \E p \in Players : Connect(p) \/ Disconnect(p) \/ KickAndBan(p)

Admin ==
    \/ \E row \in Rows : SelectCell(row)
    \/ AdminReveal \/ EndRound \/ EndGame \/ ResetToLobby \/ Pause \/ Resume

Buzzing ==
    \/ \E p \in Players : \/ \E at \in Arrivals : SendBuzz(p, at)
                          \/ BuzzRefused(p) \/ BuzzJoinsWindow(p) \/ BuzzOpensWindow(p)
    \/ \E k \in Keys : \/ TimerIgnored(k) \/ NobodyEligible(k) \/ WindowLoses(k)
                       \/ \E p \in Players : WindowWon(k, p)
                       \/ LockExpires(k)

Grading ==
    \E a \in Admins : \/ \E v \in Verdicts : SendGrade(a, v)
                      \/ GradeIgnored(a) \/ GradeBadVerdict(a) \/ gradeCorrect(a)
                      \/ gradeFirstPartial(a) \/ gradeSecondPartial(a) \/ gradeIncorrect(a)

Next ==
    \/ People \/ Admin \/ Buzzing \/ Grading
    \/ LeaveKaraoke \/ LockOutReveal
    \/ \E t \in Times : Tick(t)

Spec == Init /\ [][Next]_vars

-----------------------------------------------------------------------------
(* Properties.                                                             *)

RoundTypes ==
    /\ state \in States
    /\ guessed \subseteq Players
    /\ revealLocked \in BOOLEAN /\ track \in BOOLEAN
    /\ roundKey \in Keys /\ rounds \in Keys /\ roundKey <= rounds
    /\ curRow \in Int
    /\ buzzWinner \in Players \cup {None}
    /\ elapsed \in Times /\ pausedAt \in Times
    /\ partial \in [active : BOOLEAN, remaining : Nat]

WindowTypes ==
    /\ windowOpen \in BOOLEAN
    /\ contenders \in [Players -> Arrivals \cup {None}]
    /\ heard \in [Players -> Arrivals \cup {None}]
    /\ timers \in [Keys -> Nat]
    /\ locks \subseteq Keys /\ lockFault \in BOOLEAN

PeopleTypes ==
    /\ online \subseteq Players /\ banned \subseteq Players
    /\ buzzes \in [Players -> Arrivals \cup {Stale, None}]
    /\ grades \in [Admins -> GradeFrames \cup {None}]
    /\ verdicts \in [Players -> Nat]
    /\ paid \in Nat

(* Every variable stays in its type. *)
TypeOK == RoundTypes /\ WindowTypes /\ PeopleTypes

(* Each player is limited to one guess per track: however frames, windows, *)
(* timers, reconnections, malformed and duplicate grades interleave, no    *)
(* player is judged twice in a round (design_doc.md section 3.4).          *)
OneVerdictPerPlayer == \A p \in Players : verdicts[p] <= 1

(* A round never pays out more than its row's ceiling, over all partial    *)
(* and correct verdicts together (roundPool, gradePartial, gradeCorrect).  *)
PayoutBounded == paid <= MaxPointsForRow(curRow)

(* While a round is open for buzzing its lock is free, so that the next    *)
(* window can be won: every way out of ADJUDICATE released it.  Only a     *)
(* failed call to the lock in this round can break that.                   *)
LockFreeWhileOpen ==
    state = "ROUND_ACTIVE" /\ ~lockFault => roundKey \notin locks

(* An open window has exactly one pending resolution, and there is none    *)
(* without a window: no window waits for ever, none is resolved early by   *)
(* the timer of another (onBuzz, resolveBuzzWindow).                       *)
WindowHasItsTimer ==
    state = "ROUND_ACTIVE" => timers[roundKey] = IF windowOpen THEN 1 ELSE 0

(* The player who gets the floor buzzed in the window just resolved, and   *)
(* nobody still eligible was heard in it with an earlier stamp, however    *)
(* often and in whatever order their buzzes were queued.                   *)
EarliestBuzzWins ==
    [][state = "ROUND_ACTIVE" /\ state' = "ADJUDICATE" =>
          /\ heard[buzzWinner'] # None
          /\ \A q \in online \ (banned \cup guessed) :
                heard[q] # None => heard[buzzWinner'] <= heard[q]]_vars

(* Every round keeps the promise of GuessFloor: one speaker at a time, one *)
(* guess each.                                                             *)
Floor == INSTANCE GuessFloor WITH
    open  <- state \in {"ROUND_ACTIVE", "ADJUDICATE"},
    floor <- IF state = "ADJUDICATE" THEN buzzWinner ELSE None,
    spent <- guessed
ImplementsGuessFloor == Floor!FloorSpec

(* "If two admins grade a guess simultaneously, the first packet wins, the *)
(* state shifts, and the second packet is ignored" (design_doc.md section  *)
(* 9): a grade sent for one player's guess never judges another player.    *)
GradeJudgesItsGuess ==
    [][\A a \in Admins, p \in Players :
          grades[a] # None /\ grades'[a] = None /\ verdicts'[p] > verdicts[p]
              => grades[a].for = p]_vars
=============================================================================
