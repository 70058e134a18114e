-------------------------------- MODULE Reveal --------------------------------
(***************************************************************************)
(* The letter reveal of a round.  When a track starts, a clock is armed:   *)
(* first a block that hides the lengths, then the bare slots, then one     *)
(* letter per tick, paused while a guess is judged.  A partial answer      *)
(* fills its field at once; karaoke fills both.  When few letters remain   *)
(* buzzing is closed, and some time after the last one the room goes to    *)
(* karaoke by itself.                                                      *)
(*                                                                         *)
(* Everything that drives this is a timer.  A one-shot cannot be taken     *)
(* back; the ticker can be stopped as long as its callback has not been    *)
(* submitted to the engine's loop.  All of them carry the key of the round *)
(* they were armed for, and find whatever the admins and players have made *)
(* of the game in the meantime.                                            *)
(*                                                                         *)
(* A letter is a count: which slot it fills is fixed by a shuffle of the   *)
(* round's key.  Deadlines are abstracted away (timers fire in any order), *)
(* except that a field's letters do not start before they may.             *)
(***************************************************************************)
EXTENDS Integers, FiniteSets

CONSTANTS
    Players,
    Leavers,      \* the players who may disconnect and come back
    Sizes,        \* letters to reveal: [Fields -> Nat] of a track
    Configs,      \* knobs the admins may set
    MaxRounds,    \* bound: rounds in a behaviour
    None          \* no player, no track

Fields == {"artist", "song"}
Other(f) == IF f = "artist" THEN "song" ELSE "artist"

(* Fields of revealConfig that steer: is there a block phase, how many      *)
(* letters close the buzzing, is karaoke automatic, do fields alternate.    *)
Config == [block : BOOLEAN, lockout : Nat, auto : BOOLEAN, alternate : BOOLEAN]

ASSUME ConstantsOK ==
    /\ Leavers \subseteq Players
    /\ Sizes \subseteq [Fields -> Nat \ {0}]   \* a track has an artist and a title
    /\ Configs \subseteq Config /\ Configs # {}
    /\ MaxRounds \in Nat
    /\ None \notin Players /\ None \notin Sizes /\ None \notin Fields

NOISE == 1       \* a block of fixed width
SKELETON == 2    \* the lengths and the spaces
STREAM == 3      \* letters
DONE == 4

(* LOBBY and TRANSITION are BOARD here; DAILY_DOUBLE is split in two.       *)
States == {"BOARD", "ROUND_ACTIVE", "ADJUDICATE", "KARAOKE", "OFFER", "PERFORMANCE",
           "GAME_OVER"}

Rounds  == 1 .. MaxRounds
Keys    == 0 .. MaxRounds
OneShot == [kind : {"year", "block", "letters", "auto"}, key : Rounds]

VARIABLES
    state,         \* Engine.state
    roundKey,      \* Engine.roundKey, 0 when empty
    track,         \* the letters of Engine.curTrack, or None
    rc,            \* Engine.rc
    revealCfg,     \* Engine.revealCfg
    revealLocked,  \* Engine.revealLocked
    buzzWinner,    \* Engine.buzzWinner
    guessed,       \* players with GuessedThisTrack
    contenders,    \* Engine.buzzContenders, empty when no window is open
    partial,       \* Engine.partial.active
    online,        \* players with a live connection
    oneShots,      \* one-shot timers that have not run yet
    armed,         \* key -> tickers armed and not yet fired
    revealTimer,   \* the key of Engine.revealTimer, 0 when nil
    ticks,         \* key -> ticks submitted and not yet run
    (* History and bounds. *)
    shown,         \* the last mask the room was sent
    judgedShown,   \* was a guess of this round judged with the answer shown?
    rounds         \* round keys so far

people == <<buzzWinner, guessed, contenders, partial, online>>
tickerVars == <<armed, revealTimer, ticks>>
gameVars == <<state, roundKey, track, people>>
vars == <<state, roundKey, track, rc, revealCfg, revealLocked, people, oneShots,
          tickerVars, shown, judgedShown, rounds>>

-----------------------------------------------------------------------------
(* The clock.                                                              *)

NoLetters == [f \in Fields |-> 0]

(* revealClock{} *)
NoClock ==
    [active |-> FALSE, key |-> 0, size |-> NoLetters, revealed |-> NoLetters, phase |-> 0,
     phase1Done |-> FALSE, finalizing |-> FALSE, nextField |-> "artist", lockedOut |-> FALSE,
     showYear |-> FALSE,
     cfg |-> [block |-> FALSE, lockout |-> 0, auto |-> FALSE, alternate |-> FALSE]]

FieldDone(c, f) == c.revealed[f] >= c.size[f]
AllDone(c) == \A f \in Fields : FieldDone(c, f)

RemainingHidden(c) ==
    LET rem == (c.size["artist"] - c.revealed["artist"]) + (c.size["song"] - c.revealed["song"])
    IN  IF rem < 0 THEN 0 ELSE rem

(* buildFieldMask: a mask never shows more letters than there are. *)
FieldMask(c, f) == IF c.revealed[f] > c.size[f] THEN c.size[f] ELSE c.revealed[f]

(* currentMask: a block shows neither letters nor lengths. *)
CurrentMask(c) ==
    [key |-> c.key, phase |-> c.phase,
     letters |-> IF c.phase = NOISE THEN NoLetters ELSE [f \in Fields |-> FieldMask(c, f)]]

(* What the room has seen once the clock is c: broadcastMask *)
Broadcast(c) == IF c.active \/ c.finalizing THEN CurrentMask(c) ELSE shown

FullFieldsToo(c) == IF c.cfg.alternate THEN {c.nextField} ELSE Fields  \* a mutation of Turns

(* revealOneLetter: whose turn it is, the other one's if that field is     *)
(* full, or any that is not when they need not alternate.                  *)
Turns(c) ==
    LET open == {f \in Fields : ~FieldDone(c, f)}
    IN  IF c.cfg.alternate /\ c.nextField \in open THEN {c.nextField} ELSE open

WithLetter(c, f) ==
    [c EXCEPT !.revealed[f] = @ + 1,
              !.nextField = IF c.cfg.alternate THEN Other(f) ELSE @]

(* The phase follows the last letter, however it came. *)
Settled(c) == IF AllDone(c) THEN [c EXCEPT !.phase = DONE] ELSE c

CompleteAllKeepsPhase(c) == [c EXCEPT !.revealed = c.size]   \* a mutation of CompleteAll

CompleteAll(c) == [c EXCEPT !.revealed = c.size, !.phase = DONE]

-----------------------------------------------------------------------------
(* The ticker.                                                             *)

(* stopRevealTimer: a tick that was submitted is not taken back. *)
Stopped == IF revealTimer # 0 /\ armed[revealTimer] > 0
           THEN [armed EXCEPT ![revealTimer] = @ - 1] ELSE armed

StopRevealTimer == armed' = Stopped /\ revealTimer' = 0

(* startRevealTicker, when the clock has become c: with nothing left to    *)
(* reveal the clock just stops.                                            *)
StartRevealTicker(c, k) ==
    IF AllDone(c)
    THEN rc' = [c EXCEPT !.active = FALSE] /\ UNCHANGED <<armed, revealTimer>>
    ELSE /\ rc' = c
         /\ armed' = [armed EXCEPT ![k] = @ + 1]
         /\ revealTimer' = k

ClearReveal == StopRevealTimer /\ rc' = NoClock /\ UNCHANGED <<ticks, shown>>

(* finalizeReveal.  A clock that has stopped by itself, or is another      *)
(* round's, is replaced by a bare one first.                               *)
FinalizeReveal ==
    IF track = None THEN UNCHANGED <<rc, shown, tickerVars>>
    ELSE LET bare == [NoClock EXCEPT !.key = roundKey, !.size = track, !.cfg = revealCfg]
             kept == rc.key = roundKey /\ (rc.active \/ rc.finalizing)
             full == CompleteAll([IF kept THEN rc ELSE bare EXCEPT !.finalizing = TRUE])
         IN  /\ StopRevealTimer
             /\ shown' = Broadcast(full)
             /\ rc' = [full EXCEPT !.active = FALSE]
             /\ UNCHANGED ticks

-----------------------------------------------------------------------------
Init ==
    /\ state = "BOARD" /\ roundKey = 0 /\ track = None
    /\ rc = NoClock
    /\ revealCfg \in Configs
    /\ revealLocked = FALSE
    /\ buzzWinner = None /\ guessed = {} /\ contenders = {} /\ partial = FALSE
    /\ online = Players
    /\ oneShots = {}
    /\ armed = [k \in Rounds |-> 0] /\ revealTimer = 0 /\ ticks = [k \in Rounds |-> 0]
    /\ shown = CurrentMask(NoClock)
    /\ judgedShown = FALSE
    /\ rounds = 0

(* A round gets a key nobody had before. *)
FreshKey ==
    /\ rounds < MaxRounds
    /\ rounds' = rounds + 1
    /\ roundKey' = rounds + 1

(* startReveal arms the clock with a copy of the knobs; of its one-shots   *)
(* the year's needs a year, the block's a block.                           *)
StartReveal(size, year) ==
    LET k == rounds + 1
        c == [NoClock EXCEPT !.active = TRUE, !.key = k, !.size = size, !.cfg = revealCfg,
                             !.phase = IF revealCfg.block THEN NOISE ELSE SKELETON]
        kinds == {"letters"} \cup (IF year THEN {"year"} ELSE {})
                             \cup (IF revealCfg.block THEN {"block"} ELSE {})
    IN  /\ StopRevealTimer
        /\ rc' = c
        /\ revealLocked' = FALSE
        /\ shown' = Broadcast(c)
        /\ oneShots' = oneShots \cup [kind : kinds, key : {k}]

(* startTrack, by a selection or by a declined Daily Double. *)
StartTrack(size, year) ==
    /\ state \notin {"ROUND_ACTIVE", "ADJUDICATE", "PERFORMANCE"}
    /\ FreshKey
    /\ state' = "ROUND_ACTIVE"
    /\ track' = size
    /\ StartReveal(size, year)
    /\ buzzWinner' = None /\ guessed' = {} /\ contenders' = {} /\ partial' = FALSE
    /\ judgedShown' = FALSE
    /\ UNCHANGED <<revealCfg, online, ticks>>

(* onAdminSetRevealCfg: for the rounds to come. *)
SetRevealCfg(cfg) ==
    /\ revealCfg' = cfg
    /\ UNCHANGED <<gameVars, rc, revealLocked, oneShots, tickerVars, shown, judgedShown, rounds>>

-----------------------------------------------------------------------------
(* Timers.                                                                 *)

(* A one-shot that runs in the round it was armed for. *)
Runs(kind) ==
    /\ [kind |-> kind, key |-> rc.key] \in oneShots
    /\ rc.active
    /\ oneShots' = oneShots \ {[kind |-> kind, key |-> rc.key]}

Superseded(t) == t.kind # "auto" /\ (rc.key # t.key \/ ~rc.active)

OneShotIgnored(t) ==
    /\ t \in oneShots
    /\ Superseded(t)
    /\ oneShots' = oneShots \ {t}
    /\ UNCHANGED <<gameVars, rc, revealCfg, revealLocked, tickerVars, shown, judgedShown, rounds>>

YearShows ==
    /\ Runs("year")
    /\ rc' = [rc EXCEPT !.showYear = TRUE]
    /\ shown' = Broadcast(rc')
    /\ UNCHANGED <<gameVars, revealCfg, revealLocked, tickerVars, judgedShown, rounds>>

FlippedAnyway == [rc EXCEPT !.phase = SKELETON]              \* a mutation of Flipped

Flipped == IF rc.phase = NOISE THEN [rc EXCEPT !.phase = SKELETON] ELSE rc

BlockFlips ==
    /\ Runs("block")
    /\ rc' = Flipped
    /\ shown' = IF rc' = rc THEN shown ELSE Broadcast(rc')
    /\ UNCHANGED <<gameVars, revealCfg, revealLocked, tickerVars, judgedShown, rounds>>

(* At letterStartMs, in whatever state the game is.  With BlockMs at least  *)
(* Phase1Ms the block's timer has the same deadline, and may come after.    *)
LettersStart ==
    /\ Runs("letters")
    /\ LET c == [rc EXCEPT !.phase1Done = TRUE, !.phase = IF @ < STREAM THEN STREAM ELSE @]
       IN  /\ shown' = Broadcast(c)
           /\ StartRevealTicker(c, rc.key)
    /\ UNCHANGED <<gameVars, revealCfg, revealLocked, ticks, judgedShown, rounds>>

(* A ticker's deadline: its callback is now in the engine's queue. *)
TickerFires(k) ==
    /\ armed[k] > 0
    /\ armed' = [armed EXCEPT ![k] = @ - 1]
    /\ ticks' = [ticks EXCEPT ![k] = @ + 1]
    /\ UNCHANGED <<gameVars, rc, revealCfg, revealLocked, oneShots, revealTimer, shown,
                   judgedShown, rounds>>

TakesTick(k) ==
    /\ ticks[k] > 0
    /\ ticks' = [ticks EXCEPT ![k] = @ - 1]

TickIgnored(k) ==
    /\ TakesTick(k)
    /\ rc.key # k \/ ~rc.active
    /\ UNCHANGED <<gameVars, rc, revealCfg, revealLocked, oneShots, armed, revealTimer, shown,
                   judgedShown, rounds>>

PausedForGood(k) == UNCHANGED <<rc, armed, revealTimer>>     \* a mutation of Paused

(* Outside an open round a tick reveals nothing and arms the next. *)
Paused(k) == StartRevealTicker(rc, k)

TickPaused(k) ==
    /\ TakesTick(k)
    /\ rc.key = k /\ rc.active
    /\ state # "ROUND_ACTIVE"
    /\ Paused(k)
    /\ UNCHANGED <<gameVars, revealCfg, revealLocked, oneShots, shown, judgedShown, rounds>>

ScheduleNothing(c, k) == UNCHANGED oneShots         \* a mutation of ScheduleAutoKaraoke

ScheduleAutoKaraoke(c, k) ==
    oneShots' = IF c.cfg.auto THEN oneShots \cup {[kind |-> "auto", key |-> k]} ELSE oneShots

LeavesBuzzersOpen == guessed' = guessed \cup online /\ UNCHANGED revealLocked
                                                  \* a mutation of LockOutReveal

(* lockOutReveal: every phone that is here now has had its guess. *)
LockOutReveal ==
    /\ revealLocked' = TRUE
    /\ guessed' = guessed \cup online

(* revealTick in an open round: a letter, the lockout, and then the next   *)
(* tick or, after the last letter, the wait for karaoke.                   *)
RevealTick(k) ==
    /\ TakesTick(k)
    /\ rc.key = k /\ rc.active
    /\ state = "ROUND_ACTIVE"
    /\ \E c \in IF AllDone(rc) THEN {rc} ELSE {Settled(WithLetter(rc, f)) : f \in Turns(rc)} :
          LET locks == ~c.lockedOut /\ RemainingHidden(c) <= c.cfg.lockout
              d == [c EXCEPT !.lockedOut = @ \/ locks]
          IN  /\ shown' = IF AllDone(rc) THEN shown ELSE Broadcast(c)
              /\ IF locks THEN LockOutReveal ELSE UNCHANGED <<revealLocked, guessed>>
              /\ IF AllDone(d)
                 THEN /\ rc' = [d EXCEPT !.active = FALSE]
                      /\ ScheduleAutoKaraoke(d, k)
                      /\ UNCHANGED <<armed, revealTimer>>
                 ELSE StartRevealTicker(d, k) /\ UNCHANGED oneShots
    /\ UNCHANGED <<state, roundKey, track, buzzWinner, contenders, partial, online, revealCfg,
                   judgedShown, rounds>>

(* enterKaraoke, which every caller reaches with nobody on the floor. *)
EnterKaraoke ==
    /\ state' = "KARAOKE"
    /\ buzzWinner' = None
    /\ FinalizeReveal

(* scheduleAutoKaraoke's timer: once, and only in an open round. *)
AutoKaraoke(k) ==
    /\ [kind |-> "auto", key |-> k] \in oneShots
    /\ oneShots' = oneShots \ {[kind |-> "auto", key |-> k]}
    /\ IF roundKey = k /\ state = "ROUND_ACTIVE"
       THEN EnterKaraoke
       ELSE UNCHANGED <<state, buzzWinner, rc, shown, tickerVars>>
    /\ UNCHANGED <<roundKey, track, guessed, contenders, partial, online, revealCfg,
                   revealLocked, judgedShown, rounds>>

-----------------------------------------------------------------------------
(* Players.                                                                *)

Hello(p) ==
    /\ p \notin online
    /\ online' = online \cup {p}
    /\ UNCHANGED <<state, roundKey, track, buzzWinner, guessed, contenders, partial, rc,
                   revealCfg, revealLocked, oneShots, tickerVars, shown, judgedShown, rounds>>

Disconnect(p) ==
    /\ p \in online \cap Leavers
    /\ online' = online \ {p}
    /\ UNCHANGED <<state, roundKey, track, buzzWinner, guessed, contenders, partial, rc,
                   revealCfg, revealLocked, oneShots, tickerVars, shown, judgedShown, rounds>>

Buzz(p) ==
    /\ state = "ROUND_ACTIVE"
    /\ ~revealLocked
    /\ p \in online \ (guessed \cup contenders)
    /\ contenders' = contenders \cup {p}
    /\ UNCHANGED <<state, roundKey, track, buzzWinner, guessed, partial, online, rc, revealCfg,
                   revealLocked, oneShots, tickerVars, shown, judgedShown, rounds>>

(* The window is resolved: nobody still eligible gets the floor, or fails  *)
(* to take the lock (module BuzzRound has which and why).                  *)
WindowCloses ==
    /\ state = "ROUND_ACTIVE" /\ contenders # {}
    /\ contenders' = {}
    /\ UNCHANGED <<state, roundKey, track, buzzWinner, guessed, partial, online, rc, revealCfg,
                   revealLocked, oneShots, tickerVars, shown, judgedShown, rounds>>

LockedOutToo == contenders \cap online                        \* a mutation of Eligible

(* Who buzzed and is still there - and was not locked out since. *)
Eligible == (contenders \cap online) \ guessed

WindowWon(p) ==
    /\ state = "ROUND_ACTIVE"
    /\ p \in Eligible
    /\ state' = "ADJUDICATE"
    /\ buzzWinner' = p
    /\ contenders' = {}
    /\ judgedShown' = (judgedShown \/ AllDone(rc))
    /\ UNCHANGED <<roundKey, track, guessed, partial, online, rc, revealCfg, revealLocked,
                   oneShots, tickerVars, shown, rounds>>

-----------------------------------------------------------------------------
(* Verdicts.                                                               *)

Judged ==
    /\ state = "ADJUDICATE"
    /\ guessed' = guessed \cup {buzzWinner}
    /\ UNCHANGED <<roundKey, track, contenders, online, revealCfg, revealLocked, oneShots,
                   judgedShown, rounds>>

(* gradeCorrect, and the second partial answer of a round, whatever it is. *)
GradeFinal ==
    /\ Judged
    /\ EnterKaraoke
    /\ UNCHANGED partial

(* revealFieldFully.  The admins need not say which field it was. *)
RevealFieldFully(f) ==
    IF rc.active /\ f \in Fields
    THEN LET c == Settled([rc EXCEPT !.revealed[f] = rc.size[f]])
         IN  rc' = c /\ shown' = Broadcast(c)
    ELSE UNCHANGED <<rc, shown>>

(* The first partial answer: its field is filled, the round reopens. *)
GradePartial(f) ==
    /\ Judged
    /\ ~partial
    /\ partial' = TRUE
    /\ RevealFieldFully(f)
    /\ state' = "ROUND_ACTIVE"
    /\ buzzWinner' = None
    /\ UNCHANGED tickerVars

GradeIncorrect ==
    /\ Judged
    /\ state' = "ROUND_ACTIVE"
    /\ buzzWinner' = None
    /\ UNCHANGED <<partial, rc, shown, tickerVars>>

-----------------------------------------------------------------------------
(* Admins, and the rest of the game.                                       *)

(* adminReveal has no guard. *)
AdminReveal ==
    /\ EnterKaraoke
    /\ UNCHANGED <<roundKey, track, guessed, contenders, partial, online, revealCfg,
                   revealLocked, oneShots, judgedShown, rounds>>

(* endRound, by an admin or at the end of the song. *)
EndRound ==
    /\ state \notin {"OFFER", "PERFORMANCE"}
    /\ state' = "BOARD"
    /\ track' = None
    /\ buzzWinner' = None /\ contenders' = {} /\ partial' = FALSE
    /\ ClearReveal
    /\ UNCHANGED <<roundKey, guessed, online, revealCfg, revealLocked, oneShots, judgedShown,
                   rounds>>

(* The countdown after a karaoke leads to the board. *)
LeaveKaraoke ==
    /\ state = "KARAOKE"
    /\ state' = "BOARD"
    /\ track' = None
    /\ ClearReveal
    /\ UNCHANGED <<roundKey, people, revealCfg, revealLocked, oneShots, judgedShown, rounds>>

(* A selection that offers a Daily Double leaves the last round as it is. *)
DailyDoubleOffered ==
    /\ state \in {"BOARD", "KARAOKE", "GAME_OVER"}
    /\ state' = "OFFER"
    /\ UNCHANGED <<roundKey, track, people, rc, revealCfg, revealLocked, oneShots, tickerVars,
                   shown, judgedShown, rounds>>

(* startDailyDoublePerformance: no masked reveal, but a key of its own. *)
PerformanceStarts(size) ==
    /\ state = "OFFER"
    /\ FreshKey
    /\ state' = "PERFORMANCE"
    /\ track' = size
    /\ partial' = FALSE
    /\ ClearReveal
    /\ UNCHANGED <<buzzWinner, guessed, contenders, online, revealCfg, revealLocked, oneShots,
                   judgedShown>>

(* finishDailyDouble, which an offer with a track left over reaches too. *)
DailyDoubleEnds ==
    /\ state \in {"OFFER", "PERFORMANCE"}
    /\ track # None
    /\ state' = "BOARD"
    /\ track' = None
    /\ ClearReveal
    /\ UNCHANGED <<roundKey, people, revealCfg, revealLocked, oneShots, judgedShown, rounds>>

(* admin.endGame leaves the clock running. *)
EndGame ==
    /\ state # "GAME_OVER"
    /\ IF state \in {"OFFER", "PERFORMANCE"} /\ track # None
       THEN track' = None /\ ClearReveal
       ELSE UNCHANGED <<track, rc, shown, tickerVars>>
    /\ state' = "GAME_OVER"
    /\ UNCHANGED <<roundKey, people, revealCfg, revealLocked, oneShots, judgedShown, rounds>>

ResetToLobby ==
    /\ state = "GAME_OVER"
    /\ state' = "BOARD"
    /\ roundKey' = 0
    /\ track' = None
    /\ buzzWinner' = None /\ guessed' = {} /\ contenders' = {}
    /\ ClearReveal
    /\ UNCHANGED <<partial, online, revealCfg, revealLocked, oneShots, judgedShown, rounds>>

-----------------------------------------------------------------------------
Timers ==
    \/ YearShows \/ BlockFlips \/ LettersStart
    \/ \E t \in oneShots : OneShotIgnored(t)
    \/ \E k \in Rounds : TickerFires(k) \/ TickIgnored(k) \/ TickPaused(k) \/ RevealTick(k)
                         \/ AutoKaraoke(k)

Floor ==
    \/ \E p \in Players : Hello(p) \/ Disconnect(p) \/ Buzz(p) \/ WindowWon(p)
    \/ WindowCloses
    \/ GradeFinal \/ GradeIncorrect
    \/ \E f \in Fields \cup {None} : GradePartial(f)

Admin ==
    \/ \E cfg \in Configs : SetRevealCfg(cfg)
    \/ AdminReveal \/ EndRound \/ EndGame \/ ResetToLobby

Game ==
    \/ \E size \in Sizes : PerformanceStarts(size) \/ \E year \in BOOLEAN : StartTrack(size, year)
    \/ LeaveKaraoke \/ DailyDoubleOffered \/ DailyDoubleEnds

Next == Timers \/ Floor \/ Admin \/ Game

Spec == Init /\ [][Next]_vars

(* Timers expire and their functions run; nobody has to do anything. *)
FairSpec ==
    /\ Spec
    /\ WF_vars(LettersStart)
    /\ \A k \in Rounds : /\ WF_vars(TickerFires(k))
                         /\ WF_vars(RevealTick(k))
                         /\ WF_vars(AutoKaraoke(k))

-----------------------------------------------------------------------------
Clock ==
    [active : BOOLEAN, key : Keys, size : [Fields -> Nat], revealed : [Fields -> Nat],
     phase : 0 .. DONE, phase1Done : BOOLEAN, finalizing : BOOLEAN, nextField : Fields,
     lockedOut : BOOLEAN, showYear : BOOLEAN, cfg : Config]

Mask == [key : Keys, phase : 0 .. DONE, letters : [Fields -> Nat]]

(* The values the variables take; a clock never counts more letters than   *)
(* its field has (revealFieldFully and revealOneLetter on the same field). *)
TypeOK ==
    /\ state \in States /\ roundKey \in Keys /\ track \in Sizes \cup {None}
    /\ rc \in Clock
    /\ \A f \in Fields : rc.revealed[f] <= rc.size[f]
    /\ revealCfg \in Configs /\ revealLocked \in BOOLEAN
    /\ buzzWinner \in Players \cup {None} /\ guessed \subseteq Players
    /\ contenders \subseteq Players /\ online \subseteq Players /\ partial \in BOOLEAN
    /\ oneShots \subseteq OneShot
    /\ armed \in [Rounds -> Nat] /\ ticks \in [Rounds -> Nat] /\ revealTimer \in Keys
    /\ shown \in Mask
    /\ judgedShown \in BOOLEAN /\ rounds \in Keys

(* A live clock has exactly one thing that drives it: the timer that       *)
(* starts the letters, or afterwards one tick, armed or in the queue -     *)
(* across pauses, partial answers and everything the admins do.  And what  *)
(* stopRevealTimer can reach is the only ticker there is.                  *)
TickerRuns ==
    /\ rc.active =>
          /\ armed[rc.key] + ticks[rc.key] = IF rc.phase1Done THEN 1 ELSE 0
          /\ ([kind |-> "letters", key |-> rc.key] \in oneShots) <=> ~rc.phase1Done
    /\ \A k \in Rounds : armed[k] <= IF revealTimer = k THEN 1 ELSE 0

(* What the room has seen of an answer is never hidden again: no timer of  *)
(* the round that runs late, partial answer or karaoke takes a letter or a *)
(* phase back.  And every tick of an open round shows one, as long as one  *)
(* is hidden: no turn goes to a field that a partial answer has filled, so *)
(* the ticks of a round are as many as its letters.                        *)
ShownOnlyGrows ==
    [][/\ shown'.key = shown.key =>
             /\ shown'.phase >= shown.phase
             /\ \A f \in Fields : shown'.letters[f] >= shown.letters[f]
       /\ \A k \in Rounds : RevealTick(k) /\ ~AllDone(rc) =>
             RemainingHidden(rc') < RemainingHidden(rc)]_vars

(* In karaoke the answer is public: the room has all of the current track, *)
(* whatever way the game got there.                                        *)
AnswerPublicInKaraoke ==
    state = "KARAOKE" /\ track # None =>
        shown = [key |-> roundKey, phase |-> DONE, letters |-> track]

(* A round whose answer is on the wall does not stay open for buzzing: a   *)
(* tick is still to come, or buzzing is closed and karaoke on its way.     *)
(* The exception is a guess judged in between (judgedShown): a tick that   *)
(* finds it under judgement stops the clock for good.                      *)
RevealedRoundCloses ==
    state = "ROUND_ACTIVE" /\ rc.key = roundKey /\ AllDone(rc) /\ ~judgedShown =>
        \/ rc.active /\ (rc.phase1Done => armed[rc.key] + ticks[rc.key] > 0)
        \/ /\ revealLocked
           /\ rc.cfg.auto => [kind |-> "auto", key |-> rc.key] \in oneShots

(* With the letters and their lockout, too, a round keeps the promise of   *)
(* GuessFloor: the lockout takes guesses from a window that is still open, *)
(* and nobody it has locked out gets the floor when the window closes.     *)
Guessing == INSTANCE GuessFloor WITH
    open  <- state \in {"ROUND_ACTIVE", "ADJUDICATE"},
    floor <- IF state = "ADJUDICATE" THEN buzzWinner ELSE None,
    spent <- guessed
ImplementsGuessFloor == Guessing!FloorSpec

(* A round nobody answers ends by itself: while the reveal is running and  *)
(* karaoke automatic, the open round is left - for a judgement or for      *)
(* karaoke.                                                                *)
RoundEndsItself ==
    (state = "ROUND_ACTIVE" /\ rc.active /\ rc.cfg.auto) ~> (state # "ROUND_ACTIVE")
=============================================================================
