----------------------------- MODULE DailyDouble -----------------------------
(***************************************************************************)
(* A Daily Double from its arming at the start of a game to its payout: an *)
(* exact visit of an armed cell offers it to the last scorer, who declines *)
(* or draws songs from the board's bucket and performs one; the room rates *)
(* the performance; the song's end, the admin, or the last missing rater's *)
(* departure (after a fade) closes and pays it.                            *)
(*                                                                         *)
(* Around it, each as one step: rounds, karaoke, force-ends, reveals, the  *)
(* end of the game and the next one, and a replacement of the board.       *)
(* KARAOKE stands for KARAOKE and TRANSITION, ROUND as in module Karaoke.  *)
(* Decisions, choices and ratings carry a nonce which a Daily Double does  *)
(* not change before it is over, so each is one step.                      *)
(***************************************************************************)
EXTENDS Scoring, FiniteSets

CONSTANTS
    Players,
    Bannable,      \* bound: the players an admin may ban
    Cells,
    RowOf,         \* cell -> its row
    Tracks,        \* playable tracks of every cell
    Songs,         \* the curated bucket of the board
    HandSize,      \* songs drawn for an offer
    Count,         \* Board.DailyDoubleCount
    Stars,         \* ratings that are told apart
    MaxVisits,     \* bound: selections of a cell in a game
    MaxGames,      \* bound: games after the first
    MaxReloads,    \* bound: replacements of the board
    OldTrack,      \* a track of a board that was replaced
    None           \* no player, track or offer

Offers == [cell : Cells, who : Players, hand : SUBSET Songs]

ASSUME ConstantsOK ==
    /\ IsFiniteSet(Players) /\ IsFiniteSet(Cells) /\ IsFiniteSet(Songs)
    /\ Bannable \subseteq Players
    /\ RowOf \in [Cells -> Int]
    /\ Tracks \in Nat /\ HandSize \in Nat /\ Count \in Nat
    /\ Stars \subseteq 1 .. 5
    /\ MaxVisits \in Nat /\ MaxGames \in Nat /\ MaxReloads \in Nat
    /\ Cells \cap Songs = {}
    /\ OldTrack \notin Cells \cup Songs
    /\ None \notin Players \cup Cells \cup Songs \cup {OldTrack} \cup Offers

States == {"LOBBY", "BOARD", "ROUND", "DAILY_DOUBLE", "KARAOKE", "GAME_OVER"}

VARIABLES
    state,         \* Engine.state
    board,         \* the cells of the board attached
    left,          \* cell -> its unplayed tracks
    armed,         \* cells with DailyDouble set
    trigger,       \* cell -> its DDTriggerVisit
    visits,        \* Engine.cellVisits
    bucket,        \* Board.DDBucket
    curTrack,      \* Engine.curTrack: the cell it is of, a song, OldTrack or None
    played,        \* Engine.curTrack.Played
    curRow,        \* Engine.curRow
    offer,         \* Engine.ddOffer
    cellPicker,    \* Engine.cellPicker
    lastScorer,    \* Engine.lastScorer
    ratingPool,    \* Engine.ratingPool
    ratings,       \* Engine.ratings: player -> stars, or 0
    online,        \* players with a live connection
    banned,        \* players with Banned set
    fading,        \* Engine.ddFadingRoundKey is the current round key
    fades,         \* fades in flight, of the current round key and of others
    (* History and bounds. *)
    performed,     \* songs performed in this game
    singer,        \* who performs, or performed last
    paid,          \* payouts of the last performance
    reloaded,      \* was the board replaced in this game?
    games,
    reloads

cellVars   == <<board, left, armed, trigger, visits, bucket>>
trackVars  == <<curTrack, played, curRow>>
ratingVars == <<ratingPool, ratings>>
peopleVars == <<online, banned>>
fadeVars   == <<fading, fades>>
history    == <<performed, singer, paid>>
bounds     == <<reloaded, games, reloads>>
vars == <<state, cellVars, trackVars, offer, cellPicker, lastScorer, ratingVars,
          peopleVars, fadeVars, history, bounds>>

NoRatings == [p \in Players |-> 0]

Init ==
    /\ state = "LOBBY"
    /\ board = Cells
    /\ left = [c \in Cells |-> Tracks]
    /\ armed = {} /\ trigger = [c \in Cells |-> 0] /\ visits = [c \in Cells |-> 0]
    /\ bucket = Songs
    /\ curTrack = None /\ played = FALSE /\ curRow = 0
    /\ offer = None /\ cellPicker = None /\ lastScorer = None
    /\ ratingPool = {} /\ ratings = NoRatings
    /\ online = {} /\ banned = {}
    /\ fading = FALSE /\ fades = [here |-> 0, old |-> 0]
    /\ performed = {} /\ singer = None /\ paid = 0
    /\ reloaded = FALSE /\ games = 0 /\ reloads = 0

-----------------------------------------------------------------------------
(* Parts of handlers.                                                      *)

(* A fresh round key turns every fade in flight into one of another round. *)
NewRoundKey ==
    /\ fading' = FALSE
    /\ fades' = [here |-> 0, old |-> fades.old + fades.here]

NoTrack == curTrack' = None /\ played' = FALSE /\ UNCHANGED curRow

(* startTrack *)
startTrack(c) ==
    /\ state' = "ROUND"
    /\ curTrack' = c /\ played' = FALSE /\ curRow' = RowOf[c]
    /\ NewRoundKey

(* startCellNormally: a pool that turns up empty leads to the board, with  *)
(* whatever track there was.                                               *)
startCellNormally(c) ==
    IF left[c] > 0 THEN startTrack(c)
    ELSE state' = "BOARD" /\ UNCHANGED <<trackVars, fadeVars>>

ConsumedAgain ==                             \* a mutation of Consumed
    IF curTrack \in Cells THEN [left EXCEPT ![curTrack] = @ - 1] ELSE left

(* consumeTrack *)
Consumed == IF curTrack \in Cells /\ ~played THEN [left EXCEPT ![curTrack] = @ - 1] ELSE left

(* Who is offered the Daily Double: the last scorer, or else anybody.      *)
Contestants ==
    IF lastScorer \in online \ banned THEN {lastScorer} ELSE online \ banned

Triggers(c) == c \in armed /\ trigger[c] > 0 /\ visits[c] + 1 = trigger[c]

(* beginDailyDoubleOffer; curTrack stays what it was. *)
beginDailyDoubleOffer(c) ==
    IF Contestants = {}
    THEN /\ armed' = armed \ {c}
         /\ trigger' = [trigger EXCEPT ![c] = 0]
         /\ startCellNormally(c)
         /\ UNCHANGED offer
    ELSE /\ \E p \in Contestants : offer' = [cell |-> c, who |-> p, hand |-> {}]
         /\ state' = "DAILY_DOUBLE"
         /\ UNCHANGED <<armed, trigger, trackVars, fadeVars>>

(* selectCell of a cell with something left to play. *)
selectCell(c) ==
    /\ c \in board /\ left[c] > 0
    /\ visits[c] < MaxVisits
    /\ cellPicker' = None
    /\ visits' = [visits EXCEPT ![c] = @ + 1]
    /\ IF Triggers(c) THEN beginDailyDoubleOffer(c)
       ELSE startTrack(c) /\ UNCHANGED <<armed, trigger, offer>>
    /\ UNCHANGED <<board, left, bucket, lastScorer, ratingVars, peopleVars, history, bounds>>

(* Cells a declined Daily Double may move to. *)
Replacements(c) == {d \in board \ ({c} \cup armed) : left[d] > 0}

(* declineDailyDouble re-arms another cell, to fire on its next visit, ... *)
Rearm(c) ==
    LET kept    == IF c \in board THEN armed \ {c} ELSE armed
        cleared == IF c \in board THEN [trigger EXCEPT ![c] = 0] ELSE trigger
    IN  IF Replacements(c) = {}
        THEN armed' = kept /\ trigger' = cleared
        ELSE \E d \in Replacements(c) :
                /\ armed' = kept \cup {d}
                /\ trigger' = [cleared EXCEPT ![d] = visits[d] + 1]

DeclineKeepsHand ==                          \* a mutation of declineDailyDouble
    /\ Rearm(offer.cell)
    /\ UNCHANGED bucket
    /\ offer' = None
    /\ startCellNormally(offer.cell)

(* ... gives the songs back and plays the cell after all. *)
declineDailyDouble ==
    /\ Rearm(offer.cell)
    /\ bucket' = bucket \cup offer.hand
    /\ offer' = None
    /\ IF offer.cell \in board THEN startCellNormally(offer.cell)
       ELSE state' = "BOARD" /\ UNCHANGED <<trackVars, fadeVars>>

(* award, from finishDailyDouble: nobody is paid if the performer left. *)
Payout ==
    IF cellPicker = None THEN UNCHANGED <<lastScorer, paid>>
    ELSE lastScorer' = cellPicker /\ paid' = paid + 1

(* finishDailyDouble, except for the state it leaves behind. *)
Finish ==
    /\ Payout
    /\ NoTrack
    /\ ratingPool' = {} /\ ratings' = NoRatings
    /\ UNCHANGED <<cellPicker, offer, performed, singer>>

FinishStays == Finish /\ UNCHANGED state     \* a mutation of finishDailyDouble

finishDailyDouble == Finish /\ state' = "BOARD"

(* fadeOutAndFinishDailyDouble: one fade per performance. *)
StartFade ==
    IF fading THEN UNCHANGED fadeVars
    ELSE fading' = TRUE /\ fades' = [fades EXCEPT !.here = @ + 1]

Performing == state = "DAILY_DOUBLE" /\ curTrack # None

RatersOf(cast) == {p \in Players : cast[p] # 0}

-----------------------------------------------------------------------------
(* People.                                                                 *)

Connect(p) ==
    /\ p \notin online
    /\ online' = online \cup {p}
    /\ UNCHANGED <<state, cellVars, trackVars, offer, cellPicker, lastScorer, ratingVars, banned,
                   fadeVars, history, bounds>>

(* checkDailyDoubleComplete, once p no longer counts. *)
CheckComplete(pool, cast) ==
    IF Performing /\ pool # {} /\ Cardinality(RatersOf(cast)) >= Cardinality(pool)
    THEN StartFade ELSE UNCHANGED fadeVars

LeaveUnheeded(p) ==                          \* a mutation of Leaves
    /\ ratingPool' = ratingPool \ {p}
    /\ ratings' = [ratings EXCEPT ![p] = 0]
    /\ cellPicker' = IF p = cellPicker THEN None ELSE cellPicker
    /\ CheckComplete(ratingPool \ {p}, [ratings EXCEPT ![p] = 0])
    /\ UNCHANGED <<state, cellVars, trackVars, offer>>

(* What a disconnection and a kick have in common: a contestant's offer is *)
(* declined, a rater counts no more, a performer or picker is forgotten.   *)
Leaves(p) ==
    /\ ratingPool' = ratingPool \ {p}
    /\ ratings' = [ratings EXCEPT ![p] = 0]
    /\ cellPicker' = IF p = cellPicker THEN None ELSE cellPicker
    /\ IF state = "DAILY_DOUBLE" /\ offer # None /\ offer.who = p
       THEN declineDailyDouble /\ UNCHANGED <<board, left, visits>>
       ELSE /\ CheckComplete(ratingPool \ {p}, [ratings EXCEPT ![p] = 0])
            /\ UNCHANGED <<state, cellVars, trackVars, offer>>

Disconnect(p) ==
    /\ p \in online
    /\ online' = online \ {p}
    /\ Leaves(p)
    /\ UNCHANGED <<banned, lastScorer, history, bounds>>

Kick(p, ban) ==
    /\ ban => p \in Bannable
    /\ banned' = IF ban THEN banned \cup {p} ELSE banned
    /\ Leaves(p)
    /\ UNCHANGED <<online, lastScorer, history, bounds>>

-----------------------------------------------------------------------------
(* The Daily Double.                                                       *)

AcceptAgain(p) ==                            \* a mutation of Accept
    /\ state = "DAILY_DOUBLE" /\ offer # None
    /\ offer.who = p /\ p \in online
    /\ bucket # {}
    /\ \E hand \in SUBSET bucket :
           /\ Cardinality(hand) = HandSize \/ (hand = bucket /\ Cardinality(hand) < HandSize)
           /\ offer' = [offer EXCEPT !.hand = hand]
           /\ bucket' = bucket \ hand
    /\ UNCHANGED <<state, board, left, armed, trigger, visits, trackVars, cellPicker, lastScorer,
                   ratingVars, peopleVars, fadeVars, history, bounds>>

(* The contestant accepts; repeated, the same hand is only sent again. *)
Accept(p) ==
    /\ state = "DAILY_DOUBLE" /\ offer # None
    /\ offer.who = p /\ p \in online
    /\ offer.hand = {} /\ bucket # {}
    /\ \E hand \in SUBSET bucket :
           /\ Cardinality(hand) = HandSize \/ (hand = bucket /\ Cardinality(hand) < HandSize)
           /\ offer' = [offer EXCEPT !.hand = hand]
           /\ bucket' = bucket \ hand
    /\ UNCHANGED <<state, board, left, armed, trigger, visits, trackVars, cellPicker, lastScorer,
                   ratingVars, peopleVars, fadeVars, history, bounds>>

(* Decline, an accept that finds the bucket empty, or an admin's skip that *)
(* sees no performance.                                                    *)
Decline ==
    /\ state = "DAILY_DOUBLE" /\ offer # None
    /\ \/ offer.who \in online
       \/ curTrack = None
    /\ declineDailyDouble
    /\ UNCHANGED <<board, left, visits, cellPicker, lastScorer, ratingVars, peopleVars, history,
                   bounds>>

UnusedWithSong(song) == offer.hand           \* a mutation of Unused

(* returnUnusedDDCandidates: what goes back when song is performed. *)
Unused(song) == offer.hand \ {song}

(* onDailyDoubleChoose, startDailyDoublePerformance. *)
Choose(p, song) ==
    /\ state = "DAILY_DOUBLE" /\ offer # None
    /\ offer.who = p /\ p \in online
    /\ song \in offer.hand /\ offer.cell \in board
    /\ curTrack' = song /\ played' = FALSE /\ curRow' = RowOf[offer.cell]
    /\ cellPicker' = p
    /\ NewRoundKey
    /\ bucket' = bucket \cup Unused(song)
    /\ offer' = None
    /\ ratingPool' = online \ (banned \cup {p})
    /\ ratings' = NoRatings
    /\ performed' = performed \cup {song}
    /\ singer' = p
    /\ paid' = 0
    /\ UNCHANGED <<state, board, left, armed, trigger, visits, lastScorer, peopleVars, bounds>>

(* ... and its hard cancel when the board was replaced meanwhile. *)
ChooseOnVanishedCell(p) ==
    /\ state = "DAILY_DOUBLE" /\ offer # None
    /\ offer.who = p /\ p \in online
    /\ offer.hand # {} /\ offer.cell \notin board
    /\ declineDailyDouble
    /\ UNCHANGED <<board, left, visits, cellPicker, lastScorer, ratingVars, peopleVars, history,
                   bounds>>

(* onRate; a rater may rate again. *)
Rate(p, stars) ==
    /\ state = "DAILY_DOUBLE"
    /\ p \in ratingPool
    /\ ratings' = [ratings EXCEPT ![p] = stars]
    /\ UNCHANGED <<state, cellVars, trackVars, offer, cellPicker, lastScorer, ratingPool,
                   peopleVars, fadeVars, history, bounds>>

(* The song ends, or an admin skips or force-ends: at once. *)
EndPerformance ==
    /\ Performing
    /\ finishDailyDouble
    /\ UNCHANGED <<cellVars, peopleVars, fadeVars, bounds>>

(* admin.endDailyDouble: with a fade. *)
FadeOut ==
    /\ Performing
    /\ StartFade
    /\ UNCHANGED <<state, cellVars, trackVars, offer, cellPicker, lastScorer, ratingVars,
                   peopleVars, history, bounds>>

FadeFinishesAnything ==                      \* a mutation of FadeEnds
    /\ fades.here > 0
    /\ fading' = FALSE /\ fades' = [fades EXCEPT !.here = @ - 1]
    /\ finishDailyDouble
    /\ UNCHANGED <<cellVars, peopleVars, bounds>>

FadeOver == fading' = FALSE /\ fades' = [fades EXCEPT !.here = @ - 1]

(* A fade is over: its continuation finishes the performance, if that is   *)
(* still on under the same round key.                                      *)
FadeEnds ==
    /\ fades.here > 0
    /\ FadeOver
    /\ IF Performing THEN finishDailyDouble
       ELSE UNCHANGED <<state, trackVars, offer, cellPicker, lastScorer, ratingVars, history>>
    /\ UNCHANGED <<cellVars, peopleVars, bounds>>

StaleFadeEnds ==
    /\ fades.old > 0
    /\ fades' = [fades EXCEPT !.old = @ - 1]
    /\ UNCHANGED <<state, cellVars, trackVars, offer, cellPicker, lastScorer, ratingVars,
                   peopleVars, fading, history, bounds>>

-----------------------------------------------------------------------------
(* Around it.                                                              *)

AdminSelect(c) ==
    /\ state \notin {"ROUND", "DAILY_DOUBLE"}
    /\ selectCell(c)

(* A selection that finds no cell, or an exhausted one, still takes the    *)
(* picker's turn away.                                                     *)
AdminSelectsNothing ==
    /\ state \notin {"ROUND", "DAILY_DOUBLE"}
    /\ cellPicker' = None
    /\ UNCHANGED <<state, cellVars, trackVars, offer, lastScorer, ratingVars, peopleVars, fadeVars,
                   history, bounds>>

PickOnBoard(p, c) ==
    /\ state = "BOARD"
    /\ p = cellPicker /\ p \in online \ banned
    /\ selectCell(c)

(* A correct answer, or a partial one that is the second. *)
RoundWon(p) ==
    /\ state = "ROUND"
    /\ p \in online \ banned
    /\ lastScorer' = p
    /\ cellPicker' \in {p, cellPicker}
    /\ left' = Consumed
    /\ played' = TRUE
    /\ state' = "KARAOKE"
    /\ UNCHANGED <<board, armed, trigger, visits, bucket, curTrack, curRow, offer, ratingVars,
                   peopleVars, fadeVars, history, bounds>>

(* adminReveal, which has no guard; the automatic karaoke of a round. *)
AdminReveal ==
    /\ left' = Consumed
    /\ played' = (curTrack # None)
    /\ state' = "KARAOKE"
    /\ UNCHANGED <<board, armed, trigger, visits, bucket, curTrack, curRow, offer, cellPicker,
                   lastScorer, ratingVars, peopleVars, fadeVars, history, bounds>>

(* The countdown after a karaoke, with no cell picked. *)
KaraokeEnds ==
    /\ state = "KARAOKE"
    /\ state' = "BOARD"
    /\ NoTrack
    /\ cellPicker' = None
    /\ UNCHANGED <<cellVars, offer, lastScorer, ratingVars, peopleVars, fadeVars, history, bounds>>

(* endRound outside a Daily Double. *)
EndRound ==
    /\ state # "DAILY_DOUBLE"
    /\ left' = Consumed
    /\ NoTrack
    /\ state' = "BOARD"
    /\ UNCHANGED <<board, armed, trigger, visits, bucket, offer, cellPicker, lastScorer,
                   ratingVars, peopleVars, fadeVars, history, bounds>>

(* admin.endGame pays a performance first. *)
EndGame ==
    /\ state # "GAME_OVER"
    /\ state' = "GAME_OVER"
    /\ IF Performing THEN Finish
       ELSE UNCHANGED <<trackVars, offer, cellPicker, lastScorer, ratingVars, history>>
    /\ UNCHANGED <<cellVars, peopleVars, fadeVars, bounds>>

ResetToLobby ==
    /\ state = "GAME_OVER"
    /\ games < MaxGames
    /\ games' = games + 1
    /\ state' = "LOBBY"
    /\ curTrack' = None /\ played' = FALSE /\ curRow' = 0
    /\ NewRoundKey
    /\ offer' = None /\ cellPicker' = None /\ lastScorer' = None
    /\ ratingPool' = {} /\ ratings' = NoRatings
    /\ visits' = [c \in Cells |-> 0]
    /\ left' = [c \in Cells |-> Tracks]
    /\ bucket' = Songs
    /\ performed' = {} /\ singer' = None /\ paid' = 0 /\ reloaded' = FALSE
    /\ UNCHANGED <<board, armed, trigger, peopleVars, reloads>>

(* StartGame arms as many cells as it can, up to Count, for their second   *)
(* visit; the categories it spreads them over are not told apart.          *)
StartGame ==
    /\ state = "LOBBY"
    /\ state' = "BOARD"
    /\ visits' = [c \in Cells |-> 0]
    /\ LET eligible == {c \in board : left[c] >= 2}
       IN  \E S \in SUBSET eligible :
              /\ Cardinality(S) = Count \/ (S = eligible /\ Cardinality(S) < Count)
              /\ armed' = S
              /\ trigger' = [c \in Cells |-> IF c \in S THEN 2 ELSE 0]
    /\ UNCHANGED <<board, left, bucket, trackVars, offer, cellPicker, lastScorer, ratingVars,
                   peopleVars, fadeVars, history, bounds>>

(* ReloadBoard looks at no state; a new board comes with nothing played    *)
(* and nothing armed.                                                      *)
ReloadBoard ==
    /\ reloads < MaxReloads
    /\ reloads' = reloads + 1
    /\ reloaded' = TRUE
    /\ \E cells \in SUBSET Cells \ {{}} : board' = cells
    /\ left' = [c \in Cells |-> Tracks]
    /\ armed' = {} /\ trigger' = [c \in Cells |-> 0]
    /\ bucket' = Songs
    /\ curTrack' = IF curTrack \in Cells THEN OldTrack ELSE curTrack
    /\ UNCHANGED <<state, visits, played, curRow, offer, cellPicker, lastScorer, ratingVars,
                   peopleVars, fadeVars, history, games>>

-----------------------------------------------------------------------------
People ==
    \E p \in Players : \/ Connect(p) \/ Disconnect(p)
                       \/ \E ban \in BOOLEAN : Kick(p, ban)

Doubling ==
    \/ \E p \in Players : \/ Accept(p)
                          \/ \E song \in Songs : Choose(p, song)
                          \/ ChooseOnVanishedCell(p)
                          \/ \E stars \in Stars : Rate(p, stars)
    \/ Decline \/ EndPerformance \/ FadeOut

Game ==
    \/ \E c \in Cells : AdminSelect(c) \/ \E p \in Players : PickOnBoard(p, c)
    \/ \E p \in Players : RoundWon(p)
    \/ AdminSelectsNothing \/ AdminReveal \/ KaraokeEnds \/ EndRound \/ EndGame \/ ResetToLobby \/ StartGame
    \/ ReloadBoard

Next == People \/ Doubling \/ Game \/ FadeEnds \/ StaleFadeEnds

Spec == Init /\ [][Next]_vars

-----------------------------------------------------------------------------
(* Properties.                                                             *)

CellTypes ==
    /\ board \subseteq Cells /\ armed \subseteq Cells
    /\ left \in [Cells -> 0 .. Tracks]
    /\ trigger \in [Cells -> Nat] /\ visits \in [Cells -> 0 .. MaxVisits]

TrackTypes ==
    /\ curTrack \in Cells \cup Songs \cup {OldTrack, None}
    /\ curRow \in Int

OfferTypes ==
    /\ state \in States /\ offer \in Offers \cup {None}
    /\ cellPicker \in Players \cup {None} /\ lastScorer \in Players \cup {None}
    /\ bucket \subseteq Songs

PeopleTypes ==
    /\ ratingPool \subseteq Players /\ ratings \in [Players -> 0 .. 5]
    /\ online \subseteq Players /\ banned \subseteq Players

HistoryTypes ==
    /\ fades \in [here : Nat, old : Nat]
    /\ performed \subseteq Songs /\ singer \in Players \cup {None} /\ paid \in Nat
    /\ games \in Nat /\ reloads \in Nat

FlagTypes == played \in BOOLEAN /\ fading \in BOOLEAN /\ reloaded \in BOOLEAN

(* Every variable stays in its type. *)
TypeOK == CellTypes /\ TrackTypes /\ OfferTypes /\ PeopleTypes /\ HistoryTypes /\ FlagTypes

Hand      == IF offer = None THEN {} ELSE offer.hand
Available == bucket \cup Hand

(* A song is never in two places, and once performed it is not offered     *)
(* again in the same game ("no-replacement draw across the whole game"),   *)
(* unless the board was replaced.                                          *)
NoSongTwice ==
    ~reloaded => bucket \cap Hand = {} /\ performed \cap Available = {}

KeepsSongs ==
    state = "DAILY_DOUBLE" /\ offer # None /\ state' \in {"DAILY_DOUBLE", "ROUND"}
        => Available \subseteq Available' \cup {curTrack'}

(* While a Daily Double goes on, and when it falls back to a round, no     *)
(* song gets lost but the one that is performed (dd-eng-2,                 *)
(* dd-eng-bucket-01).                                                      *)
SongsStay == [][KeepsSongs]_vars

(* An open offer is in the hands of somebody who is here and may answer:   *)
(* contestants who leave or are banned take their offer with them.         *)
OfferIsAnswerable ==
    state = "DAILY_DOUBLE" /\ offer # None => offer.who \in online \ banned

(* In DAILY_DOUBLE there is an offer to answer or a performance to end:    *)
(* whichever of the two is over, the state is left with it.  And the order *)
(* to end it is not swallowed (fadeOutAndFinishDailyDouble): the marker of *)
(* a fade stands for one fade that is on its way, so that no marker        *)
(* outlives its fade and an admin who orders again starts no second one.   *)
MarkerIsAFade == fades.here = IF fading THEN 1 ELSE 0

NeverStranded ==
    /\ state = "DAILY_DOUBLE" => offer # None \/ curTrack # None
    /\ MarkerIsAFade

PaysTheSinger == paid' > paid => paid = 0 /\ curTrack \in performed /\ lastScorer' = singer

(* A performance pays at most once, only while it is on, and only its own  *)
(* performer, however its end, its fade, a skip, the end of the game and   *)
(* departures interleave.                                                  *)
PaysOncePerSong == [][PaysTheSinger]_vars

(* An offer comes to a performance or to a round of its cell; it never     *)
(* "wast[es] the pick that got the room here" (engine.go,                  *)
(* declineDailyDouble).                                                    *)
OfferIsNotWasted ==
    [][state = "DAILY_DOUBLE" /\ offer # None => state' # "BOARD"]_vars
=============================================================================
