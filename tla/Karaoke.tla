------------------------------- MODULE Karaoke -------------------------------
(***************************************************************************)
(* Between two rounds: the answer is shown, the room sings and votes to    *)
(* skip, the winner picks the next cell on their phone, and a countdown    *)
(* leads to the next track.  The karaoke ends when both halves of a gate   *)
(* are in: its condition (enough votes, or the song is over) and the pick. *)
(* Players come, go, are kicked; admins reveal, force-end, override and    *)
(* start new games at any moment.                                          *)
(*                                                                         *)
(* Handlers run one at a time.  What is in flight is the end of a          *)
(* countdown, which finds whatever state it finds.  A vote or a pick       *)
(* carries the nonce of the state it was sent in and is dropped in any     *)
(* other, so it is one step here.                                          *)
(*                                                                         *)
(* ROUND stands for ROUND_ACTIVE, LOCKED and ADJUDICATE (module BuzzRound) *)
(* and a Daily Double is one step, from the selection that offers it to    *)
(* the board it leaves to its performer (module DailyDouble).              *)
(***************************************************************************)
EXTENDS Scoring, FiniteSets

CONSTANTS
    Players,
    Cells,
    Tracks,        \* playable tracks of every cell
    Thresholds,    \* what the admins set the skip threshold to, in percent
    InitialPct,    \* ... and what it starts at
    MaxPhases,     \* bound: karaoke phases in a behaviour
    MaxGames,      \* bound: games in a behaviour
    None           \* no player, no cell

States == {"LOBBY", "BOARD", "ROUND", "KARAOKE", "TRANSITION", "GAME_OVER"}

ASSUME ConstantsOK ==
    /\ IsFiniteSet(Players)
    /\ Tracks \in Nat \ {0}
    /\ Thresholds \subseteq 50 .. 100
    /\ InitialPct \in 50 .. 100
    /\ MaxPhases \in Nat /\ MaxGames \in Nat
    /\ None \notin Players /\ None \notin Cells

VARIABLES
    state,         \* Engine.state
    track,         \* the cell of Engine.curTrack, or None
    played,        \* Engine.curTrack.Played
    buzzWinner,    \* Engine.buzzWinner
    left,          \* cell -> its unplayed tracks
    cellPicker,    \* Engine.cellPicker
    pendingPick,   \* Engine.pendingPick
    karaokeReady,  \* Engine.karaokeReady
    votingPool,    \* Engine.votingPool
    votes,         \* Engine.votes
    online,        \* players with a live connection
    active,        \* players with Active set
    banned,        \* players with Banned set
    pct,           \* Session.SkipThresholdPct
    countdowns,    \* beginTransition goroutines still asleep
    (* History and bounds. *)
    condition,     \* did the condition of this karaoke hold at some point?
    shown,         \* cell -> tracks of it whose answer was shown in this game
    skipped,       \* cell -> tracks of it that were over in this game with no answer
    shownNow,      \* was the answer of the current track shown?
    phases,        \* karaoke phases so far
    games          \* games so far

gateVars   == <<cellPicker, pendingPick, karaokeReady>>
voteVars   == <<votingPool, votes>>
trackVars  == <<track, played, buzzWinner, left, shown, skipped, shownNow>>
peopleVars == <<online, active, banned>>
bounds     == <<phases, games>>
vars == <<state, gateVars, voteVars, trackVars, peopleVars, pct, countdowns,
          condition, bounds>>

Init ==
    /\ state = "LOBBY"
    /\ track = None /\ played = FALSE /\ buzzWinner = None
    /\ left = [c \in Cells |-> Tracks]
    /\ cellPicker = None /\ pendingPick = None /\ karaokeReady = FALSE
    /\ votingPool = {} /\ votes = {}
    /\ online = {} /\ active = {} /\ banned = {}
    /\ pct = InitialPct
    /\ countdowns = 0
    /\ condition = FALSE
    /\ shown = [c \in Cells |-> 0] /\ skipped = [c \in Cells |-> 0] /\ shownNow = FALSE
    /\ phases = 0 /\ games = 0

-----------------------------------------------------------------------------
(* Votes.                                                                  *)

(* Have the voters who are here reached the threshold? *)
VotesSuffice(pool, cast, here, threshold) ==
    LET electorate == pool \cap here
    IN  /\ electorate # {}
        /\ Cardinality(cast \cap electorate) >= NeedVotes(Cardinality(electorate), threshold)

-----------------------------------------------------------------------------
(* Parts of handlers.                                                      *)

StartsNoCountdown ==                         \* a mutation of StartsCountdown
    state' = "TRANSITION" /\ UNCHANGED countdowns

(* beginTransition *)
StartsCountdown ==
    /\ state' = "TRANSITION"
    /\ countdowns' = countdowns + 1

StaysPut == UNCHANGED <<state, countdowns>>

(* consumeTrack, when the answer is shown and when it is not. *)
ConsumedLeftAgain ==                         \* a mutation of ConsumedLeft
    IF track # None THEN [left EXCEPT ![track] = @ - 1] ELSE left

ConsumedLeft == IF track # None /\ ~played THEN [left EXCEPT ![track] = @ - 1] ELSE left

Counted(count) == IF track # None /\ ~shownNow THEN [count EXCEPT ![track] = @ + 1] ELSE count

ShownUnmarked ==                             \* a mutation of consumeTrackShown
    /\ left' = ConsumedLeft
    /\ shown' = Counted(shown)
    /\ shownNow' = (track # None)
    /\ UNCHANGED <<track, played, skipped>>

consumeTrackShown ==
    /\ left' = ConsumedLeft
    /\ played' = (track # None)
    /\ shown' = Counted(shown)
    /\ shownNow' = (track # None)
    /\ UNCHANGED <<track, skipped>>

(* enterKaraoke, which every caller reaches with nobody on the floor:      *)
(* whoever is here, playing and not banned may vote.                       *)
enterKaraoke ==
    /\ buzzWinner' = None
    /\ phases < MaxPhases
    /\ phases' = phases + 1
    /\ state' = "KARAOKE"
    /\ votingPool' = (active \cap online) \ banned
    /\ votes' = {}
    /\ condition' = FALSE

(* karaokeConditionMet, from a handler that changes nothing else here. *)
karaokeConditionMet ==
    /\ condition' = TRUE
    /\ IF cellPicker = None \/ pendingPick # None
       THEN StartsCountdown /\ UNCHANGED karaokeReady
       ELSE karaokeReady' = TRUE /\ StaysPut
    /\ UNCHANGED <<cellPicker, pendingPick>>

NoTrack == track' = None /\ played' = FALSE /\ shownNow' = FALSE /\ buzzWinner' = None

(* startTrack; which of the cell's unplayed tracks is left open. *)
startTrack(c) ==
    /\ state' = "ROUND"
    /\ cellPicker' = None
    /\ track' = c
    /\ played' = FALSE
    /\ shownNow' = FALSE
    /\ buzzWinner' = None

(* The performer picks next, unless gone or kicked in the meantime. *)
DailyDoubleEnds ==
    /\ state' = "BOARD"
    /\ NoTrack
    /\ cellPicker' \in online \cup {None}

(* selectCell: what a picker left behind is forgotten, here by its caller  *)
(* if the cell has nothing left to play.                                   *)
selectCell(c, pick) ==
    /\ left[c] > 0
    /\ pendingPick' = None
    /\ karaokeReady' = (karaokeReady /\ cellPicker = None /\ pick = None)
    /\ startTrack(c) \/ DailyDoubleEnds
    /\ UNCHANGED <<left, shown, skipped>>

-----------------------------------------------------------------------------
(* People.                                                                 *)

(* A Hello, on a new connection or again on an old one. *)
Hello(p) ==
    /\ online' = online \cup {p}
    /\ active' = IF p \in banned THEN active ELSE active \cup {p}
    /\ UNCHANGED <<state, gateVars, voteVars, trackVars, banned, pct, countdowns,
                   condition, bounds>>

(* A player leaves the pool while the room votes: what that may set off.   *)
(* ready is karaokeReady, out says whether the countdown starts.           *)
LeavesPool(p, here) ==
    LET met == state = "KARAOKE" /\ VotesSuffice(votingPool \ {p}, votes, here, pct)
    IN  [met   |-> met,
         out   |-> met /\ (cellPicker = None \/ pendingPick # None),
         ready |-> karaokeReady \/ (met /\ cellPicker # None /\ pendingPick = None)]

GoneUncounted(p) ==                          \* a mutation of Gone
    /\ p \in online
    /\ online' = online \ {p}
    /\ active' = active \ {p}
    /\ votingPool' = votingPool \ {p}
    /\ IF p = cellPicker
       THEN cellPicker' = None /\ pendingPick' = None /\ karaokeReady' = FALSE
       ELSE UNCHANGED gateVars
    /\ IF p = cellPicker /\ karaokeReady /\ state = "KARAOKE" THEN StartsCountdown ELSE StaysPut
    /\ UNCHANGED <<votes, trackVars, banned, pct, condition, bounds>>

(* OnDisconnect of a player's last connection. *)
Gone(p) ==
    /\ p \in online
    /\ online' = online \ {p}
    /\ active' = active \ {p}
    /\ votingPool' = votingPool \ {p}
    /\ LET after == LeavesPool(p, online \ {p})
       IN  /\ condition' = (condition \/ after.met)
           /\ IF p = cellPicker
              THEN /\ cellPicker' = None /\ pendingPick' = None /\ karaokeReady' = FALSE
                   /\ IF after.out \/ (after.ready /\ state = "KARAOKE")
                      THEN StartsCountdown ELSE StaysPut
              ELSE /\ karaokeReady' = after.ready
                   /\ IF after.out THEN StartsCountdown ELSE StaysPut
                   /\ UNCHANGED <<cellPicker, pendingPick>>
    /\ UNCHANGED <<votes, trackVars, banned, pct, bounds>>

(* onAdminKick: the same, but nothing takes over from a kicked picker. *)
Kick(p, ban) ==
    /\ banned' = IF ban THEN banned \cup {p} ELSE banned
    /\ active' = active \ {p}
    /\ votingPool' = votingPool \ {p}
    /\ LET after == LeavesPool(p, online)
       IN  /\ condition' = (condition \/ after.met)
           /\ IF after.out THEN StartsCountdown ELSE StaysPut
           /\ IF p = cellPicker
              THEN cellPicker' = None /\ pendingPick' = None /\ karaokeReady' = FALSE
              ELSE karaokeReady' = after.ready /\ UNCHANGED <<cellPicker, pendingPick>>
    /\ UNCHANGED <<votes, trackVars, online, pct, bounds>>

-----------------------------------------------------------------------------
(* The game.                                                               *)

StartGame ==
    /\ state = "LOBBY"
    /\ state' = "BOARD"
    /\ UNCHANGED <<gateVars, voteVars, trackVars, peopleVars, pct, countdowns, condition, bounds>>

(* admin.endGame, in any state. *)
EndGame ==
    /\ state # "GAME_OVER"
    /\ state' = "GAME_OVER"
    /\ UNCHANGED <<gateVars, voteVars, trackVars, peopleVars, pct, countdowns, condition, bounds>>

(* The picker goes; the pick and the flag stay. *)
ResetToLobby ==
    /\ state = "GAME_OVER"
    /\ games < MaxGames
    /\ games' = games + 1
    /\ state' = "LOBBY"
    /\ cellPicker' = None
    /\ votingPool' = {} /\ votes' = {}
    /\ NoTrack
    /\ left' = [c \in Cells |-> Tracks]
    /\ shown' = [c \in Cells |-> 0] /\ skipped' = [c \in Cells |-> 0]
    /\ UNCHANGED <<pendingPick, karaokeReady, peopleVars, pct, countdowns, condition, phases>>

(* admin.select; with nothing left to play only the picker goes. *)
AdminSelect(c) ==
    /\ state # "ROUND"
    /\ selectCell(c, pendingPick)
    /\ UNCHANGED <<voteVars, peopleVars, pct, countdowns, condition, bounds>>

AdminSelectsExhausted(c) ==
    /\ state # "ROUND"
    /\ left[c] = 0
    /\ cellPicker # None \/ pendingPick # None
    /\ cellPicker' = None /\ pendingPick' = None /\ karaokeReady' = FALSE
    /\ UNCHANGED <<state, trackVars, voteVars, peopleVars, pct, countdowns, condition, bounds>>

(* A buzz wins the floor (module BuzzRound); the speaker may leave.        *)
TakesFloor(p) ==
    /\ state = "ROUND"
    /\ buzzWinner = None
    /\ p \in online \ banned
    /\ buzzWinner' = p
    /\ UNCHANGED <<state, gateVars, voteVars, track, played, left, shown, skipped, shownNow,
                   peopleVars, pct, countdowns, condition, bounds>>

(* gradeCorrect: the winner, here or not, picks next. *)
RoundWon ==
    /\ state = "ROUND"
    /\ buzzWinner # None
    /\ cellPicker' = buzzWinner
    /\ consumeTrackShown
    /\ enterKaraoke
    /\ UNCHANGED <<pendingPick, karaokeReady, peopleVars, pct, countdowns, games>>

(* A wrong or a first partial answer. *)
RoundReopened ==
    /\ state = "ROUND"
    /\ buzzWinner # None
    /\ buzzWinner' = None
    /\ UNCHANGED <<state, gateVars, voteVars, track, played, left, shown, skipped, shownNow,
                   peopleVars, pct, countdowns, condition, bounds>>

(* A second partial answer, or nobody speaks and the answer is complete:   *)
(* no picker is named.                                                     *)
RoundUnwon ==
    /\ state = "ROUND"
    /\ consumeTrackShown
    /\ enterKaraoke
    /\ UNCHANGED <<gateVars, peopleVars, pct, countdowns, games>>

(* adminReveal has no guard at all. *)
AdminReveal ==
    /\ consumeTrackShown
    /\ enterKaraoke
    /\ UNCHANGED <<gateVars, peopleVars, pct, countdowns, games>>

(* endRound, by the admin in any state or by the end of an unguessed song. *)
EndRound ==
    /\ left' = ConsumedLeft
    /\ skipped' = Counted(skipped)
    /\ NoTrack
    /\ state' = "BOARD"
    /\ UNCHANGED <<gateVars, voteVars, shown, peopleVars, pct, countdowns, condition, bounds>>

-----------------------------------------------------------------------------
(* Singing, voting and picking.                                            *)

Vote(p) ==
    /\ state = "KARAOKE"
    /\ p \in votingPool \cap online
    /\ votes' = votes \cup {p}
    /\ IF VotesSuffice(votingPool, votes \cup {p}, online, pct)
       THEN karaokeConditionMet
       ELSE UNCHANGED <<state, countdowns, condition, gateVars>>
    /\ UNCHANGED <<votingPool, trackVars, peopleVars, pct, bounds>>

(* onAdminSetThresh; the handler clamps to 50 .. 100. *)
SetThreshold(v) ==
    /\ pct' = v
    /\ IF state = "KARAOKE" /\ VotesSuffice(votingPool, votes, online, v)
       THEN karaokeConditionMet
       ELSE UNCHANGED <<state, countdowns, condition, gateVars>>
    /\ UNCHANGED <<voteVars, trackVars, peopleVars, bounds>>

(* The stage reports the end of the song (in a round: EndRound). *)
TrackEnded ==
    /\ state = "KARAOKE"
    /\ karaokeConditionMet
    /\ UNCHANGED <<voteVars, trackVars, peopleVars, pct, bounds>>

MayPick(p, c) ==
    /\ p = cellPicker
    /\ p \in online \ banned
    /\ left[c] > 0

(* onPlayerSelectCell on the board starts the cell at once. *)
PickOnBoard(p, c) ==
    /\ state = "BOARD"
    /\ MayPick(p, c)
    /\ selectCell(c, pendingPick)
    /\ UNCHANGED <<voteVars, peopleVars, pct, countdowns, condition, bounds>>

PickUnheeded(p, c) ==                        \* a mutation of PickInKaraoke
    /\ state = "KARAOKE"
    /\ MayPick(p, c)
    /\ pendingPick = None
    /\ pendingPick' = c
    /\ StaysPut
    /\ UNCHANGED <<cellPicker, karaokeReady, voteVars, trackVars, peopleVars, pct, condition,
                   bounds>>

(* ... and in karaoke is the other half of the gate; a second tap is not heard. *)
PickInKaraoke(p, c) ==
    /\ state = "KARAOKE"
    /\ MayPick(p, c)
    /\ pendingPick = None
    /\ pendingPick' = c
    /\ IF karaokeReady THEN StartsCountdown ELSE StaysPut
    /\ UNCHANGED <<cellPicker, karaokeReady, voteVars, trackVars, peopleVars, pct, condition,
                   bounds>>

(* A countdown ends, in whatever state it finds the game. *)
CountdownStale ==
    /\ countdowns > 0
    /\ state # "TRANSITION"
    /\ countdowns' = countdowns - 1
    /\ UNCHANGED <<state, gateVars, voteVars, trackVars, peopleVars, pct, condition, bounds>>

PickCanStart == \E c \in Cells : c = pendingPick /\ left[c] > 0

(* The picked cell starts: selectCell, with the pick already taken out. *)
CountdownPlaysPick ==
    /\ countdowns > 0
    /\ state = "TRANSITION"
    /\ countdowns' = countdowns - 1
    /\ PickCanStart
    /\ selectCell(pendingPick, None)
    /\ UNCHANGED <<voteVars, peopleVars, pct, condition, bounds>>

(* Nothing to play: back to the board, the admins choose. *)
CountdownToBoard ==
    /\ countdowns > 0
    /\ state = "TRANSITION"
    /\ countdowns' = countdowns - 1
    /\ ~PickCanStart
    /\ cellPicker' = None /\ pendingPick' = None /\ karaokeReady' = FALSE
    /\ state' = "BOARD"
    /\ NoTrack
    /\ UNCHANGED <<left, shown, skipped, voteVars, peopleVars, pct, condition, bounds>>

-----------------------------------------------------------------------------
Countdown == CountdownStale \/ CountdownPlaysPick \/ CountdownToBoard

People ==
    \E p \in Players : \/ Hello(p) \/ Gone(p)
                       \/ \E ban \in BOOLEAN : Kick(p, ban)

Game ==
    \/ StartGame \/ EndGame \/ ResetToLobby \/ RoundWon \/ RoundReopened \/ RoundUnwon
    \/ AdminReveal \/ EndRound
    \/ \E c \in Cells : AdminSelect(c) \/ AdminSelectsExhausted(c)
    \/ \E p \in Players : TakesFloor(p)

Singing ==
    \/ \E p \in Players : \/ Vote(p)
                          \/ \E c \in Cells : PickOnBoard(p, c) \/ PickInKaraoke(p, c)
    \/ \E v \in Thresholds : SetThreshold(v)
    \/ TrackEnded

Next == People \/ Game \/ Singing \/ Countdown

Spec == Init /\ [][Next]_vars

(* A sleeping goroutine wakes up, and the engine then runs its command. *)
FairSpec == Spec /\ WF_vars(Countdown)

-----------------------------------------------------------------------------
(* Properties.                                                             *)

TrackTypes ==
    /\ track \in Cells \cup {None} /\ played \in BOOLEAN /\ shownNow \in BOOLEAN
    /\ buzzWinner \in Players \cup {None}
    /\ left \in [Cells -> 0 .. Tracks]
    /\ shown \in [Cells -> Nat] /\ skipped \in [Cells -> Nat]

GateTypes ==
    /\ state \in States
    /\ cellPicker \in Players \cup {None} /\ pendingPick \in Cells \cup {None}
    /\ countdowns \in Nat /\ phases \in 0 .. MaxPhases /\ games \in 0 .. MaxGames

FlagTypes == karaokeReady \in BOOLEAN /\ condition \in BOOLEAN

PeopleTypes ==
    /\ votingPool \subseteq Players /\ votes \subseteq Players
    /\ online \subseteq Players /\ active \subseteq Players /\ banned \subseteq Players
    /\ pct \in 50 .. 100

(* Every variable stays in its type. *)
TypeOK == TrackTypes /\ GateTypes /\ FlagTypes /\ PeopleTypes

(* A majority is never overlooked: whenever the votes of those present     *)
(* suffice, the condition was met, whether the last vote, a departure, a   *)
(* kick or a new threshold tipped it (evaluateSkipVotes and its callers).  *)
NoMissedMajority ==
    state = "KARAOKE" /\ VotesSuffice(votingPool, votes, online, pct) => condition

(* Once the condition of a karaoke has been met there is no pick waiting   *)
(* in it: whichever half comes second ends it (karaokeConditionMet and     *)
(* onPlayerSelectCell, both orders).                                       *)
GateOpens == state = "KARAOKE" /\ condition => pendingPick = None

(* A cell's pool has lost exactly the tracks that are over in this game,   *)
(* each once: those whose answer was shown, whichever way and however      *)
(* often, and those a force-end or the song's end closed with no answer    *)
(* (consumeTrack and its callers).                                         *)
SpentOnce == \A c \in Cells : left[c] + shown[c] + skipped[c] = Tracks

(* A countdown on the screen comes to an end. *)
TransitionEnds == state = "TRANSITION" ~> state # "TRANSITION"

(* "pendingPick/karaokeReady start this phase clear" (engine.go, at the    *)
(* end of enterKaraoke): a karaoke that follows a round starts with        *)
(* neither half of the gate in.                                            *)
FreshKaraokeIsClear ==
    [][state = "ROUND" /\ state' = "KARAOKE" => pendingPick' = None /\ ~karaokeReady']_vars

(* A picker who "fully disconnects mid-pick must not leave stale waiting   *)
(* state that can never resolve on its own" (engine.go, OnDisconnect):     *)
(* a karaoke that waits only for a pick waits for somebody present.        *)
PickerIsPresent ==
    state = "KARAOKE" /\ karaokeReady /\ pendingPick = None => cellPicker \in online

(* "the OTHER AND-gate half must not wait on it forever" (engine.go,       *)
(* karaokeConditionMet): a karaoke whose condition was met waits for       *)
(* somebody.                                                               *)
WaitsForSomebody == state = "KARAOKE" /\ condition => cellPicker # None
=============================================================================
