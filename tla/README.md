# Yfitops: TLA+ models and proofs

Yfitops is a party game: a Go server runs a music trivia board, a stage screen
plays the tracks and reveals their letters, phones buzz in, admins grade the
spoken answers, the room sings and votes to skip, the winner picks the next
cell. This directory models the server's game engine
(`src/server/internal/game`) and what is in flight around it, checks the models
with TLC on small instances, and proves the central ones with TLAPS for every
value of their constants.

`PROJECT.json` lists components, runs, mutants, hazards, findings and theorems,
and maps each definition to the lines it translates.

## 1. The system

### Concurrency in one paragraph

All game state lives in one `Engine` and is touched by one goroutine, `Run`,
which takes commands from a channel (`cmds`). Frames from clients, timers'
callbacks, REST calls and the continuations of background goroutines all become
commands. So a handler is atomic. What interleaves is everything in flight
*between* handlers: frames sent in one state and delivered in another, window
timers, countdowns and fades that end after the state they were started for,
several admins, phones that vanish, and calls to Redis that fail. The engine
defends itself with a state check, a nonce (`anticheat.NonceGate`, bumped on
every transition), a round key (`roundKey`, fresh for each track) and a lock
taken per round key. Most hard questions are about whether those defences cover
every order.

### Components

| component | state it keeps | operations | how it meets the others | what makes it correct |
|---|---|---|---|---|
| buzz round (`engine.go` 1409-1911, `nonce.go`, `lock_*.go`) | state, round key, window and its contenders, winner, clock, partial pool, lock keys | start of a track, buzz, end of the window, four verdicts, pause, resume, reveal, force-end | `AfterFunc` timer per window, Redis lock, grade frames from admins, lockout from the letter reveal | one guess per player and track; earliest buzz wins; never pays above the ceiling; a reopened round can be won again; every window is resolved once |
| scoring (`scoring.go`) | none | row ceiling, decay, partial awards, multiplier, votes needed | called by the round, the Daily Double, the vote | bounds and monotone pools in spite of `float64` |
| karaoke, skip vote, cell picking (`engine.go` 1913-2418) | voting pool, votes, threshold, picker, pending pick, ready flag | vote, threshold, pick, end of song, countdown | entered by a verdict, a reveal or the letter reveal; a goroutine sleeps through the countdown | no majority is overlooked; the gate opens whichever half comes second; the countdown ends; nobody is waited for who cannot answer |
| daily double (`engine.go` 1341-1407, 2216-2264, 2420-2805, 3148-3237) | armed cells, offer, hand, bucket, rating pool, ratings, fade marker | arm, offer, accept, decline, choose, rate, finish, fade, skip | started by the selection of a cell; a goroutine fades; `ReloadBoard` may swap the board under it | songs neither lost nor drawn twice; an offer is always answerable; pays once, to the performer |
| letter reveal (`reveal.go`, `engine.go` 3475-3947) | order of the letters, revealed set, ticker generation, lockout | tick, stop, restart, full reveal of a field, lockout, automatic karaoke | ticker goroutine per round, stopped while a guess is judged | a chain of ticks per round at most; after the last letter the lockout and the karaoke do come |
| solo karaoke (`solo_karaoke.go`) | active flag, queue, index, history, shuffle, repeat | play, pause, next, previous, seek, stop, advance | shares the audio device and the state machine with trivia, kept apart by a mode lock | the two modes never play at once; index and track agree |
| player registry (`player.go`) | players, connections, fingerprints | hello, resume, disconnect | asked by everything (`online`, `playerForConn`) | a player is online exactly while a connection is bound to them |
| transport (`hub.go`, `server.go`, `ws.go`, `limiter.go`) | connections, send queues, session slots, idle timers | accept, read, enqueue, drop | calls `OnConnect`, `OnMessage`, `OnDisconnect` | slots are given back once; a slow client is dropped, once, and the engine learns of it; no frame after the disconnection; a reset saves a connection from its idle timer |
| spotify client and token (`spotify.go`) | access and refresh token, expiry | refresh, retried calls, durable store | used by the audio device and by REST | one grant at a time, a rotated refresh token is never overwritten by an older one |
| volume writer (`engine.go` 3055-3146) | target level, queue of 64 | set, fade steps, restore | fade goroutines and handlers feed one writer | the device ends at the level last asked for |
| lyrics (`lyrics.go`, `engine.go` 1913-2090) | singleflight cache, goroutines that wait | fetch, evict, deliver to the stage | the round and solo karaoke ask; goroutines submit what they got | one fetch per song; never another song's lines; an answer in the end |
| persistence, admin REST and AI, configuration | SQL, HTTP | save, CRUD | best effort, nothing in the engine waits for them | not modelled, but for the playlist's edits (`Solo`) and the replaced board (`DailyDouble`) |
| phone, stage and admin clients (`src/web`) | reconnection, echoed nonce, rendering | | send the frames the models have in flight | partly, by their frames; the stage's page as far as `Solo` needs it |

The hard parts are listed as `hazards` in `PROJECT.json`, each at its line.

## 2. Modules

| module | models |
|---|---|
| `Scoring` | ceilings, decay, pools, votes needed: integer arithmetic, with a choice wherever the `float64` formula may fall to either side of an integer |
| `ScoringProofs` | bounds of `Scoring` |
| `GuessFloor` | what a round promises: the floor is free or one player's who has not spent a guess; who loses it has spent it |
| `BuzzRound` | the round; `Floor` inside it is the refinement mapping to `GuessFloor` |
| `BuzzRoundProofs` | inductive invariant and theorems of `BuzzRound` |
| `Karaoke` | from the end of a round to the start of the next |
| `KaraokeProofs` | inductive invariant and theorems of `Karaoke` |
| `DailyDouble` | from the arming of the cells to the payout |
| `DailyDoubleProofs` | inductive invariant and theorems of `DailyDouble` |
| `Reveal` | the letter reveal of a round and every timer that drives it; `Guessing` inside it is a second refinement mapping to `GuessFloor` |
| `RevealProofs` | inductive invariant, theorems and refinement of `Reveal` |
| `Solo` | solo karaoke, the deck, the lyrics and the playlist it shares with trivia and with HTTP requests |
| `SoloProofs` | inductive invariant and theorems of `Solo` |
| `Presence` | what the transport promises the engine about connections |
| `Session` | a connection from the limiter to the registry; `P` inside it is the refinement mapping to `Presence` |
| `SessionProofs` | inductive invariant and theorems of `Session`, and the safety half of its refinement |
| `Deck` | the volume queue and the tokens with which commands reach Spotify |
| `DeckProofs` | inductive invariant and theorems of `Deck` |
| `MC...` | values of the constants for TLC |

`Scoring` is extended by `BuzzRound`, `Karaoke` and `DailyDouble`. The modules of
the engine overlap on purpose, each taking the others' business as one step: `Karaoke` has a whole round as
`ROUND` with the steps that give or return the floor, and a Daily Double as one
step; `DailyDouble` has rounds and karaoke as one step each; `BuzzRound` does not
tell the board, the lobby, a countdown and a Daily Double apart, because a buzz
or a grade is refused in all of them; `Reveal` has judging and verdicts without
points, and a Daily Double as an offer and a performance; `Solo` has a trivia game
as `LIVE` with the steps that touch the deck and the stage. `Session` and `Deck`
are the two ends of the engine: who reaches it, and what it reaches.

### BuzzRound

State corresponds field by field to `Engine` (the comment on each variable names
the field). In addition: `locks` is the content of the lock store, `timers`
counts pending window timers per round key, `buzzes` and `grades` are frames on
their way. A frame's nonce is abstracted to what `Validate` can tell: current, or
outrun (`Stale`), which `transitionTo` makes of all frames in flight. The
wall clock is `elapsed`, which a `Tick` moves among `Times` (never during a
pause); what a verdict pays is read from it through `Scoring`.
`heard`, `verdicts`, `paid` and `lockFault` are history.

One action per path of a handler: `onBuzz` is `BuzzRefused`, `BuzzJoinsWindow`,
`BuzzOpensWindow`; `resolveBuzzWindow` is `TimerIgnored`, `NobodyEligible`,
`WindowLoses`, `WindowWon`; `onGrade` is `GradeIgnored`, `GradeBadVerdict`,
`gradeCorrect`, `gradeFirstPartial`, `gradeSecondPartial`, `gradeIncorrect`.
With `RedisLock` a call to the lock may fail, with or without effect, and a key
may expire (its TTL is five minutes, a round may be longer).

### Karaoke

`karaokeReady` and `pendingPick` are the two halves of the gate; `countdowns`
counts sleeping goroutines of `beginTransition`. `Gone` is `OnDisconnect` of a
last connection, `Kick` is `onAdminKick`: they differ, and the difference is one
of the findings. `EndRound` and `AdminReveal` have no guard because
the code has none. `condition` remembers that the vote or the song was through,
`shown` how many answers of a cell the room has seen, `skipped` how many of its tracks
were closed without one. Both are kept by `shownNow`, not by the code's `played`, so
that `SpentOnce` compares the pool with what really happened in the room.

### DailyDouble

`curTrack` is a cell (one of its tracks), a song of the bucket, or the track of a
board that was replaced: the code's "is there a performance?" is `curTrack #
nil`, so the model keeps what is really in it. A round key is abstracted to what
a fade can tell: `fades.here` and `fades.old` count fades started under the
current key and under earlier ones. `performed`, `singer`, `paid` and `reloaded`
are history.

### Reveal

`rc` is `revealClock` with its phases; letters are counted per field, since which
slot a letter fills is a shuffle that no step looks at. A one-shot (`time.AfterFunc`
for the year, the block, the first letter, the automatic karaoke) cannot be taken
back and stays in `oneShots` until it runs. The ticker can be stopped until its
callback is submitted: `armed` and `ticks` count per round key what is armed and
what is in the engine's queue, `revealTimer` is what `stopRevealTimer` can reach.
Timers fire in any order, except that a field's letters wait for their start.
`shown` is the last mask the room was sent. `onRevealTick` is `TickIgnored`,
`TickPaused` and `RevealTick`; a one-shot that finds another round is
`OneShotIgnored`. `Eligible` is what `resolveBuzzWindow` asks again of the
contenders: the lockout may have spent their guesses since they buzzed. That is why
`Reveal` is held against `GuessFloor` as `BuzzRound` is: the two models share no
variable, and keep the same promise about who may have the floor.

### Solo

The deck is what Spotify's device plays, its commands may fail (`failed`), and
`ended` is a song's end whose report is on its way. HTTP requests edit the
playlist in two steps, because the handler writes, reads the list back and hands it
to the engine without a lock: `request` has what each has read. `waiters` are the
goroutines that will send lyrics; `cache` and `fetches` are the singleflight cache.
`Kept` is what a `WHERE` leaves of a list, and `Reordered` puts two such lists
together.

The stage's page is modelled as far as it matters to that. `StageDrops` is a lost
connection (`useGame.ts`: the page keeps what it shows, and its player plays on) or a
page that is loaded anew. A song that ends meanwhile is not reported, then or later:
`safeSend` drops the report, and the end is signalled on its edge only. `sendFullSync`
is what the engine sends to a stage that connects, or asks (`Resync`): the state, on
which the page clears its lyrics in the lobby and on the board and nowhere else; a
`play` frame, on which its player pauses (`PlayFrame`; `spotify.ts:166-180`) to wait for
an order of the Web API that nobody gives; and the lyrics again.

`overridden`, `muted`, `unseen`, `strayed`, `overlapped` and `unsynced` are history:
they name the orders in which the code lets the two modes, the stage or two edits
interfere, and the properties say what holds otherwise.

Taken as given: there is one stage page; its audio has been unlocked by a gesture; the
pause it makes on a `play` frame comes before the song starts that the Web API was
told to play in the same step; and its player reports an end only when a song ends.

### Session

`phase` is the program counter of a session's goroutine, from the limiter's
`acquire` to its `release`; both transports go through it, and only WebSocket
sessions have an idle timer. `out` is the length of a send queue, `closed` and `shut`
say who has ended a connection. The engine's queue `cmds` has what `OnConnect`,
`OnMessage` and `OnDisconnect` submit, and is bounded as the channel is, so that
submitting blocks. `due` and `expiring` are callbacks of the idle timer that have
fired and wait for its lock: the timer they belong to may have been replaced.
`Presence` is what the engine may rely on: a connection appears once, is heard only
until it disappears, and one that has ended does disappear.

### Deck

`calls` has the program counter of every goroutine with a request under way, the
token it was sent with and what a grant has brought. A refresh token is the number
of its login and of its turn; access tokens are numbered as they are minted. The
queue `volumeCmds` is bounded and drops. `unasked`, `failed` and `spoiled` are
history: the last level asked for was dropped, the last command failed, a rotated
token was lost.

External to the code: Spotify. It is modelled as this client has to take it: the
newest refresh token of a login is accepted, and so is one whose request was sent
before it was replaced; an access token may die at any time; any answer may be an
error or not arrive.

## 3. Runs

| run | constants | states | shows |
|---|---|---|---|
| `buzz_round` | 2 players, one of them bannable, 1 admin, row 5, stamps 1 and 2, times 0 and 5001 ms, 2 rounds, failing lock | 2.7 M | the five invariants, `EarliestBuzzWins`, and that a round implements `GuessFloor` |
| `buzz_stale_grade` | 2 players, 2 admins, 1 round, in-memory lock | violated | a second admin's grade may judge the next player |
| `karaoke` | 2 players, 1 cell of 2 tracks, thresholds 50 and 100, 2 karaoke phases, 2 games | 0.35 M | no missed majority, the gate, every track spent once, the countdown ends |
| `karaoke_stale_ready` | the same | violated | half a gate survives into the next game |
| `karaoke_absent_picker` | the same | violated | the room waits for a picker who is gone |
| `karaoke_kicked_picker` | the same | violated | the room waits for nobody |
| `daily_double` | 2 players, 2 cells of 2 tracks, 3 songs with hands of 2, 1 armed cell, 2 visits per cell, 2 games, 1 replaced board | 2.2 M | songs, offers, fades and payouts |
| `dd_wasted_offer` | the same, one game, no replaced board | violated | an offer taken for a performance |
| `reveal` | 2 players, one of whom may leave, artist of 1 letter and title of 2, knobs all on or all off, 2 rounds | 1.16 M | what drives the clock, ticks that all show a letter, letters never hidden again, the end of a round nobody answers, and that a round with letters implements `GuessFloor` |
| `solo` | 2 songs, 2 overlapping requests, six scenarios (below) | 0.79 M | index, deck, lyrics and queue of solo karaoke next to trivia, and that an answer about the lyrics is always on its way |
| `session` | 2 sessions, one over WebSocket, from one address or two, room for 1 per address, send queue of 1, engine queue of 2, 2 frames, 1 device, banned | 0.77 M | slots, presence, idle timers, and that a session implements `Presence` |
| `deck` | writer, 1 command, 1 stage, queue of 2, fades of 2 steps, levels 40 and 100, four scenarios (below) | 2.6 M | the level at rest, and tokens across overlapping refreshes |

Deadlock is checked in all of them except `deck`, where nothing need be left to do
once the bounds are reached.

**Scenarios.** In `Solo` and `Deck` several things can happen that have little to do
with each other, and their product is out of reach. There `Starts` and `Limits` are
sets of records, one of which a behaviour draws at its start: what is there, and how
often each thing may happen. `solo`: a process that has just started and two edits; a
session with an edit and a changed knob; two songs whose lyrics are fetched; a
song whose lyrics are fetched while the stage goes away, comes back or asks again; a
stage that is away between two songs, of which one has no lyrics; and a trivia round
that starts over solo karaoke. `deck`: a
fade with an admin at the slider; two fades; three callers with two refreshes; four
tokens, two logins and a restart. The modules and the theorems have no such limit.

**Why these bounds reach the interesting cases.** Two players are the least with
which a window has a contest, a wrong answer leaves somebody to buzz, a majority
differs from everybody, and a rater may leave while a performer stays. Two rounds
and two karaoke phases let timers, locks, countdowns and frames of one meet the
next. In row 5 the ceiling (200) differs from the floor, and 5001 ms is the first
instant of decay and the one `gradePartial` re-anchors to. A hand of two from
three songs makes a later draw smaller than a hand, leaves an unchosen song to
give back, and leaves a song for a second draw. Two visits trigger a Daily
Double; the second cell is where a declined one moves and is visited again. In
`daily_double` all players, songs and cells play equal parts, so it uses symmetry
(it checks no liveness). A title of two letters next to an artist of one makes the
fields end at different ticks, and lets a partial answer fill the field whose turn
it is, or the other. A send queue of one is full after one frame, an address with
room for one refuses the second session, and an engine queue of two blocks a third
command. Two levels tell the operating level from every level a fade passes, and a
queue of two is full while a fade of two steps is under way.

**What they do not reach.** With two voters the thresholds 50 and 100 ask for the same
two votes, so a change of the threshold alone never tips the majority in `karaoke`: that
is covered by `MajoritiesAreNoticed`, for any thresholds. In `session` the two sessions
never exceed `MaxTotal`; the limit in all is covered by `SlotsAreAlwaysSessions`.

**What each property guards** is in the comment above it and, by hazard, in
`PROJECT.json`. Every property of a passing run has a mutant: a variant of one
mapped definition, kept next to it and marked as a mutation, under which
the property fails.

**Fairness.** It is assumed of goroutines and timers of the server only, and always
weak. `TransitionEnds`: `Countdown`, a goroutine that sleeps a fixed time and
submits a command the engine's loop runs. `RoundEndsItself`: the timers of the reveal
expire and their callbacks run. `LyricsSettle`: a fetch ends, by its HTTP timeout
at the latest, and a goroutine that waits for it goes on. `ImplementsPresence`: the
engine's loop takes what is queued, and a session's goroutine goes on when it can.
Nothing is assumed of people, of clients or of what they answer: they may never
vote, pick, grade, read or leave; and nothing of the goroutines that write to a
client.

## 4. Findings

Disagreements between the code and what its comments or documents say. Each is a
run that TLC refutes; the quotes are in `PROJECT.json`.

1. *Two admins, one guess* (`buzz_stale_grade`). A grade does not say which guess
   it is for, and the state check does not help once the next player has the
   floor: `ADJUDICATE` again, another player.
2. *A karaoke that starts half open* (`karaoke_stale_ready`). `ResetToLobby`
   forgets the picker but not `pendingPick` and `karaokeReady`, and once there is
   neither picker nor pick `selectCell` no longer clears the flag.
3. *A picker who already left* (`karaoke_absent_picker`). The disconnection came
   before the verdict that makes the winner the picker.
4. *A kicked picker* (`karaoke_kicked_picker`). `onAdminKick` clears the gate and,
   unlike `OnDisconnect`, does not go on.
5. *An offer taken for a performance* (`dd_wasted_offer`). An offer made during
   karaoke leaves `curTrack` set; the end of that song, a skip or the end of a
   rater's stay then finish a performance that never began. Nobody is paid
   (`PaysOncePerSong` holds), but the pick is lost, and the songs of the hand stay in
   the abandoned offer until the next one overwrites them.

In 3 and 4 an admin can always override with a selection; the models have that
action, and the properties say the room should not need it.

### Observations

Met while modelling and kept in the models as the code has them; where a property has
to except one, the name of the history variable that does is given. No run refutes them.

- *Reveal.* A partial answer that completes the reveal while another guess is under
  judgement at the next tick leaves a clock that `startRevealTicker`
  (`engine.go:3626`) stops without lockout or automatic karaoke (`judgedShown` in
  `RevealedRoundCloses`). An automatic karaoke that fires during a judgement is lost.
  A partial answer during the block phase shows nothing before the block flips. When
  a reveal has ended by its ticks, `finalizeReveal` arms a bare clock again and
  drops the year. `EndGame` leaves the ticker rescheduling itself.
- *Karaoke.* A countdown that is still asleep when the admin goes on may end the next
  one early (`engine.go:2173`).
- *Daily Double.* A reveal, the end of a karaoke song or the end of the game abandons an
  offer with its hand, and the next offer overwrites it: `SongsStay` is about steps
  within a Daily Double.
- *Solo.* A stage that connects again in the middle of a song is told to play and pauses
  its player, and nobody tells Spotify to play; the comment at `engine.go:1152` wants it
  to "resume at the last known position". A song that ends while the stage is away is
  never reported, so the queue stands still (`muted` in `SoloOwnsTheDeck`). A page keeps
  the lines of the song before if that ended while it was away after a game: nothing
  clears them in `GAME_OVER`, although the comment at `engine.go:1173` says that the
  state handler does (`unseen` in `LyricsOfTheSong`).
  Nothing loads the engine's queue when the process starts (`unsynced`), and two
  overlapping edits may leave the older list (`overlapped`; `admin/solokaraoke.go:204`).
  `admin.select`, `adminReveal`, `endRound`, `endGame` and the playback controls do
  not look at `solo.active` (`overridden`). Lyrics of a trivia round that are on
  their way may still reach the stage after solo karaoke has begun (`strayed`).
- *Session.* A second Hello with another fingerprint rebinds the connection, and its
  first player stays online for good (`moved`; `player.go:71`). The idle timer goes by
  its resets: a connection may be condemned between the moment a frame is read from it
  and the reset that follows (`TimerExpires`, `ReadFrame` and `Fire` in any order),
  although `ws.go:104` says that "only genuine silence trips it". `ResetSaves` is about
  resets, not frames.
- *Deck.* After a 401 the code reads `c.accessToken` after the response, so a token
  that another refresh has just minted counts as the failed one and is refreshed
  again. The refresh token is written to its file only at a login, so after a
  rotation a restart comes back with an invalidated one (`spoiled`), and a new login is
  needed, against `main.go:101`.
  `ExchangeToken` does not take `refreshMu`, so a refresh begun before a login may
  overwrite the login's tokens; they remain usable. A restore that a full queue
  drops leaves the device faded until the next change (`unasked`;
  `engine.go:3119`), although `engine.go:3177` says it cannot.

## 5. Proofs

Assumed: the constants are what `ConstantsOK` of each module says (types, the
sentinel values; in `BuzzRound` that 0 and 5001 ms are among `Times`; in `Karaoke`
that the players are finitely many, because votes are counted). Of `BuzzRound`
nothing is assumed about how many players, admins, rows, stamps, instants or
rounds there are, nor that they are finitely many; the same goes for players, cells,
songs and games of `DailyDouble`, for callers, tokens, steps and the queue of
`Deck`, for connections, addresses, devices, limits and depths of `Session`, for
players, letters and rounds of `Reveal`, and for songs, requests, starts and limits
of `Solo`. (What is counted in `Session` is finite because each step admits one
session: that is part of the invariant, not an assumption.)

`ScoringProofs`: a row's ceiling is a natural between 100 and 200; a share of
the bonus lies within it (`ShareOfBonus`); hence what a pool can pay lies
between its floor less one, for the rounding, and its ceiling (`PoolBounds`); the
votes needed are at least one and at most the voters (`NeedVotesBounds`).

`BuzzRoundProofs`: the invariant `IInv` of `BuzzRound` is proved inductive, part
by part:

- `TypeOK` with `FloorHeld`: while an answer is judged somebody has the floor.
  Without it `buzzWinner` could be nobody when the guess is marked.
- `VerdictInv`: a verdict leaves the guess spent, and who has the floor has not
  been judged. `OneVerdictPerPlayer` alone is not inductive: nothing in it stops
  somebody judged once from holding the floor.
- `TimerInv`: no timer for a round that has not begun, none while the floor is
  held. This is what makes a fresh round, and a round reopened by a wrong answer,
  start without one.
- `LockInv`: no key of a round that has not begun is locked.
- `PayInv`: while a round can pay, a partial answer has paid 50 and what remains
  plus 50 is within the ceiling. Pauses, re-anchoring and any instant are covered,
  because `PoolBounds` holds at all of them.
- `HeardInv`: the contenders are exactly those the window heard, at their
  earliest stamp. `EarliestWins` follows from it and from the guard of
  `WindowWon`.

From it: `TypeCorrect`, `NobodyJudgedTwice`, `NeverOverpays`,
`NextWindowCanBeWon`, `OneTimerPerWindow`, `EarliestWins` (an action property) and
`RoundImplementsFloor` (the refinement of `GuessFloor`: initial states map to
initial states, and each action to a step of it or a stutter).

`KaraokeProofs`: the invariant `IInv` of `Karaoke`, again part by part:

- `TypeInv`: types, that voters are present (`PoolPresent`), and that a
  transition has a sleeping goroutine (`CountdownRuns`). Presence is what keeps a
  Hello from enlarging an electorate behind the vote's back.
- `SpentInv`: a track that is current and unplayed is still counted in its
  cell, and one is marked played exactly when its answer was shown. Without
  the first a count could go below zero, without the second a verdict after a reveal
  could take a track twice; `SpentOnce` is not inductive without either.
- `GateInv`: once the condition was met there is no pick, *and* the ready flag is
  set if there is a picker. `GateOpens` alone says nothing about the flag,
  which is what a later pick goes by.
- `NoMissedMajority`, inductive with the above: every action that changes what
  `VotesSuffice` reads asks it again, a Hello changes nothing in it, and a fresh
  karaoke has no votes while at least one is needed (`NeedVotesBounds`).

From it: `TypeCorrect`, `MajoritiesAreNoticed`, `GateIsOpened`,
`TracksAreSpentOnce` and `CountdownsRun`. Cells, tracks,
thresholds, karaokes and games are arbitrary.

`DailyDoubleProofs`: the invariant `IInv` of `DailyDouble`:

- `TypeOK`, with `TrackCounted`: an unplayed track is still counted in its cell.
  Without it the count of a cell could go below zero.
- `NoSongTwice` and `OfferIsAnswerable`, inductive with the types: draws, choices
  and everything that gives songs back keep hand, bucket and performance apart, and
  every way to leave declines what the leaver was offered.
- `Endable`: a Daily Double has an offer or something to end; with `MarkerIsAFade` (the
  marker of a fade stands for the fades of this round key) it is `NeverStranded`.
- `PickerPerforms`: who may pick during a Daily Double is the performer, not yet paid,
  of a song performed. `PaysOncePerSong` is a property of steps and says nothing
  about who `cellPicker` is; this does.

From it: `TypeCorrect`, `SongsAreNotRepeated`, `OffersAreAnswerable`,
`DailyDoublesEnd`, and the action properties `SongsAreKept` and
`PerformancesPayOnce`.

`DeckProofs`: the invariant `IInv` of `Deck`:

- `Exclusive`: who has a request for a grant under way, or a grant to store, holds the
  lock.
- `Known` and `LoginPending`: every refresh token in the program was issued, and that
  of a login which is not stored yet is its login's newest and nobody else's. Without
  the second, `ExchangeToken`, which takes no lock, could store a token that a refresh
  has outdated.
- `GotValid` and `WorksInv`: a rotated token about to be stored is the newest of its
  login; until then the client's own may be outdated. `TokensWork` speaks only of the
  moments when no grant is under way, and is not inductive.
- `MintedInv`, `FreshInv`, `RetryInv`: an access token that is not stored yet has never
  been sent, so every store, whoever makes it, leaves a refused command with another
  token than the one it sent. A command may have read its rejected token late (see
  the observations); `RetryInv` covers both cases.
- `LevelInv`: unless the last change was dropped, the last level in the queue, or
  else what the writer is about, or else the device's, is the operating level.

From it: `TypeCorrect`, `RestsAtOperatingLevel`, `OneGrantAtATime` and the action
property `TokensKeepWorking`.

`SessionProofs`: the invariant `IInv` of `Session`:

- `InOrder`: of one connection, the engine's queue begins with the connect and ends
  with the disconnect, if they are there. `QueueInv` says what has to be so of each
  command *before its turn comes*: a frame's connection is one the engine has or will
  have had announced to it, a disconnect's is shut, none was forgotten. Without the
  order the second cannot be preserved when a connect is taken.
- `KnownInv`: what the engine knows of a connection is what its goroutine has told.
- `BoundInv` and `OnlineMeansConnected`: who is bound is known, and a Hello moves a
  connection once and for all.
- `ClosedInv` and `EndInv`: what is closed is shut, and once a goroutine has told of an
  end the disconnect is in the queue for as long as the engine has the connection.
  The second holds because the disconnect is the last of its connection (`InOrder`).
- `FramesInv`: the frames of a connection that are handled, queued and in hand are
  together no more than were read; taking the head shifts the rest by one, which is a
  bijection, and cardinalities follow.
- `CountInv` and `LimitInv`: the limiter's counts are cardinalities of the sets of
  sessions that hold a slot (`SlotMoves`: a step adds one, removes one or neither).
- `ArmedIsLapsed`: the callback of the current timer waits only if nothing has reset
  the timer since it went off.

From it: `TypeCorrect`, `SlotsAreAlwaysSessions`, `OnlineAlwaysMeansConnected`,
`EndIsAlwaysTold`, the action property `ResetsAlwaysSave`, and
`ImplementsPresenceSafely`: initial states and steps of `Session` are those of
`Presence`, or stutters.

`RevealProofs`: some twenty actions touch the clock, but every step does one of five
things to it (`ClockStep`): keeps it, clears it, starts a fresh one, fills a field or
goes on by a letter. The invariant is proved over these five:

- `ClockKeys`, `GameKeys`, `TimerKeys`: nothing in a timer, a ticker or the engine's
  queue belongs to a round that has not begun, so that a round starts with none.
- `LiveInv` and `ReachInv`: a running clock is the current round's, is driven by exactly
  one thing, and the only ticker there is is the one `stopRevealTimer` reaches.
  `TickerRuns` says the first; it is preserved only with the second, because a stop
  that misses a ticker would leave two.
- `EarlyInv`: until the letters start at most one field has been filled, by a partial
  answer, so that the first `startRevealTicker` finds something to reveal and does not
  end the reveal before it began.
- `ShownInv` and `SeenInv`: the room has seen exactly what a running clock shows, and
  never more than the track has, so that no later mask hides anything.
- `KaraokeInv` and `AnswerPublicInKaraoke`: in karaoke no clock runs and the room has
  all of the answer; `LockInv`: a clock that is through with the lockout has closed
  the round for buzzing; `JudgedInv`: a guess judged with the answer shown sets
  `judgedShown`, the one order that loses the automatic karaoke.

From it: `TypeCorrect`, `TickerAlwaysRuns`, `AnswerAlwaysPublicInKaraoke`,
`RevealedRoundAlwaysCloses`, the action property `ShownNeverHidden` (which also says
that a tick shows a letter as long as one is hidden), and the refinement
`RoundImplementsFloor`.

`SoloProofs`: the invariant `IInv` of `Solo`:

- `EditsInv`: the playlist, the queue and what a request has read have a row once,
  and a request that ran alone has read the list as it is. That an edit keeps rows once
  is a fact about `Kept` and `Reordered`, functions defined by recursion over a list
  of any length. It is proved without an induction rule, by the least row for which
  it would fail (`Least`, from the well-foundedness of the naturals).
- `IndexIsCurrent` and `SoloOwnsTheDeck`, inductive with the types and the edits.
- `TokenInv`: whoever waits for lyrics under the current token waits for the song that
  plays; so a late answer or spinner never shows another song's lines.
- `LinesInv`: what a page shows, *also while it is not connected*: a page that heard the
  song start has no other song's lines, and one that was told "ready" has the song's
  own, which the cache has too. The last part is what a reconnection needs: in the lobby
  the page clears its lines and keeps its "ready", and the lines come in the same step.
  `LyricsOfTheSong` speaks of connected pages and is not inductive.
- `FedInv` and `AwaitedInv`: who waits has its answer or a fetch of its song is under
  way, also when the cache entry was evicted meanwhile, and lines that were brought stay
  in the cache; and until the stage was told, somebody waits. `LyricsOnTheirWay` is the
  two together.

From it: `TypeCorrect`, `IndexAlwaysCurrent`, `SoloAlwaysOwnsTheDeck`,
`LyricsAlwaysOfTheSong`, `QueueAlwaysInSync` and `LyricsAlwaysOnTheirWay`.

**Every invariant and every action property of a passing run is a theorem**, and so are
the two refinements of `GuessFloor` and the steps of the one of `Presence`.

**Only model-checked: liveness.** `TransitionEnds`, `RoundEndsItself`, `LyricsSettle`
and the fairness of `Presence` are beyond the prover. Of each, the safety half is
proved for every value of the constants: what must happen is always enabled or on its
way, and fairness has only to let it run.

| checked by TLC | what it rests on, proved |
|---|---|
| `TransitionEnds` | `CountdownsRun`: a transition has a sleeping goroutine |
| `RoundEndsItself` | `TickerAlwaysRuns`, `ShownNeverHidden`, `RevealedRoundAlwaysCloses`: one ticker, each tick shows a letter, and after the last one the karaoke's timer is set |
| `LyricsSettle` | `LyricsAlwaysOnTheirWay`: somebody waits, for a fetch that is under way |
| fairness of `Presence` | `EndIsAlwaysTold`: the goroutine is to find the stream closed, or the disconnect is queued (`EndIsTold`, which no run checks by itself: `ImplementsPresence` needs it) |

The refuted properties (section 4) have no theorems, of course.

## 6. Not modelled

- *Persistence, admin REST, AI suggestions, configuration.* SQL and HTTP behind
  interfaces. The engine ignores their errors and reads nothing back before a
  restart; the calls that reach it (start, reset, reload, the playlist) are actions of
  `Karaoke`, `DailyDouble` and `Solo`.
- *The LRCLIB lookup* and its matching of titles: an answer in `Solo`.
- *Rendering, the playback SDK, optimistic display* in `src/web`: the frames they send
  are in the models, and the end of a track that the stage reports; the stage's player and
  view are in `Solo` as far as section 2 says.
- *Quantities of time.* Timers fire in any order that their dependence allows;
  positions within a song are left out.
- *Framing, sequence numbers, round-trip times*: no step depends on them.

## 7. What could come next

1. A composition of `Session` with the players of `BuzzRound` and `Karaoke`, which
   take a player's presence as one step.
2. The stage's own copy of the scoring curve (`web/shared/scoring.ts`) against
   `Scoring`.
