--------------------------------- MODULE Solo ---------------------------------
(***************************************************************************)
(* Solo karaoke: the second mode of the engine, which plays a playlist on  *)
(* the deck the trivia game also uses and puts each song's lyrics on the   *)
(* stage.                                                                  *)
(*                                                                         *)
(* The playlist is edited by HTTP requests, which hand the engine a fresh  *)
(* copy when they have written and read the database.  The deck's commands *)
(* may fail, and a song's end is reported by the stage some time later, if *)
(* it is connected.  A stage that connects, or asks, is told everything    *)
(* again; a page that lost its connection still shows what it showed.      *)
(* Lyrics are fetched once per song, whoever asks first, and delivered by  *)
(* goroutines that find out when they run whether anybody still wants      *)
(* them.  The trivia game is here as far as it shares these things.        *)
(*                                                                         *)
(* Positions within a song are left out: no property depends on them.      *)
(***************************************************************************)
EXTENDS Integers, Sequences, FiniteSets

CONSTANTS
    Tracks,        \* rows of the playlist; a song added again is another row
    Requests,      \* HTTP requests that edit the playlist
    Orders,        \* what an admin tab may send as the new order
    Starts,        \* where behaviours start and how far they go: the playlist, whether
                   \* the engine has it, what is in the lyrics cache, and bounds on the songs started by solo karaoke,
                   \* on the rounds the trivia game starts, on edits of the playlist, on
                   \* changes of the knobs and on the stage's connections
    None           \* no track

(* A row is on a list once: Postgres has it that way. *)
Once(q) == \A i, j \in DOMAIN q : q[i] = q[j] => i = j

ASSUME ConstantsOK ==
    /\ \A s \in Starts : s.playlist \in Seq(Tracks) /\ Once(s.playlist) /\ s.loaded \in BOOLEAN
                        /\ s.cache \in [Tracks -> {"absent", "lines", "none"}]
                        /\ {s.plays, s.rounds, s.edits, s.turns, s.syncs} \subseteq Nat
    /\ Orders \subseteq Seq(Tracks) /\ \A o \in Orders : Once(o)
    /\ None \notin Tracks

Repeats == {"", "one", "all"}
Outcomes == {"lines", "none", "error"}

VARIABLES
    (* Engine.soloKaraoke *)
    active, currentTrack, queue, index, shuffle, repeat,
    playToken,     \* a number for each song started, 0 for ""
    paused,
    (* The trivia game's side. *)
    game,          \* "LOBBY", "LIVE" (any state of a game) or "GAME_OVER"
    curTrack, roundKey,
    (* The playlist: the rows, and who edits it. *)
    playlist, added,
    request,       \* HTTP request -> how far it is, and the list it has read
    (* The deck and the stage. *)
    deck,          \* what Spotify's device plays
    ended,         \* is a report of a song's end on its way?
    stage,         \* is the stage connected?
    view,          \* its page: whose lines, and the last status of which play
    (* Lyrics. *)
    cache,         \* Engine.lyricCache: track -> "absent", "fetching" or an outcome
    fetches,       \* track -> fetches under way
    waiters,       \* goroutines that will send lyrics: who asked, for which play or
                   \* round and track, after which sync, is the spinner's grace
                   \* over, what the fetch has brought
    (* History and bounds. *)
    failed,        \* has a command to the deck failed since the last song started?
    overridden,    \* did the trivia game's controls act over solo karaoke?
    muted,         \* has the stage been silenced, or an end gone unreported, since the
                   \* deck was last told to play?
    unseen,        \* did the last song start while the stage was away?
    strayed,       \* did the trivia game's frames change the stage's lyrics over it?
    overlapped,    \* requests that ran together with another
    unsynced,      \* is the queue no more than what overlapping requests, or none, left?
    plays, rounds, edits, turns, syncs,
    bound          \* the element of Starts the behaviour has

solo == <<active, currentTrack, index, playToken, paused>>
knobs == <<shuffle, repeat, turns>>
trivia == <<game, curTrack, roundKey>>
http == <<playlist, added, request, overlapped, unsynced, edits>>
lyrics == <<cache, fetches, waiters>>
theStage == <<stage, view, unseen, strayed, syncs>>
theDeck == <<deck, ended, failed, muted, overridden>>
counts == <<plays, rounds, bound>>
vars == <<solo, queue, knobs, trivia, http, theDeck, lyrics, theStage, counts>>

Idle == [step |-> "idle", list |-> <<>>]

Blank == [lines |-> None, status |-> "", play |-> 0]

Init == \E s \in Starts :
    /\ bound = s
    /\ active = FALSE /\ currentTrack = None /\ index = 0
    /\ queue = IF s.loaded THEN s.playlist ELSE <<>>
    /\ shuffle = FALSE /\ repeat = ""
    /\ playToken = 0 /\ paused = FALSE
    /\ game = "LOBBY" /\ curTrack = None /\ roundKey = 0
    /\ playlist = s.playlist /\ added = {s.playlist[i] : i \in DOMAIN s.playlist}
    /\ request = [r \in Requests |-> Idle]
    /\ deck = [track |-> None, playing |-> FALSE] /\ ended = FALSE
    /\ stage = TRUE /\ view = Blank
    /\ cache = s.cache /\ fetches = [t \in Tracks |-> 0] /\ waiters = {}
    /\ failed = FALSE /\ muted = FALSE /\ overridden = FALSE
    /\ unseen = FALSE /\ strayed = FALSE
    /\ overlapped = {} /\ unsynced = ~s.loaded
    /\ plays = 0 /\ rounds = 0 /\ edits = 0 /\ turns = 0 /\ syncs = 0

-----------------------------------------------------------------------------
(* The playlist.                                                           *)

In(q, t) == \E i \in DOMAIN q : q[i] = t

(* What a WHERE leaves of a list: the rows that are in S, in their order.  *)
Kept(q, S) ==
    LET kept[n \in 0 .. Len(q)] ==
            IF n = 0 THEN <<>>
            ELSE IF q[n] \in S THEN Append(kept[n - 1], q[n]) ELSE kept[n - 1]
    IN  kept[Len(q)]

Named(q) == {t \in Tracks : In(q, t)}

AddsUnknown(q, order) == order \o Kept(q, Tracks \ Named(order))
                                                      \* a mutation of Reordered

(* ReorderSoloKaraokePlaylist: the rows a tab names, as far as they exist, *)
(* then every other one as they were.                                      *)
Reordered(q, order) ==
    Kept(order, Named(q)) \o Kept(q, Tracks \ Named(order))

Free(r) == request[r] = Idle

Writes(r) ==
    LET others == {s \in Requests : ~Free(s)}
    IN  /\ edits < bound.edits
        /\ Free(r)
        /\ edits' = edits + 1
        /\ request' = [request EXCEPT ![r].step = "written"]
        /\ overlapped' = IF others = {} THEN {} ELSE overlapped \cup others \cup {r}
        /\ UNCHANGED <<solo, queue, knobs, trivia, unsynced, theDeck, lyrics, theStage, counts>>

AddTrack(r, t) ==
    /\ Writes(r)
    /\ t \notin added
    /\ playlist' = Append(playlist, t) /\ added' = added \cup {t}

RemoveTrack(r, t) ==
    /\ Writes(r)
    /\ In(playlist, t)
    /\ playlist' = Kept(playlist, Tracks \ {t})
    /\ UNCHANGED added

Reorder(r, order) ==
    /\ Writes(r)
    /\ playlist' = Reordered(playlist, order)
    /\ UNCHANGED added

(* reloadSoloKaraokeQueue, at the end of each of them: read, *)
ListPlaylist(r) ==
    /\ request[r].step = "written"
    /\ request' = [request EXCEPT ![r] = [step |-> "read", list |-> playlist]]
    /\ UNCHANGED <<solo, queue, knobs, trivia, playlist, added, overlapped, unsynced, edits,
                   theDeck, lyrics, theStage, counts>>

KeptIndex(q) == index                                        \* a mutation of NewIndex

(* Where the song that plays is now; -1 when it was removed. *)
NewIndex(q) ==
    CASE currentTrack = None -> index
      [] currentTrack # None /\ In(q, currentTrack) ->
            (CHOOSE i \in DOMAIN q : q[i] = currentTrack) - 1
      [] OTHER -> -1

OldQueueToo(q) == queue \o Kept(q, Tracks \ Named(queue))    \* a mutation of NewQueue

NewQueue(q) == q

(* and hand over. *)
ReloadSoloKaraokeQueue(r) ==
    /\ request[r].step = "read"
    /\ queue' = NewQueue(request[r].list)
    /\ index' = NewIndex(request[r].list)
    /\ request' = [request EXCEPT ![r] = Idle]
    /\ unsynced' = (r \in overlapped)
    /\ UNCHANGED <<active, currentTrack, playToken, paused, knobs, trivia, playlist, added,
                   overlapped, edits, theDeck, lyrics, theStage, counts>>

-----------------------------------------------------------------------------
(* Lyrics.                                                                 *)

(* lyricFetch: a song that is cached, or on its way, is not fetched again. *)
lyricFetch(t) ==
    LET starts == cache[t] = "absent"
    IN  /\ cache' = IF starts THEN [cache EXCEPT ![t] = "fetching"] ELSE cache
        /\ fetches' = IF starts THEN [fetches EXCEPT ![t] = @ + 1] ELSE fetches

(* What a send with outcome o makes of a stage that shows v.  The two     *)
(* modes have a status each, and one frame for the lines.                  *)
Sent(v, by, token, t, o) ==
    LET lines == IF o = "lines" THEN t ELSE v.lines
    IN  IF by = "trivia" THEN [v EXCEPT !.lines = lines]
        ELSE [lines |-> lines, status |-> IF o = "lines" THEN "ready" ELSE "none", play |-> token]

(* fetchAndSendLyrics and its sibling in solo karaoke, when the stage       *)
(* shows v, and hears it or not: at once if the answer is cached, else     *)
(* later, to whoever is there then.                                        *)
FetchAndSend(by, token, t, v, sync, heard) ==
    /\ lyricFetch(t)
    /\ IF cache[t] \in Outcomes
       THEN view' = (IF heard THEN Sent(v, by, token, t, cache[t]) ELSE v) /\ UNCHANGED waiters
       ELSE /\ view' = v
            /\ waiters' = waiters \cup {[by |-> by, token |-> token, track |-> t, sync |-> sync,
                                         late |-> FALSE, got |-> "nothing"]}

StaleToo(w) == TRUE                                          \* a mutation of Wanted

(* Has the play, or the round, the goroutine waited for not moved on? *)
Wanted(w) == w.token = IF w.by = "solo" THEN playToken ELSE roundKey

(* The 400 ms are over: a spinner.  It may be on the stage only after the  *)
(* lyrics have come, but before this goroutine sends them.                 *)
GraceOver(w) ==
    /\ w \in waiters /\ w.by = "solo" /\ ~w.late
    /\ waiters' = (waiters \ {w}) \cup {[w EXCEPT !.late = TRUE]}
    /\ view' = IF stage /\ Wanted(w)
               THEN [view EXCEPT !.status = "loading", !.play = w.token] ELSE view
    /\ UNCHANGED <<solo, queue, knobs, trivia, http, theDeck, cache, fetches, stage, unseen,
                   strayed, syncs, counts>>

NotOfAnError(w, t, o) ==                                      \* a mutation of Told
    IF w.track = t /\ w.got = "nothing" /\ o # "error" THEN [w EXCEPT !.got = o] ELSE w

(* The entry's done channel is closed, and everybody who waits reads it. *)
Told(w, t, o) == IF w.track = t /\ w.got = "nothing" THEN [w EXCEPT !.got = o] ELSE w

(* The database or LRCLIB has answered, or failed to. *)
FetchDone(t, o) ==
    /\ fetches[t] > 0
    /\ fetches' = [fetches EXCEPT ![t] = @ - 1]
    /\ cache' = [cache EXCEPT ![t] = o]
    /\ waiters' = {Told(w, t, o) : w \in waiters}
    /\ UNCHANGED <<solo, queue, knobs, trivia, http, theDeck, theStage, counts>>

(* A failed fetch is forgotten, a moment after it was handed out. *)
Evict(t) ==
    /\ cache[t] = "error"
    /\ cache' = [cache EXCEPT ![t] = "absent"]
    /\ UNCHANGED <<solo, queue, knobs, trivia, http, theDeck, fetches, waiters, theStage, counts>>

Send(w) ==
    /\ w \in waiters /\ w.got # "nothing"
    /\ waiters' = waiters \ {w}
    /\ IF stage /\ Wanted(w)
       THEN /\ view' = Sent(view, w.by, w.token, w.track, w.got)
            /\ strayed' = (strayed \/ (w.by = "trivia" /\ active))
       ELSE UNCHANGED <<view, strayed>>
    /\ UNCHANGED <<solo, queue, knobs, trivia, http, theDeck, cache, fetches, stage, unseen,
                   syncs, counts>>

(* The empty lyrics at the start of a song, and what the page makes of a   *)
(* state frame of the lobby or the board.                                  *)
Cleared(v) == [v EXCEPT !.lines = None]

Heard == IF stage THEN Cleared(view) ELSE view

Silent == [deck EXCEPT !.playing = FALSE]

(* A frame "play" for a song the Web API has not been told to play: the    *)
(* page pauses its player and waits for the deck's order, which never      *)
(* comes.                                                                  *)
PlayFrame == deck' = Silent

(* What the page shows when it has been told the game's state. *)
Synced ==
    CASE game = "LOBBY" -> {Cleared(view)}
      [] game = "GAME_OVER" -> {view}
      [] OTHER -> {view, Cleared(view)}

(* sendFullSync to a stage: solo karaoke's song and its lyrics again.      *)
sendFullSync ==
    /\ syncs < bound.syncs
    /\ stage' = TRUE /\ syncs' = syncs + 1
    /\ \E v \in Synced :
          IF active
          THEN /\ PlayFrame
               /\ muted' = (muted \/ deck.playing)
               /\ FetchAndSend("solo", playToken, currentTrack, v, syncs + 1, TRUE)
          ELSE view' = v /\ UNCHANGED <<deck, muted, lyrics>>
    /\ UNCHANGED <<solo, queue, knobs, trivia, http, ended, failed, overridden, unseen, strayed,
                   counts>>

(* The page connects, for the first time or again. *)
StageConnects == ~stage /\ sendFullSync

(* A connected page asks for it, when its tab has come to the front. *)
Resync == stage /\ sendFullSync

(* The connection is lost, and the page goes on, or the page is loaded     *)
(* anew, and its player with it.  A report on its way may be lost too.     *)
StageDrops ==
    /\ stage /\ syncs < bound.syncs
    /\ stage' = FALSE
    /\ \/ UNCHANGED <<view, deck>>
       \/ view' = Blank /\ deck' = Silent
    /\ ended' \in {ended, FALSE}
    /\ muted' = (muted \/ deck'.playing # deck.playing \/ ended' # ended)
    /\ UNCHANGED <<solo, queue, knobs, trivia, http, failed, overridden, lyrics, unseen, strayed,
                   syncs, counts>>

-----------------------------------------------------------------------------
(* Playback.                                                               *)

(* loadAndPlayTrack: an error is shown to the admins, and that is all; the *)
(* page, told to play like after a success, has paused what it played.     *)
loadAndPlayTrack(t) ==
    \/ deck' = [track |-> t, playing |-> TRUE] /\ failed' = FALSE /\ muted' = FALSE
    \/ failed' = TRUE /\ deck' = (IF stage THEN Silent ELSE deck) /\ UNCHANGED muted

Doing(play) == [deck EXCEPT !.playing = play /\ deck.track # None]

(* Pause and resume: the Web API may fail without a word, and the page     *)
(* does the same by itself, if it is there.                                *)
TellDeck(play) ==
    \/ deck' = Doing(play) /\ muted' = (muted /\ ~play) /\ UNCHANGED failed
    \/ failed' = TRUE /\ deck' \in {deck, Doing(play)} /\ UNCHANGED muted

soloKaraokePlayAt(i) ==
    LET t == queue[i + 1]
    IN  /\ plays < bound.plays
        /\ plays' = plays + 1
        /\ index' = i /\ currentTrack' = t
        /\ paused' = FALSE
        /\ playToken' = plays + 1
        /\ loadAndPlayTrack(t)
        /\ FetchAndSend("solo", plays + 1, t, Heard, syncs, stage)
        /\ unseen' = ~stage /\ strayed' = FALSE
        /\ UNCHANGED <<queue, knobs, trivia, http, stage, syncs, rounds, bound>>

(* Is there a song at the index? *)
Indexed == index \in 0 .. Len(queue) - 1

(* onAdminSoloKaraokePlay: the track with that id, else the one at the     *)
(* index, else the first.                                                  *)
Play(t) ==
    /\ game # "LIVE"
    /\ queue # <<>>
    /\ \E i \in 0 .. Len(queue) - 1 :
          /\ IF t = None THEN i = (IF Indexed THEN index ELSE 0) ELSE queue[i + 1] = t
          /\ soloKaraokePlayAt(i)
    /\ active' = TRUE
    /\ UNCHANGED <<ended, overridden>>

Pause ==
    /\ active /\ ~paused
    /\ paused' = TRUE
    /\ TellDeck(FALSE)
    /\ UNCHANGED <<active, currentTrack, index, playToken, queue, knobs, trivia, http, ended,
                   overridden, lyrics, theStage, counts>>

Resume ==
    /\ active /\ paused
    /\ paused' = FALSE
    /\ TellDeck(TRUE)
    /\ UNCHANGED <<active, currentTrack, index, playToken, queue, knobs, trivia, http, ended,
                   overridden, lyrics, theStage, counts>>

LeavesItPlaying == loadAndPlayTrack(currentTrack)            \* a mutation of SeekDeck

(* A seek is a play at another position; a paused song is paused again,    *)
(* and either of the two calls may fail.                                   *)
SeekDeck ==
    \/ ~paused /\ loadAndPlayTrack(currentTrack)
    \/ /\ paused /\ failed' = FALSE /\ UNCHANGED muted
       /\ deck' = [track |-> currentTrack, playing |-> FALSE]
    \/ /\ paused /\ failed' = TRUE /\ UNCHANGED muted
       /\ deck' \in {deck, [deck EXCEPT !.playing = FALSE],
                     [track |-> currentTrack, playing |-> TRUE]}

Seek ==
    /\ active
    /\ SeekDeck
    /\ UNCHANGED <<solo, queue, knobs, trivia, http, ended, overridden, lyrics, theStage, counts>>

soloKaraokeDeactivate ==
    /\ active' = FALSE /\ currentTrack' = None /\ paused' = FALSE /\ playToken' = 0
    /\ TellDeck(FALSE)
    /\ UNCHANGED <<index, queue, knobs, trivia, http, lyrics, theStage, counts>>

Stop ==
    /\ active
    /\ soloKaraokeDeactivate
    /\ overridden' = FALSE
    /\ UNCHANGED ended

(* Shuffle goes to any other song, or to the only one; in order, the end   *)
(* of the queue is the end unless everything repeats.                      *)
NextIndexes ==
    LET n == Len(queue)
    IN  IF shuffle THEN {i \in 0 .. n - 1 : n = 1 \/ i # index}
        ELSE IF index + 1 < n THEN {index + 1}
        ELSE IF repeat = "all" /\ n > 0 THEN {0} ELSE {}

StepForward ==
    IF NextIndexes = {}
    THEN soloKaraokeDeactivate /\ overridden' = FALSE
    ELSE /\ \E i \in NextIndexes : soloKaraokePlayAt(i)
         /\ UNCHANGED <<active, overridden>>

NextTrack ==
    /\ active
    /\ StepForward
    /\ UNCHANGED ended

Prev ==
    /\ active /\ queue # <<>>
    /\ soloKaraokePlayAt(IF index - 1 < 0 THEN 0 ELSE index - 1)
    /\ UNCHANGED <<active, ended, overridden>>

SetKnobs(s, r) ==
    /\ turns < bound.turns
    /\ turns' = turns + 1
    /\ shuffle' = s /\ repeat' = r
    /\ UNCHANGED <<solo, queue, trivia, http, theDeck, lyrics, theStage, counts>>

(* The page reports the end of a song when it comes, once: while it is not *)
(* connected nothing is sent, and nothing is sent later.                   *)
TrackEnds ==
    /\ deck.playing /\ ~ended
    /\ deck' = Silent
    /\ ended' = stage
    /\ muted' = (muted \/ ~stage)
    /\ UNCHANGED <<solo, queue, knobs, trivia, http, failed, overridden, lyrics, theStage, counts>>

soloKaraokeAdvance ==
    IF repeat = "one" /\ Indexed
    THEN soloKaraokePlayAt(index) /\ UNCHANGED <<active, overridden>>
    ELSE StepForward

(* Solo karaoke takes a report whatever song ended.  What the trivia game  *)
(* makes of one is in the other modules.                                   *)
TrackEnded ==
    /\ ended
    /\ ended' = FALSE
    /\ IF active THEN soloKaraokeAdvance
       ELSE UNCHANGED <<solo, queue, knobs, trivia, http, deck, failed, muted, overridden,
                        lyrics, theStage, counts>>

-----------------------------------------------------------------------------
(* The trivia game.                                                        *)

StartsOverSolo == game = "LOBBY"                             \* a mutation of MayStartGame

MayStartGame == game = "LOBBY" /\ ~active

StartGame ==
    /\ MayStartGame
    /\ game' = "LIVE"
    /\ view' = Heard
    /\ UNCHANGED <<solo, queue, knobs, curTrack, roundKey, http, theDeck, lyrics, stage, unseen,
                   strayed, syncs, counts>>

(* The rest has no look at solo karaoke. *)
Overrides == overridden' = (overridden \/ active)

(* selectCell: not from a live round, but from the lobby and after a game. *)
SelectCell(t) ==
    /\ rounds < bound.rounds
    /\ game' = "LIVE" /\ curTrack' = t
    /\ rounds' = rounds + 1 /\ roundKey' = rounds + 1
    /\ Overrides
    /\ deck' \in {deck, [track |-> t, playing |-> TRUE]}
    /\ lyricFetch(t)
    /\ view' = Heard
    /\ UNCHANGED <<solo, queue, knobs, http, ended, failed, muted, waiters, stage, unseen, strayed,
                   syncs, plays, bound>>

(* enterKaraoke: by admin.reveal in any state. *)
EnterKaraoke ==
    /\ game' = "LIVE"
    /\ Overrides
    /\ TellDeck(TRUE)
    /\ IF curTrack = None THEN UNCHANGED <<lyrics, view>>
       ELSE FetchAndSend("trivia", roundKey, curTrack, view, syncs, stage)
    /\ strayed' = (strayed \/ active)
    /\ UNCHANGED <<solo, queue, knobs, curTrack, roundKey, http, ended, stage, unseen, syncs,
                   counts>>

(* endRound, in any state too, and the end of a karaoke. *)
EndRound ==
    /\ game' = "LIVE" /\ curTrack' = None
    /\ Overrides
    /\ TellDeck(FALSE)
    /\ view' = Heard
    /\ UNCHANGED <<solo, queue, knobs, roundKey, http, ended, lyrics, stage, unseen, strayed, syncs,
                   counts>>

(* admin.playback and admin.seek, as long as the game has a track: an      *)
(* ended game keeps its last.                                              *)
AdminPlayback ==
    /\ curTrack # None
    /\ Overrides
    /\ \/ \E play \in BOOLEAN : TellDeck(play)
       \/ deck' = [track |-> curTrack, playing |-> TRUE] /\ UNCHANGED <<failed, muted>>
    /\ UNCHANGED <<solo, queue, knobs, trivia, http, ended, lyrics, theStage, counts>>

EndGame ==
    /\ game' = "GAME_OVER"
    /\ IF curTrack = None THEN UNCHANGED theDeck
       ELSE Overrides /\ TellDeck(FALSE) /\ UNCHANGED ended
    /\ UNCHANGED <<solo, queue, knobs, curTrack, roundKey, http, lyrics, theStage, counts>>

(* The lobby's state frame reaches the stage, whoever has it. *)
ResetToLobby ==
    /\ game = "GAME_OVER"
    /\ game' = "LOBBY" /\ curTrack' = None /\ roundKey' = 0
    /\ view' = Heard
    /\ strayed' = (strayed \/ (active /\ stage))
    /\ UNCHANGED <<solo, queue, knobs, http, theDeck, lyrics, stage, unseen, syncs, counts>>

-----------------------------------------------------------------------------
EditsPlaylist ==
    \E r \in Requests :
        \/ \E t \in Tracks : AddTrack(r, t) \/ RemoveTrack(r, t)
        \/ \E order \in Orders : Reorder(r, order)
        \/ ListPlaylist(r) \/ ReloadSoloKaraokeQueue(r)

Lyrics ==
    \/ \E w \in waiters : GraceOver(w) \/ Send(w)
    \/ \E t \in Tracks : Evict(t) \/ \E o \in Outcomes : FetchDone(t, o)
    \/ StageConnects \/ Resync \/ StageDrops

Playback ==
    \/ \E t \in Tracks \cup {None} : Play(t)
    \/ Pause \/ Resume \/ Seek \/ Stop \/ NextTrack \/ Prev
    \/ \E s \in BOOLEAN, r \in Repeats : SetKnobs(s, r)
    \/ TrackEnds \/ TrackEnded

Trivia ==
    \/ StartGame \/ EnterKaraoke \/ EndRound \/ AdminPlayback \/ EndGame \/ ResetToLobby
    \/ \E t \in Tracks : SelectCell(t)

Next == EditsPlaylist \/ Lyrics \/ Playback \/ Trivia

Spec == Init /\ [][Next]_vars

Tokens == UNION {1 .. s.plays : s \in Starts}

(* A fetch ends, by its HTTP timeout at the latest, and each goroutine that *)
(* waits for it goes on.                                                   *)
FairSpec ==
    /\ Spec
    /\ \A t \in Tracks : WF_vars(\E o \in Outcomes : FetchDone(t, o))
    /\ \A k \in Tokens : WF_vars(\E w \in waiters : w.by = "solo" /\ w.token = k /\ Send(w))

-----------------------------------------------------------------------------
TypeOK ==
    /\ active \in BOOLEAN /\ paused \in BOOLEAN /\ shuffle \in BOOLEAN /\ repeat \in Repeats
    /\ currentTrack \in Tracks \cup {None} /\ curTrack \in Tracks \cup {None}
    /\ \A q \in {queue, playlist} : q \in Seq(Tracks) /\ Once(q)
    /\ index \in Int /\ index >= -1
    /\ playToken \in 0 .. plays /\ roundKey \in 0 .. rounds
    /\ game \in {"LOBBY", "LIVE", "GAME_OVER"}
    /\ added \subseteq Tracks
    /\ deck.track \in Tracks \cup {None} /\ deck.playing \in BOOLEAN /\ ended \in BOOLEAN
    /\ {stage, unseen, strayed, failed, muted, overridden} \subseteq BOOLEAN
    /\ view.lines \in Tracks \cup {None} /\ view.status \in {"", "loading", "ready", "none"}
    /\ cache \in [Tracks -> {"absent", "fetching"} \cup Outcomes]
    /\ overlapped \subseteq Requests /\ unsynced \in BOOLEAN

(* The index of a session is that of the song that plays, or -1 when that  *)
(* song was removed: however the playlist is edited, no step indexes past  *)
(* the queue or repeats another song for it.                               *)
IndexIsCurrent ==
    active => /\ currentTrack # None
              /\ IF In(queue, currentTrack) THEN Indexed /\ queue[index + 1] = currentTrack
                 ELSE index = -1

(* Without an override, solo karaoke has the deck for itself: the game is  *)
(* not running, and the deck plays the session's song or is paused as the  *)
(* session says.  Otherwise it is silent only because a command failed,    *)
(* the report of the song's end is on its way, or the stage is to blame:   *)
(* it was told everything again, or could not report the end.              *)
SoloOwnsTheDeck ==
    active /\ ~overridden =>
        /\ game # "LIVE"
        /\ ~failed => /\ deck.track = currentTrack
                      /\ deck.playing => ~paused
                      /\ ~deck.playing /\ ~paused => ended \/ muted

(* The stage never shows solo karaoke's room another song's lines, except  *)
(* after a game, on a page that kept them while it was away, and "ready"   *)
(* means that they are there - unless the trivia game's frames came in     *)
(* between.                                                                *)
LyricsOfTheSong ==
    active /\ stage /\ ~strayed /\ ~overridden =>
        /\ view.lines \in {None, currentTrack} \/ (unseen /\ game = "GAME_OVER")
        /\ view.play = playToken /\ view.status = "ready" => view.lines = currentTrack

(* The engine's queue is the playlist whenever no edit is under way -      *)
(* unless the last ones overlapped, or there was none since the process    *)
(* started: nothing loads it then.                                         *)
QueueInSync == (\A r \in Requests : Free(r)) /\ ~unsynced => queue = playlist

(* A song's lyrics are fetched once at a time, however many ask (plays,    *)
(* rounds, a stage that connects again), and nobody waits for nothing:     *)
(* until the stage has been told how the lyrics of the song turned out, a  *)
(* goroutine waits that will tell it, and it has the answer or a fetch is  *)
(* under way that brings it - whoever started the fetch, for whichever     *)
(* mode, and whatever has failed or ended since.                           *)
OneFetchPerSong ==
    \A t \in Tracks : fetches[t] = IF cache[t] = "fetching" THEN 1 ELSE 0

LyricsOnTheirWay ==
    /\ OneFetchPerSong
    /\ active /\ stage =>
          \/ view.play = playToken /\ view.status \in {"ready", "none"}
          \/ \E w \in waiters : /\ w.by = "solo" /\ w.token = playToken
                                /\ w.got # "nothing" \/ fetches[w.track] > 0

(* No song is left with a spinner or without an answer: its lyrics arrive, *)
(* or the stage is told that it has none.                                  *)
LyricsSettle ==
    []<>(active /\ stage => view.play = playToken /\ view.status \in {"ready", "none"})
=============================================================================
