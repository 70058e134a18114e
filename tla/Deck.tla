---------------------------------- MODULE Deck ----------------------------------
(***************************************************************************)
(* The device: what reaches Spotify, and with which credentials.           *)
(*                                                                         *)
(* Every change of the volume goes through one queue with one writer; a    *)
(* fade asks for a level per step and at its end for the operating level.  *)
(* Each of the writer's and the engine's commands is a request that        *)
(* Spotify may refuse, which refreshes the access token and asks once      *)
(* more; the stage asks for a token to play with.  A refresh may replace   *)
(* the refresh token too.  Refreshes exclude each other; a login does not, *)
(* and a restart has the refresh token of the last login.                  *)
(*                                                                         *)
(* Spotify is modelled as this client has to take it: a refresh with the   *)
(* newest refresh token of its login is accepted, and so is one that was   *)
(* sent before that was replaced; access tokens die of age, or earlier.    *)
(***************************************************************************)
EXTENDS Integers, Sequences, FiniteSets

CONSTANTS
    Writer,        \* the goroutine that sets the volume
    Players,       \* goroutines that send other commands
    Stages,        \* requests for a token: ValidToken
    Percents,      \* what an admin's slider may ask for
    FadeSteps,     \* dailyDoubleFadeSteps
    QueueDepth,    \* capacity of volumeCmds
    Limits,        \* bounds on the tokens Spotify mints, on logins, restarts, changes
                   \* of the volume and fades: a behaviour has one of these
    None

Commanders == {Writer} \cup Players
Callers == Commanders \cup Stages

ASSUME ConstantsOK ==
    /\ Writer \notin Players /\ Commanders \cap Stages = {} /\ None \notin Callers
    /\ FadeSteps \in Nat \ {0} /\ QueueDepth \in Nat \ {0}
    /\ Percents \subseteq 0 .. 100 /\ Percents # {}
    /\ Limits \subseteq [tokens : Nat, logins : Nat, restarts : Nat, asks : Nat, fades : Nat]

VARIABLES
    (* Client.  A refresh token is the number of its login and of its turn. *)
    accessToken, refreshToken,
    life,          \* expiresAt: "live", "near" (in the skew) or "past"
    refreshMu,     \* who holds it
    calls,         \* caller -> how far it is, the token it sent, the one it read then, and
                   \* what a grant has brought
    login,         \* the OAuth callback: what it has got, if it is under way
    saved,         \* the file with the refresh token
    (* Spotify *)
    newest,        \* login -> the turn of its newest refresh token
    good,          \* access tokens Spotify takes
    level,         \* the device's volume
    (* Engine *)
    volumePct, volumeCmds,
    writing,       \* the level the writer's command is about
    fades,         \* goroutines that fade: from which level, steps to go
    (* History and bounds *)
    spoiled,       \* has a refresh token been lost on the way, or in a restart?
    unasked,       \* was the last level asked for dropped, or none since the start?
    failed,        \* has the last command about the volume failed?
    minted, logins, restarts, asks, faded, limit

client == <<accessToken, refreshToken, life, refreshMu>>
spotify == <<newest, good>>
oauth == <<login, saved, logins>>
volume == <<volumePct, volumeCmds, fades, unasked, asks, faded>>
device == <<level, writing, failed>>
bounds == <<restarts, limit>>
vars == <<client, calls, spotify, oauth, volume, device, spoiled, minted, bounds>>

NoToken == [login |-> 0, turn |-> 0]
NoGrant == [access |-> 0, refresh |-> NoToken]
Idle == [pc |-> "idle", token |-> 0, rejected |-> 0, refresh |-> NoToken, got |-> NoGrant]

Init ==
    /\ accessToken = 0 /\ refreshToken = NoToken /\ life = "past" /\ refreshMu = None
    /\ calls = [p \in Callers |-> Idle]
    /\ login = NoGrant /\ saved = NoToken
    /\ newest = <<>> /\ good = {} /\ level = 100
    /\ volumePct = 100 /\ volumeCmds = <<>> /\ writing = 100 /\ fades = {}
    /\ spoiled = FALSE /\ unasked = TRUE /\ failed = FALSE
    /\ minted = 0 /\ logins = 0 /\ restarts = 0 /\ asks = 0 /\ faded = 0
    /\ limit \in Limits

-----------------------------------------------------------------------------
(* The volume.                                                             *)

Unbounded(pct) ==                                            \* a mutation of sendVolume
    volumeCmds' = Append(volumeCmds, pct) /\ unasked' = FALSE

(* sendVolume: what does not fit is dropped. *)
sendVolume(pct) ==
    IF Len(volumeCmds) < QueueDepth
    THEN volumeCmds' = Append(volumeCmds, pct) /\ unasked' = FALSE
    ELSE volumeCmds' = volumeCmds /\ unasked' = TRUE

onAdminSetVolume(pct) ==
    /\ asks < limit.asks /\ asks' = asks + 1
    /\ volumePct' = pct
    /\ sendVolume(pct)
    /\ UNCHANGED <<client, calls, spotify, oauth, fades, faded, device, spoiled, minted, bounds>>

(* A fade of a performance; another performance may begin one before this  *)
(* one's goroutine has ended.                                              *)
fadeOutAndFinishDailyDouble ==
    /\ faded < limit.fades /\ faded' = faded + 1
    /\ fades' = fades \cup {[id |-> faded, from |-> volumePct, left |-> FadeSteps]}
    /\ UNCHANGED <<client, calls, spotify, oauth, volumePct, volumeCmds, unasked, asks, device,
                   spoiled, minted, bounds>>

FadeStep(f) ==
    /\ f \in fades /\ f.left >= 0
    /\ sendVolume((f.from * f.left) \div FadeSteps)
    /\ fades' = (fades \ {f}) \cup {[f EXCEPT !.left = @ - 1]}
    /\ UNCHANGED <<client, calls, spotify, oauth, volumePct, asks, faded, device, spoiled, minted,
                   bounds>>

WhereItBegan(f) == f.from                                    \* a mutation of RestoreTo

(* The operating level as it is now, not as it was. *)
RestoreTo(f) == volumePct

FadeEnds(f) ==
    /\ f \in fades /\ f.left < 0
    /\ sendVolume(RestoreTo(f))
    /\ fades' = fades \ {f}
    /\ UNCHANGED <<client, calls, spotify, oauth, volumePct, asks, faded, device, spoiled, minted,
                   bounds>>

-----------------------------------------------------------------------------
(* Commands and the tokens they need.                                      *)

At(p, pc) == calls[p].pc = pc
Becomes(p, call) == calls' = [calls EXCEPT ![p] = call]

(* A command is over; the writer's has set the level, or not. *)
Returns(p, ok) ==
    /\ Becomes(p, Idle)
    /\ IF p = Writer
       THEN level' = (IF ok THEN writing ELSE level) /\ failed' = ~ok /\ UNCHANGED writing
       ELSE UNCHANGED device

(* doPlayer with the token of the moment.  No token, no request. *)
doPlayer(p, pc) ==
    IF accessToken = 0 THEN Returns(p, FALSE)
    ELSE Becomes(p, [calls[p] EXCEPT !.pc = pc, !.token = accessToken]) /\ UNCHANGED device

playerCommand(p) ==
    /\ At(p, "idle") /\ p \in Players
    /\ doPlayer(p, "sent")
    /\ UNCHANGED <<client, spotify, oauth, volume, spoiled, minted, bounds>>

(* runVolumeWriter takes the next level and waits for the answer. *)
runVolumeWriter ==
    /\ At(Writer, "idle") /\ volumeCmds # <<>>
    /\ volumeCmds' = Tail(volumeCmds) /\ writing' = Head(volumeCmds)
    /\ IF accessToken = 0 THEN failed' = TRUE /\ UNCHANGED calls
       ELSE Becomes(Writer, [Idle EXCEPT !.pc = "sent", !.token = accessToken]) /\ UNCHANGED failed
    /\ UNCHANGED <<client, spotify, oauth, volumePct, fades, unasked, asks, faded, level, spoiled,
                   minted, bounds>>

(* The device's answer, or none; 401 the first time starts a refresh. *)
Answered(p) ==
    /\ \/ (At(p, "sent") \/ At(p, "resent")) /\ calls[p].token \in good /\ Returns(p, TRUE)
       \/ (At(p, "sent") \/ At(p, "resent")) /\ Returns(p, FALSE)
       \/ /\ At(p, "sent") /\ calls[p].token \notin good
          /\ Becomes(p, [calls[p] EXCEPT !.pc = "rejected"]) /\ UNCHANGED device
    /\ UNCHANGED <<client, spotify, oauth, volume, spoiled, minted, bounds>>

(* The token a refresh may not end with: the client's, read after the      *)
(* answer.                                                                 *)
AfterRejection(p) ==
    /\ At(p, "rejected")
    /\ Becomes(p, [calls[p] EXCEPT !.pc = "locking", !.rejected = accessToken])
    /\ UNCHANGED <<client, spotify, oauth, volume, device, spoiled, minted, bounds>>

(* ValidToken: a token that will live a while is handed out; one that will *)
(* not, or none, is refreshed if it can be.                                *)
ValidToken(p) ==
    /\ p \in Stages /\ At(p, "idle")
    /\ ~(accessToken # 0 /\ life = "live") /\ refreshToken # NoToken
    /\ Becomes(p, [Idle EXCEPT !.pc = "locking"])
    /\ UNCHANGED <<client, spotify, oauth, volume, device, spoiled, minted, bounds>>

(* refresh has returned to p: a command is sent again, once. *)
Refreshed(p, ok) ==
    IF p \in Stages THEN Becomes(p, Idle) /\ UNCHANGED device
    ELSE IF ok THEN Becomes(p, [calls[p] EXCEPT !.pc = "retry", !.got = NoGrant]) /\ UNCHANGED device
    ELSE Returns(p, FALSE)

OnlyByAge(p) == accessToken # 0 /\ life = "live"              \* a mutation of Spared

(* Was the token replaced while p waited for the lock? *)
Spared(p) ==
    /\ accessToken # 0
    /\ IF p \in Commanders THEN accessToken # calls[p].rejected ELSE life = "live"

NobodyPosts == TRUE                                           \* a mutation of LockIsFree

LockIsFree == refreshMu = None

(* Is r the newest refresh token of its login? *)
Valid(r) == r # NoToken /\ newest[r.login] = r.turn

(* refresh, up to its request, which Spotify will take or not. *)
refresh(p) ==
    /\ At(p, "locking") /\ LockIsFree
    /\ IF Spared(p) \/ refreshToken = NoToken
       THEN Refreshed(p, Spared(p)) /\ UNCHANGED refreshMu
       ELSE /\ refreshMu' = p
            /\ Becomes(p, [calls[p] EXCEPT
                    !.pc = IF Valid(refreshToken) THEN "posting" ELSE "in vain",
                    !.refresh = refreshToken])
            /\ UNCHANGED device
    /\ UNCHANGED <<accessToken, refreshToken, life, spotify, oauth, volume, spoiled, minted, bounds>>

(* Spotify's grant: a new access token, and perhaps a new refresh token    *)
(* that replaces the newest of its login.  lost: the answer does not       *)
(* arrive.                                                                 *)
Granted(p) ==
    LET r == calls[p].refresh
    IN  \E rotates, lost \in BOOLEAN :
        /\ At(p, "posting")
        /\ minted < limit.tokens /\ minted' = minted + 1
        /\ good' = good \cup {minted + 1}
        /\ newest' = IF rotates THEN [newest EXCEPT ![r.login] = @ + 1] ELSE newest
        /\ IF lost
           THEN refreshMu' = None /\ Refreshed(p, FALSE) /\ spoiled' = (spoiled \/ rotates)
           ELSE /\ Becomes(p, [calls[p] EXCEPT !.pc = "storing", !.got =
                        [access |-> minted + 1,
                         refresh |-> IF rotates THEN [r EXCEPT !.turn = newest'[r.login]] ELSE NoToken]])
                /\ UNCHANGED <<refreshMu, device, spoiled>>
        /\ UNCHANGED <<accessToken, refreshToken, life, oauth, volume, bounds>>

Refused(p) ==
    /\ At(p, "posting") \/ At(p, "in vain")
    /\ refreshMu' = None
    /\ Refreshed(p, FALSE)
    /\ UNCHANGED <<accessToken, refreshToken, life, spotify, oauth, volume, spoiled, minted, bounds>>

(* The grant is stored, and the lock released. *)
Store(p) ==
    LET g == calls[p].got
    IN  /\ At(p, "storing")
        /\ accessToken' = g.access /\ life' = "live"
        /\ refreshToken' = IF g.refresh = NoToken THEN refreshToken ELSE g.refresh
        /\ refreshMu' = None
        /\ Refreshed(p, TRUE)
        /\ UNCHANGED <<spotify, oauth, volume, spoiled, minted, bounds>>

Retry(p) ==
    /\ At(p, "retry")
    /\ doPlayer(p, "resent")
    /\ UNCHANGED <<client, spotify, oauth, volume, spoiled, minted, bounds>>

-----------------------------------------------------------------------------
(* The OAuth callback: the code is exchanged, the tokens are stored        *)
(* without refreshMu, and the refresh token the client has then is written *)
(* to the file.                                                            *)

LoginGranted ==
    /\ login = NoGrant /\ logins < limit.logins /\ minted < limit.tokens
    /\ logins' = logins + 1 /\ minted' = minted + 1
    /\ good' = good \cup {minted + 1}
    /\ newest' = Append(newest, 1)
    /\ login' = [access |-> minted + 1, refresh |-> [login |-> Len(newest) + 1, turn |-> 1]]
    /\ UNCHANGED <<client, calls, saved, volume, device, spoiled, bounds>>

ExchangeToken ==
    /\ login.access # 0
    /\ accessToken' = login.access /\ refreshToken' = login.refresh /\ life' = "live"
    /\ login' = [login EXCEPT !.access = 0]
    /\ spoiled' = FALSE
    /\ UNCHANGED <<refreshMu, calls, spotify, saved, logins, volume, device, minted, bounds>>

LoginSaved ==
    /\ login.access = 0 /\ login # NoGrant
    /\ saved' = refreshToken /\ login' = NoGrant
    /\ UNCHANGED <<client, calls, spotify, logins, volume, device, spoiled, minted, bounds>>

(* The process ends and starts again with the refresh token of the file.   *)
(* A grant under way has been answered before, or is not.                  *)
Restart ==
    /\ restarts < limit.restarts /\ restarts' = restarts + 1
    /\ accessToken' = 0 /\ refreshToken' = saved /\ life' = "past" /\ refreshMu' = None
    /\ spoiled' = (saved # NoToken /\ ~Valid(saved))
    /\ calls' = [p \in Callers |-> Idle] /\ login' = NoGrant
    /\ volumePct' = 100 /\ volumeCmds' = <<>> /\ fades' = {} /\ unasked' = TRUE
    /\ UNCHANGED <<spotify, saved, logins, asks, faded, device, minted, limit>>

(* The access token gets old, and dies of it ... *)
Ages ==
    /\ accessToken # 0 /\ life # "past"
    /\ \/ life = "live" /\ life' = "near" /\ good' = good
       \/ life = "near" /\ life' = "past" /\ good' = good \ {accessToken}
    /\ UNCHANGED <<accessToken, refreshToken, refreshMu, newest, calls, oauth, volume, device,
                   spoiled, minted, bounds>>

(* ... or is dropped earlier. *)
Revoke(t) ==
    /\ t \in good
    /\ good' = good \ {t}
    /\ UNCHANGED <<client, newest, calls, oauth, volume, device, spoiled, minted, bounds>>

-----------------------------------------------------------------------------

Volume ==
    \/ \E pct \in Percents : onAdminSetVolume(pct)
    \/ fadeOutAndFinishDailyDouble
    \/ \E f \in fades : FadeStep(f) \/ FadeEnds(f)
    \/ runVolumeWriter

Command(p) == playerCommand(p) \/ Answered(p) \/ AfterRejection(p) \/ Retry(p)

Refresh(p) == refresh(p) \/ Granted(p) \/ Refused(p) \/ Store(p)

Next ==
    \/ Volume
    \/ \E p \in Commanders : Command(p)
    \/ \E p \in Stages : ValidToken(p)
    \/ \E p \in Callers : Refresh(p)
    \/ LoginGranted \/ ExchangeToken \/ LoginSaved
    \/ Restart \/ Ages \/ \E t \in good : Revoke(t)

Spec == Init /\ [][Next]_vars

-----------------------------------------------------------------------------
(* Properties.                                                             *)

RefreshTokens == [login : Nat, turn : Nat]
Grants == [access : Nat, refresh : RefreshTokens]

Steps == {"idle", "sent", "rejected", "locking", "posting", "in vain", "storing", "retry", "resent"}
Levels == 0 .. 100

Call == [pc : Steps, token : Nat, rejected : Nat, refresh : RefreshTokens, got : Grants]

CallTypes == calls \in [Callers -> Call]

TokenTypes ==
    /\ accessToken \in Nat /\ refreshToken \in RefreshTokens /\ saved \in RefreshTokens
    /\ login \in Grants /\ newest \in Seq(Nat)
    /\ minted \in Nat /\ good \subseteq 1 .. minted
    /\ life \in {"live", "near", "past"} /\ refreshMu \in Callers \cup {None}

VolumeTypes ==
    /\ level \in Levels /\ writing \in Levels /\ volumePct \in Levels
    /\ volumeCmds \in Seq(Levels) /\ Len(volumeCmds) <= QueueDepth
    /\ fades \subseteq [id : Nat, from : Levels, left : -1 .. FadeSteps]

FlagTypes == spoiled \in BOOLEAN /\ unasked \in BOOLEAN /\ failed \in BOOLEAN

BoundTypes ==
    /\ logins \in Nat /\ restarts \in Nat /\ asks \in Nat /\ faded \in Nat
    /\ limit \in Limits

(* The variables have the values the code's fields can hold. *)
TypeOK == CallTypes /\ TokenTypes /\ VolumeTypes /\ FlagTypes /\ BoundTypes

(* When nothing is left to do about the volume, the device plays at the    *)
(* level the control room shows, whatever fades and changes of the level   *)
(* overlapped: engine.go:3155 "The volume can never get stuck faded down". *)
(* What no queue can promise is excepted: the last change was dropped by a *)
(* full queue, or Spotify's answer to it was an error.                     *)
DeviceAtOperatingLevel ==
    volumeCmds = <<>> /\ At(Writer, "idle") /\ fades = {} /\ ~unasked /\ ~failed
        => level = volumePct

RefreshTokenWorks ==
    ~spoiled /\ (\A p \in Callers : ~At(p, "posting") /\ ~At(p, "storing"))
        => refreshToken = NoToken \/ Valid(refreshToken)

RetryDiffers ==
    \A p \in Commanders :
        At(p, "retry") /\ calls'[p].pc = "resent" => calls'[p].token # calls[p].token

(* Refreshes that overlap, with each other and with a login, leave a       *)
(* refresh token that Spotify still takes (spotify.go:103: the loser would *)
(* "overwrite the good token with an invalidated one, forcing re-auth"),   *)
(* and a command that was refused is never sent again with the token it    *)
(* was refused with.  Excepted is a rotated token that was lost: its       *)
(* answer did not arrive, or it was not in the file at a restart.          *)
TokensWork == [][RetryDiffers /\ RefreshTokenWorks']_vars
=============================================================================
