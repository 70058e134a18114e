------------------------------ MODULE DeckProofs ------------------------------
(***************************************************************************)
(* The safety of Deck for any number of callers, of logins and restarts,   *)
(* any length of the queue and any number of steps of a fade.              *)
(***************************************************************************)
EXTENDS Deck, TLAPS, SequenceTheorems

(* A grant is asked for and stored by the holder of the lock only. *)
Exclusive ==
    \A p \in Callers : calls[p].pc \in {"posting", "in vain", "storing"} => refreshMu = p

(* A refresh token the client has is of a login that was.  *)
Issued(r) == r = NoToken \/ r.login \in 1 .. Len(newest)

Known ==
    /\ Issued(refreshToken) /\ Issued(saved) /\ Issued(login.refresh)
    /\ \A p \in Callers : Issued(calls[p].refresh) /\ Issued(calls[p].got.refresh)
    /\ \A p \in Callers : At(p, "posting") => calls[p].refresh # NoToken

(* A login that is not stored yet is the last one, and all else is older. *)
Older(r) == r.login < Len(newest)

LoginPending ==
    login.access # 0 =>
        /\ Len(newest) > 0
        /\ login.refresh.login = Len(newest) /\ login.refresh.turn = newest[Len(newest)]
        /\ Older(refreshToken) /\ Older(saved)
        /\ \A p \in Callers : Older(calls[p].refresh) /\ Older(calls[p].got.refresh)

(* A rotated token that is about to be stored is the newest of its login ... *)
GotValid ==
    \A p \in Callers :
        At(p, "storing") /\ calls[p].got.refresh # NoToken => Valid(calls[p].got.refresh)

(* ... and until then the client's own may be outdated. *)
WorksInv ==
    ~spoiled =>
        \/ refreshToken = NoToken \/ Valid(refreshToken)
        \/ \E p \in Callers : At(p, "storing") /\ calls[p].got.refresh # NoToken

(* Access tokens are numbered as they are minted. *)
MintedInv ==
    /\ accessToken <= minted /\ login.access <= minted
    /\ \A p \in Callers : calls[p].token <= minted
    /\ \A p \in Callers : At(p, "storing") => calls[p].got.access <= minted

(* One that is not stored yet has never been sent. *)
FreshInv ==
    /\ login.access # 0 =>
          /\ login.access # accessToken
          /\ \A p \in Callers : calls[p].token # login.access
    /\ \A p \in Callers : At(p, "storing") =>
          /\ calls[p].got.access \notin {0, accessToken, login.access}
          /\ \A q \in Callers : calls[q].token # calls[p].got.access

(* A command that was refused waits for another token than the one it sent. *)
RetryInv ==
    \A p \in Commanders :
        /\ calls[p].pc \in {"locking", "posting", "in vain", "storing"} =>
              calls[p].rejected = calls[p].token \/ accessToken # calls[p].token
        /\ calls[p].pc = "retry" => accessToken # calls[p].token

(* The last level in the queue, else the writer's, else the device's, is the *)
(* operating level.                                                          *)
LevelInv ==
    fades = {} /\ ~unasked =>
        /\ volumeCmds # <<>> => volumeCmds[Len(volumeCmds)] = volumePct
        /\ volumeCmds = <<>> /\ ~At(Writer, "idle") => writing = volumePct
        /\ volumeCmds = <<>> /\ At(Writer, "idle") /\ ~failed => level = volumePct

-----------------------------------------------------------------------------
(* What an action does to the calls, field by field.                       *)

(* Only p's call changes. *)
Only(p) == \A q \in Callers \ {p} : calls'[q] = calls[q]

Idles(p) ==
    /\ calls'[p].pc = "idle" /\ calls'[p].token = 0
    /\ calls'[p].refresh = NoToken /\ calls'[p].got.refresh = NoToken

Sends(p, pc) ==
    /\ calls'[p].pc = pc /\ calls'[p].token = accessToken
    /\ calls'[p].refresh \in {calls[p].refresh, NoToken}
    /\ calls'[p].got.refresh \in {calls[p].got.refresh, NoToken}

Rejects(p) ==
    /\ calls'[p].pc = "rejected" /\ calls'[p].token = calls[p].token
    /\ calls'[p].refresh = calls[p].refresh /\ calls'[p].got = calls[p].got

Locks(p) ==
    /\ calls'[p].pc = "locking"
    /\ IF p \in Stages THEN calls'[p].token = 0 /\ calls'[p].refresh = NoToken /\ calls'[p].got.refresh = NoToken
       ELSE /\ calls'[p].token = calls[p].token /\ calls'[p].rejected = accessToken
            /\ calls'[p].refresh = calls[p].refresh /\ calls'[p].got = calls[p].got

Posts(p) ==
    /\ calls'[p].pc \in {"posting", "in vain"} /\ calls'[p].token = calls[p].token
    /\ calls'[p].rejected = calls[p].rejected /\ calls'[p].got = calls[p].got
    /\ calls'[p].refresh = refreshToken /\ refreshToken # NoToken

Stores(p, r) ==
    /\ calls'[p].pc = "storing" /\ calls'[p].token = calls[p].token
    /\ calls'[p].rejected = calls[p].rejected /\ calls'[p].refresh = calls[p].refresh
    /\ calls'[p].got = [access |-> minted + 1, refresh |-> r]

Retries(p) ==
    /\ calls'[p].pc = "retry" /\ calls'[p].token = calls[p].token
    /\ calls'[p].refresh = calls[p].refresh /\ calls'[p].got.refresh = NoToken

LEMMA BecomesMoves ==
    ASSUME CallTypes, NEW p \in Callers, NEW c \in Call, Becomes(p, c)
    PROVE  CallTypes' /\ Only(p) /\ calls'[p] = c
  BY DEF CallTypes, Becomes, Only

LEMMA IdleIsCall == Idle \in Call /\ NoGrant \in Grants /\ NoGrant.refresh = NoToken
  BY DEF Idle, Call, Steps, NoToken, NoGrant, Grants, RefreshTokens

LEMMA NoFields == NoToken \in RefreshTokens /\ NoToken.login = 0 /\ NoGrant.access = 0 /\ NoGrant.refresh = NoToken
  BY DEF NoToken, NoGrant, RefreshTokens

LEMMA IdleFields == Idle.pc = "idle" /\ Idle.token = 0 /\ Idle.refresh = NoToken /\ Idle.got = NoGrant
  BY DEF Idle

LEMMA IdleMoves ==
    ASSUME CallTypes, NEW p \in Callers, Becomes(p, Idle)
    PROVE  CallTypes' /\ Only(p) /\ Idles(p)
  BY BecomesMoves, IdleIsCall, IdleFields DEF Idles

LEMMA ReturnsMoves ==
    ASSUME CallTypes, NEW p \in Callers, NEW ok \in BOOLEAN, Returns(p, ok)
    PROVE  CallTypes' /\ Only(p) /\ Idles(p)
  BY IdleMoves DEF Returns

LEMMA doPlayerMoves ==
    ASSUME CallTypes, TokenTypes, NEW p \in Callers, NEW pc \in Steps, doPlayer(p, pc)
    PROVE  CallTypes' /\ Only(p) /\ (Idles(p) \/ Sends(p, pc))
  <1>1. CASE accessToken = 0
    BY <1>1, ReturnsMoves DEF doPlayer
  <1>2. CASE accessToken # 0
    <2> DEFINE c == [calls[p] EXCEPT !.pc = pc, !.token = accessToken]
    <2>1. c \in Call
      BY DEF CallTypes, Call, TokenTypes
    <2>2. /\ c.pc = pc /\ c.token = accessToken
          /\ c.refresh = calls[p].refresh /\ c.got = calls[p].got
      BY DEF CallTypes, Call
    <2>3. Becomes(p, c)
      BY <1>2 DEF doPlayer
    <2>4. CallTypes' /\ Only(p) /\ calls'[p] = c
      BY <2>1, <2>3, BecomesMoves
    <2> HIDE DEF c
    <2>5. Sends(p, pc)
      BY <2>2, <2>4 DEF Sends
    <2>6. QED
      BY <2>4, <2>5
  <1>3. QED
    BY <1>1, <1>2

LEMMA RefreshedMoves ==
    ASSUME CallTypes, NEW p \in Callers, NEW ok \in BOOLEAN, Refreshed(p, ok)
    PROVE  CallTypes' /\ Only(p) /\ (Idles(p) \/ (p \notin Stages /\ ok /\ Retries(p)))
  <1>1. CASE p \in Stages
    BY <1>1, IdleMoves DEF Refreshed
  <1>2. CASE p \notin Stages /\ ok
    <2> DEFINE c == [calls[p] EXCEPT !.pc = "retry", !.got = NoGrant]
    <2>1. c \in Call
      BY IdleIsCall DEF CallTypes, Call, Steps
    <2>2. c.pc = "retry" /\ c.token = calls[p].token /\ c.refresh = calls[p].refresh /\ c.got = NoGrant
      BY DEF CallTypes, Call
    <2>3. Becomes(p, c)
      BY <1>2 DEF Refreshed
    <2>4. CallTypes' /\ Only(p) /\ calls'[p] = c
      BY <2>1, <2>3, BecomesMoves
    <2> HIDE DEF c
    <2>5. Retries(p)
      BY <2>2, <2>4, IdleIsCall DEF Retries
    <2>6. QED
      BY <1>2, <2>4, <2>5
  <1>3. CASE p \notin Stages /\ ~ok
    BY <1>3, ReturnsMoves DEF Refreshed
  <1>4. QED
    BY <1>1, <1>2, <1>3

LEMMA playerCommandMoves ==
    ASSUME CallTypes, TokenTypes, NEW p \in Commanders, playerCommand(p)
    PROVE  CallTypes' /\ Only(p) /\ (Idles(p) \/ Sends(p, "sent"))
  BY doPlayerMoves DEF playerCommand, Commanders, Callers, Steps

LEMMA RetryMoves ==
    ASSUME CallTypes, TokenTypes, NEW p \in Commanders, Retry(p)
    PROVE  CallTypes' /\ Only(p) /\ (Idles(p) \/ Sends(p, "resent"))
  BY doPlayerMoves DEF Retry, Commanders, Callers, Steps

LEMMA runVolumeWriterMoves ==
    ASSUME CallTypes, TokenTypes, runVolumeWriter
    PROVE  CallTypes' /\ (UNCHANGED calls \/ (Only(Writer) /\ Sends(Writer, "sent")))
  <1> DEFINE c == [Idle EXCEPT !.pc = "sent", !.token = accessToken]
  <1>1. c \in Call
    BY IdleIsCall DEF Call, Steps, TokenTypes
  <1>2. c.pc = "sent" /\ c.token = accessToken /\ c.refresh = NoToken /\ c.got = NoGrant
    BY IdleIsCall, IdleFields DEF Call
  <1>3. UNCHANGED calls \/ Becomes(Writer, c)
    BY DEF runVolumeWriter
  <1> HIDE DEF c
  <1>4. CASE Becomes(Writer, c)
    <2>1. CallTypes' /\ Only(Writer) /\ calls'[Writer] = c
      BY <1>1, <1>4, BecomesMoves DEF Callers, Commanders
    <2>2. QED
      BY <1>2, <2>1, IdleIsCall DEF Sends
  <1>5. QED
    BY <1>3, <1>4 DEF CallTypes

LEMMA AnsweredMoves ==
    ASSUME CallTypes, TokenTypes, NEW p \in Commanders, Answered(p)
    PROVE  CallTypes' /\ Only(p) /\ (Idles(p) \/ Rejects(p))
  <1> DEFINE c == [calls[p] EXCEPT !.pc = "rejected"]
  <1>1. p \in Callers /\ c \in Call
    BY DEF CallTypes, Call, Steps, Callers
  <1>2. c.pc = "rejected" /\ c.token = calls[p].token /\ c.refresh = calls[p].refresh /\ c.got = calls[p].got
    BY <1>1 DEF CallTypes, Call
  <1>3. Becomes(p, c) \/ Returns(p, TRUE) \/ Returns(p, FALSE)
    BY DEF Answered
  <1> HIDE DEF c
  <1>4. CASE Becomes(p, c)
    BY <1>1, <1>2, <1>4, BecomesMoves DEF Rejects
  <1>5. QED
    BY <1>1, <1>3, <1>4, ReturnsMoves

LEMMA AfterRejectionMoves ==
    ASSUME CallTypes, TokenTypes, NEW p \in Commanders, AfterRejection(p)
    PROVE  CallTypes' /\ Only(p) /\ Locks(p)
  <1> DEFINE c == [calls[p] EXCEPT !.pc = "locking", !.rejected = accessToken]
  <1>1. p \in Callers /\ p \notin Stages /\ c \in Call
    BY ConstantsOK DEF CallTypes, TokenTypes, Call, Steps, Callers
  <1>2. /\ c.pc = "locking" /\ c.token = calls[p].token /\ c.rejected = accessToken
        /\ c.refresh = calls[p].refresh /\ c.got = calls[p].got
    BY <1>1 DEF CallTypes, Call
  <1>3. Becomes(p, c)
    BY DEF AfterRejection
  <1> HIDE DEF c
  <1>4. QED
    BY <1>1, <1>2, <1>3, BecomesMoves DEF Locks

LEMMA ValidTokenMoves ==
    ASSUME CallTypes, TokenTypes, NEW p \in Stages, ValidToken(p)
    PROVE  CallTypes' /\ Only(p) /\ Locks(p)
  <1> DEFINE c == [Idle EXCEPT !.pc = "locking"]
  <1>1. p \in Callers /\ c \in Call
    BY IdleIsCall DEF Call, Steps, Callers
  <1>2. c.pc = "locking" /\ c.token = 0 /\ c.refresh = NoToken /\ c.got = NoGrant
    BY IdleIsCall, IdleFields DEF Call
  <1>3. Becomes(p, c)
    BY DEF ValidToken
  <1> HIDE DEF c
  <1>4. QED
    BY <1>1, <1>2, <1>3, BecomesMoves, IdleIsCall DEF Locks

LEMMA refreshMoves ==
    ASSUME CallTypes, TokenTypes, NEW p \in Callers, refresh(p)
    PROVE  /\ CallTypes' /\ Only(p)
           /\ \/ refreshMu' = refreshMu /\ (Idles(p) \/ (p \notin Stages /\ Spared(p) /\ Retries(p)))
              \/ refreshMu = None /\ refreshMu' = p /\ Posts(p) /\ (calls'[p].pc = "posting" => Valid(refreshToken))
  <1>1. CASE Spared(p) \/ refreshToken = NoToken
    <2>1. Spared(p) \in BOOLEAN
      BY DEF Spared
    <2>2. Refreshed(p, Spared(p)) /\ refreshMu' = refreshMu
      BY <1>1 DEF refresh
    <2>3. QED
      BY <2>1, <2>2, RefreshedMoves
  <1>2. CASE ~(Spared(p) \/ refreshToken = NoToken)
    <2> DEFINE s == IF Valid(refreshToken) THEN "posting" ELSE "in vain"
               c == [calls[p] EXCEPT !.pc = s, !.refresh = refreshToken]
    <2>1. s \in {"posting", "in vain"} /\ (s = "posting" => Valid(refreshToken))
      OBVIOUS
    <2>2. Becomes(p, c) /\ refreshMu = None /\ refreshMu' = p
      BY <1>2 DEF refresh, LockIsFree
    <2> HIDE DEF s
    <2>3. c \in Call
      BY <2>1 DEF CallTypes, TokenTypes, Call, Steps
    <2>4. /\ c.pc = s /\ c.token = calls[p].token /\ c.rejected = calls[p].rejected
          /\ c.refresh = refreshToken /\ c.got = calls[p].got
      BY DEF CallTypes, Call
    <2> HIDE DEF c
    <2>5. CallTypes' /\ Only(p) /\ calls'[p] = c
      BY <2>2, <2>3, BecomesMoves
    <2>6. QED
      BY <1>2, <2>1, <2>2, <2>4, <2>5 DEF Posts
  <1>3. QED
    BY <1>1, <1>2

(* The refresh token of a grant that replaces the one it was asked with. *)
Rotated(p) == [calls[p].refresh EXCEPT !.turn = newest'[calls[p].refresh.login]]

LEMMA GrantedMoves ==
    ASSUME CallTypes, TokenTypes, TokenTypes', Known, NEW p \in Callers, Granted(p)
    PROVE  /\ CallTypes' /\ Only(p)
           /\ \/ /\ newest' = newest
                 /\ \/ refreshMu' = None /\ Idles(p)
                    \/ refreshMu' = refreshMu /\ Stores(p, NoToken)
              \/ /\ newest' = [newest EXCEPT ![calls[p].refresh.login] = @ + 1]
                 /\ \/ refreshMu' = None /\ Idles(p) /\ spoiled'
                    \/ refreshMu' = refreshMu /\ Stores(p, Rotated(p))
  <1> DEFINE r == calls[p].refresh
             S(g) == [calls[p] EXCEPT !.pc = "storing", !.got = [access |-> minted + 1, refresh |-> g]]
  <1>1. r \in RefreshTokens /\ r.login \in DOMAIN newest
    <2>1. r \in RefreshTokens
      BY DEF CallTypes, Call
    <2>2. r # NoToken /\ (r = NoToken \/ r.login \in DOMAIN newest)
      BY DEF Granted, Known, Issued
    <2>3. QED
      BY <2>1, <2>2
  <1>2. PICK rotates \in BOOLEAN, lost \in BOOLEAN :
            /\ newest' = IF rotates THEN [newest EXCEPT ![r.login] = @ + 1] ELSE newest
            /\ IF lost
               THEN refreshMu' = None /\ Refreshed(p, FALSE) /\ spoiled' = (spoiled \/ rotates)
               ELSE /\ Becomes(p, S(IF rotates THEN Rotated(p) ELSE NoToken))
                    /\ refreshMu' = refreshMu
    BY DEF Granted, Rotated
  <1>3. ASSUME NEW g \in RefreshTokens, Becomes(p, S(g))
        PROVE  CallTypes' /\ Only(p) /\ Stores(p, g)
    <2>1. [access |-> minted + 1, refresh |-> g] \in Grants
      BY DEF Grants, TokenTypes
    <2>2. S(g) \in Call
      BY <2>1 DEF CallTypes, Call, Steps
    <2>3. /\ S(g).pc = "storing" /\ S(g).token = calls[p].token /\ S(g).rejected = calls[p].rejected
          /\ S(g).refresh = r /\ S(g).got = [access |-> minted + 1, refresh |-> g]
      BY DEF CallTypes, Call
    <2>4. CallTypes' /\ Only(p) /\ calls'[p] = S(g)
      BY <1>3, <2>2, BecomesMoves
    <2> HIDE DEF S
    <2>5. QED
      BY <2>3, <2>4 DEF Stores
  <1>4. CASE lost
    BY <1>2, <1>4, RefreshedMoves
  <1>5. CASE ~lost /\ ~rotates
    <2>1. NoToken \in RefreshTokens
      BY DEF NoToken, RefreshTokens
    <2>2. Becomes(p, S(NoToken)) /\ refreshMu' = refreshMu /\ newest' = newest
      BY <1>2, <1>5
    <2> HIDE DEF S
    <2>3. QED
      BY <1>3, <2>1, <2>2
  <1>6. CASE ~lost /\ rotates
    <2>1. newest' \in Seq(Nat) /\ newest' = [newest EXCEPT ![r.login] = @ + 1]
      BY <1>2, <1>6 DEF TokenTypes
    <2>2. newest'[r.login] \in Nat
      BY <1>1, <2>1 DEF TokenTypes
    <2>3. Rotated(p) \in RefreshTokens
      BY <1>1, <2>2 DEF Rotated, RefreshTokens
    <2>4. Becomes(p, S(Rotated(p))) /\ refreshMu' = refreshMu
      BY <1>2, <1>6
    <2> HIDE DEF S
    <2>5. QED
      BY <1>3, <2>1, <2>3, <2>4
  <1>7. QED
    BY <1>4, <1>5, <1>6

LEMMA RefusedMoves ==
    ASSUME CallTypes, TokenTypes, NEW p \in Callers, Refused(p)
    PROVE  CallTypes' /\ Only(p) /\ Idles(p) /\ refreshMu' = None
  BY RefreshedMoves DEF Refused

LEMMA StoreMoves ==
    ASSUME CallTypes, TokenTypes, NEW p \in Callers, Store(p)
    PROVE  CallTypes' /\ Only(p) /\ refreshMu' = None /\ (Idles(p) \/ (p \notin Stages /\ Retries(p)))
  BY RefreshedMoves DEF Store

LEMMA RestartMoves == Restart => CallTypes' /\ \A p \in Callers : Idles(p)
  BY IdleIsCall, IdleFields DEF Restart, CallTypes, Idles

(* What a grant does to the newest refresh tokens. *)
LEMMA GrantedTurns ==
    ASSUME CallTypes, TokenTypes, Known, NEW p \in Callers, Granted(p)
    PROVE  /\ calls[p].refresh.login \in 1 .. Len(newest)
           /\ newest' \in Seq(Nat) /\ Len(newest') = Len(newest)
           /\ \A i \in 1 .. Len(newest) : i # calls[p].refresh.login => newest'[i] = newest[i]
           /\ Rotated(p).login = calls[p].refresh.login
           /\ Rotated(p).turn = newest'[calls[p].refresh.login]
  <1> DEFINE l == calls[p].refresh.login
  <1>1. calls[p].refresh \in RefreshTokens
    BY DEF CallTypes, Call
  <1>2. l \in 1 .. Len(newest)
    BY DEF Granted, Known, Issued
  <1>3. newest \in Seq(Nat)
    BY DEF TokenTypes
  <1>4. newest[l] + 1 \in Nat
    <2> HIDE DEF l
    <2>1. newest[l] \in Nat
      BY <1>2, <1>3, ElementOfSeq
    <2>2. QED
      BY <2>1
  <1>5. newest' \in {newest, [newest EXCEPT ![l] = newest[l] + 1]}
    BY DEF Granted
  <1> HIDE DEF l
  <1>6. /\ newest' \in Seq(Nat) /\ Len(newest') = Len(newest)
        /\ \A i \in 1 .. Len(newest) : i # l => newest'[i] = newest[i]
    BY <1>2, <1>3, <1>4, <1>5, ExceptSeq
  <1>7. Rotated(p).login = l /\ Rotated(p).turn = newest'[l]
    BY <1>1 DEF Rotated, RefreshTokens, l
  <1>8. QED
    BY <1>2, <1>6, <1>7 DEF l

(* What a login does to them: it begins with turn 1 of a new one. *)
LEMMA LoginTurns ==
    ASSUME TokenTypes, LoginGranted
    PROVE  /\ Len(newest) \in Nat /\ Len(newest') = Len(newest) + 1
           /\ newest'[Len(newest) + 1] = 1
           /\ \A i \in 1 .. Len(newest) : newest'[i] = newest[i]
           /\ login'.access = minted + 1 /\ login'.refresh.login = Len(newest) + 1 /\ login'.refresh.turn = 1
  <1>1. newest \in Seq(Nat) /\ newest' = Append(newest, 1)
    BY DEF TokenTypes, LoginGranted
  <1>2. Len(newest) \in Nat /\ Len(newest') = Len(newest) + 1 /\ newest'[Len(newest) + 1] = 1
    BY <1>1, AppendProperties, LenProperties
  <1>3. \A i \in 1 .. Len(newest) : newest'[i] = newest[i]
    BY <1>1, AppendProperties
  <1>4. login' = [access |-> minted + 1, refresh |-> [login |-> Len(newest) + 1, turn |-> 1]]
    BY DEF LoginGranted
  <1>5. QED
    BY <1>2, <1>3, <1>4

-----------------------------------------------------------------------------
(* The parts of the invariant.                                             *)

(* Tokens, on both sides. *)
LEMMA TokenStep == CallTypes /\ TokenTypes /\ Known /\ [Next]_vars => TokenTypes'
  <1> SUFFICES ASSUME CallTypes, TokenTypes, Known, [Next]_vars
               PROVE  TokenTypes'
    OBVIOUS
  <1> USE ConstantsOK
         DEF vars, client, spotify, oauth, CallTypes, Callers, Commanders, Call, Grants, RefreshTokens,
             NoGrant, NoToken, TokenTypes, Known, Issued, At
  <1>1. ASSUME NEW p \in Callers, refresh(p)
        PROVE  TokenTypes'
    BY <1>1 DEF refresh
  <1>2. ASSUME NEW p \in Callers, Granted(p)
        PROVE  TokenTypes'
    <2>1. newest' \in Seq(Nat)
      BY <1>2, GrantedTurns
    <2>2. minted' = minted + 1 /\ good' = good \cup {minted + 1} /\ refreshMu' \in {None, refreshMu}
      BY <1>2 DEF Granted
    <2>3. UNCHANGED <<accessToken, refreshToken, life, saved, login>>
      BY <1>2 DEF Granted
    <2>4. QED
      BY <2>1, <2>2, <2>3
  <1>3. ASSUME NEW p \in Callers, Refused(p)
        PROVE  TokenTypes'
    BY <1>3 DEF Refused
  <1>4. ASSUME NEW p \in Callers, Store(p)
        PROVE  TokenTypes'
    BY <1>4 DEF Store
  <1>5. ASSUME LoginGranted
        PROVE  TokenTypes'
    BY <1>5 DEF LoginGranted
  <1>6. ASSUME ExchangeToken
        PROVE  TokenTypes'
    BY <1>6 DEF ExchangeToken
  <1>7. ASSUME LoginSaved
        PROVE  TokenTypes'
    BY <1>7 DEF LoginSaved
  <1>8. ASSUME Restart
        PROVE  TokenTypes'
    BY <1>8 DEF Restart
  <1>9. ASSUME Ages
        PROVE  TokenTypes'
    BY <1>9 DEF Ages
  <1>10. ASSUME NEW t \in good, Revoke(t)
        PROVE  TokenTypes'
    BY <1>10 DEF Revoke
  <1>11. CASE UNCHANGED <<accessToken, refreshToken, saved, login, newest, minted, good, life, refreshMu>>
    BY <1>11
  <1>12. QED
    BY <1>1, <1>2, <1>3, <1>4, <1>5, <1>6, <1>7, <1>8, <1>9, <1>10, <1>11
       DEF Next, Volume, Command, Refresh, onAdminSetVolume, fadeOutAndFinishDailyDouble, FadeStep,
           FadeEnds, runVolumeWriter, playerCommand, Answered, AfterRejection, Retry, ValidToken

(* Calls. *)
LEMMA CallStep == CallTypes /\ TokenTypes /\ TokenTypes' /\ Known /\ [Next]_vars => CallTypes'
  <1> SUFFICES ASSUME CallTypes, TokenTypes, TokenTypes', Known, [Next]_vars
               PROVE  CallTypes'
    OBVIOUS
  <1> USE ConstantsOK
         DEF vars, CallTypes
  <1>1. ASSUME runVolumeWriter
        PROVE  CallTypes'
    BY <1>1, runVolumeWriterMoves
  <1>2. ASSUME NEW p \in Commanders, playerCommand(p)
        PROVE  CallTypes'
    BY <1>2, playerCommandMoves
  <1>3. ASSUME NEW p \in Commanders, Answered(p)
        PROVE  CallTypes'
    BY <1>3, AnsweredMoves
  <1>4. ASSUME NEW p \in Commanders, AfterRejection(p)
        PROVE  CallTypes'
    BY <1>4, AfterRejectionMoves
  <1>5. ASSUME NEW p \in Commanders, Retry(p)
        PROVE  CallTypes'
    BY <1>5, RetryMoves
  <1>6. ASSUME NEW p \in Stages, ValidToken(p)
        PROVE  CallTypes'
    BY <1>6, ValidTokenMoves
  <1>7. ASSUME NEW p \in Callers, refresh(p)
        PROVE  CallTypes'
    BY <1>7, refreshMoves
  <1>8. ASSUME NEW p \in Callers, Granted(p)
        PROVE  CallTypes'
    BY <1>8, GrantedMoves
  <1>9. ASSUME NEW p \in Callers, Refused(p)
        PROVE  CallTypes'
    BY <1>9, RefusedMoves
  <1>10. ASSUME NEW p \in Callers, Store(p)
        PROVE  CallTypes'
    BY <1>10, StoreMoves
  <1>11. ASSUME Restart
        PROVE  CallTypes'
    BY <1>11, RestartMoves
  <1>12. CASE UNCHANGED <<calls>>
    BY <1>12
  <1>13. QED
    BY <1>1, <1>2, <1>3, <1>4, <1>5, <1>6, <1>7, <1>8, <1>9, <1>10, <1>11, <1>12
       DEF Next, Volume, Command, Refresh, onAdminSetVolume, fadeOutAndFinishDailyDouble, FadeStep,
           FadeEnds, LoginGranted, ExchangeToken, LoginSaved, Ages, Revoke

(* One grant at a time. *)
LEMMA ExclusiveStep ==
    CallTypes /\ TokenTypes /\ TokenTypes' /\ Known /\ Exclusive /\ [Next]_vars => Exclusive'
  <1> SUFFICES ASSUME CallTypes, TokenTypes, TokenTypes', Known, Exclusive, [Next]_vars
               PROVE  Exclusive'
    OBVIOUS
  <1>1. ASSUME runVolumeWriter
        PROVE  Exclusive'
    <2>1. UNCHANGED calls \/ (Only(Writer) /\ Sends(Writer, "sent"))
      BY <1>1, runVolumeWriterMoves
    <2>2. UNCHANGED refreshMu
      BY <1>1 DEF runVolumeWriter, client, spotify, oauth, volume, device, bounds
    <2>3. QED
      BY <2>1, <2>2, ConstantsOK
         DEF Exclusive, Only, Sends, Callers, Commanders
  <1>2. ASSUME NEW p \in Commanders, playerCommand(p)
        PROVE  Exclusive'
    <2>1. Only(p) /\ (Idles(p) \/ Sends(p, "sent"))
      BY <1>2, playerCommandMoves
    <2>2. UNCHANGED refreshMu
      BY <1>2 DEF playerCommand, client, spotify, oauth, volume, device, bounds
    <2>3. QED
      BY <2>1, <2>2, ConstantsOK
         DEF Exclusive, Only, Idles, Sends, Callers, Commanders
  <1>3. ASSUME NEW p \in Commanders, Answered(p)
        PROVE  Exclusive'
    <2>1. Only(p) /\ (Idles(p) \/ Rejects(p))
      BY <1>3, AnsweredMoves
    <2>2. UNCHANGED refreshMu
      BY <1>3 DEF Answered, client, spotify, oauth, volume, device, bounds
    <2>3. QED
      BY <2>1, <2>2, ConstantsOK
         DEF Exclusive, Only, Idles, Rejects, Callers, Commanders
  <1>4. ASSUME NEW p \in Commanders, AfterRejection(p)
        PROVE  Exclusive'
    <2>1. Only(p) /\ Locks(p)
      BY <1>4, AfterRejectionMoves
    <2>2. UNCHANGED refreshMu
      BY <1>4 DEF AfterRejection, client, spotify, oauth, volume, device, bounds
    <2>3. QED
      BY <2>1, <2>2, ConstantsOK
         DEF Exclusive, Only, Locks, Callers, Commanders
  <1>5. ASSUME NEW p \in Commanders, Retry(p)
        PROVE  Exclusive'
    <2>1. Only(p) /\ (Idles(p) \/ Sends(p, "resent"))
      BY <1>5, RetryMoves
    <2>2. UNCHANGED refreshMu
      BY <1>5 DEF Retry, client, spotify, oauth, volume, device, bounds
    <2>3. QED
      BY <2>1, <2>2, ConstantsOK
         DEF Exclusive, Only, Idles, Sends, Callers, Commanders
  <1>6. ASSUME NEW p \in Stages, ValidToken(p)
        PROVE  Exclusive'
    <2>1. Only(p) /\ Locks(p)
      BY <1>6, ValidTokenMoves
    <2>2. UNCHANGED refreshMu
      BY <1>6 DEF ValidToken, client, spotify, oauth, volume, device, bounds
    <2>3. QED
      BY <2>1, <2>2, ConstantsOK
         DEF Exclusive, Only, Locks, Callers, Commanders
  <1>7. ASSUME NEW p \in Callers, refresh(p)
        PROVE  Exclusive'
    <2>1. /\ Only(p)
          /\ \/ refreshMu' = refreshMu /\ (Idles(p) \/ Retries(p))
             \/ refreshMu = None /\ refreshMu' = p
      BY <1>7, refreshMoves
    <2>2. CASE refreshMu' = refreshMu /\ (Idles(p) \/ Retries(p))
      BY <2>1, <2>2 DEF Exclusive, Only, Idles, Retries
    <2>3. CASE refreshMu = None /\ refreshMu' = p
      <3>1. \A q \in Callers : calls[q].pc \notin {"posting", "in vain", "storing"}
        BY <2>3, ConstantsOK DEF Exclusive
      <3>2. QED
        BY <2>1, <2>3, <3>1 DEF Exclusive, Only
    <2>4. QED
      BY <2>1, <2>2, <2>3
  <1>8. ASSUME NEW p \in Callers, Granted(p)
        PROVE  Exclusive'
    <2>1. /\ Only(p)
          /\ \/ /\ newest' = newest
                /\ \/ refreshMu' = None /\ Idles(p)
                   \/ refreshMu' = refreshMu /\ Stores(p, NoToken)
             \/ /\ newest' = [newest EXCEPT ![calls[p].refresh.login] = @ + 1]
                /\ \/ refreshMu' = None /\ Idles(p) /\ spoiled'
                   \/ refreshMu' = refreshMu /\ Stores(p, Rotated(p))
      BY <1>8, GrantedMoves
    <2>2. calls[p].pc = "posting"
      BY <1>8 DEF Granted, client, spotify, oauth, volume, device, bounds, At
    <2>3. QED
      BY <2>1, <2>2, ConstantsOK
         DEF Exclusive, Only, Idles, Stores, Callers, Commanders
  <1>9. ASSUME NEW p \in Callers, Refused(p)
        PROVE  Exclusive'
    <2>1. Only(p) /\ Idles(p) /\ refreshMu' = None
      BY <1>9, RefusedMoves
    <2>2. calls[p].pc \in {"posting", "in vain"}
      BY <1>9 DEF Refused, client, spotify, oauth, volume, device, bounds, At
    <2>3. QED
      BY <2>1, <2>2, ConstantsOK
         DEF Exclusive, Only, Idles, Callers, Commanders
  <1>10. ASSUME NEW p \in Callers, Store(p)
        PROVE  Exclusive'
    <2>1. Only(p) /\ refreshMu' = None /\ (Idles(p) \/ (p \notin Stages /\ Retries(p)))
      BY <1>10, StoreMoves
    <2>2. calls[p].pc = "storing"
      BY <1>10 DEF Store, client, spotify, oauth, volume, device, bounds, At
    <2>3. QED
      BY <2>1, <2>2, ConstantsOK
         DEF Exclusive, Only, Idles, Retries, Callers, Commanders
  <1>11. ASSUME Restart
        PROVE  Exclusive'
    <2>1. \A p \in Callers : Idles(p)
      BY <1>11, RestartMoves
    <2>2. QED
      BY <2>1, ConstantsOK
         DEF Exclusive, Idles, Callers, Commanders
  <1>12. CASE UNCHANGED <<calls, refreshMu>>
    BY <1>12 DEF Exclusive
  <1>13. QED
    BY <1>1, <1>2, <1>3, <1>4, <1>5, <1>6, <1>7, <1>8, <1>9, <1>10, <1>11, <1>12
       DEF Next, Volume, Command, Refresh, vars, client, spotify, oauth, volume, device, bounds,
           onAdminSetVolume, fadeOutAndFinishDailyDouble, FadeStep, FadeEnds, LoginGranted, ExchangeToken,
           LoginSaved, Ages, Revoke

(* Every refresh token in the program was issued. *)
LEMMA KnownStep == CallTypes /\ TokenTypes /\ TokenTypes' /\ Known /\ [Next]_vars => Known'
  <1> SUFFICES ASSUME CallTypes, TokenTypes, TokenTypes', Known, [Next]_vars
               PROVE  Known'
    OBVIOUS
  <1>1. ASSUME runVolumeWriter
        PROVE  Known'
    <2>1. UNCHANGED calls \/ (Only(Writer) /\ Sends(Writer, "sent"))
      BY <1>1, runVolumeWriterMoves
    <2>2. UNCHANGED <<refreshToken, saved, login, newest>>
      BY <1>1 DEF runVolumeWriter, client, spotify, oauth, volume, device, bounds
    <2>3. QED
      BY <2>1, <2>2, ConstantsOK, IdleIsCall
         DEF Known, At, Only, Sends, Callers, Commanders, Issued
  <1>2. ASSUME NEW p \in Commanders, playerCommand(p)
        PROVE  Known'
    <2>1. Only(p) /\ (Idles(p) \/ Sends(p, "sent"))
      BY <1>2, playerCommandMoves
    <2>2. UNCHANGED <<refreshToken, saved, login, newest>>
      BY <1>2 DEF playerCommand, client, spotify, oauth, volume, device, bounds
    <2>3. QED
      BY <2>1, <2>2, ConstantsOK, IdleIsCall
         DEF Known, At, Only, Idles, Sends, Callers, Commanders, Issued
  <1>3. ASSUME NEW p \in Commanders, Answered(p)
        PROVE  Known'
    <2>1. Only(p) /\ (Idles(p) \/ Rejects(p))
      BY <1>3, AnsweredMoves
    <2>2. UNCHANGED <<refreshToken, saved, login, newest>>
      BY <1>3 DEF Answered, client, spotify, oauth, volume, device, bounds
    <2>3. QED
      BY <2>1, <2>2, ConstantsOK, IdleIsCall
         DEF Known, At, Only, Idles, Rejects, Callers, Commanders, Issued
  <1>4. ASSUME NEW p \in Commanders, AfterRejection(p)
        PROVE  Known'
    <2>1. Only(p) /\ Locks(p)
      BY <1>4, AfterRejectionMoves
    <2>2. UNCHANGED <<refreshToken, saved, login, newest>>
      BY <1>4 DEF AfterRejection, client, spotify, oauth, volume, device, bounds
    <2>3. QED
      BY <2>1, <2>2, ConstantsOK, IdleIsCall
         DEF Known, At, Only, Locks, Callers, Commanders, Issued
  <1>5. ASSUME NEW p \in Commanders, Retry(p)
        PROVE  Known'
    <2>1. Only(p) /\ (Idles(p) \/ Sends(p, "resent"))
      BY <1>5, RetryMoves
    <2>2. UNCHANGED <<refreshToken, saved, login, newest>>
      BY <1>5 DEF Retry, client, spotify, oauth, volume, device, bounds
    <2>3. QED
      BY <2>1, <2>2, ConstantsOK, IdleIsCall
         DEF Known, At, Only, Idles, Sends, Callers, Commanders, Issued
  <1>6. ASSUME NEW p \in Stages, ValidToken(p)
        PROVE  Known'
    <2>1. Only(p) /\ Locks(p)
      BY <1>6, ValidTokenMoves
    <2>2. UNCHANGED <<refreshToken, saved, login, newest>>
      BY <1>6 DEF ValidToken, client, spotify, oauth, volume, device, bounds
    <2>3. QED
      BY <2>1, <2>2, ConstantsOK, IdleIsCall
         DEF Known, At, Only, Locks, Callers, Commanders, Issued
  <1>7. ASSUME NEW p \in Callers, refresh(p)
        PROVE  Known'
    <2>1. /\ Only(p)
          /\ \/ refreshMu' = refreshMu /\ (Idles(p) \/ (p \notin Stages /\ Spared(p) /\ Retries(p)))
             \/ refreshMu = None /\ refreshMu' = p /\ Posts(p) /\ (calls'[p].pc = "posting" => Valid(refreshToken))
      BY <1>7, refreshMoves
    <2>2. UNCHANGED <<refreshToken, saved, login, newest>>
      BY <1>7 DEF refresh, client, spotify, oauth, volume, device, bounds
    <2>3. QED
      BY <2>1, <2>2, ConstantsOK, IdleIsCall
         DEF Known, At, Only, Idles, Posts, Retries, Callers, Commanders, Issued
  <1>8. ASSUME NEW p \in Callers, Granted(p)
        PROVE  Known'
    <2>1. Only(p) /\ (Idles(p) \/ Stores(p, NoToken) \/ Stores(p, Rotated(p)))
      BY <1>8, GrantedMoves
    <2>2. UNCHANGED <<refreshToken, saved, login>>
      BY <1>8 DEF Granted, client, oauth
    <2>3. Len(newest') = Len(newest) /\ Rotated(p).login \in 1 .. Len(newest)
      BY <1>8, GrantedTurns
    <2>4. QED
      BY <2>1, <2>2, <2>3 DEF Known, Issued, At, Only, Idles, Stores
  <1>9. ASSUME NEW p \in Callers, Refused(p)
        PROVE  Known'
    <2>1. Only(p) /\ Idles(p) /\ refreshMu' = None
      BY <1>9, RefusedMoves
    <2>2. UNCHANGED <<refreshToken, saved, login, newest>>
      BY <1>9 DEF Refused, client, spotify, oauth, volume, device, bounds
    <2>3. QED
      BY <2>1, <2>2, ConstantsOK, IdleIsCall
         DEF Known, At, Only, Idles, Callers, Commanders, Issued
  <1>10. ASSUME NEW p \in Callers, Store(p)
        PROVE  Known'
    <2>1. Only(p) /\ refreshMu' = None /\ (Idles(p) \/ (p \notin Stages /\ Retries(p)))
      BY <1>10, StoreMoves
    <2>2. UNCHANGED <<saved, login, newest>> /\ (refreshToken' = refreshToken \/ refreshToken' = calls[p].got.refresh)
      BY <1>10 DEF Store, client, spotify, oauth, volume, device, bounds
    <2>3. QED
      BY <2>1, <2>2, ConstantsOK, IdleIsCall
         DEF Known, At, Only, Idles, Retries, Callers, Commanders, Issued
  <1>11. ASSUME LoginGranted
        PROVE  Known'
    BY <1>11, ConstantsOK, IdleIsCall
       DEF LoginGranted, client, spotify, oauth, volume, device, bounds, Known, At, Issued
  <1>12. ASSUME ExchangeToken
        PROVE  Known'
    BY <1>12, ConstantsOK, IdleIsCall
       DEF ExchangeToken, client, spotify, oauth, volume, device, bounds, Known, At, Issued
  <1>13. ASSUME LoginSaved
        PROVE  Known'
    BY <1>13, ConstantsOK, IdleIsCall
       DEF LoginSaved, client, spotify, oauth, volume, device, bounds, Known, At, Issued
  <1>14. ASSUME Restart
        PROVE  Known'
    <2>1. \A p \in Callers : Idles(p)
      BY <1>14, RestartMoves
    <2>2. UNCHANGED <<saved, newest>> /\ refreshToken' = saved /\ login' = NoGrant
      BY <1>14 DEF Restart, client, spotify, oauth, volume, device, bounds
    <2>3. QED
      BY <2>1, <2>2, ConstantsOK, IdleIsCall
         DEF Known, At, Idles, Callers, Commanders, Issued
  <1>15. CASE UNCHANGED <<calls, refreshToken, saved, login, newest>>
    BY <1>15 DEF Known, At, Issued
  <1>16. QED
    BY <1>1, <1>2, <1>3, <1>4, <1>5, <1>6, <1>7, <1>8, <1>9, <1>10, <1>11, <1>12, <1>13, <1>14, <1>15
       DEF Next, Volume, Command, Refresh, vars, client, spotify, oauth, volume, device, bounds,
           onAdminSetVolume, fadeOutAndFinishDailyDouble, FadeStep, FadeEnds, Ages, Revoke

(* A login that is not stored yet has its refresh token for itself. *)
LEMMA PendingStep ==
    CallTypes /\ CallTypes' /\ TokenTypes /\ TokenTypes' /\ Known /\ LoginPending /\ [Next]_vars => LoginPending'
  <1> SUFFICES ASSUME CallTypes, CallTypes', TokenTypes, TokenTypes', Known, LoginPending, [Next]_vars
               PROVE  LoginPending'
    OBVIOUS
  <1>1. ASSUME runVolumeWriter
        PROVE  LoginPending'
    <2>1. UNCHANGED calls \/ (Only(Writer) /\ Sends(Writer, "sent"))
      BY <1>1, runVolumeWriterMoves
    <2>2. UNCHANGED <<refreshToken, saved, login, newest>>
      BY <1>1 DEF runVolumeWriter, client, spotify, oauth, volume, device, bounds
    <2>3. QED
      BY <2>1, <2>2, ConstantsOK, NoFields
         DEF LoginPending, Older, Only, Sends, Callers, Commanders
  <1>2. ASSUME NEW p \in Commanders, playerCommand(p)
        PROVE  LoginPending'
    <2>1. Only(p) /\ (Idles(p) \/ Sends(p, "sent"))
      BY <1>2, playerCommandMoves
    <2>2. UNCHANGED <<refreshToken, saved, login, newest>>
      BY <1>2 DEF playerCommand, client, spotify, oauth, volume, device, bounds
    <2>3. QED
      BY <2>1, <2>2, ConstantsOK, NoFields
         DEF LoginPending, Older, Only, Idles, Sends, Callers, Commanders
  <1>3. ASSUME NEW p \in Commanders, Answered(p)
        PROVE  LoginPending'
    <2>1. Only(p) /\ (Idles(p) \/ Rejects(p))
      BY <1>3, AnsweredMoves
    <2>2. UNCHANGED <<refreshToken, saved, login, newest>>
      BY <1>3 DEF Answered, client, spotify, oauth, volume, device, bounds
    <2>3. QED
      BY <2>1, <2>2, ConstantsOK, NoFields
         DEF LoginPending, Older, Only, Idles, Rejects, Callers, Commanders
  <1>4. ASSUME NEW p \in Commanders, AfterRejection(p)
        PROVE  LoginPending'
    <2>1. Only(p) /\ Locks(p)
      BY <1>4, AfterRejectionMoves
    <2>2. UNCHANGED <<refreshToken, saved, login, newest>>
      BY <1>4 DEF AfterRejection, client, spotify, oauth, volume, device, bounds
    <2>3. QED
      BY <2>1, <2>2, ConstantsOK, NoFields
         DEF LoginPending, Older, Only, Locks, Callers, Commanders
  <1>5. ASSUME NEW p \in Commanders, Retry(p)
        PROVE  LoginPending'
    <2>1. Only(p) /\ (Idles(p) \/ Sends(p, "resent"))
      BY <1>5, RetryMoves
    <2>2. UNCHANGED <<refreshToken, saved, login, newest>>
      BY <1>5 DEF Retry, client, spotify, oauth, volume, device, bounds
    <2>3. QED
      BY <2>1, <2>2, ConstantsOK, NoFields
         DEF LoginPending, Older, Only, Idles, Sends, Callers, Commanders
  <1>6. ASSUME NEW p \in Stages, ValidToken(p)
        PROVE  LoginPending'
    <2>1. Only(p) /\ Locks(p)
      BY <1>6, ValidTokenMoves
    <2>2. UNCHANGED <<refreshToken, saved, login, newest>>
      BY <1>6 DEF ValidToken, client, spotify, oauth, volume, device, bounds
    <2>3. QED
      BY <2>1, <2>2, ConstantsOK, NoFields
         DEF LoginPending, Older, Only, Locks, Callers, Commanders
  <1>7. ASSUME NEW p \in Callers, refresh(p)
        PROVE  LoginPending'
    <2>1. /\ Only(p)
          /\ \/ refreshMu' = refreshMu /\ (Idles(p) \/ (p \notin Stages /\ Spared(p) /\ Retries(p)))
             \/ refreshMu = None /\ refreshMu' = p /\ Posts(p) /\ (calls'[p].pc = "posting" => Valid(refreshToken))
      BY <1>7, refreshMoves
    <2>2. UNCHANGED <<refreshToken, saved, login, newest>>
      BY <1>7 DEF refresh, client, spotify, oauth, volume, device, bounds
    <2>3. QED
      BY <2>1, <2>2, ConstantsOK, NoFields
         DEF LoginPending, Older, Only, Idles, Posts, Retries, Callers, Commanders
  <1>8. ASSUME NEW p \in Callers, Granted(p)
        PROVE  LoginPending'
    <2>1. Only(p) /\ (Idles(p) \/ Stores(p, NoToken) \/ Stores(p, Rotated(p)))
      BY <1>8, GrantedMoves
    <2>2. UNCHANGED <<refreshToken, saved, login>>
      BY <1>8 DEF Granted, client, oauth
    <2>3. /\ calls[p].refresh.login \in 1 .. Len(newest)
          /\ Len(newest') = Len(newest) /\ Rotated(p).login = calls[p].refresh.login
          /\ \A i \in 1 .. Len(newest) : i # calls[p].refresh.login => newest'[i] = newest[i]
      BY <1>8, GrantedTurns
    <2>4. SUFFICES ASSUME login'.access # 0
                   PROVE  LoginPending'
      BY DEF LoginPending
    <2>5. /\ Len(newest) > 0 /\ login.refresh.login = Len(newest) /\ login.refresh.turn = newest[Len(newest)]
          /\ Older(refreshToken) /\ Older(saved)
          /\ \A q \in Callers : Older(calls[q].refresh) /\ Older(calls[q].got.refresh)
      BY <2>2, <2>4 DEF LoginPending
    <2>6. newest'[Len(newest)] = newest[Len(newest)]
      BY <2>3, <2>5 DEF Older
    <2>7. ASSUME NEW q \in Callers
          PROVE  Older(calls'[q].refresh) /\ Older(calls'[q].got.refresh)
      <3>1. CASE q # p
        BY <2>1, <2>5, <3>1 DEF Only, Older
      <3>2. CASE q = p
        <4>1. Older(NoToken) /\ Older(Rotated(p))
          BY <2>3, <2>5, NoFields DEF Older
        <4>2. QED
          BY <2>1, <2>5, <3>2, <4>1 DEF Idles, Stores
      <3>3. QED
        BY <3>1, <3>2
    <2>8. QED
      BY <2>2, <2>3, <2>5, <2>6, <2>7 DEF LoginPending, Older
  <1>9. ASSUME NEW p \in Callers, Refused(p)
        PROVE  LoginPending'
    <2>1. Only(p) /\ Idles(p) /\ refreshMu' = None
      BY <1>9, RefusedMoves
    <2>2. UNCHANGED <<refreshToken, saved, login, newest>>
      BY <1>9 DEF Refused, client, spotify, oauth, volume, device, bounds
    <2>3. QED
      BY <2>1, <2>2, ConstantsOK, NoFields
         DEF LoginPending, Older, Only, Idles, Callers, Commanders
  <1>10. ASSUME NEW p \in Callers, Store(p)
        PROVE  LoginPending'
    <2>1. Only(p) /\ refreshMu' = None /\ (Idles(p) \/ (p \notin Stages /\ Retries(p)))
      BY <1>10, StoreMoves
    <2>2. UNCHANGED <<saved, login, newest>> /\ (refreshToken' = refreshToken \/ refreshToken' = calls[p].got.refresh)
      BY <1>10 DEF Store, client, spotify, oauth, volume, device, bounds
    <2>3. QED
      BY <2>1, <2>2, ConstantsOK, NoFields
         DEF LoginPending, Older, Only, Idles, Retries, Callers, Commanders
  <1>11. ASSUME LoginGranted
        PROVE  LoginPending'
    <2>1. UNCHANGED <<refreshToken, saved, calls>>
      BY <1>11 DEF LoginGranted, client
    <2>2. QED
      BY <1>11, <2>1, LoginTurns, NoFields DEF LoginPending, Older, Known, Issued
  <1>12. ASSUME ExchangeToken
        PROVE  LoginPending'
    BY <1>12, ConstantsOK, NoFields
       DEF ExchangeToken, client, spotify, oauth, volume, device, bounds, LoginPending, Older
  <1>13. ASSUME LoginSaved
        PROVE  LoginPending'
    BY <1>13, ConstantsOK, NoFields
       DEF LoginSaved, client, spotify, oauth, volume, device, bounds, LoginPending, Older
  <1>14. ASSUME Restart
        PROVE  LoginPending'
    <2>1. \A p \in Callers : Idles(p)
      BY <1>14, RestartMoves
    <2>2. UNCHANGED <<saved, newest>> /\ login' = NoGrant
      BY <1>14 DEF Restart, client, spotify, oauth, volume, device, bounds
    <2>3. QED
      BY <2>1, <2>2, ConstantsOK, NoFields
         DEF LoginPending, Older, Idles, Callers, Commanders
  <1>15. CASE UNCHANGED <<calls, refreshToken, saved, login, newest>>
    BY <1>15 DEF LoginPending, Older
  <1>16. QED
    BY <1>1, <1>2, <1>3, <1>4, <1>5, <1>6, <1>7, <1>8, <1>9, <1>10, <1>11, <1>12, <1>13, <1>14, <1>15
       DEF Next, Volume, Command, Refresh, vars, client, spotify, oauth, volume, device, bounds,
           onAdminSetVolume, fadeOutAndFinishDailyDouble, FadeStep, FadeEnds, Ages, Revoke

(* Flags. *)
LEMMA FlagStep == FlagTypes /\ [Next]_vars => FlagTypes'
  <1> SUFFICES ASSUME FlagTypes, [Next]_vars
               PROVE  FlagTypes'
    OBVIOUS
  <1> USE ConstantsOK
         DEF vars, volume, device, sendVolume, Returns, doPlayer, Refreshed, FlagTypes
  <1>1. ASSUME NEW pct \in Percents, onAdminSetVolume(pct)
        PROVE  FlagTypes'
    BY <1>1 DEF onAdminSetVolume
  <1>2. ASSUME NEW f \in fades, FadeStep(f)
        PROVE  FlagTypes'
    BY <1>2 DEF FadeStep
  <1>3. ASSUME NEW f \in fades, FadeEnds(f)
        PROVE  FlagTypes'
    BY <1>3 DEF FadeEnds
  <1>4. ASSUME runVolumeWriter
        PROVE  FlagTypes'
    BY <1>4 DEF runVolumeWriter
  <1>5. ASSUME NEW p \in Commanders, playerCommand(p)
        PROVE  FlagTypes'
    BY <1>5 DEF playerCommand
  <1>6. ASSUME NEW p \in Commanders, Answered(p)
        PROVE  FlagTypes'
    BY <1>6 DEF Answered
  <1>7. ASSUME NEW p \in Commanders, Retry(p)
        PROVE  FlagTypes'
    BY <1>7 DEF Retry
  <1>8. ASSUME NEW p \in Callers, refresh(p)
        PROVE  FlagTypes'
    BY <1>8 DEF refresh
  <1>9. ASSUME NEW p \in Callers, Granted(p)
        PROVE  FlagTypes'
    BY <1>9 DEF Granted
  <1>10. ASSUME NEW p \in Callers, Refused(p)
        PROVE  FlagTypes'
    BY <1>10 DEF Refused
  <1>11. ASSUME NEW p \in Callers, Store(p)
        PROVE  FlagTypes'
    BY <1>11 DEF Store
  <1>12. ASSUME ExchangeToken
        PROVE  FlagTypes'
    BY <1>12 DEF ExchangeToken
  <1>13. ASSUME Restart
        PROVE  FlagTypes'
    BY <1>13 DEF Restart
  <1>14. CASE UNCHANGED <<spoiled, unasked, failed>>
    BY <1>14
  <1>15. QED
    BY <1>1, <1>2, <1>3, <1>4, <1>5, <1>6, <1>7, <1>8, <1>9, <1>10, <1>11, <1>12, <1>13, <1>14
       DEF Next, Volume, Command, Refresh, fadeOutAndFinishDailyDouble, AfterRejection, ValidToken,
           LoginGranted, LoginSaved, Ages, Revoke

(* Rotated tokens on their way are the newest: one grant at a time. *)
LEMMA GotStep ==
    CallTypes /\ TokenTypes /\ TokenTypes' /\ Known /\ Exclusive /\ GotValid /\ [Next]_vars => GotValid'
  <1> SUFFICES ASSUME CallTypes, TokenTypes, TokenTypes', Known, Exclusive, GotValid, [Next]_vars
               PROVE  GotValid'
    OBVIOUS
  <1>1. ASSUME runVolumeWriter
        PROVE  GotValid'
    <2>1. UNCHANGED calls \/ (Only(Writer) /\ Sends(Writer, "sent"))
      BY <1>1, runVolumeWriterMoves
    <2>2. UNCHANGED newest /\ calls[Writer].pc = "idle"
      BY <1>1 DEF runVolumeWriter, client, spotify, oauth, volume, device, bounds, At
    <2>3. QED
      BY <2>1, <2>2, ConstantsOK
         DEF GotValid, Valid, At, Only, Sends, Callers, Commanders
  <1>2. ASSUME NEW p \in Commanders, playerCommand(p)
        PROVE  GotValid'
    <2>1. Only(p) /\ (Idles(p) \/ Sends(p, "sent"))
      BY <1>2, playerCommandMoves
    <2>2. UNCHANGED newest /\ calls[p].pc # "storing"
      BY <1>2 DEF playerCommand, client, spotify, oauth, volume, device, bounds, At
    <2>3. QED
      BY <2>1, <2>2, ConstantsOK
         DEF GotValid, Valid, At, Only, Idles, Sends, Callers, Commanders
  <1>3. ASSUME NEW p \in Commanders, Answered(p)
        PROVE  GotValid'
    <2>1. Only(p) /\ (Idles(p) \/ Rejects(p))
      BY <1>3, AnsweredMoves
    <2>2. UNCHANGED newest /\ calls[p].pc # "storing"
      BY <1>3 DEF Answered, client, spotify, oauth, volume, device, bounds, At
    <2>3. QED
      BY <2>1, <2>2, ConstantsOK
         DEF GotValid, Valid, At, Only, Idles, Rejects, Callers, Commanders
  <1>4. ASSUME NEW p \in Commanders, AfterRejection(p)
        PROVE  GotValid'
    <2>1. Only(p) /\ Locks(p)
      BY <1>4, AfterRejectionMoves
    <2>2. UNCHANGED newest /\ calls[p].pc # "storing"
      BY <1>4 DEF AfterRejection, client, spotify, oauth, volume, device, bounds, At
    <2>3. QED
      BY <2>1, <2>2, ConstantsOK
         DEF GotValid, Valid, At, Only, Locks, Callers, Commanders
  <1>5. ASSUME NEW p \in Commanders, Retry(p)
        PROVE  GotValid'
    <2>1. Only(p) /\ (Idles(p) \/ Sends(p, "resent"))
      BY <1>5, RetryMoves
    <2>2. UNCHANGED newest /\ calls[p].pc # "storing"
      BY <1>5 DEF Retry, client, spotify, oauth, volume, device, bounds, At
    <2>3. QED
      BY <2>1, <2>2, ConstantsOK
         DEF GotValid, Valid, At, Only, Idles, Sends, Callers, Commanders
  <1>6. ASSUME NEW p \in Stages, ValidToken(p)
        PROVE  GotValid'
    <2>1. Only(p) /\ Locks(p)
      BY <1>6, ValidTokenMoves
    <2>2. UNCHANGED newest /\ calls[p].pc # "storing"
      BY <1>6 DEF ValidToken, client, spotify, oauth, volume, device, bounds, At
    <2>3. QED
      BY <2>1, <2>2, ConstantsOK
         DEF GotValid, Valid, At, Only, Locks, Callers, Commanders
  <1>7. ASSUME NEW p \in Callers, refresh(p)
        PROVE  GotValid'
    <2>1. /\ Only(p)
          /\ \/ refreshMu' = refreshMu /\ (Idles(p) \/ (p \notin Stages /\ Spared(p) /\ Retries(p)))
             \/ refreshMu = None /\ refreshMu' = p /\ Posts(p) /\ (calls'[p].pc = "posting" => Valid(refreshToken))
      BY <1>7, refreshMoves
    <2>2. UNCHANGED newest /\ calls[p].pc # "storing"
      BY <1>7 DEF refresh, client, spotify, oauth, volume, device, bounds, At
    <2>3. QED
      BY <2>1, <2>2, ConstantsOK
         DEF GotValid, Valid, At, Only, Idles, Posts, Retries, Callers, Commanders
  <1>8. ASSUME NEW p \in Callers, Granted(p)
        PROVE  GotValid'
    <2>1. /\ Only(p)
          /\ \/ newest' = newest /\ (Idles(p) \/ Stores(p, NoToken))
             \/ Idles(p) /\ spoiled'
             \/ Stores(p, Rotated(p))
      BY <1>8, GrantedMoves
    <2>2. UNCHANGED refreshToken /\ calls[p].pc = "posting" /\ (spoiled => spoiled')
      BY <1>8 DEF Granted, At, Refreshed, Returns
    <2>3. \A q \in Callers \ {p} : ~At(q, "storing") /\ calls'[q] = calls[q]
      BY <2>1, <2>2 DEF Exclusive, Only, At
    <2>4. Rotated(p) # NoToken /\ newest'[Rotated(p).login] = Rotated(p).turn
      BY <1>8, GrantedTurns, NoFields
    <2>5. calls'[p].got.refresh = NoToken \/ calls'[p].got.refresh = Rotated(p)
      BY <2>1 DEF Idles, Stores
    <2>6. QED
      BY <2>3, <2>4, <2>5 DEF GotValid, Valid, At
  <1>9. ASSUME NEW p \in Callers, Refused(p)
        PROVE  GotValid'
    <2>1. Only(p) /\ Idles(p) /\ refreshMu' = None
      BY <1>9, RefusedMoves
    <2>2. UNCHANGED newest /\ calls[p].pc # "storing"
      BY <1>9 DEF Refused, client, spotify, oauth, volume, device, bounds, At
    <2>3. QED
      BY <2>1, <2>2, ConstantsOK
         DEF GotValid, Valid, At, Only, Idles, Callers, Commanders
  <1>10. ASSUME NEW p \in Callers, Store(p)
        PROVE  GotValid'
    <2>1. Only(p) /\ refreshMu' = None /\ (Idles(p) \/ (p \notin Stages /\ Retries(p)))
      BY <1>10, StoreMoves
    <2>2. UNCHANGED newest /\ calls[p].pc = "storing"
      BY <1>10 DEF Store, client, spotify, oauth, volume, device, bounds, At
    <2>3. QED
      BY <2>1, <2>2, ConstantsOK
         DEF GotValid, Valid, At, Only, Idles, Retries, Callers, Commanders
  <1>11. ASSUME LoginGranted
        PROVE  GotValid'
    <2>1. UNCHANGED calls
      BY <1>11 DEF LoginGranted
    <2>2. QED
      BY <1>11, <2>1, LoginTurns DEF GotValid, Valid, At, Known, Issued
  <1>12. ASSUME Restart
        PROVE  GotValid'
    <2>1. \A p \in Callers : Idles(p)
      BY <1>12, RestartMoves
    <2>2. UNCHANGED newest
      BY <1>12 DEF Restart, client, spotify, oauth, volume, device, bounds
    <2>3. QED
      BY <2>1, <2>2, ConstantsOK
         DEF GotValid, Valid, At, Idles, Callers, Commanders
  <1>13. CASE UNCHANGED <<calls, newest>>
    BY <1>13 DEF GotValid, Valid, At
  <1>14. QED
    BY <1>1, <1>2, <1>3, <1>4, <1>5, <1>6, <1>7, <1>8, <1>9, <1>10, <1>11, <1>12, <1>13
       DEF Next, Volume, Command, Refresh, vars, client, spotify, oauth, volume, device, bounds,
           onAdminSetVolume, fadeOutAndFinishDailyDouble, FadeStep, FadeEnds, ExchangeToken, LoginSaved,
           Ages, Revoke

(* Tokens that work. *)
LEMMA WorksStep ==
    CallTypes /\ TokenTypes /\ TokenTypes' /\ Known /\ Exclusive /\ LoginPending /\ GotValid /\ WorksInv /\ [Next]_vars => WorksInv'
  <1> SUFFICES ASSUME CallTypes, TokenTypes, TokenTypes', Known, Exclusive, LoginPending, GotValid, WorksInv, [Next]_vars
               PROVE  WorksInv'
    OBVIOUS
  <1>1. ASSUME runVolumeWriter
        PROVE  WorksInv'
    <2>1. UNCHANGED calls \/ (Only(Writer) /\ Sends(Writer, "sent"))
      BY <1>1, runVolumeWriterMoves
    <2>2. UNCHANGED <<refreshToken, newest, spoiled>> /\ calls[Writer].pc = "idle"
      BY <1>1 DEF runVolumeWriter, client, spotify, oauth, volume, device, bounds, At
    <2>3. QED
      BY <2>1, <2>2, ConstantsOK
         DEF WorksInv, Valid, At, Only, Sends, Callers, Commanders
  <1>2. ASSUME NEW p \in Commanders, playerCommand(p)
        PROVE  WorksInv'
    <2>1. Only(p) /\ (Idles(p) \/ Sends(p, "sent"))
      BY <1>2, playerCommandMoves
    <2>2. UNCHANGED <<refreshToken, newest, spoiled>> /\ calls[p].pc # "storing"
      BY <1>2 DEF playerCommand, client, spotify, oauth, volume, device, bounds, At
    <2>3. QED
      BY <2>1, <2>2, ConstantsOK
         DEF WorksInv, Valid, At, Only, Idles, Sends, Callers, Commanders
  <1>3. ASSUME NEW p \in Commanders, Answered(p)
        PROVE  WorksInv'
    <2>1. Only(p) /\ (Idles(p) \/ Rejects(p))
      BY <1>3, AnsweredMoves
    <2>2. UNCHANGED <<refreshToken, newest, spoiled>> /\ calls[p].pc # "storing"
      BY <1>3 DEF Answered, client, spotify, oauth, volume, device, bounds, At
    <2>3. QED
      BY <2>1, <2>2, ConstantsOK
         DEF WorksInv, Valid, At, Only, Idles, Rejects, Callers, Commanders
  <1>4. ASSUME NEW p \in Commanders, AfterRejection(p)
        PROVE  WorksInv'
    <2>1. Only(p) /\ Locks(p)
      BY <1>4, AfterRejectionMoves
    <2>2. UNCHANGED <<refreshToken, newest, spoiled>> /\ calls[p].pc # "storing"
      BY <1>4 DEF AfterRejection, client, spotify, oauth, volume, device, bounds, At
    <2>3. QED
      BY <2>1, <2>2, ConstantsOK
         DEF WorksInv, Valid, At, Only, Locks, Callers, Commanders
  <1>5. ASSUME NEW p \in Commanders, Retry(p)
        PROVE  WorksInv'
    <2>1. Only(p) /\ (Idles(p) \/ Sends(p, "resent"))
      BY <1>5, RetryMoves
    <2>2. UNCHANGED <<refreshToken, newest, spoiled>> /\ calls[p].pc # "storing"
      BY <1>5 DEF Retry, client, spotify, oauth, volume, device, bounds, At
    <2>3. QED
      BY <2>1, <2>2, ConstantsOK
         DEF WorksInv, Valid, At, Only, Idles, Sends, Callers, Commanders
  <1>6. ASSUME NEW p \in Stages, ValidToken(p)
        PROVE  WorksInv'
    <2>1. Only(p) /\ Locks(p)
      BY <1>6, ValidTokenMoves
    <2>2. UNCHANGED <<refreshToken, newest, spoiled>> /\ calls[p].pc # "storing"
      BY <1>6 DEF ValidToken, client, spotify, oauth, volume, device, bounds, At
    <2>3. QED
      BY <2>1, <2>2, ConstantsOK
         DEF WorksInv, Valid, At, Only, Locks, Callers, Commanders
  <1>7. ASSUME NEW p \in Callers, refresh(p)
        PROVE  WorksInv'
    <2>1. /\ Only(p)
          /\ \/ refreshMu' = refreshMu /\ (Idles(p) \/ (p \notin Stages /\ Spared(p) /\ Retries(p)))
             \/ refreshMu = None /\ refreshMu' = p /\ Posts(p) /\ (calls'[p].pc = "posting" => Valid(refreshToken))
      BY <1>7, refreshMoves
    <2>2. UNCHANGED <<refreshToken, newest, spoiled>> /\ calls[p].pc # "storing"
      BY <1>7 DEF refresh, client, spotify, oauth, volume, device, bounds, At
    <2>3. QED
      BY <2>1, <2>2, ConstantsOK
         DEF WorksInv, Valid, At, Only, Idles, Posts, Retries, Callers, Commanders
  <1>8. ASSUME NEW p \in Callers, Granted(p)
        PROVE  WorksInv'
    <2>1. /\ Only(p)
          /\ \/ newest' = newest /\ (Idles(p) \/ Stores(p, NoToken))
             \/ Idles(p) /\ spoiled'
             \/ Stores(p, Rotated(p))
      BY <1>8, GrantedMoves
    <2>2. UNCHANGED refreshToken /\ calls[p].pc = "posting" /\ (spoiled => spoiled')
      BY <1>8 DEF Granted, At, Refreshed, Returns
    <2>3. \A q \in Callers \ {p} : ~At(q, "storing") /\ calls'[q] = calls[q]
      BY <2>1, <2>2 DEF Exclusive, Only, At
    <2>4. Rotated(p) # NoToken
      BY <1>8, GrantedTurns, NoFields
    <2>5. CASE newest' = newest
      BY <2>2, <2>3, <2>5 DEF WorksInv, Valid, At
    <2>6. CASE Idles(p) /\ spoiled'
      BY <2>6 DEF WorksInv
    <2>7. CASE Stores(p, Rotated(p))
      BY <2>4, <2>7 DEF WorksInv, At, Stores
    <2>8. QED
      BY <2>1, <2>5, <2>6, <2>7
  <1>9. ASSUME NEW p \in Callers, Refused(p)
        PROVE  WorksInv'
    <2>1. Only(p) /\ Idles(p) /\ refreshMu' = None
      BY <1>9, RefusedMoves
    <2>2. UNCHANGED <<refreshToken, newest, spoiled>> /\ calls[p].pc # "storing"
      BY <1>9 DEF Refused, client, spotify, oauth, volume, device, bounds, At
    <2>3. QED
      BY <2>1, <2>2, ConstantsOK
         DEF WorksInv, Valid, At, Only, Idles, Callers, Commanders
  <1>10. ASSUME NEW p \in Callers, Store(p)
        PROVE  WorksInv'
    <2>1. /\ calls[p].pc = "storing" /\ UNCHANGED <<newest, spoiled>>
          /\ refreshToken' = IF calls[p].got.refresh = NoToken THEN refreshToken ELSE calls[p].got.refresh
      BY <1>10 DEF Store, At, spotify
    <2>2. \A q \in Callers \ {p} : ~At(q, "storing")
      BY <2>1 DEF Exclusive, At
    <2>3. calls[p].got.refresh # NoToken => Valid(calls[p].got.refresh)
      BY <2>1 DEF GotValid, At
    <2>4. QED
      BY <2>1, <2>2, <2>3 DEF WorksInv, Valid, At
  <1>11. ASSUME LoginGranted
        PROVE  WorksInv'
    <2>1. UNCHANGED <<calls, refreshToken, spoiled>>
      BY <1>11 DEF LoginGranted, client
    <2>2. QED
      BY <1>11, <2>1, LoginTurns DEF WorksInv, Valid, At, Known, Issued
  <1>12. ASSUME ExchangeToken
        PROVE  WorksInv'
    <2>1. login.access # 0 /\ refreshToken' = login.refresh /\ UNCHANGED newest
      BY <1>12 DEF ExchangeToken, spotify
    <2>2. Valid(login.refresh)
      BY <2>1, NoFields DEF LoginPending, Valid
    <2>3. QED
      BY <2>1, <2>2 DEF WorksInv, Valid
  <1>13. ASSUME Restart
        PROVE  WorksInv'
    <2>1. refreshToken' = saved /\ newest' = newest /\ spoiled' = (saved # NoToken /\ ~Valid(saved))
      BY <1>13 DEF Restart, spotify
    <2>2. QED
      BY <2>1 DEF WorksInv, Valid
  <1>14. CASE UNCHANGED <<calls, refreshToken, newest, spoiled>>
    BY <1>14 DEF WorksInv, Valid, At
  <1>15. QED
    BY <1>1, <1>2, <1>3, <1>4, <1>5, <1>6, <1>7, <1>8, <1>9, <1>10, <1>11, <1>12, <1>13, <1>14
       DEF Next, Volume, Command, Refresh, vars, client, spotify, oauth, volume, device, bounds,
           onAdminSetVolume, fadeOutAndFinishDailyDouble, FadeStep, FadeEnds, LoginSaved, Ages, Revoke

(* Zero is never a number of a token. *)
LEMMA MintedNat == TokenTypes => 0 <= minted
  BY DEF TokenTypes

(* Numbers of access tokens. *)
LEMMA MintedStep ==
    CallTypes /\ CallTypes' /\ TokenTypes /\ TokenTypes' /\ Known /\ Exclusive /\ MintedInv /\ [Next]_vars => MintedInv'
  <1> SUFFICES ASSUME CallTypes, CallTypes', TokenTypes, TokenTypes', Known, Exclusive, MintedInv, [Next]_vars
               PROVE  MintedInv'
    OBVIOUS
  <1>1. ASSUME runVolumeWriter
        PROVE  MintedInv'
    <2>1. UNCHANGED calls \/ (Only(Writer) /\ Sends(Writer, "sent"))
      BY <1>1, runVolumeWriterMoves
    <2>2. UNCHANGED <<accessToken, login, minted>> /\ calls[Writer].pc = "idle"
      BY <1>1 DEF runVolumeWriter, client, spotify, oauth, volume, device, bounds, At
    <2>3. QED
      BY <2>1, <2>2, ConstantsOK, MintedNat, NoFields
         DEF MintedInv, At, Only, Sends, Callers, Commanders
  <1>2. ASSUME NEW p \in Commanders, playerCommand(p)
        PROVE  MintedInv'
    <2>1. Only(p) /\ (Idles(p) \/ Sends(p, "sent"))
      BY <1>2, playerCommandMoves
    <2>2. UNCHANGED <<accessToken, login, minted>> /\ calls[p].pc # "storing"
      BY <1>2 DEF playerCommand, client, spotify, oauth, volume, device, bounds, At
    <2>3. QED
      BY <2>1, <2>2, ConstantsOK, MintedNat, NoFields
         DEF MintedInv, At, Only, Idles, Sends, Callers, Commanders
  <1>3. ASSUME NEW p \in Commanders, Answered(p)
        PROVE  MintedInv'
    <2>1. Only(p) /\ (Idles(p) \/ Rejects(p))
      BY <1>3, AnsweredMoves
    <2>2. UNCHANGED <<accessToken, login, minted>> /\ calls[p].pc # "storing"
      BY <1>3 DEF Answered, client, spotify, oauth, volume, device, bounds, At
    <2>3. QED
      BY <2>1, <2>2, ConstantsOK, MintedNat, NoFields
         DEF MintedInv, At, Only, Idles, Rejects, Callers, Commanders
  <1>4. ASSUME NEW p \in Commanders, AfterRejection(p)
        PROVE  MintedInv'
    <2>1. Only(p) /\ Locks(p)
      BY <1>4, AfterRejectionMoves
    <2>2. UNCHANGED <<accessToken, login, minted>> /\ calls[p].pc # "storing"
      BY <1>4 DEF AfterRejection, client, spotify, oauth, volume, device, bounds, At
    <2>3. QED
      BY <2>1, <2>2, ConstantsOK, MintedNat, NoFields
         DEF MintedInv, At, Only, Locks, Callers, Commanders
  <1>5. ASSUME NEW p \in Commanders, Retry(p)
        PROVE  MintedInv'
    <2>1. Only(p) /\ (Idles(p) \/ Sends(p, "resent"))
      BY <1>5, RetryMoves
    <2>2. UNCHANGED <<accessToken, login, minted>> /\ calls[p].pc # "storing"
      BY <1>5 DEF Retry, client, spotify, oauth, volume, device, bounds, At
    <2>3. QED
      BY <2>1, <2>2, ConstantsOK, MintedNat, NoFields
         DEF MintedInv, At, Only, Idles, Sends, Callers, Commanders
  <1>6. ASSUME NEW p \in Stages, ValidToken(p)
        PROVE  MintedInv'
    <2>1. Only(p) /\ Locks(p)
      BY <1>6, ValidTokenMoves
    <2>2. UNCHANGED <<accessToken, login, minted>> /\ calls[p].pc # "storing"
      BY <1>6 DEF ValidToken, client, spotify, oauth, volume, device, bounds, At
    <2>3. QED
      BY <2>1, <2>2, ConstantsOK, MintedNat, NoFields
         DEF MintedInv, At, Only, Locks, Callers, Commanders
  <1>7. ASSUME NEW p \in Callers, refresh(p)
        PROVE  MintedInv'
    <2>1. /\ Only(p)
          /\ \/ refreshMu' = refreshMu /\ (Idles(p) \/ (p \notin Stages /\ Spared(p) /\ Retries(p)))
             \/ refreshMu = None /\ refreshMu' = p /\ Posts(p) /\ (calls'[p].pc = "posting" => Valid(refreshToken))
      BY <1>7, refreshMoves
    <2>2. UNCHANGED <<accessToken, login, minted>> /\ calls[p].pc # "storing"
      BY <1>7 DEF refresh, client, spotify, oauth, volume, device, bounds, At
    <2>3. QED
      BY <2>1, <2>2, ConstantsOK, MintedNat, NoFields
         DEF MintedInv, At, Only, Idles, Posts, Retries, Callers, Commanders
  <1>8. ASSUME NEW p \in Callers, Granted(p)
        PROVE  MintedInv'
    <2>1. Only(p) /\ (Idles(p) \/ Stores(p, NoToken) \/ Stores(p, Rotated(p)))
      BY <1>8, GrantedMoves
    <2>2. UNCHANGED <<accessToken, login>> /\ minted' = minted + 1 /\ calls[p].pc = "posting"
      BY <1>8 DEF Granted, oauth, At
    <2>3. minted \in Nat /\ accessToken \in Nat /\ login.access \in Nat
      BY DEF TokenTypes, Grants
    <2>4. \A q \in Callers : calls[q].token \in Nat
      BY DEF CallTypes, Call
    <2>5. calls'[p].token \in {0, calls[p].token} /\ (At(p, "storing")' => calls'[p].got.access = minted + 1)
      BY <2>1 DEF Idles, Stores, At
    <2>6. \A q \in Callers \ {p} : ~At(q, "storing") /\ calls'[q] = calls[q]
      BY <2>1, <2>2 DEF Exclusive, Only, At
    <2>7. \A q \in Callers : calls'[q].token \in {0, calls[q].token}
      BY <2>5, <2>6
    <2>8. QED
      BY <2>2, <2>3, <2>4, <2>5, <2>6, <2>7 DEF MintedInv, At
  <1>9. ASSUME NEW p \in Callers, Refused(p)
        PROVE  MintedInv'
    <2>1. Only(p) /\ Idles(p) /\ refreshMu' = None
      BY <1>9, RefusedMoves
    <2>2. UNCHANGED <<accessToken, login, minted>> /\ calls[p].pc # "storing"
      BY <1>9 DEF Refused, client, spotify, oauth, volume, device, bounds, At
    <2>3. QED
      BY <2>1, <2>2, ConstantsOK, MintedNat, NoFields
         DEF MintedInv, At, Only, Idles, Callers, Commanders
  <1>10. ASSUME NEW p \in Callers, Store(p)
        PROVE  MintedInv'
    <2>1. Only(p) /\ refreshMu' = None /\ (Idles(p) \/ (p \notin Stages /\ Retries(p)))
      BY <1>10, StoreMoves
    <2>2. UNCHANGED <<login, minted>> /\ calls[p].pc = "storing" /\ accessToken' = calls[p].got.access
      BY <1>10 DEF Store, client, spotify, oauth, volume, device, bounds, At
    <2>3. QED
      BY <2>1, <2>2, ConstantsOK, MintedNat, NoFields
         DEF MintedInv, At, Only, Idles, Retries, Callers, Commanders
  <1>11. ASSUME LoginGranted
        PROVE  MintedInv'
    <2>1. UNCHANGED <<accessToken, calls>> /\ minted' = minted + 1 /\ login'.access = minted + 1
      BY <1>11, LoginTurns DEF LoginGranted, client
    <2>2. minted \in Nat /\ accessToken \in Nat
      BY DEF TokenTypes
    <2>3. \A q \in Callers : calls[q].token \in Nat /\ calls[q].got.access \in Nat
      BY DEF CallTypes, Call, Grants
    <2>4. QED
      BY <2>1, <2>2, <2>3 DEF MintedInv, At
  <1>12. ASSUME ExchangeToken
        PROVE  MintedInv'
    <2>1. UNCHANGED <<calls, minted>> /\ accessToken' = login.access /\ login'.access = 0
      BY <1>12 DEF ExchangeToken, TokenTypes, Grants
    <2>2. QED
      BY <2>1, MintedNat DEF MintedInv, At
  <1>13. ASSUME LoginSaved
        PROVE  MintedInv'
    BY <1>13, ConstantsOK, MintedNat, NoFields
       DEF LoginSaved, client, spotify, oauth, volume, device, bounds, MintedInv, At
  <1>14. ASSUME Restart
        PROVE  MintedInv'
    <2>1. \A p \in Callers : Idles(p)
      BY <1>14, RestartMoves
    <2>2. UNCHANGED minted /\ accessToken' = 0 /\ login' = NoGrant
      BY <1>14 DEF Restart, client, spotify, oauth, volume, device, bounds
    <2>3. QED
      BY <2>1, <2>2, ConstantsOK, MintedNat, NoFields
         DEF MintedInv, At, Idles, Callers, Commanders
  <1>15. CASE UNCHANGED <<calls, accessToken, login, minted>>
    BY <1>15 DEF MintedInv, At
  <1>16. QED
    BY <1>1, <1>2, <1>3, <1>4, <1>5, <1>6, <1>7, <1>8, <1>9, <1>10, <1>11, <1>12, <1>13, <1>14, <1>15
       DEF Next, Volume, Command, Refresh, vars, client, spotify, oauth, volume, device, bounds,
           onAdminSetVolume, fadeOutAndFinishDailyDouble, FadeStep, FadeEnds, Ages, Revoke

(* Access tokens on their way are new. *)
LEMMA FreshStep ==
    CallTypes /\ CallTypes' /\ TokenTypes /\ TokenTypes' /\ Known /\ Exclusive /\ MintedInv /\ FreshInv /\ [Next]_vars => FreshInv'
  <1> SUFFICES ASSUME CallTypes, CallTypes', TokenTypes, TokenTypes', Known, Exclusive, MintedInv, FreshInv, [Next]_vars
               PROVE  FreshInv'
    OBVIOUS
  <1>1. ASSUME runVolumeWriter
        PROVE  FreshInv'
    <2>1. UNCHANGED calls \/ (Only(Writer) /\ Sends(Writer, "sent"))
      BY <1>1, runVolumeWriterMoves
    <2>2. UNCHANGED <<accessToken, login>> /\ calls[Writer].pc = "idle"
      BY <1>1 DEF runVolumeWriter, client, spotify, oauth, volume, device, bounds, At
    <2>3. QED
      BY <2>1, <2>2, ConstantsOK, NoFields
         DEF FreshInv, At, Only, Sends, Callers, Commanders
  <1>2. ASSUME NEW p \in Commanders, playerCommand(p)
        PROVE  FreshInv'
    <2>1. Only(p) /\ (Idles(p) \/ Sends(p, "sent"))
      BY <1>2, playerCommandMoves
    <2>2. UNCHANGED <<accessToken, login>> /\ calls[p].pc # "storing"
      BY <1>2 DEF playerCommand, client, spotify, oauth, volume, device, bounds, At
    <2>3. QED
      BY <2>1, <2>2, ConstantsOK, NoFields
         DEF FreshInv, At, Only, Idles, Sends, Callers, Commanders
  <1>3. ASSUME NEW p \in Commanders, Answered(p)
        PROVE  FreshInv'
    <2>1. Only(p) /\ (Idles(p) \/ Rejects(p))
      BY <1>3, AnsweredMoves
    <2>2. UNCHANGED <<accessToken, login>> /\ calls[p].pc # "storing"
      BY <1>3 DEF Answered, client, spotify, oauth, volume, device, bounds, At
    <2>3. QED
      BY <2>1, <2>2, ConstantsOK, NoFields
         DEF FreshInv, At, Only, Idles, Rejects, Callers, Commanders
  <1>4. ASSUME NEW p \in Commanders, AfterRejection(p)
        PROVE  FreshInv'
    <2>1. Only(p) /\ Locks(p)
      BY <1>4, AfterRejectionMoves
    <2>2. UNCHANGED <<accessToken, login>> /\ calls[p].pc # "storing"
      BY <1>4 DEF AfterRejection, client, spotify, oauth, volume, device, bounds, At
    <2>3. QED
      BY <2>1, <2>2, ConstantsOK, NoFields
         DEF FreshInv, At, Only, Locks, Callers, Commanders
  <1>5. ASSUME NEW p \in Commanders, Retry(p)
        PROVE  FreshInv'
    <2>1. Only(p) /\ (Idles(p) \/ Sends(p, "resent"))
      BY <1>5, RetryMoves
    <2>2. UNCHANGED <<accessToken, login>> /\ calls[p].pc # "storing"
      BY <1>5 DEF Retry, client, spotify, oauth, volume, device, bounds, At
    <2>3. QED
      BY <2>1, <2>2, ConstantsOK, NoFields
         DEF FreshInv, At, Only, Idles, Sends, Callers, Commanders
  <1>6. ASSUME NEW p \in Stages, ValidToken(p)
        PROVE  FreshInv'
    <2>1. Only(p) /\ Locks(p)
      BY <1>6, ValidTokenMoves
    <2>2. UNCHANGED <<accessToken, login>> /\ calls[p].pc # "storing"
      BY <1>6 DEF ValidToken, client, spotify, oauth, volume, device, bounds, At
    <2>3. QED
      BY <2>1, <2>2, ConstantsOK, NoFields
         DEF FreshInv, At, Only, Locks, Callers, Commanders
  <1>7. ASSUME NEW p \in Callers, refresh(p)
        PROVE  FreshInv'
    <2>1. Only(p) /\ (Idles(p) \/ Retries(p) \/ Posts(p))
      BY <1>7, refreshMoves
    <2>2. UNCHANGED <<accessToken, login>> /\ ~At(p, "storing")
      BY <1>7 DEF refresh, oauth, At
    <2>3. ~At(p, "storing")' /\ calls'[p].token \in {0, calls[p].token}
      BY <2>1 DEF Idles, Retries, Posts, At
    <2>4. QED
      BY <2>1, <2>2, <2>3 DEF FreshInv, At, Only
  <1>8. ASSUME NEW p \in Callers, Granted(p)
        PROVE  FreshInv'
    <2>1. Only(p) /\ (Idles(p) \/ Stores(p, NoToken) \/ Stores(p, Rotated(p)))
      BY <1>8, GrantedMoves
    <2>2. UNCHANGED <<accessToken, login>> /\ minted' = minted + 1 /\ calls[p].pc = "posting"
      BY <1>8 DEF Granted, oauth, At
    <2>3. minted \in Nat /\ accessToken \in Nat /\ login.access \in Nat
      BY DEF TokenTypes, Grants
    <2>4. \A q \in Callers : calls[q].token \in Nat
      BY DEF CallTypes, Call
    <2>5. calls'[p].token \in {0, calls[p].token} /\ (At(p, "storing")' => calls'[p].got.access = minted + 1)
      BY <2>1 DEF Idles, Stores, At
    <2>6. \A q \in Callers \ {p} : ~At(q, "storing") /\ calls'[q] = calls[q]
      BY <2>1, <2>2 DEF Exclusive, Only, At
    <2>7. \A q \in Callers : calls'[q].token \in {0, calls[q].token}
      BY <2>5, <2>6
    <2>8. \A q \in Callers : calls[q].token # minted + 1
      BY <2>3, <2>4 DEF MintedInv
    <2>9. minted + 1 \notin {0, accessToken, login.access}
      BY <2>3 DEF MintedInv
    <2>10. QED
      BY <2>2, <2>5, <2>6, <2>7, <2>8, <2>9 DEF FreshInv, At
  <1>9. ASSUME NEW p \in Callers, Refused(p)
        PROVE  FreshInv'
    <2>1. Only(p) /\ Idles(p) /\ refreshMu' = None
      BY <1>9, RefusedMoves
    <2>2. UNCHANGED <<accessToken, login>> /\ calls[p].pc # "storing"
      BY <1>9 DEF Refused, client, spotify, oauth, volume, device, bounds, At
    <2>3. QED
      BY <2>1, <2>2, ConstantsOK, NoFields
         DEF FreshInv, At, Only, Idles, Callers, Commanders
  <1>10. ASSUME NEW p \in Callers, Store(p)
        PROVE  FreshInv'
    <2>1. Only(p) /\ (Idles(p) \/ Retries(p))
      BY <1>10, StoreMoves
    <2>2. UNCHANGED login /\ accessToken' = calls[p].got.access /\ calls[p].pc = "storing"
      BY <1>10 DEF Store, oauth, At
    <2>3. \A q \in Callers \ {p} : ~At(q, "storing")
      BY <2>2 DEF Exclusive, At
    <2>4. \A q \in Callers : ~At(q, "storing")' /\ calls'[q].token \in {0, calls[q].token}
      BY <2>1, <2>3 DEF Only, Idles, Retries, At
    <2>5. QED
      BY <2>2, <2>4 DEF FreshInv, At
  <1>11. ASSUME LoginGranted
        PROVE  FreshInv'
    <2>1. UNCHANGED <<accessToken, calls>> /\ login'.access = minted + 1
      BY <1>11, LoginTurns DEF LoginGranted, client
    <2>2. minted \in Nat /\ accessToken \in Nat
      BY DEF TokenTypes
    <2>3. \A q \in Callers : calls[q].token \in Nat /\ calls[q].got.access \in Nat
      BY DEF CallTypes, Call, Grants
    <2>4. QED
      BY <2>1, <2>2, <2>3 DEF MintedInv, FreshInv, At
  <1>12. ASSUME ExchangeToken
        PROVE  FreshInv'
    <2>1. UNCHANGED calls /\ accessToken' = login.access /\ login'.access = 0 /\ login.access # 0
      BY <1>12 DEF ExchangeToken, TokenTypes, Grants
    <2>2. QED
      BY <2>1 DEF FreshInv, At
  <1>13. ASSUME LoginSaved
        PROVE  FreshInv'
    <2>1. UNCHANGED <<calls, accessToken>> /\ login.access = 0 /\ login'.access = 0
      BY <1>13, NoFields DEF LoginSaved, client
    <2>2. QED
      BY <2>1 DEF FreshInv, At
  <1>14. ASSUME Restart
        PROVE  FreshInv'
    <2>1. \A p \in Callers : Idles(p)
      BY <1>14, RestartMoves
    <2>2. login' = NoGrant
      BY <1>14 DEF Restart, client, spotify, oauth, volume, device, bounds
    <2>3. QED
      BY <2>1, <2>2, ConstantsOK, NoFields
         DEF FreshInv, At, Idles, Callers, Commanders
  <1>15. CASE UNCHANGED <<calls, accessToken, login>>
    BY <1>15 DEF FreshInv, At
  <1>16. QED
    BY <1>1, <1>2, <1>3, <1>4, <1>5, <1>6, <1>7, <1>8, <1>9, <1>10, <1>11, <1>12, <1>13, <1>14, <1>15
       DEF Next, Volume, Command, Refresh, vars, client, spotify, oauth, volume, device, bounds,
           onAdminSetVolume, fadeOutAndFinishDailyDouble, FadeStep, FadeEnds, Ages, Revoke

(* No token is sent twice. *)
LEMMA RetryStep ==
    CallTypes /\ TokenTypes /\ TokenTypes' /\ Known /\ FreshInv /\ RetryInv /\ [Next]_vars => RetryInv'
  <1> SUFFICES ASSUME CallTypes, TokenTypes, TokenTypes', Known, FreshInv, RetryInv, [Next]_vars
               PROVE  RetryInv'
    OBVIOUS
  <1>1. ASSUME runVolumeWriter
        PROVE  RetryInv'
    <2>1. UNCHANGED calls \/ (Only(Writer) /\ Sends(Writer, "sent"))
      BY <1>1, runVolumeWriterMoves
    <2>2. UNCHANGED accessToken
      BY <1>1 DEF runVolumeWriter, client, spotify, oauth, volume, device, bounds
    <2>3. QED
      BY <2>1, <2>2, ConstantsOK
         DEF RetryInv, At, Only, Sends, Callers, Commanders
  <1>2. ASSUME NEW p \in Commanders, playerCommand(p)
        PROVE  RetryInv'
    <2>1. Only(p) /\ (Idles(p) \/ Sends(p, "sent"))
      BY <1>2, playerCommandMoves
    <2>2. UNCHANGED accessToken
      BY <1>2 DEF playerCommand, client, spotify, oauth, volume, device, bounds
    <2>3. QED
      BY <2>1, <2>2, ConstantsOK
         DEF RetryInv, At, Only, Idles, Sends, Callers, Commanders
  <1>3. ASSUME NEW p \in Commanders, Answered(p)
        PROVE  RetryInv'
    <2>1. Only(p) /\ (Idles(p) \/ Rejects(p))
      BY <1>3, AnsweredMoves
    <2>2. UNCHANGED accessToken
      BY <1>3 DEF Answered, client, spotify, oauth, volume, device, bounds
    <2>3. QED
      BY <2>1, <2>2, ConstantsOK
         DEF RetryInv, At, Only, Idles, Rejects, Callers, Commanders
  <1>4. ASSUME NEW p \in Commanders, AfterRejection(p)
        PROVE  RetryInv'
    <2>1. Only(p) /\ Locks(p)
      BY <1>4, AfterRejectionMoves
    <2>2. UNCHANGED accessToken
      BY <1>4 DEF AfterRejection, client, spotify, oauth, volume, device, bounds
    <2>3. QED
      BY <2>1, <2>2, ConstantsOK
         DEF RetryInv, At, Only, Locks, Callers, Commanders
  <1>5. ASSUME NEW p \in Commanders, Retry(p)
        PROVE  RetryInv'
    <2>1. Only(p) /\ (Idles(p) \/ Sends(p, "resent"))
      BY <1>5, RetryMoves
    <2>2. UNCHANGED accessToken
      BY <1>5 DEF Retry, client, spotify, oauth, volume, device, bounds
    <2>3. QED
      BY <2>1, <2>2, ConstantsOK
         DEF RetryInv, At, Only, Idles, Sends, Callers, Commanders
  <1>6. ASSUME NEW p \in Stages, ValidToken(p)
        PROVE  RetryInv'
    <2>1. Only(p) /\ Locks(p)
      BY <1>6, ValidTokenMoves
    <2>2. UNCHANGED accessToken
      BY <1>6 DEF ValidToken, client, spotify, oauth, volume, device, bounds
    <2>3. QED
      BY <2>1, <2>2, ConstantsOK
         DEF RetryInv, At, Only, Locks, Callers, Commanders
  <1>7. ASSUME NEW p \in Callers, refresh(p)
        PROVE  RetryInv'
    <2>1. /\ Only(p)
          /\ \/ refreshMu' = refreshMu /\ (Idles(p) \/ (p \notin Stages /\ Spared(p) /\ Retries(p)))
             \/ refreshMu = None /\ refreshMu' = p /\ Posts(p) /\ (calls'[p].pc = "posting" => Valid(refreshToken))
      BY <1>7, refreshMoves
    <2>2. UNCHANGED accessToken /\ calls[p].pc = "locking" /\ (Spared(p) /\ p \in Commanders => accessToken # calls[p].rejected)
      BY <1>7 DEF refresh, client, spotify, oauth, volume, device, bounds, At, Spared
    <2>3. QED
      BY <2>1, <2>2, ConstantsOK
         DEF RetryInv, At, Only, Idles, Posts, Retries, Callers, Commanders
  <1>8. ASSUME NEW p \in Callers, Granted(p)
        PROVE  RetryInv'
    <2>1. /\ Only(p)
          /\ \/ /\ newest' = newest
                /\ \/ refreshMu' = None /\ Idles(p)
                   \/ refreshMu' = refreshMu /\ Stores(p, NoToken)
             \/ /\ newest' = [newest EXCEPT ![calls[p].refresh.login] = @ + 1]
                /\ \/ refreshMu' = None /\ Idles(p) /\ spoiled'
                   \/ refreshMu' = refreshMu /\ Stores(p, Rotated(p))
      BY <1>8, GrantedMoves
    <2>2. UNCHANGED accessToken /\ calls[p].pc = "posting"
      BY <1>8 DEF Granted, client, spotify, oauth, volume, device, bounds, At
    <2>3. QED
      BY <2>1, <2>2, ConstantsOK
         DEF RetryInv, At, Only, Idles, Stores, Callers, Commanders
  <1>9. ASSUME NEW p \in Callers, Refused(p)
        PROVE  RetryInv'
    <2>1. Only(p) /\ Idles(p) /\ refreshMu' = None
      BY <1>9, RefusedMoves
    <2>2. UNCHANGED accessToken
      BY <1>9 DEF Refused, client, spotify, oauth, volume, device, bounds
    <2>3. QED
      BY <2>1, <2>2, ConstantsOK
         DEF RetryInv, At, Only, Idles, Callers, Commanders
  <1>10. ASSUME NEW p \in Callers, Store(p)
        PROVE  RetryInv'
    <2>1. Only(p) /\ (Idles(p) \/ Retries(p))
      BY <1>10, StoreMoves
    <2>2. accessToken' = calls[p].got.access /\ calls[p].pc = "storing"
      BY <1>10 DEF Store, At
    <2>3. \A q \in Callers : calls[q].token # accessToken'
      BY <2>2 DEF FreshInv, At
    <2>4. QED
      BY <2>1, <2>3 DEF RetryInv, Only, Idles, Retries, Callers
  <1>11. ASSUME ExchangeToken
        PROVE  RetryInv'
    <2>1. UNCHANGED calls /\ accessToken' = login.access /\ login.access # 0
      BY <1>11 DEF ExchangeToken
    <2>2. \A q \in Callers : calls[q].token # accessToken'
      BY <2>1 DEF FreshInv
    <2>3. QED
      BY <2>1, <2>2 DEF RetryInv, Callers
  <1>12. ASSUME Restart
        PROVE  RetryInv'
    <2>1. \A p \in Callers : Idles(p)
      BY <1>12, RestartMoves
    <2>2. QED
      BY <2>1, ConstantsOK
         DEF RetryInv, At, Idles, Callers, Commanders
  <1>13. CASE UNCHANGED <<calls, accessToken>>
    BY <1>13 DEF RetryInv, At
  <1>14. QED
    BY <1>1, <1>2, <1>3, <1>4, <1>5, <1>6, <1>7, <1>8, <1>9, <1>10, <1>11, <1>12, <1>13
       DEF Next, Volume, Command, Refresh, vars, client, spotify, oauth, volume, device, bounds,
           onAdminSetVolume, fadeOutAndFinishDailyDouble, FadeStep, FadeEnds, LoginGranted, LoginSaved,
           Ages, Revoke

-----------------------------------------------------------------------------
(* The device and its queue.                                               *)

(* What a step of p's call does to the device. *)
DeviceStep(p) ==
    /\ UNCHANGED writing /\ level' \in {level, writing}
    /\ p # Writer => UNCHANGED device
    /\ p = Writer /\ At(Writer, "idle")' => failed' \/ level' = writing

LEMMA ReturnsDevice ==
    ASSUME NEW p \in Callers, NEW ok \in BOOLEAN, Returns(p, ok)
    PROVE  DeviceStep(p)
  BY DEF Returns, DeviceStep, device

LEMMA doPlayerDevice ==
    ASSUME CallTypes, NEW p \in Callers, NEW pc \in Steps \ {"idle"}, doPlayer(p, pc)
    PROVE  DeviceStep(p)
  <1>1. CASE accessToken = 0
    BY <1>1, ReturnsDevice DEF doPlayer
  <1>2. CASE accessToken # 0
    <2>1. UNCHANGED device /\ Becomes(p, [calls[p] EXCEPT !.pc = pc, !.token = accessToken])
      BY <1>2 DEF doPlayer
    <2>2. calls'[p].pc = pc
      BY <2>1 DEF Becomes, CallTypes, Call
    <2>3. QED
      BY <2>1, <2>2 DEF DeviceStep, At, device
  <1>3. QED
    BY <1>1, <1>2

LEMMA RefreshedDevice ==
    ASSUME CallTypes, NEW p \in Callers, NEW ok \in BOOLEAN, Refreshed(p, ok)
    PROVE  DeviceStep(p)
  <1>1. CASE p \in Stages
    BY <1>1, ConstantsOK DEF Refreshed, DeviceStep, device, Commanders
  <1>2. CASE p \notin Stages /\ ok
    <2>1. UNCHANGED device /\ Becomes(p, [calls[p] EXCEPT !.pc = "retry", !.got = NoGrant])
      BY <1>2 DEF Refreshed
    <2>2. calls'[p].pc = "retry"
      BY <2>1 DEF Becomes, CallTypes, Call
    <2>3. QED
      BY <2>1, <2>2 DEF DeviceStep, At, device
  <1>3. CASE p \notin Stages /\ ~ok
    BY <1>3, ReturnsDevice DEF Refreshed
  <1>4. QED
    BY <1>1, <1>2, <1>3

(* A step of a call leaves the queue alone, and is the writer's only while *)
(* the writer is at work. *)
CallStepOf(p) ==
    Only(p) /\ DeviceStep(p) /\ UNCHANGED volume /\ (p = Writer => ~At(Writer, "idle"))

LEMMA CommandDevice ==
    ASSUME CallTypes, TokenTypes, NEW p \in Commanders, Command(p)
    PROVE  CallStepOf(p)
  <1>0. p \in Callers
    BY DEF Callers
  <1>1. CASE playerCommand(p)
    <2>1. doPlayer(p, "sent") /\ UNCHANGED volume /\ p # Writer
      BY <1>1, ConstantsOK DEF playerCommand
    <2>2. QED
      BY <1>0, <1>1, <2>1, doPlayerDevice, playerCommandMoves DEF CallStepOf, Steps
  <1>2. CASE Retry(p)
    <2>1. doPlayer(p, "resent") /\ UNCHANGED volume /\ ~At(p, "idle")
      BY <1>2 DEF Retry, At
    <2>2. QED
      BY <1>0, <1>2, <2>1, doPlayerDevice, RetryMoves DEF CallStepOf, Steps
  <1>3. CASE Answered(p)
    <2>1. UNCHANGED volume /\ ~At(p, "idle") /\ Only(p) /\ (calls'[p].pc = "idle" \/ calls'[p].pc = "rejected")
      BY <1>3, AnsweredMoves DEF Answered, At, Idles, Rejects
    <2>2. Returns(p, TRUE) \/ Returns(p, FALSE) \/ (Becomes(p, [calls[p] EXCEPT !.pc = "rejected"]) /\ UNCHANGED device)
      BY <1>3 DEF Answered
    <2>3. CASE Becomes(p, [calls[p] EXCEPT !.pc = "rejected"]) /\ UNCHANGED device
      <3>1. calls'[p].pc = "rejected"
        BY <1>0, <2>3 DEF Becomes, CallTypes, Call
      <3>2. QED
        BY <2>1, <2>3, <3>1 DEF CallStepOf, DeviceStep, At, device
    <2>4. QED
      BY <1>0, <2>1, <2>2, <2>3, ReturnsDevice DEF CallStepOf
  <1>4. CASE AfterRejection(p)
    <2>1. UNCHANGED volume /\ ~At(p, "idle") /\ UNCHANGED device /\ Only(p) /\ calls'[p].pc = "locking"
      BY <1>4, AfterRejectionMoves DEF AfterRejection, At, Locks
    <2>2. QED
      BY <2>1 DEF CallStepOf, DeviceStep, At, device
  <1>5. QED
    BY <1>1, <1>2, <1>3, <1>4 DEF Command

LEMMA ValidTokenDevice ==
    ASSUME CallTypes, TokenTypes, NEW p \in Stages, ValidToken(p)
    PROVE  CallStepOf(p)
  <1>1. UNCHANGED <<volume, device>> /\ p # Writer /\ Only(p)
    BY ValidTokenMoves, ConstantsOK DEF ValidToken, Commanders
  <1>2. QED
    BY <1>1 DEF CallStepOf, DeviceStep, device

LEMMA RefreshDevice ==
    ASSUME CallTypes, TokenTypes, TokenTypes', Known, NEW p \in Callers, Refresh(p)
    PROVE  CallStepOf(p)
  <1>1. UNCHANGED volume /\ ~At(p, "idle")
    BY DEF Refresh, refresh, Granted, Refused, Store, At
  <1>2. Only(p)
    BY refreshMoves, GrantedMoves, RefusedMoves, StoreMoves DEF Refresh
  <1>3. DeviceStep(p)
    <2>1. CASE refresh(p)
      <3>1. CASE Spared(p) \/ refreshToken = NoToken
        <4>1. Spared(p) \in BOOLEAN /\ Refreshed(p, Spared(p))
          BY <2>1, <3>1 DEF refresh, Spared
        <4>2. QED
          BY <4>1, RefreshedDevice
      <3>2. CASE ~(Spared(p) \/ refreshToken = NoToken)
        <4>1. UNCHANGED device /\ refreshMu = None /\ refreshMu' = p
          BY <2>1, <3>2 DEF refresh, LockIsFree
        <4>2. p # None
          BY ConstantsOK
        <4>3. calls'[p].pc # "idle"
          BY <2>1, <4>1, <4>2, refreshMoves DEF Posts
        <4>4. QED
          BY <4>1, <4>3 DEF DeviceStep, At, device
      <3>3. QED
        BY <3>1, <3>2
    <2>2. CASE Granted(p)
      <3>1. PICK lost \in BOOLEAN, g \in {NoToken, Rotated(p)} :
                IF lost THEN Refreshed(p, FALSE)
                ELSE /\ UNCHANGED device
                     /\ Becomes(p, [calls[p] EXCEPT !.pc = "storing",
                                                    !.got = [access |-> minted + 1, refresh |-> g]])
        BY <2>2 DEF Granted, Rotated
      <3>2. CASE ~lost
        <4>1. calls'[p].pc = "storing"
          BY <3>1, <3>2 DEF Becomes, CallTypes, Call
        <4>2. QED
          BY <3>1, <3>2, <4>1 DEF DeviceStep, At, device
      <3>3. QED
        BY <3>1, <3>2, RefreshedDevice
    <2>3. CASE Refused(p)
      BY <2>3, RefreshedDevice DEF Refused
    <2>4. CASE Store(p)
      BY <2>4, RefreshedDevice DEF Store
    <2>5. QED
      BY <2>1, <2>2, <2>3, <2>4 DEF Refresh
  <1>4. QED
    BY <1>1, <1>2, <1>3 DEF CallStepOf

(* A level that is asked for is the last one in the queue, or dropped. *)
LEMMA AskedLast ==
    ASSUME VolumeTypes, NEW pct \in Levels, sendVolume(pct)
    PROVE  /\ volumeCmds' \in Seq(Levels) /\ Len(volumeCmds') <= QueueDepth
           /\ ~unasked' => volumeCmds' # <<>> /\ volumeCmds'[Len(volumeCmds')] = pct
  <1>1. volumeCmds \in Seq(Levels) /\ Len(volumeCmds) \in Nat /\ QueueDepth \in Nat
    BY ConstantsOK, LenProperties DEF VolumeTypes
  <1>2. CASE Len(volumeCmds) < QueueDepth
    <2>1. volumeCmds' = Append(volumeCmds, pct)
      BY <1>2 DEF sendVolume
    <2>2. QED
      BY <1>1, <1>2, <2>1, AppendProperties
  <1>3. CASE ~(Len(volumeCmds) < QueueDepth)
    BY <1>3 DEF sendVolume, VolumeTypes
  <1>4. QED
    BY <1>2, <1>3

(* The writer takes the first one; the last stays, unless it was the same. *)
LEMMA Takes ==
    ASSUME VolumeTypes, runVolumeWriter
    PROVE  /\ volumeCmds' \in Seq(Levels) /\ Len(volumeCmds') <= QueueDepth /\ writing' \in Levels
           /\ IF volumeCmds' = <<>> THEN writing' = volumeCmds[Len(volumeCmds)]
              ELSE volumeCmds'[Len(volumeCmds')] = volumeCmds[Len(volumeCmds)]
  <1>1. /\ volumeCmds \in Seq(Levels) /\ volumeCmds # <<>> /\ Len(volumeCmds) \in Nat
        /\ Len(volumeCmds) <= QueueDepth /\ QueueDepth \in Nat
        /\ volumeCmds' = Tail(volumeCmds) /\ writing' = Head(volumeCmds)
    BY ConstantsOK, LenProperties DEF VolumeTypes, runVolumeWriter
  <1>2. /\ writing' \in Levels /\ volumeCmds' \in Seq(Levels)
        /\ Len(volumeCmds') = Len(volumeCmds) - 1
        /\ \A i \in 1 .. Len(volumeCmds') : volumeCmds'[i] = volumeCmds[i + 1]
    BY <1>1, HeadTailProperties
  <1>3. CASE volumeCmds' = <<>>
    <2>1. Len(<<>>) = 0
      OBVIOUS
    <2>2. Len(volumeCmds') = 0
      BY <1>3, <2>1
    <2>3. Len(volumeCmds) = 1
      BY <1>1, <1>2, <2>2
    <2>4. QED
      BY <1>1, <1>2, <1>3, <2>3
  <1>4. CASE volumeCmds' # <<>>
    <2>1. Len(volumeCmds') \in Nat \ {0}
      BY <1>2, <1>4, EmptySeq
    <2>2. QED
      BY <1>1, <1>2, <1>4, <2>1
  <1>5. QED
    BY <1>3, <1>4, <1>1, <1>2

(* A step of a fade asks for a percentage. *)
LEMMA FadeLevel ==
    ASSUME NEW from \in Levels, NEW n \in 0 .. FadeSteps
    PROVE  (from * n) \div FadeSteps \in Levels
  <1>1. FadeSteps \in Nat \ {0}
    BY ConstantsOK
  <1>2. from * n \in Nat /\ from * n <= 100 * FadeSteps
    BY <1>1 DEF Levels
  <1> DEFINE a == from * n
  <1>3. a \div FadeSteps \in Nat /\ FadeSteps * (a \div FadeSteps) <= a
    BY <1>1, <1>2
  <1>4. a \div FadeSteps <= 100
    BY <1>1, <1>2, <1>3
  <1>5. QED
    BY <1>3, <1>4 DEF Levels

(* Levels are percentages, and the queue is bounded. *)
LEMMA VolumeStep ==
    CallTypes /\ TokenTypes /\ TokenTypes' /\ Known /\ VolumeTypes /\ BoundTypes /\ [Next]_vars => VolumeTypes'
  <1> SUFFICES ASSUME CallTypes, TokenTypes, TokenTypes', Known, VolumeTypes, BoundTypes, [Next]_vars
               PROVE  VolumeTypes'
    OBVIOUS
  <1>1. ASSUME NEW pct \in Percents, onAdminSetVolume(pct)
        PROVE  VolumeTypes'
    <2>1. pct \in Levels
      BY ConstantsOK DEF Levels
    <2>2. UNCHANGED <<level, writing, fades>> /\ volumePct' = pct /\ sendVolume(pct)
      BY <1>1 DEF onAdminSetVolume, device
    <2>3. QED
      BY <2>1, <2>2, AskedLast DEF VolumeTypes
  <1>2. ASSUME fadeOutAndFinishDailyDouble
        PROVE  VolumeTypes'
    <2>1. [id |-> faded, from |-> volumePct, left |-> FadeSteps] \in [id : Nat, from : Levels, left : -1 .. FadeSteps]
      BY ConstantsOK DEF VolumeTypes, BoundTypes
    <2>2. QED
      BY <1>2, <2>1 DEF fadeOutAndFinishDailyDouble, VolumeTypes, device
  <1>3. ASSUME NEW f \in fades, FadeStep(f)
        PROVE  VolumeTypes'
    <2>1. f.from \in Levels /\ f.left \in 0 .. FadeSteps /\ f \in [id : Nat, from : Levels, left : -1 .. FadeSteps]
      BY <1>3, ConstantsOK DEF FadeStep, VolumeTypes
    <2>2. (f.from * f.left) \div FadeSteps \in Levels
      BY <2>1, FadeLevel
    <2>3. [f EXCEPT !.left = @ - 1] \in [id : Nat, from : Levels, left : -1 .. FadeSteps]
      BY <2>1, ConstantsOK
    <2>4. /\ UNCHANGED <<level, writing, volumePct>> /\ sendVolume((f.from * f.left) \div FadeSteps)
          /\ fades' = (fades \ {f}) \cup {[f EXCEPT !.left = @ - 1]}
      BY <1>3 DEF FadeStep, device
    <2>5. volumeCmds' \in Seq(Levels) /\ Len(volumeCmds') <= QueueDepth
      BY <2>2, <2>4, AskedLast
    <2>6. QED
      BY <2>3, <2>4, <2>5 DEF VolumeTypes
  <1>4. ASSUME NEW f \in fades, FadeEnds(f)
        PROVE  VolumeTypes'
    <2>1. UNCHANGED <<level, writing, volumePct>> /\ sendVolume(volumePct) /\ fades' = fades \ {f}
      BY <1>4 DEF FadeEnds, RestoreTo, device
    <2>2. QED
      BY <2>1, AskedLast DEF VolumeTypes
  <1>5. ASSUME runVolumeWriter
        PROVE  VolumeTypes'
    <2>1. UNCHANGED <<level, volumePct, fades>>
      BY <1>5 DEF runVolumeWriter
    <2>2. QED
      BY <1>5, <2>1, Takes DEF VolumeTypes
  <1>6. ASSUME NEW p \in Callers, CallStepOf(p)
        PROVE  VolumeTypes'
    BY <1>6 DEF CallStepOf, DeviceStep, volume, VolumeTypes
  <1>7. ASSUME Restart
        PROVE  VolumeTypes'
    <2>1. <<>> \in Seq(Levels) /\ Len(<<>>) = 0 /\ 100 \in Levels /\ QueueDepth \in Nat
      BY ConstantsOK DEF Levels
    <2>2. QED
      BY <1>7, <2>1 DEF Restart, VolumeTypes, device
  <1>8. CASE UNCHANGED <<volume, device>>
    BY <1>8 DEF VolumeTypes, volume, device
  <1>9. QED
    BY <1>1, <1>2, <1>3, <1>4, <1>5, <1>6, <1>7, <1>8, CommandDevice, ValidTokenDevice, RefreshDevice
       DEF Next, Volume, vars, volume, device, LoginGranted, ExchangeToken, LoginSaved, Ages, Revoke, Callers

(* The operating level. *)
LEMMA LevelStep ==
    CallTypes /\ TokenTypes /\ TokenTypes' /\ Known /\ VolumeTypes /\ LevelInv /\ [Next]_vars => LevelInv'
  <1> SUFFICES ASSUME CallTypes, TokenTypes, TokenTypes', Known, VolumeTypes, LevelInv, [Next]_vars
               PROVE  LevelInv'
    OBVIOUS
  <1>1. ASSUME NEW pct \in Percents, onAdminSetVolume(pct)
        PROVE  LevelInv'
    <2>1. pct \in Levels
      BY ConstantsOK DEF Levels
    <2>2. volumePct' = pct /\ sendVolume(pct)
      BY <1>1 DEF onAdminSetVolume
    <2>3. QED
      BY <2>1, <2>2, AskedLast DEF LevelInv
  <1>2. ASSUME fadeOutAndFinishDailyDouble
        PROVE  LevelInv'
    BY <1>2 DEF fadeOutAndFinishDailyDouble, LevelInv
  <1>3. ASSUME NEW f \in fades, FadeStep(f)
        PROVE  LevelInv'
    BY <1>3 DEF FadeStep, LevelInv
  <1>4. ASSUME NEW f \in fades, FadeEnds(f)
        PROVE  LevelInv'
    <2>1. volumePct' = volumePct /\ sendVolume(volumePct) /\ volumePct \in Levels
      BY <1>4 DEF FadeEnds, RestoreTo, VolumeTypes
    <2>2. QED
      BY <2>1, AskedLast DEF LevelInv
  <1>5. ASSUME runVolumeWriter
        PROVE  LevelInv'
    <2>1. /\ UNCHANGED <<volumePct, fades, unasked>> /\ volumeCmds # <<>> /\ At(Writer, "idle")
          /\ failed' \/ Becomes(Writer, [Idle EXCEPT !.pc = "sent", !.token = accessToken])
      BY <1>5 DEF runVolumeWriter
    <2>2. CASE Becomes(Writer, [Idle EXCEPT !.pc = "sent", !.token = accessToken])
      <3>1. Writer \in Callers
        BY DEF Callers, Commanders
      <3>2. calls'[Writer].pc = "sent"
        BY <2>2, <3>1 DEF Becomes, CallTypes, Idle
      <3>3. ~At(Writer, "idle")'
        BY <3>2 DEF At
      <3>4. QED
        BY <1>5, <2>1, <3>3, Takes DEF LevelInv
    <2>3. CASE failed' /\ UNCHANGED calls
      BY <1>5, <2>1, <2>3, Takes DEF LevelInv, At
    <2>4. QED
      BY <1>5, <2>1, <2>2, <2>3 DEF runVolumeWriter
  <1>6. ASSUME NEW p \in Callers, CallStepOf(p)
        PROVE  LevelInv'
    <2>1. UNCHANGED <<volumePct, volumeCmds, fades, unasked, writing>>
      BY <1>6 DEF CallStepOf, DeviceStep, volume
    <2>2. CASE p = Writer
      BY <1>6, <2>1, <2>2 DEF CallStepOf, DeviceStep, LevelInv
    <2>3. CASE p # Writer
      <3>1. UNCHANGED <<level, failed, calls[Writer]>>
        BY <1>6, <2>3 DEF CallStepOf, DeviceStep, device, Only, Callers, Commanders
      <3>2. QED
        BY <2>1, <3>1 DEF LevelInv, At
    <2>4. QED
      BY <2>2, <2>3
  <1>7. ASSUME Restart
        PROVE  LevelInv'
    BY <1>7 DEF Restart, LevelInv
  <1>8. CASE UNCHANGED <<calls, volume, device>>
    BY <1>8 DEF LevelInv, At, volume, device
  <1>9. QED
    BY <1>1, <1>2, <1>3, <1>4, <1>5, <1>6, <1>7, <1>8, CommandDevice, ValidTokenDevice, RefreshDevice
       DEF Next, Volume, vars, volume, device, LoginGranted, ExchangeToken, LoginSaved, Ages, Revoke, Callers

(* Counters of the bounds. *)
LEMMA BoundStep == BoundTypes /\ [Next]_vars => BoundTypes'
  <1> SUFFICES ASSUME BoundTypes, [Next]_vars
               PROVE  BoundTypes'
    OBVIOUS
  <1> USE ConstantsOK
         DEF vars, oauth, volume, bounds, BoundTypes
  <1>1. ASSUME NEW pct \in Percents, onAdminSetVolume(pct)
        PROVE  BoundTypes'
    BY <1>1 DEF onAdminSetVolume
  <1>2. ASSUME fadeOutAndFinishDailyDouble
        PROVE  BoundTypes'
    BY <1>2 DEF fadeOutAndFinishDailyDouble
  <1>3. ASSUME LoginGranted
        PROVE  BoundTypes'
    BY <1>3 DEF LoginGranted
  <1>4. ASSUME Restart
        PROVE  BoundTypes'
    BY <1>4 DEF Restart
  <1>5. CASE UNCHANGED <<logins, restarts, asks, faded, limit>>
    BY <1>5
  <1>6. QED
    BY <1>1, <1>2, <1>3, <1>4, <1>5
       DEF Next, Volume, Command, Refresh, FadeStep, FadeEnds, runVolumeWriter, playerCommand, Answered,
           AfterRejection, Retry, ValidToken, refresh, Granted, Refused, Store, ExchangeToken, LoginSaved,
           Ages, Revoke

-----------------------------------------------------------------------------
(* The theorems.                                                           *)

IInv ==
    /\ TypeOK
    /\ Exclusive /\ Known /\ LoginPending /\ GotValid /\ WorksInv
    /\ MintedInv /\ FreshInv /\ RetryInv
    /\ LevelInv

LEMMA InitInv == Init => IInv
  <1> SUFFICES ASSUME Init
               PROVE  IInv
    OBVIOUS
  <1>1. \A p \in Callers : calls[p] = Idle
    BY DEF Init
  <1>2. CallTypes
    BY IdleIsCall DEF Init, CallTypes
  <1>3. TokenTypes
    <2>1. <<>> \in Seq(Nat)
      OBVIOUS
    <2>2. QED
      BY <2>1, IdleIsCall, NoFields DEF Init, TokenTypes
  <1>4. VolumeTypes
    <2>1. <<>> \in Seq(Levels) /\ Len(<<>>) = 0 /\ 100 \in Levels /\ QueueDepth \in Nat
      BY ConstantsOK DEF Levels
    <2>2. QED
      BY <2>1 DEF Init, VolumeTypes
  <1>5. FlagTypes /\ BoundTypes
    BY DEF Init, FlagTypes, BoundTypes
  <1>6. Exclusive /\ Known /\ LoginPending
    BY <1>1, IdleFields, NoFields DEF Init, Exclusive, Known, Issued, At, LoginPending
  <1>7. GotValid /\ WorksInv
    BY <1>1, IdleFields DEF Init, GotValid, WorksInv, At
  <1>8. MintedInv /\ FreshInv /\ RetryInv
    <2>1. accessToken = 0 /\ minted = 0 /\ login.access = 0
      BY NoFields DEF Init
    <2>2. \A p \in Callers : calls[p].pc = "idle" /\ calls[p].token = 0
      BY <1>1, IdleFields
    <2>3. MintedInv
      BY <2>1, <2>2 DEF MintedInv, At
    <2>4. FreshInv
      BY <2>1, <2>2 DEF FreshInv, At
    <2>5. \A p \in Commanders : calls[p].pc = "idle"
      BY <2>2 DEF Callers
    <2>6. RetryInv
      BY <2>5 DEF RetryInv
    <2>7. QED
      BY <2>3, <2>4, <2>6
  <1>9. LevelInv
    BY DEF Init, LevelInv
  <1>10. QED
    BY <1>2, <1>3, <1>4, <1>5, <1>6, <1>7, <1>8, <1>9 DEF IInv, TypeOK

LEMMA NextInv == IInv /\ [Next]_vars => IInv'
  <1> SUFFICES ASSUME IInv, [Next]_vars
               PROVE  IInv'
    OBVIOUS
  <1>1. /\ CallTypes /\ TokenTypes /\ VolumeTypes /\ FlagTypes /\ BoundTypes
        /\ Exclusive /\ Known /\ LoginPending /\ GotValid /\ WorksInv
        /\ MintedInv /\ FreshInv /\ RetryInv /\ LevelInv
    BY DEF IInv, TypeOK
  <1>2. TokenTypes'
    BY <1>1, TokenStep
  <1>3. CallTypes'
    BY <1>1, <1>2, CallStep
  <1>4. VolumeTypes' /\ FlagTypes' /\ BoundTypes'
    BY <1>1, <1>2, VolumeStep, FlagStep, BoundStep
  <1>5. Exclusive' /\ Known' /\ LoginPending'
    BY <1>1, <1>2, <1>3, ExclusiveStep, KnownStep, PendingStep
  <1>6. GotValid' /\ WorksInv'
    BY <1>1, <1>2, GotStep, WorksStep
  <1>7. MintedInv' /\ FreshInv' /\ RetryInv'
    BY <1>1, <1>2, <1>3, MintedStep, FreshStep, RetryStep
  <1>8. LevelInv'
    BY <1>1, <1>2, LevelStep
  <1>9. QED
    BY <1>2, <1>3, <1>4, <1>5, <1>6, <1>7, <1>8 DEF IInv, TypeOK

(* The invariant, for every client: any goroutines that command or ask,    *)
(* any logins, restarts and fades, any length of the queue.                *)
THEOREM DeckInvariant == Spec => []IInv
  BY InitInv, NextInv, PTL DEF Spec

(* The fields of the client and of the engine's volume keep their types:   *)
(* no step of a fade asks for more than a hundred percent or less than     *)
(* none, and the queue never holds more than volumeCmds has room for.      *)
THEOREM TypeCorrect == Spec => []TypeOK
  <1>1. IInv => TypeOK
    BY DEF IInv
  <1>2. QED
    BY <1>1, DeckInvariant, PTL

(* The device rests at the operating level, whatever fades and changes of  *)
(* the level overlapped (sendVolume, runVolumeWriter, the restore at the   *)
(* end of fadeOutAndFinishDailyDouble).                                    *)
THEOREM RestsAtOperatingLevel == Spec => []DeviceAtOperatingLevel
  <1>1. IInv => DeviceAtOperatingLevel
    BY DEF IInv, LevelInv, DeviceAtOperatingLevel
  <1>2. QED
    BY <1>1, DeckInvariant, PTL

(* Grants exclude each other: refreshMu is held from the request to the    *)
(* store, so no two refreshes spend the same refresh token.                *)
THEOREM OneGrantAtATime == Spec => []Exclusive
  <1>1. IInv => Exclusive
    BY DEF IInv
  <1>2. QED
    BY <1>1, DeckInvariant, PTL

(* Overlapping refreshes and logins leave a refresh token that works, and  *)
(* a refused command never repeats the token it was refused with (refresh, *)
(* doPlayer, ExchangeToken).                                               *)
THEOREM TokensKeepWorking == Spec => TokensWork
  <1>1. IInv' => RefreshTokenWorks'
    BY DEF IInv, WorksInv, RefreshTokenWorks
  <1>2. ASSUME IInv, Next
        PROVE  RetryDiffers
    <2> SUFFICES ASSUME NEW p \in Commanders, At(p, "retry"), calls'[p].pc = "resent"
                 PROVE  calls'[p].token # calls[p].token
      BY DEF RetryDiffers
    <2>1. CallTypes /\ TokenTypes /\ TokenTypes' /\ Known /\ RetryInv
      BY <1>2, NextInv DEF IInv, TypeOK
    <2>2. p \in Callers /\ calls'[p] # calls[p]
      BY DEF At, Callers
    <2>3. ASSUME NEW q \in Commanders, Command(q)
          PROVE  calls'[p].token # calls[p].token
      <3>1. q = p
        BY <2>1, <2>2, <2>3, CommandDevice DEF CallStepOf, Only
      <3>2. Retry(p)
        BY <2>3, <3>1 DEF Command, playerCommand, Answered, AfterRejection, At
      <3>3. calls'[p].token = accessToken
        BY <2>1, <3>2, RetryMoves DEF Idles, Sends
      <3>4. QED
        BY <2>1, <3>3 DEF RetryInv, At
    <2>4. \A q \in Stages : ~ValidToken(q)
      BY <2>1, <2>2, ValidTokenMoves, ConstantsOK DEF Only
    <2>5. \A q \in Callers : ~Refresh(q)
      <3> SUFFICES ASSUME NEW q \in Callers, Refresh(q)
                   PROVE  FALSE
        OBVIOUS
      <3>1. q = p
        BY <2>1, <2>2, RefreshDevice DEF CallStepOf, Only
      <3>2. QED
        BY <3>1 DEF Refresh, refresh, Granted, Refused, Store, At
    <2>6. ~runVolumeWriter
      BY <2>1, <2>2, runVolumeWriterMoves DEF Only, runVolumeWriter, At
    <2>7. ~Restart
      BY <2>2, RestartMoves DEF Idles
    <2>8. QED
      BY <1>2, <2>2, <2>3, <2>4, <2>5, <2>6, <2>7
         DEF Next, Volume, onAdminSetVolume, fadeOutAndFinishDailyDouble, FadeStep, FadeEnds, LoginGranted,
             ExchangeToken, LoginSaved, Ages, Revoke
  <1>3. IInv /\ IInv' /\ [Next]_vars => [RetryDiffers /\ RefreshTokenWorks']_vars
    BY <1>1, <1>2
  <1>4. QED
    BY <1>3, NextInv, DeckInvariant, PTL DEF TokensWork, Spec
=============================================================================
