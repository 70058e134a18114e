----------------------------- MODULE RevealProofs -----------------------------
(***************************************************************************)
(* The safety of Reveal for any players, tracks, knobs and number of       *)
(* rounds, whatever the order in which timers run late, partial answers    *)
(* come and admins end, reveal and reset.                                  *)
(***************************************************************************)
EXTENDS Reveal, TLAPS

(* A clock that counts no more letters than there are. *)
Fits(c) == c \in Clock /\ \A f \in Fields : c.revealed[f] <= c.size[f]

StateTypes ==
    /\ state \in States /\ roundKey \in Keys /\ track \in Sizes \cup {None}
    /\ revealCfg \in Configs /\ revealLocked \in BOOLEAN /\ judgedShown \in BOOLEAN
    /\ rounds \in Keys

PeopleTypes ==
    /\ buzzWinner \in Players \cup {None} /\ guessed \subseteq Players
    /\ contenders \subseteq Players /\ online \subseteq Players /\ partial \in BOOLEAN
    /\ state = "ADJUDICATE" => buzzWinner \in Players

TimerTypes ==
    /\ oneShots \subseteq OneShot
    /\ armed \in [Rounds -> Nat] /\ ticks \in [Rounds -> Nat] /\ revealTimer \in Keys

ClockTypes == Fits(rc) /\ shown \in Mask

(* Nothing is of a round that has not been, and a track is of a round. *)
ClockKeys == rc.key <= rounds /\ shown.key <= rounds

GameKeys ==
    /\ roundKey <= rounds
    /\ track # None => roundKey \in Rounds
    /\ state \in {"ROUND_ACTIVE", "ADJUDICATE"} => track # None

TimerKeys ==
    /\ \A t \in oneShots : t.key <= rounds
    /\ \A k \in Rounds : k > rounds => armed[k] = 0 /\ ticks[k] = 0

(* A clock that runs, or that ran until karaoke, is the current round's;   *)
(* in karaoke it does not run.                                             *)
LiveInv == rc.active \/ rc.finalizing => track # None /\ rc.key = roundKey /\ rc.size = track

KaraokeInv == state = "KARAOKE" => ~rc.active

(* Of a running clock, stopRevealTimer reaches the ticker. *)
ReachInv == rc.active => revealTimer \in {0, rc.key}

(* The room has seen what a running clock shows, and no more than there is *)
(* of the track.                                                           *)
ShownInv == rc.active => rc.phase # 0 /\ shown = CurrentMask(rc)

SeenInv == track # None /\ shown.key = roundKey => \A f \in Fields : shown.letters[f] <= track[f]

(* Before the letters start, a partial answer may have filled a field.     *)
EarlyInv ==
    rc.active /\ ~rc.phase1Done =>
        /\ ~partial => \A f \in Fields : rc.revealed[f] = 0
        /\ \E f \in Fields : rc.revealed[f] = 0

(* A clock that has locked the room out has locked it. *)
LockInv == rc.lockedOut => revealLocked

(* A guess that is being judged with the answer shown is remembered. *)
JudgedInv == state = "ADJUDICATE" /\ rc.key = roundKey /\ AllDone(rc) => judgedShown

-----------------------------------------------------------------------------
(* The clock, operation by operation: what stays of a clock, what it shows *)
(* and whether it is done.                                                 *)

Same(c, d) ==
    /\ Fits(d)
    /\ d.key = c.key /\ d.size = c.size /\ d.cfg = c.cfg /\ d.finalizing = c.finalizing

Alike(c, d) ==
    /\ Same(c, d)
    /\ d.revealed = c.revealed /\ d.lockedOut = c.lockedOut /\ d.phase1Done = c.phase1Done

Onward(c, d) ==
    /\ Same(c, d)
    /\ d.phase >= c.phase
    /\ \A f \in Fields : d.revealed[f] >= c.revealed[f]

LEMMA FieldsOf ==
    ASSUME NEW c \in Clock
    PROVE  /\ c.active \in BOOLEAN /\ c.key \in Keys /\ c.size \in [Fields -> Nat]
           /\ c.revealed \in [Fields -> Nat] /\ c.phase \in 0 .. DONE /\ c.phase1Done \in BOOLEAN
           /\ c.finalizing \in BOOLEAN /\ c.lockedOut \in BOOLEAN /\ c.cfg \in Config
  BY DEF Clock

LEMMA NoClockFits ==
    /\ Fits(NoClock) /\ ~NoClock.active /\ ~NoClock.finalizing /\ ~NoClock.lockedOut
    /\ NoClock.key = 0 /\ ~NoClock.phase1Done
  BY ConstantsOK DEF NoClock, NoLetters, Fits, Clock, Config, Keys, Fields, DONE

LEMMA StoppedClock ==
    ASSUME NEW c, Fits(c)
    PROVE  LET d == [c EXCEPT !.active = FALSE]
           IN  Alike(c, d) /\ d.phase = c.phase /\ ~d.active
  <1> DEFINE d == [c EXCEPT !.active = FALSE]
  <1>1. /\ d \in Clock /\ ~d.active /\ d.phase = c.phase
        /\ d.key = c.key /\ d.size = c.size /\ d.cfg = c.cfg /\ d.finalizing = c.finalizing
        /\ d.revealed = c.revealed /\ d.lockedOut = c.lockedOut /\ d.phase1Done = c.phase1Done
    BY DEF Fits, Clock
  <1>2. QED
    BY <1>1 DEF Alike, Same, Fits

LEMMA YearClock ==
    ASSUME NEW c, Fits(c)
    PROVE  LET d == [c EXCEPT !.showYear = TRUE]
           IN  Alike(c, d) /\ d.phase = c.phase /\ d.active = c.active
  <1> DEFINE d == [c EXCEPT !.showYear = TRUE]
  <1>1. /\ d \in Clock /\ d.active = c.active /\ d.phase = c.phase
        /\ d.key = c.key /\ d.size = c.size /\ d.cfg = c.cfg /\ d.finalizing = c.finalizing
        /\ d.revealed = c.revealed /\ d.lockedOut = c.lockedOut /\ d.phase1Done = c.phase1Done
    BY DEF Fits, Clock
  <1>2. QED
    BY <1>1 DEF Alike, Same, Fits

(* A phase that is set: by the block's end, or after the last letter. *)
LEMMA PhaseClock ==
    ASSUME NEW c, Fits(c), NEW p \in 0 .. DONE
    PROVE  LET d == [c EXCEPT !.phase = p]
           IN  Alike(c, d) /\ d.phase = p /\ d.active = c.active
  <1> DEFINE d == [c EXCEPT !.phase = p]
  <1>1. /\ d \in Clock /\ d.active = c.active /\ d.phase = p
        /\ d.key = c.key /\ d.size = c.size /\ d.cfg = c.cfg /\ d.finalizing = c.finalizing
        /\ d.revealed = c.revealed /\ d.lockedOut = c.lockedOut /\ d.phase1Done = c.phase1Done
    BY DEF Fits, Clock
  <1>2. QED
    BY <1>1 DEF Alike, Same, Fits

LEMMA LettersClock ==
    ASSUME NEW c, Fits(c)
    PROVE  LET d == [c EXCEPT !.phase1Done = TRUE, !.phase = IF @ < STREAM THEN STREAM ELSE @]
           IN  /\ Onward(c, d) /\ d.revealed = c.revealed /\ d.lockedOut = c.lockedOut
               /\ d.phase1Done /\ d.active = c.active
  <1> DEFINE d == [c EXCEPT !.phase1Done = TRUE, !.phase = IF @ < STREAM THEN STREAM ELSE @]
  <1>1. PICK p \in 0 .. DONE : p = IF c.phase < STREAM THEN STREAM ELSE c.phase
    BY FieldsOf DEF Fits, STREAM, DONE
  <1>2. p >= c.phase
    BY <1>1, FieldsOf DEF Fits, STREAM, DONE
  <1>3. d = [c EXCEPT !.phase1Done = TRUE, !.phase = p]
    BY <1>1
  <1>4. /\ d \in Clock /\ d.active = c.active /\ d.phase = p
        /\ d.key = c.key /\ d.size = c.size /\ d.cfg = c.cfg /\ d.finalizing = c.finalizing
        /\ d.revealed = c.revealed /\ d.lockedOut = c.lockedOut /\ d.phase1Done
    BY <1>3 DEF Fits, Clock
  <1>5. QED
    BY <1>2, <1>4, FieldsOf DEF Onward, Same, Fits

LEMMA SettledClock ==
    ASSUME NEW c, Fits(c)
    PROVE  Alike(c, Settled(c)) /\ Settled(c).active = c.active /\ Settled(c).phase >= c.phase
  <1>1. CASE AllDone(c)
    <2>1. DONE \in 0 .. DONE /\ Settled(c) = [c EXCEPT !.phase = DONE]
      BY <1>1 DEF Settled, DONE
    <2>2. Alike(c, Settled(c)) /\ Settled(c).active = c.active /\ Settled(c).phase = DONE
      BY <2>1, PhaseClock
    <2>3. c.phase \in 0 .. DONE
      BY FieldsOf DEF Fits
    <2>4. QED
      BY <2>2, <2>3 DEF DONE
  <1>2. CASE ~AllDone(c)
    BY <1>2, FieldsOf DEF Settled, Fits, Alike, Same, DONE
  <1>3. QED
    BY <1>1, <1>2

(* One field has other letters than before. *)
LEMMA LetterClock ==
    ASSUME NEW c, Fits(c), NEW f \in Fields, ~FieldDone(c, f)
    PROVE  LET d == WithLetter(c, f)
           IN  /\ Onward(c, d) /\ d.lockedOut = c.lockedOut /\ d.phase1Done = c.phase1Done
               /\ d.active = c.active /\ d.revealed[f] > c.revealed[f]
  <1> DEFINE d == WithLetter(c, f)
  <1>1. /\ d \in Clock /\ d.active = c.active /\ d.phase = c.phase
        /\ d.key = c.key /\ d.size = c.size /\ d.cfg = c.cfg /\ d.finalizing = c.finalizing
        /\ d.revealed = [c.revealed EXCEPT ![f] = @ + 1]
        /\ d.lockedOut = c.lockedOut /\ d.phase1Done = c.phase1Done
    <2>1. c.nextField \in Fields /\ Other(f) \in Fields
      BY DEF Fits, Clock, Other, Fields
    <2>2. PICK n \in Fields : n = IF c.cfg.alternate THEN Other(f) ELSE c.nextField
      BY <2>1
    <2>3. PICK r \in [Fields -> Nat] : r = [c.revealed EXCEPT ![f] = @ + 1]
      <3>1. c.revealed \in [Fields -> Nat]
        BY FieldsOf DEF Fits
      <3>2. [c.revealed EXCEPT ![f] = @ + 1] \in [Fields -> Nat]
        BY <3>1
      <3>3. QED
        BY <3>2
    <2>4. d = [c EXCEPT !.revealed = r, !.nextField = n]
      BY <2>2, <2>3 DEF WithLetter
    <2>5. QED
      BY <2>3, <2>4 DEF Fits, Clock
  <1>2. \A g \in Fields : d.revealed[g] >= c.revealed[g] /\ d.revealed[g] <= d.size[g]
    BY <1>1, FieldsOf DEF FieldDone, Fits
  <1>3. d.revealed[f] > c.revealed[f]
    BY <1>1, FieldsOf DEF Fits
  <1>4. QED
    BY <1>1, <1>2, <1>3, FieldsOf DEF Onward, Same, Fits

LEMMA FilledClock ==
    ASSUME NEW c, Fits(c), NEW f \in Fields
    PROVE  LET d == [c EXCEPT !.revealed[f] = c.size[f]]
           IN  /\ Onward(c, d) /\ d.lockedOut = c.lockedOut /\ d.phase1Done = c.phase1Done
               /\ d.active = c.active
               /\ \A g \in Fields \ {f} : d.revealed[g] = c.revealed[g]
  <1> DEFINE d == [c EXCEPT !.revealed[f] = c.size[f]]
  <1>1. /\ d \in Clock /\ d.active = c.active /\ d.phase = c.phase
        /\ d.key = c.key /\ d.size = c.size /\ d.cfg = c.cfg /\ d.finalizing = c.finalizing
        /\ d.revealed = [c.revealed EXCEPT ![f] = c.size[f]]
        /\ d.lockedOut = c.lockedOut /\ d.phase1Done = c.phase1Done
    BY DEF Fits, Clock
  <1>2. /\ \A g \in Fields : d.revealed[g] >= c.revealed[g] /\ d.revealed[g] <= d.size[g]
        /\ \A g \in Fields \ {f} : d.revealed[g] = c.revealed[g]
    BY <1>1, FieldsOf DEF Fits
  <1>3. QED
    BY <1>1, <1>2, FieldsOf DEF Onward, Same, Fits

LEMMA LockedClock ==
    ASSUME NEW c, Fits(c), NEW b \in BOOLEAN
    PROVE  LET d == [c EXCEPT !.lockedOut = @ \/ b]
           IN  /\ Onward(c, d) /\ d.lockedOut = (c.lockedOut \/ b) /\ d.phase1Done = c.phase1Done
               /\ d.active = c.active /\ d.revealed = c.revealed /\ d.phase = c.phase
  <1> DEFINE d == [c EXCEPT !.lockedOut = @ \/ b]
  <1>1. /\ d \in Clock /\ d.active = c.active /\ d.phase = c.phase
        /\ d.key = c.key /\ d.size = c.size /\ d.cfg = c.cfg /\ d.finalizing = c.finalizing
        /\ d.revealed = c.revealed
        /\ d.lockedOut = (c.lockedOut \/ b) /\ d.phase1Done = c.phase1Done
    BY DEF Fits, Clock
  <1>2. QED
    BY <1>1, FieldsOf DEF Onward, Same, Fits

LEMMA OnwardTrans ==
    ASSUME NEW c, NEW d, NEW e, Fits(c), Onward(c, d), Onward(d, e)
    PROVE  Onward(c, e)
  BY FieldsOf DEF Onward, Same, Fits, DONE

LEMMA AlikeOnward ==
    ASSUME NEW c, NEW d, Fits(c), Alike(c, d), d.phase >= c.phase
    PROVE  Onward(c, d)
  BY FieldsOf DEF Onward, Alike, Same, Fits

(* What a mask shows. *)
LEMMA MaskOf ==
    ASSUME NEW c, Fits(c)
    PROVE  /\ CurrentMask(c) \in Mask
           /\ CurrentMask(c).key = c.key /\ CurrentMask(c).phase = c.phase
           /\ \A f \in Fields : CurrentMask(c).letters[f] =
                  IF c.phase = NOISE THEN 0 ELSE c.revealed[f]
  BY FieldsOf DEF CurrentMask, Mask, FieldMask, Fits, NoLetters

LEMMA MaskGrows ==
    ASSUME NEW c, NEW d, Fits(c), c.phase # 0, Onward(c, d)
    PROVE  /\ CurrentMask(d).key = CurrentMask(c).key
           /\ CurrentMask(d).phase >= CurrentMask(c).phase
           /\ \A f \in Fields : CurrentMask(d).letters[f] >= CurrentMask(c).letters[f]
  <1>1. Fits(d) /\ d.key = c.key /\ d.phase >= c.phase /\ \A f \in Fields : d.revealed[f] >= c.revealed[f]
    BY DEF Onward, Same
  <1>2. /\ c.phase \in 0 .. 4 /\ d.phase \in 0 .. 4
        /\ c.revealed \in [Fields -> Nat] /\ d.revealed \in [Fields -> Nat]
    BY <1>1, FieldsOf DEF Fits, DONE
  <1>3. d.key = c.key /\ CurrentMask(c).key = c.key /\ CurrentMask(d).key = d.key
        /\ CurrentMask(c).phase = c.phase /\ CurrentMask(d).phase = d.phase
    BY <1>1, MaskOf
  <1>4. ASSUME NEW f \in Fields
        PROVE  CurrentMask(d).letters[f] >= CurrentMask(c).letters[f]
    <2>1. /\ CurrentMask(c).letters[f] = IF c.phase = NOISE THEN 0 ELSE c.revealed[f]
          /\ CurrentMask(d).letters[f] = IF d.phase = NOISE THEN 0 ELSE d.revealed[f]
      BY <1>1, MaskOf
    <2>2. QED
      BY <1>1, <1>2, <2>1 DEF NOISE
  <1>5. QED
    BY <1>1, <1>3, <1>4
-----------------------------------------------------------------------------
(* What a step does to the clock and to what the room sees. *)

IInv ==
    /\ StateTypes /\ PeopleTypes /\ TimerTypes /\ ClockTypes
    /\ ClockKeys /\ GameKeys /\ TimerKeys /\ LiveInv /\ KaraokeInv /\ ReachInv /\ TickerRuns
    /\ ShownInv /\ SeenInv /\ EarlyInv /\ LockInv
    /\ AnswerPublicInKaraoke /\ JudgedInv /\ RevealedRoundCloses

Keeps == UNCHANGED <<rc, shown>>

Clears == rc' = NoClock /\ shown' = shown

Starts(size) ==
    /\ Fits(rc') /\ rc'.active /\ ~rc'.finalizing /\ ~rc'.phase1Done /\ ~rc'.lockedOut
    /\ rounds' = rounds + 1 /\ rc'.key = rounds' /\ rc'.size = size /\ rc'.phase # 0
    /\ \A f \in Fields : rc'.revealed[f] = 0
    /\ shown' = CurrentMask(rc')

Fills ==
    /\ track # None
    /\ Fits(rc') /\ ~rc'.active /\ rc'.finalizing
    /\ rc'.key = roundKey /\ rc'.size = track
    /\ rc'.lockedOut => rc.lockedOut
    /\ shown' = [key |-> roundKey, phase |-> DONE, letters |-> track]

GoesOn ==
    /\ rc.active /\ Onward(rc, rc')
    /\ shown' = CurrentMask(rc')

LEMMA RunningClock ==
    ASSUME IInv, rc.active
    PROVE  /\ Fits(rc) /\ rc.phase # 0 /\ shown = CurrentMask(rc)
           /\ track # None /\ rc.key = roundKey /\ rc.size = track
           /\ rc.key \in Rounds
  BY DEF IInv, ClockTypes, ShownInv, LiveInv, GameKeys

LEMMA StartEffect ==
    ASSUME IInv, NEW size \in Sizes, NEW year \in BOOLEAN, StartTrack(size, year)
    PROVE  Starts(size)
  <1> DEFINE k == rounds + 1
             p == IF revealCfg.block THEN NOISE ELSE SKELETON
             c == [NoClock EXCEPT !.active = TRUE, !.key = k, !.size = size, !.cfg = revealCfg,
                                  !.phase = p]
  <1>1. k \in Keys /\ size \in [Fields -> Nat] /\ revealCfg \in Config /\ p \in 1 .. DONE
    BY ConstantsOK DEF IInv, StateTypes, StartTrack, FreshKey, Keys, NOISE, SKELETON, DONE
  <1>2. /\ NoClock \in Clock /\ ~NoClock.finalizing /\ ~NoClock.phase1Done /\ ~NoClock.lockedOut
        /\ NoClock.revealed = NoLetters
    BY NoClockFits DEF Fits, NoClock
  <1> HIDE DEF k, p
  <1>7. p \in 0 .. DONE /\ p # 0
    BY <1>1 DEF DONE
  <1>3. /\ c \in Clock /\ c.active /\ ~c.finalizing /\ ~c.phase1Done /\ ~c.lockedOut
        /\ c.key = k /\ c.size = size /\ c.phase = p /\ c.revealed = NoLetters
    <2>1. PICK n \in Clock : n = NoClock
      BY <1>2
    <2>2. c = [n EXCEPT !.active = TRUE, !.key = k, !.size = size, !.cfg = revealCfg, !.phase = p]
      BY <2>1
    <2>3. /\ c \in Clock /\ c.active
          /\ c.key = k /\ c.size = size /\ c.phase = p
          /\ c.revealed = n.revealed
          /\ c.finalizing = n.finalizing /\ c.phase1Done = n.phase1Done /\ c.lockedOut = n.lockedOut
      BY <1>1, <1>7, <2>2 DEF Clock
    <2> HIDE DEF c
    <2>4. QED
      BY <1>2, <2>1, <2>3
  <1>4. rc' = c /\ shown' = Broadcast(c)
    BY DEF StartTrack, StartReveal, k, p
  <1> HIDE DEF c
  <1>5. Fits(c) /\ \A f \in Fields : c.revealed[f] = 0
    BY <1>1, <1>3 DEF Fits, NoLetters
  <1>6. QED
    BY <1>7, <1>3, <1>4, <1>5 DEF Starts, Broadcast, k, StartTrack, FreshKey

LEMMA FullClock ==
    ASSUME NEW c, Fits(c)
    PROVE  LET d == CompleteAll([c EXCEPT !.finalizing = TRUE])
           IN  /\ Fits(d) /\ d.finalizing /\ d.key = c.key /\ d.size = c.size
               /\ d.lockedOut = c.lockedOut
               /\ CurrentMask(d) = [key |-> c.key, phase |-> DONE, letters |-> c.size]
  <1> DEFINE d == CompleteAll([c EXCEPT !.finalizing = TRUE])
  <1>1. /\ d \in Clock /\ d.finalizing /\ d.key = c.key /\ d.size = c.size /\ d.phase = DONE
        /\ d.revealed = c.size /\ d.lockedOut = c.lockedOut
    <2>1. d = [c EXCEPT !.finalizing = TRUE, !.revealed = c.size, !.phase = DONE]
      <3>1. [c EXCEPT !.finalizing = TRUE].size = c.size
        BY DEF Fits, Clock
      <3>2. QED
        BY <3>1 DEF CompleteAll
    <2>2. DONE \in 0 .. DONE /\ c.size \in [Fields -> Nat]
      BY FieldsOf DEF Fits, DONE
    <2> HIDE DEF d
    <2>3. QED
      BY <2>1, <2>2 DEF Fits, Clock
  <1> HIDE DEF d
  <1>2. Fits(d)
    BY <1>1, FieldsOf DEF Fits
  <1>3. c.size \in [Fields -> Nat]
    BY FieldsOf DEF Fits
  <1>4. CurrentMask(d) = [key |-> c.key, phase |-> DONE, letters |-> c.size]
    <2>1. \A f \in Fields : FieldMask(d, f) = c.size[f]
      BY <1>1, <1>3 DEF FieldMask
    <2>2. [f \in Fields |-> FieldMask(d, f)] = c.size
      BY <1>3, <2>1
    <2>3. d.phase # NOISE
      BY <1>1 DEF DONE, NOISE
    <2>4. QED
      BY <1>1, <2>2, <2>3 DEF CurrentMask
  <1>5. QED
    BY <1>1, <1>2, <1>4 DEF d

LEMMA FinalizeEffect ==
    ASSUME IInv, FinalizeReveal
    PROVE  (track = None /\ Keeps) \/ Fills
  <1>1. CASE track = None
    BY <1>1 DEF FinalizeReveal, Keeps
  <1>2. CASE track # None
    <2> DEFINE bare == [NoClock EXCEPT !.key = roundKey, !.size = track, !.cfg = revealCfg]
               kept == rc.key = roundKey /\ (rc.active \/ rc.finalizing)
               c == IF kept THEN rc ELSE bare
               full == CompleteAll([c EXCEPT !.finalizing = TRUE])
    <2>1. shown' = Broadcast(full) /\ rc' = [full EXCEPT !.active = FALSE]
      BY <1>2 DEF FinalizeReveal
    <2>2. /\ bare \in Clock /\ bare.key = roundKey /\ bare.size = track /\ ~bare.lockedOut
          /\ bare.revealed = NoLetters
      <3>1. NoClock \in Clock /\ ~NoClock.lockedOut /\ NoClock.revealed = NoLetters
        BY NoClockFits DEF Fits, NoClock
      <3>2. roundKey \in Keys /\ track \in [Fields -> Nat] /\ revealCfg \in Config
        BY <1>2, ConstantsOK DEF IInv, StateTypes
      <3>3. QED
        BY <3>1, <3>2 DEF Clock
    <2> HIDE DEF bare
    <2>3. Fits(bare)
      <3>1. bare.size \in [Fields -> Nat]
        BY <2>2, FieldsOf
      <3>2. QED
        BY <2>2, <3>1 DEF Fits, NoLetters
    <2>4. kept => Fits(rc) /\ rc.key = roundKey /\ rc.size = track
      BY DEF IInv, ClockTypes, LiveInv
    <2> HIDE DEF kept
    <2>5. Fits(c) /\ c.key = roundKey /\ c.size = track /\ (c.lockedOut => rc.lockedOut)
      BY <2>2, <2>3, <2>4
    <2> HIDE DEF c
    <2>6. /\ Fits(full) /\ full.finalizing /\ full.key = c.key /\ full.size = c.size
          /\ full.lockedOut = c.lockedOut
          /\ CurrentMask(full) = [key |-> c.key, phase |-> DONE, letters |-> c.size]
      BY <2>5, FullClock
    <2> HIDE DEF full
    <2>7. Alike(full, rc') /\ ~rc'.active
      BY <2>1, <2>6, StoppedClock
    <2>8. QED
      BY <1>2, <2>1, <2>5, <2>6, <2>7 DEF Fills, Alike, Same, Broadcast
  <1>3. QED
    BY <1>1, <1>2

LEMMA YearEffect ==
    ASSUME IInv, YearShows
    PROVE  GoesOn /\ Alike(rc, rc') /\ rc'.active
  <1>1. rc.active /\ rc' = [rc EXCEPT !.showYear = TRUE] /\ shown' = Broadcast(rc')
    BY DEF YearShows, Runs
  <1>2. Fits(rc)
    BY <1>1, RunningClock
  <1>3. Alike(rc, rc') /\ rc'.phase = rc.phase /\ rc'.active
    BY <1>1, <1>2, YearClock
  <1>4. Onward(rc, rc')
    BY <1>2, <1>3, AlikeOnward, FieldsOf DEF Fits, DONE
  <1>5. QED
    BY <1>1, <1>3, <1>4 DEF GoesOn, Broadcast

LEMMA BlockEffect ==
    ASSUME IInv, BlockFlips
    PROVE  GoesOn /\ Alike(rc, rc') /\ rc'.active
  <1>1. rc.active /\ rc' = Flipped /\ shown' = IF rc' = rc THEN shown ELSE Broadcast(rc')
    BY DEF BlockFlips, Runs
  <1>2. Fits(rc) /\ shown = CurrentMask(rc)
    BY <1>1, RunningClock
  <1>3. rc.phase \in 0 .. DONE
    BY <1>2, FieldsOf DEF Fits
  <1>4. Alike(rc, rc') /\ rc'.phase >= rc.phase /\ rc'.active
    <2>1. CASE rc.phase = NOISE
      <3>1. SKELETON \in 0 .. DONE /\ rc' = [rc EXCEPT !.phase = SKELETON]
        BY <1>1, <2>1 DEF Flipped, SKELETON, DONE
      <3>2. QED
        BY <1>1, <1>2, <2>1, <3>1, PhaseClock DEF SKELETON, NOISE
    <2>2. CASE rc.phase # NOISE
      BY <1>1, <1>2, <1>3, <2>2 DEF Flipped, Alike, Same, DONE
    <2>3. QED
      BY <2>1, <2>2
  <1>5. Onward(rc, rc')
    BY <1>2, <1>4, AlikeOnward
  <1>6. QED
    BY <1>1, <1>2, <1>4, <1>5 DEF GoesOn, Broadcast

LEMMA AlikeMask ==
    ASSUME NEW c, NEW d, Alike(c, d), d.phase = c.phase
    PROVE  CurrentMask(d) = CurrentMask(c)
  BY DEF CurrentMask, FieldMask, Alike, Same

LEMMA OnwardRefl == ASSUME NEW c, Fits(c) PROVE Onward(c, c)
  BY FieldsOf DEF Onward, Same, Fits, DONE

(* The next tick. *)
Arms(k) == armed' = [armed EXCEPT ![k] = @ + 1] /\ revealTimer' = k

LEMMA LettersEffect ==
    ASSUME IInv, LettersStart
    PROVE  /\ GoesOn /\ rc'.revealed = rc.revealed /\ rc'.lockedOut = rc.lockedOut
           /\ rc'.active /\ ~rc.phase1Done /\ rc'.phase1Done
           /\ Arms(rc.key)
  <1> DEFINE c == [rc EXCEPT !.phase1Done = TRUE, !.phase = IF @ < STREAM THEN STREAM ELSE @]
  <1>1. /\ rc.active /\ [kind |-> "letters", key |-> rc.key] \in oneShots
        /\ shown' = Broadcast(c) /\ StartRevealTicker(c, rc.key)
    BY DEF LettersStart, Runs
  <1>2. Fits(rc) /\ ~rc.phase1Done /\ rc.size = track /\ track # None
    BY <1>1, RunningClock DEF IInv, TickerRuns
  <1>3. /\ Onward(rc, c) /\ c.revealed = rc.revealed /\ c.lockedOut = rc.lockedOut
        /\ c.phase1Done /\ c.active = rc.active
    BY <1>2, LettersClock
  <1> HIDE DEF c
  <1>4. ~AllDone(c)
    <2>1. PICK f \in Fields : rc.revealed[f] = 0
      BY <1>1, <1>2 DEF IInv, EarlyInv
    <2>2. track \in [Fields -> Nat \ {0}]
      BY <1>2, ConstantsOK DEF IInv, StateTypes
    <2>3. c.revealed[f] = 0 /\ c.size[f] \in Nat \ {0}
      BY <1>2, <1>3, <2>1, <2>2 DEF Onward, Same
    <2>4. QED
      BY <2>3 DEF AllDone, FieldDone
  <1>5. rc' = c /\ Arms(rc.key)
    BY <1>1, <1>4 DEF StartRevealTicker, Arms
  <1>6. QED
    BY <1>1, <1>2, <1>3, <1>5 DEF GoesOn, Broadcast

LEMMA PausedEffect ==
    ASSUME IInv, NEW k \in Rounds, TickPaused(k)
    PROVE  /\ GoesOn /\ Alike(rc, rc') /\ shown' = shown
           /\ state # "ROUND_ACTIVE" /\ rc.key = k
           /\ \/ ~rc'.active /\ UNCHANGED <<armed, revealTimer>>
              \/ rc'.active /\ Arms(k)
  <1>1. rc.key = k /\ rc.active /\ state # "ROUND_ACTIVE" /\ StartRevealTicker(rc, k) /\ shown' = shown
    BY DEF TickPaused, Paused
  <1>2. Fits(rc) /\ shown = CurrentMask(rc)
    BY <1>1, RunningClock
  <1>3. CASE rc' = [rc EXCEPT !.active = FALSE] /\ UNCHANGED <<armed, revealTimer>>
    <2>1. Alike(rc, rc') /\ rc'.phase = rc.phase /\ ~rc'.active
      BY <1>2, <1>3, StoppedClock
    <2>2. CurrentMask(rc') = CurrentMask(rc)
      BY <2>1, AlikeMask
    <2>3. Onward(rc, rc')
      BY <1>2, <2>1, AlikeOnward, FieldsOf DEF Fits, DONE
    <2>4. QED
      BY <1>1, <1>2, <1>3, <2>1, <2>2, <2>3 DEF GoesOn
  <1>4. CASE rc' = rc /\ Arms(k)
    <2>1. Onward(rc, rc) /\ Alike(rc, rc)
      BY <1>2, OnwardRefl DEF Alike, Onward
    <2>2. QED
      BY <1>1, <1>2, <1>4, <2>1 DEF GoesOn
  <1>5. QED
    BY <1>1, <1>3, <1>4 DEF StartRevealTicker, Arms

(* With everything shown, nothing is hidden: the lockout is due. *)
LEMMA NothingHidden ==
    ASSUME NEW c, Fits(c), AllDone(c)
    PROVE  RemainingHidden(c) <= c.cfg.lockout
  <1>1. c.size["artist"] = c.revealed["artist"] /\ c.size["song"] = c.revealed["song"]
    BY FieldsOf DEF Fits, AllDone, FieldDone, Fields
  <1>2. c.size["artist"] \in Nat /\ c.size["song"] \in Nat /\ c.cfg.lockout \in Nat
    BY FieldsOf DEF Fits, Fields, Config
  <1>3. QED
    BY <1>1, <1>2 DEF RemainingHidden

LEMMA TickEffect ==
    ASSUME IInv, NEW k \in Rounds, RevealTick(k)
    PROVE  /\ GoesOn /\ rc'.phase1Done = rc.phase1Done /\ rc.key = k /\ state = "ROUND_ACTIVE"
           /\ rc'.lockedOut => revealLocked'
           /\ revealLocked => revealLocked'
           /\ guessed' \subseteq guessed \cup online
           /\ ~AllDone(rc) => \E f \in Fields : rc'.revealed[f] > rc.revealed[f]
           /\ \/ /\ ~rc'.active /\ revealLocked' /\ UNCHANGED <<armed, revealTimer>>
                 /\ ScheduleAutoKaraoke(rc', k)
              \/ ~AllDone(rc') /\ rc'.active /\ Arms(k) /\ oneShots' = oneShots
  <1>1. rc.key = k /\ rc.active /\ state = "ROUND_ACTIVE"
    BY DEF RevealTick
  <1>2. Fits(rc) /\ shown = CurrentMask(rc)
    BY <1>1, RunningClock
  <1>3. PICK c \in IF AllDone(rc) THEN {rc} ELSE {Settled(WithLetter(rc, f)) : f \in Turns(rc)} :
            LET locks == ~c.lockedOut /\ RemainingHidden(c) <= c.cfg.lockout
                d == [c EXCEPT !.lockedOut = @ \/ locks]
            IN  /\ shown' = IF AllDone(rc) THEN shown ELSE Broadcast(c)
                /\ IF locks THEN LockOutReveal ELSE UNCHANGED <<revealLocked, guessed>>
                /\ IF AllDone(d)
                   THEN /\ rc' = [d EXCEPT !.active = FALSE]
                        /\ ScheduleAutoKaraoke(d, k)
                        /\ UNCHANGED <<armed, revealTimer>>
                   ELSE StartRevealTicker(d, k) /\ UNCHANGED oneShots
    BY DEF RevealTick
  <1>4. /\ Onward(rc, c) /\ c.active = rc.active
        /\ c.lockedOut = rc.lockedOut /\ c.phase1Done = rc.phase1Done
        /\ shown' = CurrentMask(c)
        /\ ~AllDone(rc) => \E f \in Fields : c.revealed[f] > rc.revealed[f]
    <2>1. CASE AllDone(rc)
      <3>1. c = rc /\ shown' = shown
        BY <1>3, <2>1
      <3>2. QED
        BY <1>2, <2>1, <3>1, OnwardRefl
    <2>2. CASE ~AllDone(rc)
      <3>1. PICK f \in Turns(rc) : c = Settled(WithLetter(rc, f))
        BY <1>3, <2>2
      <3>2. f \in Fields /\ ~FieldDone(rc, f)
        BY <3>1 DEF Turns
      <3> DEFINE w == WithLetter(rc, f)
      <3>3. /\ Onward(rc, w) /\ w.lockedOut = rc.lockedOut /\ w.phase1Done = rc.phase1Done
            /\ w.active = rc.active /\ w.revealed[f] > rc.revealed[f]
        BY <1>2, <3>2, LetterClock
      <3> HIDE DEF w
      <3>4. Fits(w)
        BY <3>3 DEF Onward, Same
      <3>5. Alike(w, c) /\ c.active = w.active /\ c.phase >= w.phase
        BY <3>1, <3>4, SettledClock DEF w
      <3>6. Onward(rc, c)
        BY <1>2, <3>3, <3>4, <3>5, AlikeOnward, OnwardTrans
      <3>7. shown' = Broadcast(c)
        BY <1>3, <2>2
      <3>8. QED
        BY <1>1, <3>2, <3>3, <3>5, <3>6, <3>7 DEF Broadcast, Alike
    <2>3. QED
      BY <2>1, <2>2
  <1>5. Fits(c)
    BY <1>4 DEF Onward, Same
  <1> DEFINE locks == ~c.lockedOut /\ RemainingHidden(c) <= c.cfg.lockout
             d == [c EXCEPT !.lockedOut = @ \/ locks]
  <1>6. locks \in BOOLEAN /\ c.lockedOut \in BOOLEAN /\ rc.lockedOut \in BOOLEAN
        /\ revealLocked \in BOOLEAN
    BY <1>2, <1>5, FieldsOf DEF Fits, IInv, StateTypes
  <1>7. /\ IF locks THEN LockOutReveal ELSE UNCHANGED <<revealLocked, guessed>>
        /\ IF AllDone(d)
           THEN /\ rc' = [d EXCEPT !.active = FALSE]
                /\ ScheduleAutoKaraoke(d, k)
                /\ UNCHANGED <<armed, revealTimer>>
           ELSE StartRevealTicker(d, k) /\ UNCHANGED oneShots
    BY <1>3
  <1>8. AllDone(c) => locks \/ c.lockedOut
    BY <1>5, NothingHidden
  <1> HIDE DEF locks
  <1>9. /\ Onward(c, d) /\ d.lockedOut = (c.lockedOut \/ locks) /\ d.phase1Done = c.phase1Done
        /\ d.active = c.active /\ d.revealed = c.revealed /\ d.phase = c.phase
    BY <1>5, <1>6, LockedClock
  <1> HIDE DEF d
  <1>10. Fits(d) /\ Onward(rc, d) /\ d.size = c.size /\ d.key = c.key /\ (AllDone(d) <=> AllDone(c))
    BY <1>2, <1>4, <1>9, OnwardTrans DEF Onward, Same, AllDone, FieldDone
  <1>11. shown' = CurrentMask(d)
    BY <1>4, <1>9, <1>10 DEF CurrentMask, FieldMask
  (* Locked out, then or before. *)
  <1>12. /\ d.lockedOut => revealLocked'
         /\ revealLocked => revealLocked'
         /\ guessed' \subseteq guessed \cup online
    <2>1. CASE locks
      BY <1>7, <2>1 DEF LockOutReveal
    <2>2. CASE ~locks
      <3>1. UNCHANGED <<revealLocked, guessed>>
        BY <1>7, <2>2
      <3>2. d.lockedOut => revealLocked
        BY <1>4, <1>6, <1>9, <2>2 DEF IInv, LockInv
      <3>3. QED
        BY <3>1, <3>2
    <2>3. QED
      BY <2>1, <2>2
  <1>13. CASE AllDone(d)
    <2>1. /\ rc' = [d EXCEPT !.active = FALSE] /\ ScheduleAutoKaraoke(d, k)
          /\ UNCHANGED <<armed, revealTimer>>
      BY <1>7, <1>13
    <2>2. Alike(d, rc') /\ rc'.phase = d.phase /\ ~rc'.active
      BY <1>10, <2>1, StoppedClock
    <2>3. CurrentMask(rc') = CurrentMask(d)
      BY <2>2, AlikeMask
    <2>4. Onward(rc, rc')
      BY <1>2, <1>10, <2>2, AlikeOnward, OnwardTrans, FieldsOf DEF Fits, DONE
    <2>5. revealLocked'
      BY <1>6, <1>8, <1>9, <1>10, <1>12, <1>13
    <2>6. ScheduleAutoKaraoke(rc', k)
      BY <2>1, <2>2 DEF ScheduleAutoKaraoke, Alike, Same
    <2>7. QED
      BY <1>1, <1>4, <1>9, <1>11, <1>12, <2>1, <2>2, <2>3, <2>4, <2>5, <2>6 DEF GoesOn, Alike
  <1>14. CASE ~AllDone(d)
    <2>1. rc' = d /\ Arms(k) /\ oneShots' = oneShots
      BY <1>7, <1>14 DEF StartRevealTicker, Arms
    <2>2. QED
      BY <1>1, <1>4, <1>9, <1>10, <1>11, <1>12, <1>14, <2>1 DEF GoesOn
  <1>15. QED
    BY <1>13, <1>14

LEMMA PartialEffect ==
    ASSUME IInv, NEW f \in Fields \cup {None}, GradePartial(f)
    PROVE  \/ ~rc.active /\ Keeps
           \/ rc.active /\ Keeps /\ f = None
           \/ /\ GoesOn /\ rc'.active /\ f \in Fields
              /\ rc'.lockedOut = rc.lockedOut /\ rc'.phase1Done = rc.phase1Done
              /\ \A g \in Fields \ {f} : rc'.revealed[g] = rc.revealed[g]
  <1>1. CASE ~(rc.active /\ f \in Fields)
    BY <1>1 DEF GradePartial, RevealFieldFully, Keeps
  <1>2. CASE rc.active /\ f \in Fields
    <2> DEFINE d == [rc EXCEPT !.revealed[f] = rc.size[f]]
    <2>1. rc' = Settled(d) /\ shown' = Broadcast(rc')
      BY <1>2 DEF GradePartial, RevealFieldFully
    <2>2. Fits(rc)
      BY <1>2, RunningClock
    <2>3. /\ Onward(rc, d) /\ d.lockedOut = rc.lockedOut /\ d.phase1Done = rc.phase1Done
          /\ d.active = rc.active
          /\ \A g \in Fields \ {f} : d.revealed[g] = rc.revealed[g]
      BY <1>2, <2>2, FilledClock
    <2> HIDE DEF d
    <2>4. Fits(d)
      BY <2>3 DEF Onward, Same
    <2>5. Alike(d, rc') /\ rc'.active = d.active /\ rc'.phase >= d.phase
      BY <2>1, <2>4, SettledClock
    <2>6. Onward(rc, rc')
      BY <2>2, <2>3, <2>4, <2>5, AlikeOnward, OnwardTrans
    <2>7. QED
      BY <1>2, <2>1, <2>3, <2>5, <2>6 DEF GoesOn, Broadcast, Alike
  <1>3. QED
    BY <1>1, <1>2

(* Whichever step: the clock and the room's mask move together. *)
ClockMoves ==
    Keeps \/ Clears \/ Fills \/ GoesOn \/ \E size \in Sizes : Starts(size)

LEMMA ClockStep == IInv /\ [Next]_vars => ClockMoves
  <1> SUFFICES ASSUME IInv, [Next]_vars
               PROVE  ClockMoves
    OBVIOUS
  <1> USE ConstantsOK
         DEF vars, people, tickerVars, gameVars, ClockMoves
  <1>1. ASSUME YearShows
        PROVE  ClockMoves
    BY <1>1, YearEffect
  <1>2. ASSUME BlockFlips
        PROVE  ClockMoves
    BY <1>2, BlockEffect
  <1>3. ASSUME LettersStart
        PROVE  ClockMoves
    BY <1>3, LettersEffect
  <1>4. ASSUME NEW k \in Rounds, TickPaused(k)
        PROVE  ClockMoves
    BY <1>4, PausedEffect
  <1>5. ASSUME NEW k \in Rounds, RevealTick(k)
        PROVE  ClockMoves
    BY <1>5, TickEffect
  <1>6. ASSUME NEW k \in Rounds, AutoKaraoke(k)
        PROVE  ClockMoves
    BY <1>6, FinalizeEffect DEF AutoKaraoke, EnterKaraoke, Keeps
  <1>7. ASSUME GradeFinal
        PROVE  ClockMoves
    BY <1>7, FinalizeEffect DEF GradeFinal, EnterKaraoke, Keeps
  <1>8. ASSUME NEW f \in Fields \cup {None}, GradePartial(f)
        PROVE  ClockMoves
    BY <1>8, PartialEffect
  <1>9. ASSUME AdminReveal
        PROVE  ClockMoves
    BY <1>9, FinalizeEffect DEF AdminReveal, EnterKaraoke, Keeps
  <1>10. ASSUME EndRound
        PROVE  ClockMoves
    BY <1>10 DEF EndRound, ClearReveal, Clears, Keeps
  <1>11. ASSUME EndGame
        PROVE  ClockMoves
    BY <1>11 DEF EndGame, ClearReveal, Clears, Keeps
  <1>12. ASSUME ResetToLobby
        PROVE  ClockMoves
    BY <1>12 DEF ResetToLobby, ClearReveal, Clears, Keeps
  <1>13. ASSUME NEW size \in Sizes, PerformanceStarts(size)
        PROVE  ClockMoves
    BY <1>13 DEF PerformanceStarts, ClearReveal, Clears, Keeps
  <1>14. ASSUME NEW size \in Sizes, NEW year \in BOOLEAN, StartTrack(size, year)
        PROVE  ClockMoves
    BY <1>14, StartEffect
  <1>15. ASSUME LeaveKaraoke
        PROVE  ClockMoves
    BY <1>15 DEF LeaveKaraoke, ClearReveal, Clears, Keeps
  <1>16. ASSUME DailyDoubleEnds
        PROVE  ClockMoves
    BY <1>16 DEF DailyDoubleEnds, ClearReveal, Clears, Keeps
  <1>17. CASE UNCHANGED <<rc, shown>>
    BY <1>17 DEF Keeps
  <1>18. QED
    BY <1>1, <1>2, <1>3, <1>4, <1>5, <1>6, <1>7, <1>8, <1>9, <1>10, <1>11, <1>12, <1>13, <1>14,
       <1>15, <1>16, <1>17
       DEF Next, Timers, Floor, Admin, Game, OneShotIgnored, TickerFires, TickIgnored, Hello,
           Disconnect, Buzz, WindowWon, WindowCloses, GradeIncorrect, SetRevealCfg,
           DailyDoubleOffered

-----------------------------------------------------------------------------
(* The types. *)

(* stopRevealTimer leaves no ticker armed. *)
LEMMA NoneLeft ==
    ASSUME TimerTypes, TickerRuns
    PROVE  Stopped \in [Rounds -> Nat] /\ \A k \in Rounds : Stopped[k] = 0
  <1>1. \A k \in Rounds : armed[k] \in Nat /\ armed[k] <= IF revealTimer = k THEN 1 ELSE 0
    BY DEF TimerTypes, TickerRuns
  <1>2. revealTimer \in 0 .. MaxRounds /\ MaxRounds \in Nat
    BY ConstantsOK DEF TimerTypes, Keys
  <1>3. CASE revealTimer # 0 /\ armed[revealTimer] > 0
    BY <1>1, <1>2, <1>3 DEF Stopped, TimerTypes, Rounds
  <1>4. CASE ~(revealTimer # 0 /\ armed[revealTimer] > 0)
    BY <1>1, <1>2, <1>4 DEF Stopped, TimerTypes, Rounds
  <1>5. QED
    BY <1>3, <1>4

Stops ==
    /\ revealTimer' = 0 /\ ticks' = ticks
    /\ armed' \in [Rounds -> Nat] /\ \A k \in Rounds : armed'[k] = 0

LEMMA ClearStops == IInv /\ ClearReveal => Stops
  BY NoneLeft DEF IInv, ClearReveal, StopRevealTimer, Stops

LEMMA FinalizeStops ==
    IInv /\ FinalizeReveal => IF track = None THEN UNCHANGED <<armed, revealTimer, ticks>> ELSE Stops
  <1> SUFFICES ASSUME IInv, FinalizeReveal
               PROVE  IF track = None THEN UNCHANGED <<armed, revealTimer, ticks>> ELSE Stops
    OBVIOUS
  <1>1. CASE track = None
    BY <1>1 DEF FinalizeReveal, tickerVars
  <1>2. CASE track # None
    <2>1. StopRevealTimer /\ ticks' = ticks
      BY <1>2 DEF FinalizeReveal
    <2>2. QED
      BY <1>2, <2>1, NoneLeft DEF IInv, StopRevealTimer, Stops
  <1>3. QED
    BY <1>1, <1>2

(* Where the game is. *)
LEMMA StateTypesStep == IInv /\ [Next]_vars => StateTypes'
  <1> SUFFICES ASSUME IInv, [Next]_vars
               PROVE  StateTypes'
    OBVIOUS
  <1> USE ConstantsOK
         DEF vars, people, tickerVars, gameVars, StateTypes, States, Keys, FreshKey, Judged,
             EnterKaraoke, StartReveal, IInv
  <1>1. ASSUME NEW k \in Rounds, RevealTick(k)
        PROVE  StateTypes'
    BY <1>1 DEF RevealTick, LockOutReveal
  <1>2. ASSUME NEW k \in Rounds, AutoKaraoke(k)
        PROVE  StateTypes'
    BY <1>2 DEF AutoKaraoke
  <1>3. ASSUME NEW p \in Players, WindowWon(p)
        PROVE  StateTypes'
    BY <1>3 DEF WindowWon
  <1>4. ASSUME GradeFinal
        PROVE  StateTypes'
    BY <1>4 DEF GradeFinal
  <1>5. ASSUME GradeIncorrect
        PROVE  StateTypes'
    BY <1>5 DEF GradeIncorrect
  <1>6. ASSUME NEW f \in Fields \cup {None}, GradePartial(f)
        PROVE  StateTypes'
    BY <1>6 DEF GradePartial
  <1>7. ASSUME NEW cfg \in Configs, SetRevealCfg(cfg)
        PROVE  StateTypes'
    BY <1>7 DEF SetRevealCfg
  <1>8. ASSUME AdminReveal
        PROVE  StateTypes'
    BY <1>8 DEF AdminReveal
  <1>9. ASSUME EndRound
        PROVE  StateTypes'
    BY <1>9 DEF EndRound
  <1>10. ASSUME EndGame
        PROVE  StateTypes'
    BY <1>10 DEF EndGame
  <1>11. ASSUME ResetToLobby
        PROVE  StateTypes'
    BY <1>11 DEF ResetToLobby
  <1>12. ASSUME NEW size \in Sizes, PerformanceStarts(size)
        PROVE  StateTypes'
    BY <1>12 DEF PerformanceStarts
  <1>13. ASSUME NEW size \in Sizes, NEW year \in BOOLEAN, StartTrack(size, year)
        PROVE  StateTypes'
    <2>1. rounds' \in Keys /\ roundKey' \in Keys
      BY <1>13 DEF StartTrack
    <2>2. state' \in States /\ track' \in Sizes \cup {None} /\ revealCfg' \in Configs
      BY <1>13 DEF StartTrack
    <2>3. revealLocked' \in BOOLEAN /\ judgedShown' \in BOOLEAN
      BY <1>13 DEF StartTrack
    <2>4. QED
      BY <2>1, <2>2, <2>3
  <1>14. ASSUME LeaveKaraoke
        PROVE  StateTypes'
    BY <1>14 DEF LeaveKaraoke
  <1>15. ASSUME DailyDoubleOffered
        PROVE  StateTypes'
    BY <1>15 DEF DailyDoubleOffered
  <1>16. ASSUME DailyDoubleEnds
        PROVE  StateTypes'
    BY <1>16 DEF DailyDoubleEnds
  <1>17. CASE UNCHANGED <<state, roundKey, track, revealCfg, revealLocked, judgedShown, rounds>>
    BY <1>17
  <1>18. QED
    BY <1>1, <1>2, <1>3, <1>4, <1>5, <1>6, <1>7, <1>8, <1>9, <1>10, <1>11, <1>12, <1>13, <1>14,
       <1>15, <1>16, <1>17
       DEF Next, Timers, Floor, Admin, Game, YearShows, BlockFlips, LettersStart, OneShotIgnored,
           TickerFires, TickIgnored, TickPaused, Hello, Disconnect, Buzz, WindowCloses

(* The people, and who has the floor. *)
LEMMA PeopleTypesStep == IInv /\ [Next]_vars => PeopleTypes'
  <1> SUFFICES ASSUME IInv, [Next]_vars
               PROVE  PeopleTypes'
    OBVIOUS
  <1> USE ConstantsOK
         DEF vars, people, tickerVars, gameVars, PeopleTypes, Judged, EnterKaraoke, IInv
  <1>1. ASSUME NEW k \in Rounds, RevealTick(k)
        PROVE  PeopleTypes'
    BY <1>1, TickEffect DEF RevealTick
  <1>2. ASSUME NEW k \in Rounds, AutoKaraoke(k)
        PROVE  PeopleTypes'
    BY <1>2 DEF AutoKaraoke
  <1>3. ASSUME NEW p \in Players, Hello(p)
        PROVE  PeopleTypes'
    BY <1>3 DEF Hello
  <1>4. ASSUME NEW p \in Players, Disconnect(p)
        PROVE  PeopleTypes'
    BY <1>4 DEF Disconnect
  <1>5. ASSUME NEW p \in Players, Buzz(p)
        PROVE  PeopleTypes'
    BY <1>5 DEF Buzz
  <1>6. ASSUME NEW p \in Players, WindowWon(p)
        PROVE  PeopleTypes'
    BY <1>6 DEF WindowWon
  <1>7. ASSUME WindowCloses
        PROVE  PeopleTypes'
    BY <1>7 DEF WindowCloses
  <1>8. ASSUME GradeFinal
        PROVE  PeopleTypes'
    BY <1>8 DEF GradeFinal
  <1>9. ASSUME GradeIncorrect
        PROVE  PeopleTypes'
    BY <1>9 DEF GradeIncorrect
  <1>10. ASSUME NEW f \in Fields \cup {None}, GradePartial(f)
        PROVE  PeopleTypes'
    BY <1>10 DEF GradePartial
  <1>11. ASSUME AdminReveal
        PROVE  PeopleTypes'
    BY <1>11 DEF AdminReveal
  <1>12. ASSUME EndRound
        PROVE  PeopleTypes'
    BY <1>12 DEF EndRound
  <1>13. ASSUME EndGame
        PROVE  PeopleTypes'
    BY <1>13 DEF EndGame
  <1>14. ASSUME ResetToLobby
        PROVE  PeopleTypes'
    BY <1>14 DEF ResetToLobby
  <1>15. ASSUME NEW size \in Sizes, PerformanceStarts(size)
        PROVE  PeopleTypes'
    BY <1>15 DEF PerformanceStarts
  <1>16. ASSUME NEW size \in Sizes, NEW year \in BOOLEAN, StartTrack(size, year)
        PROVE  PeopleTypes'
    BY <1>16 DEF StartTrack
  <1>17. ASSUME LeaveKaraoke
        PROVE  PeopleTypes'
    BY <1>17 DEF LeaveKaraoke
  <1>18. ASSUME DailyDoubleOffered
        PROVE  PeopleTypes'
    BY <1>18 DEF DailyDoubleOffered
  <1>19. ASSUME DailyDoubleEnds
        PROVE  PeopleTypes'
    BY <1>19 DEF DailyDoubleEnds
  <1>20. CASE UNCHANGED <<buzzWinner, guessed, contenders, online, partial, state>>
    BY <1>20
  <1>21. QED
    BY <1>1, <1>2, <1>3, <1>4, <1>5, <1>6, <1>7, <1>8, <1>9, <1>10, <1>11, <1>12, <1>13, <1>14,
       <1>15, <1>16, <1>17, <1>18, <1>19, <1>20
       DEF Next, Timers, Floor, Admin, Game, YearShows, BlockFlips, LettersStart, OneShotIgnored,
           TickerFires, TickIgnored, TickPaused, SetRevealCfg

(* The timers. *)
LEMMA TimerTypesStep == IInv /\ [Next]_vars => TimerTypes'
  <1> SUFFICES ASSUME IInv, [Next]_vars
               PROVE  TimerTypes'
    OBVIOUS
  <1> USE ConstantsOK
         DEF vars, people, tickerVars, gameVars, TimerTypes, EnterKaraoke, Judged, IInv, OneShot
  <1>1. ASSUME YearShows
        PROVE  TimerTypes'
    BY <1>1 DEF YearShows, Runs
  <1>2. ASSUME BlockFlips
        PROVE  TimerTypes'
    BY <1>2 DEF BlockFlips, Runs
  <1>3. ASSUME LettersStart
        PROVE  TimerTypes'
    <2>1. rc.active /\ Arms(rc.key) /\ ticks' = ticks /\ oneShots' \subseteq oneShots
      BY <1>3, LettersEffect DEF LettersStart, Runs
    <2>2. rc.key \in Rounds
      BY <2>1, RunningClock
    <2>3. QED
      BY <2>1, <2>2 DEF Arms, Rounds, Keys
  <1>4. ASSUME NEW t \in oneShots, OneShotIgnored(t)
        PROVE  TimerTypes'
    BY <1>4 DEF OneShotIgnored
  <1>5. ASSUME NEW k \in Rounds, TickerFires(k)
        PROVE  TimerTypes'
    BY <1>5 DEF TickerFires
  <1>6. ASSUME NEW k \in Rounds, TickIgnored(k)
        PROVE  TimerTypes'
    BY <1>6 DEF TickIgnored, TakesTick
  <1>7. ASSUME NEW k \in Rounds, TickPaused(k)
        PROVE  TimerTypes'
    <2>1. UNCHANGED <<armed, revealTimer>> \/ Arms(k)
      BY <1>7, PausedEffect
    <2>2. ticks' \in [Rounds -> Nat] /\ oneShots' = oneShots
      BY <1>7 DEF TickPaused, TakesTick
    <2>3. QED
      BY <2>1, <2>2 DEF Arms, Rounds, Keys
  <1>8. ASSUME NEW k \in Rounds, RevealTick(k)
        PROVE  TimerTypes'
    <2>1. \/ UNCHANGED <<armed, revealTimer>> /\ ScheduleAutoKaraoke(rc', k)
          \/ Arms(k) /\ oneShots' = oneShots
      BY <1>8, TickEffect
    <2>2. ticks' \in [Rounds -> Nat]
      BY <1>8 DEF RevealTick, TakesTick
    <2>3. oneShots' \subseteq OneShot
      BY <2>1 DEF ScheduleAutoKaraoke
    <2>4. armed' \in [Rounds -> Nat] /\ revealTimer' \in Keys
      BY <2>1 DEF Arms, Rounds, Keys
    <2>5. QED
      BY <2>2, <2>3, <2>4
  <1>9. ASSUME NEW k \in Rounds, AutoKaraoke(k)
        PROVE  TimerTypes'
    <2>1. Stops \/ UNCHANGED <<armed, revealTimer, ticks>>
      BY <1>9, FinalizeStops DEF AutoKaraoke, EnterKaraoke
    <2>2. oneShots' \subseteq oneShots
      BY <1>9 DEF AutoKaraoke
    <2>3. QED
      BY <2>1, <2>2 DEF Stops, Keys
  <1>10. ASSUME GradeFinal
        PROVE  TimerTypes'
    <2>1. Stops \/ UNCHANGED <<armed, revealTimer, ticks>>
      BY <1>10, FinalizeStops DEF GradeFinal, EnterKaraoke
    <2>2. oneShots' \subseteq oneShots
      BY <1>10 DEF GradeFinal
    <2>3. QED
      BY <2>1, <2>2 DEF Stops, Keys
  <1>11. ASSUME AdminReveal
        PROVE  TimerTypes'
    <2>1. Stops \/ UNCHANGED <<armed, revealTimer, ticks>>
      BY <1>11, FinalizeStops DEF AdminReveal, EnterKaraoke
    <2>2. oneShots' \subseteq oneShots
      BY <1>11 DEF AdminReveal
    <2>3. QED
      BY <2>1, <2>2 DEF Stops, Keys
  <1>12. ASSUME EndRound
        PROVE  TimerTypes'
    <2>1. Stops /\ oneShots' = oneShots
      BY <1>12, ClearStops DEF EndRound
    <2>2. QED
      BY <2>1 DEF Stops, Keys
  <1>13. ASSUME EndGame
        PROVE  TimerTypes'
    <2>1. (Stops \/ UNCHANGED <<armed, revealTimer, ticks>>) /\ oneShots' = oneShots
      BY <1>13, ClearStops DEF EndGame
    <2>2. QED
      BY <2>1 DEF Stops, Keys
  <1>14. ASSUME ResetToLobby
        PROVE  TimerTypes'
    <2>1. Stops /\ oneShots' = oneShots
      BY <1>14, ClearStops DEF ResetToLobby
    <2>2. QED
      BY <2>1 DEF Stops, Keys
  <1>15. ASSUME NEW size \in Sizes, PerformanceStarts(size)
        PROVE  TimerTypes'
    <2>1. Stops /\ oneShots' = oneShots
      BY <1>15, ClearStops DEF PerformanceStarts
    <2>2. QED
      BY <2>1 DEF Stops, Keys
  <1>16. ASSUME NEW size \in Sizes, NEW year \in BOOLEAN, StartTrack(size, year)
        PROVE  TimerTypes'
    <2>1. armed' \in [Rounds -> Nat] /\ revealTimer' \in Keys /\ ticks' = ticks
      BY <1>16, NoneLeft DEF StartTrack, StartReveal, StopRevealTimer, Keys
    <2>2. rounds + 1 \in Rounds
      BY <1>16 DEF StartTrack, FreshKey, StateTypes, Keys, Rounds
    <2>3. oneShots' \subseteq OneShot
      BY <1>16, <2>2 DEF StartTrack, StartReveal
    <2>4. QED
      BY <2>1, <2>3
  <1>17. ASSUME LeaveKaraoke
        PROVE  TimerTypes'
    <2>1. Stops /\ oneShots' = oneShots
      BY <1>17, ClearStops DEF LeaveKaraoke
    <2>2. QED
      BY <2>1 DEF Stops, Keys
  <1>18. ASSUME DailyDoubleEnds
        PROVE  TimerTypes'
    <2>1. Stops /\ oneShots' = oneShots
      BY <1>18, ClearStops DEF DailyDoubleEnds
    <2>2. QED
      BY <2>1 DEF Stops, Keys
  <1>19. CASE UNCHANGED <<oneShots, armed, ticks, revealTimer>>
    BY <1>19
  <1>20. QED
    BY <1>1, <1>2, <1>3, <1>4, <1>5, <1>6, <1>7, <1>8, <1>9, <1>10, <1>11, <1>12, <1>13, <1>14,
       <1>15, <1>16, <1>17, <1>18, <1>19
       DEF Next, Timers, Floor, Admin, Game, Hello, Disconnect, Buzz, WindowWon, WindowCloses,
           GradeIncorrect, GradePartial, SetRevealCfg, DailyDoubleOffered

LEMMA ClockTypesStep == IInv /\ [Next]_vars => ClockTypes'
  <1> SUFFICES ASSUME IInv, [Next]_vars
               PROVE  ClockTypes'
    OBVIOUS
  <1>1. Fits(rc) /\ shown \in Mask
    BY DEF IInv, ClockTypes
  <1>2. CASE Keeps
    BY <1>1, <1>2 DEF Keeps, ClockTypes, Fits
  <1>3. CASE Clears
    BY <1>1, <1>3, NoClockFits DEF Clears, ClockTypes, Fits
  <1>4. CASE Fills
    <2>1. roundKey \in Keys /\ track \in [Fields -> Nat]
      BY <1>4, ConstantsOK DEF Fills, IInv, StateTypes
    <2>2. shown' \in Mask
      BY <1>4, <2>1 DEF Fills, Mask, DONE
    <2>3. QED
      BY <1>4, <2>2 DEF Fills, ClockTypes, Fits
  <1>5. CASE GoesOn
    <2>1. Fits(rc')
      BY <1>5 DEF GoesOn, Onward, Same
    <2>2. shown' \in Mask
      BY <1>5, <2>1, MaskOf DEF GoesOn
    <2>3. QED
      BY <2>1, <2>2 DEF ClockTypes, Fits
  <1>6. ASSUME NEW size \in Sizes, Starts(size)
        PROVE  ClockTypes'
    <2>1. Fits(rc')
      BY <1>6 DEF Starts
    <2>2. shown' \in Mask
      BY <1>6, <2>1, MaskOf DEF Starts
    <2>3. QED
      BY <2>1, <2>2 DEF ClockTypes, Fits
  <1>7. QED
    BY <1>2, <1>3, <1>4, <1>5, <1>6, ClockStep DEF ClockMoves

-----------------------------------------------------------------------------
(* Keys: nothing is of a round to come. *)

LEMMA RoundsGrow ==
    IInv /\ [Next]_vars => (rounds' \in {rounds, rounds + 1} /\ rounds \in Nat /\ rounds' \in Nat)
  <1> SUFFICES ASSUME IInv, [Next]_vars
               PROVE  (rounds' \in {rounds, rounds + 1} /\ rounds \in Nat /\ rounds' \in Nat)
    OBVIOUS
  <1> USE ConstantsOK
         DEF vars, people, tickerVars, gameVars, IInv, StateTypes, Keys, FreshKey, Judged
  <1>1. ASSUME NEW size \in Sizes, PerformanceStarts(size)
        PROVE  (rounds' \in {rounds, rounds + 1} /\ rounds \in Nat /\ rounds' \in Nat)
    BY <1>1 DEF PerformanceStarts
  <1>2. ASSUME NEW size \in Sizes, NEW year \in BOOLEAN, StartTrack(size, year)
        PROVE  (rounds' \in {rounds, rounds + 1} /\ rounds \in Nat /\ rounds' \in Nat)
    BY <1>2 DEF StartTrack
  <1>3. CASE UNCHANGED <<rounds>>
    BY <1>3
  <1>4. QED
    BY <1>1, <1>2, <1>3
       DEF Next, Timers, Floor, Admin, Game, YearShows, BlockFlips, LettersStart, OneShotIgnored,
           TickerFires, TickIgnored, TickPaused, RevealTick, AutoKaraoke, Hello, Disconnect, Buzz,
           WindowWon, WindowCloses, GradeFinal, GradeIncorrect, GradePartial, SetRevealCfg,
           AdminReveal, EndRound, EndGame, ResetToLobby, LeaveKaraoke, DailyDoubleOffered,
           DailyDoubleEnds

LEMMA ClockKeysStep == IInv /\ [Next]_vars => ClockKeys'
  <1> SUFFICES ASSUME IInv, [Next]_vars
               PROVE  ClockKeys'
    OBVIOUS
  <1>1. /\ Fits(rc) /\ rc.key <= rounds /\ shown.key <= rounds /\ roundKey <= rounds
        /\ rc.key \in Nat /\ shown.key \in Nat /\ roundKey \in Nat
    BY ConstantsOK, FieldsOf DEF IInv, ClockTypes, Fits, ClockKeys, GameKeys, StateTypes, Keys, Mask
  <1>2. rounds' \in {rounds, rounds + 1} /\ rounds \in Nat
    BY RoundsGrow
  <1>3. CASE Keeps
    BY <1>1, <1>2, <1>3 DEF Keeps, ClockKeys
  <1>4. CASE Clears
    BY <1>1, <1>2, <1>4, NoClockFits DEF Clears, ClockKeys
  <1>5. CASE Fills
    BY <1>1, <1>2, <1>5 DEF Fills, ClockKeys
  <1>6. CASE GoesOn
    <2>1. Fits(rc') /\ rc'.key = rc.key
      BY <1>6 DEF GoesOn, Onward, Same
    <2>2. shown'.key = rc'.key
      BY <1>6, <2>1, MaskOf DEF GoesOn
    <2>3. QED
      BY <1>1, <1>2, <2>1, <2>2 DEF ClockKeys
  <1>7. ASSUME NEW size \in Sizes, Starts(size)
        PROVE  ClockKeys'
    <2>1. Fits(rc') /\ rc'.key = rounds'
      BY <1>7 DEF Starts
    <2>2. shown'.key = rc'.key
      BY <1>7, <2>1, MaskOf DEF Starts
    <2>3. QED
      BY <1>2, <2>1, <2>2 DEF ClockKeys
  <1>8. QED
    BY <1>3, <1>4, <1>5, <1>6, <1>7, ClockStep DEF ClockMoves

(* A track has a key. *)
LEMMA GameKeysStep == IInv /\ [Next]_vars => GameKeys'
  <1> SUFFICES ASSUME IInv, [Next]_vars
               PROVE  GameKeys'
    OBVIOUS
  <1> USE ConstantsOK
         DEF vars, people, tickerVars, gameVars, IInv, GameKeys, StateTypes, Keys, Rounds, FreshKey,
             Judged, EnterKaraoke
  <1>1. ASSUME NEW k \in Rounds, AutoKaraoke(k)
        PROVE  GameKeys'
    BY <1>1 DEF AutoKaraoke
  <1>2. ASSUME NEW p \in Players, WindowWon(p)
        PROVE  GameKeys'
    BY <1>2 DEF WindowWon
  <1>3. ASSUME GradeFinal
        PROVE  GameKeys'
    BY <1>3 DEF GradeFinal
  <1>4. ASSUME GradeIncorrect
        PROVE  GameKeys'
    BY <1>4 DEF GradeIncorrect
  <1>5. ASSUME NEW f \in Fields \cup {None}, GradePartial(f)
        PROVE  GameKeys'
    BY <1>5 DEF GradePartial
  <1>6. ASSUME AdminReveal
        PROVE  GameKeys'
    BY <1>6 DEF AdminReveal
  <1>7. ASSUME EndRound
        PROVE  GameKeys'
    BY <1>7 DEF EndRound
  <1>8. ASSUME EndGame
        PROVE  GameKeys'
    BY <1>8 DEF EndGame
  <1>9. ASSUME ResetToLobby
        PROVE  GameKeys'
    BY <1>9 DEF ResetToLobby
  <1>10. ASSUME NEW size \in Sizes, PerformanceStarts(size)
        PROVE  GameKeys'
    BY <1>10 DEF PerformanceStarts
  <1>11. ASSUME NEW size \in Sizes, NEW year \in BOOLEAN, StartTrack(size, year)
        PROVE  GameKeys'
    BY <1>11 DEF StartTrack
  <1>12. ASSUME LeaveKaraoke
        PROVE  GameKeys'
    BY <1>12 DEF LeaveKaraoke
  <1>13. ASSUME DailyDoubleOffered
        PROVE  GameKeys'
    BY <1>13 DEF DailyDoubleOffered
  <1>14. ASSUME DailyDoubleEnds
        PROVE  GameKeys'
    BY <1>14 DEF DailyDoubleEnds
  <1>15. CASE UNCHANGED <<roundKey, rounds, track, state>>
    BY <1>15
  <1>16. QED
    BY <1>1, <1>2, <1>3, <1>4, <1>5, <1>6, <1>7, <1>8, <1>9, <1>10, <1>11, <1>12, <1>13, <1>14,
       <1>15
       DEF Next, Timers, Floor, Admin, Game, YearShows, BlockFlips, LettersStart, OneShotIgnored,
           TickerFires, TickIgnored, TickPaused, RevealTick, Hello, Disconnect, Buzz, WindowCloses,
           SetRevealCfg

(* No timer is of a round to come. *)
LEMMA TimerKeysStep == IInv /\ [Next]_vars => TimerKeys'
  <1> SUFFICES ASSUME IInv, [Next]_vars
               PROVE  TimerKeys'
    OBVIOUS
  <1> USE ConstantsOK
         DEF vars, people, tickerVars, gameVars, IInv, TimerKeys, TimerTypes, StateTypes, Keys,
             Judged
  <1>1. ASSUME YearShows
        PROVE  TimerKeys'
    BY <1>1 DEF YearShows, Runs
  <1>2. ASSUME BlockFlips
        PROVE  TimerKeys'
    BY <1>2 DEF BlockFlips, Runs
  <1>3. ASSUME LettersStart
        PROVE  TimerKeys'
    <2>1. rc.active /\ Arms(rc.key) /\ ticks' = ticks /\ oneShots' \subseteq oneShots /\ rounds' = rounds
      BY <1>3, LettersEffect DEF LettersStart, Runs
    <2>2. rc.key \in Rounds /\ rc.key <= rounds
      BY <2>1, RunningClock DEF ClockKeys
    <2>3. QED
      BY <2>1, <2>2 DEF Arms, Rounds
  <1>4. ASSUME NEW t \in oneShots, OneShotIgnored(t)
        PROVE  TimerKeys'
    BY <1>4 DEF OneShotIgnored
  <1>5. ASSUME NEW k \in Rounds, TickerFires(k)
        PROVE  TimerKeys'
    <2>1. armed[k] > 0 /\ armed' = [armed EXCEPT ![k] = armed[k] - 1] /\ ticks' = [ticks EXCEPT ![k] = ticks[k] + 1]
      BY <1>5 DEF TickerFires
    <2>2. k <= rounds
      BY <2>1 DEF Rounds
    <2>3. oneShots' = oneShots /\ rounds' = rounds
      BY <1>5 DEF TickerFires
    <2>4. QED
      BY <2>1, <2>2, <2>3 DEF Rounds
  <1>6. ASSUME NEW k \in Rounds, TickIgnored(k)
        PROVE  TimerKeys'
    BY <1>6 DEF TickIgnored, TakesTick, Rounds
  <1>7. ASSUME NEW k \in Rounds, TickPaused(k)
        PROVE  TimerKeys'
    <2>1. UNCHANGED <<armed, revealTimer>> \/ Arms(k)
      BY <1>7, PausedEffect
    <2>2. ticks' = [ticks EXCEPT ![k] = ticks[k] - 1] /\ ticks[k] > 0 /\ oneShots' = oneShots /\ rounds' = rounds
      BY <1>7 DEF TickPaused, TakesTick
    <2>3. k <= rounds
      BY <2>2 DEF Rounds
    <2>4. QED
      BY <2>1, <2>2, <2>3 DEF Arms, Rounds
  <1>8. ASSUME NEW k \in Rounds, RevealTick(k)
        PROVE  TimerKeys'
    <2>1. \/ UNCHANGED <<armed, revealTimer>> /\ ScheduleAutoKaraoke(rc', k)
          \/ Arms(k) /\ oneShots' = oneShots
      BY <1>8, TickEffect
    <2>2. ticks' = [ticks EXCEPT ![k] = ticks[k] - 1] /\ ticks[k] > 0 /\ rounds' = rounds
      BY <1>8 DEF RevealTick, TakesTick
    <2>3. k <= rounds
      BY <2>2 DEF Rounds
    <2>4. \A t \in oneShots' : t.key <= rounds
      BY <2>1, <2>3 DEF ScheduleAutoKaraoke
    <2>5. \A j \in Rounds : j > rounds => armed'[j] = 0 /\ ticks'[j] = 0
      BY <2>1, <2>2, <2>3 DEF Arms, Rounds
    <2>6. QED
      BY <2>2, <2>4, <2>5
  <1>9. ASSUME NEW k \in Rounds, AutoKaraoke(k)
        PROVE  TimerKeys'
    <2>1. Stops \/ UNCHANGED <<armed, revealTimer, ticks>>
      BY <1>9, FinalizeStops DEF AutoKaraoke, EnterKaraoke
    <2>2. oneShots' \subseteq oneShots /\ rounds' = rounds
      BY <1>9 DEF AutoKaraoke, Judged
    <2>3. QED
      BY <2>1, <2>2 DEF Stops
  <1>10. ASSUME GradeFinal
        PROVE  TimerKeys'
    <2>1. Stops \/ UNCHANGED <<armed, revealTimer, ticks>>
      BY <1>10, FinalizeStops DEF GradeFinal, EnterKaraoke
    <2>2. oneShots' \subseteq oneShots /\ rounds' = rounds
      BY <1>10 DEF GradeFinal, Judged
    <2>3. QED
      BY <2>1, <2>2 DEF Stops
  <1>11. ASSUME AdminReveal
        PROVE  TimerKeys'
    <2>1. Stops \/ UNCHANGED <<armed, revealTimer, ticks>>
      BY <1>11, FinalizeStops DEF AdminReveal, EnterKaraoke
    <2>2. oneShots' \subseteq oneShots /\ rounds' = rounds
      BY <1>11 DEF AdminReveal, Judged
    <2>3. QED
      BY <2>1, <2>2 DEF Stops
  <1>12. ASSUME EndRound
        PROVE  TimerKeys'
    <2>1. Stops \/ UNCHANGED <<armed, revealTimer, ticks>>
      BY <1>12, ClearStops DEF EndRound, tickerVars
    <2>2. oneShots' = oneShots
      BY <1>12 DEF EndRound
    <2>3. rounds' >= rounds /\ rounds \in Nat /\ rounds' \in Nat
      BY RoundsGrow
    <2>4. \A t \in oneShots : t.key <= rounds /\ t.key \in Nat
      BY DEF OneShot, Rounds
    <2>5. \A t \in oneShots' : t.key <= rounds'
      BY <2>2, <2>3, <2>4
    <2>6. \A j \in Rounds : j > rounds' => armed'[j] = 0 /\ ticks'[j] = 0
      BY <2>1, <2>3 DEF Stops, Rounds
    <2>7. QED
      BY <2>5, <2>6
  <1>13. ASSUME EndGame
        PROVE  TimerKeys'
    <2>1. Stops \/ UNCHANGED <<armed, revealTimer, ticks>>
      BY <1>13, ClearStops DEF EndGame, tickerVars
    <2>2. oneShots' = oneShots
      BY <1>13 DEF EndGame
    <2>3. rounds' >= rounds /\ rounds \in Nat /\ rounds' \in Nat
      BY RoundsGrow
    <2>4. \A t \in oneShots : t.key <= rounds /\ t.key \in Nat
      BY DEF OneShot, Rounds
    <2>5. \A t \in oneShots' : t.key <= rounds'
      BY <2>2, <2>3, <2>4
    <2>6. \A j \in Rounds : j > rounds' => armed'[j] = 0 /\ ticks'[j] = 0
      BY <2>1, <2>3 DEF Stops, Rounds
    <2>7. QED
      BY <2>5, <2>6
  <1>14. ASSUME ResetToLobby
        PROVE  TimerKeys'
    <2>1. Stops \/ UNCHANGED <<armed, revealTimer, ticks>>
      BY <1>14, ClearStops DEF ResetToLobby, tickerVars
    <2>2. oneShots' = oneShots
      BY <1>14 DEF ResetToLobby
    <2>3. rounds' >= rounds /\ rounds \in Nat /\ rounds' \in Nat
      BY RoundsGrow
    <2>4. \A t \in oneShots : t.key <= rounds /\ t.key \in Nat
      BY DEF OneShot, Rounds
    <2>5. \A t \in oneShots' : t.key <= rounds'
      BY <2>2, <2>3, <2>4
    <2>6. \A j \in Rounds : j > rounds' => armed'[j] = 0 /\ ticks'[j] = 0
      BY <2>1, <2>3 DEF Stops, Rounds
    <2>7. QED
      BY <2>5, <2>6
  <1>15. ASSUME NEW size \in Sizes, PerformanceStarts(size)
        PROVE  TimerKeys'
    <2>1. Stops \/ UNCHANGED <<armed, revealTimer, ticks>>
      BY <1>15, ClearStops DEF PerformanceStarts, tickerVars
    <2>2. oneShots' = oneShots
      BY <1>15 DEF PerformanceStarts
    <2>3. rounds' >= rounds /\ rounds \in Nat /\ rounds' \in Nat
      BY RoundsGrow
    <2>4. \A t \in oneShots : t.key <= rounds /\ t.key \in Nat
      BY DEF OneShot, Rounds
    <2>5. \A t \in oneShots' : t.key <= rounds'
      BY <2>2, <2>3, <2>4
    <2>6. \A j \in Rounds : j > rounds' => armed'[j] = 0 /\ ticks'[j] = 0
      BY <2>1, <2>3 DEF Stops, Rounds
    <2>7. QED
      BY <2>5, <2>6
  <1>16. ASSUME NEW size \in Sizes, NEW year \in BOOLEAN, StartTrack(size, year)
        PROVE  TimerKeys'
    <2>1. (\A j \in Rounds : armed'[j] = 0) /\ ticks' = ticks /\ rounds' = rounds + 1
      BY <1>16, NoneLeft DEF StartTrack, StartReveal, StopRevealTimer, FreshKey
    <2>2. \A t \in oneShots' : t \in oneShots \/ t.key = rounds'
      BY <1>16, <2>1 DEF StartTrack, StartReveal
    <2>3. rounds \in Nat
      BY DEF Keys
    <2>5. \A t \in oneShots : t.key <= rounds /\ t.key \in Nat
      BY DEF OneShot, Rounds
    <2>6. \A t \in oneShots' : t.key <= rounds'
      BY <2>1, <2>2, <2>3, <2>5
    <2>7. \A j \in Rounds : j > rounds' => armed'[j] = 0 /\ ticks'[j] = 0
      BY <2>1, <2>3 DEF Rounds
    <2>4. QED
      BY <2>6, <2>7
  <1>17. ASSUME LeaveKaraoke
        PROVE  TimerKeys'
    <2>1. Stops \/ UNCHANGED <<armed, revealTimer, ticks>>
      BY <1>17, ClearStops DEF LeaveKaraoke, tickerVars
    <2>2. oneShots' = oneShots
      BY <1>17 DEF LeaveKaraoke
    <2>3. rounds' >= rounds /\ rounds \in Nat /\ rounds' \in Nat
      BY RoundsGrow
    <2>4. \A t \in oneShots : t.key <= rounds /\ t.key \in Nat
      BY DEF OneShot, Rounds
    <2>5. \A t \in oneShots' : t.key <= rounds'
      BY <2>2, <2>3, <2>4
    <2>6. \A j \in Rounds : j > rounds' => armed'[j] = 0 /\ ticks'[j] = 0
      BY <2>1, <2>3 DEF Stops, Rounds
    <2>7. QED
      BY <2>5, <2>6
  <1>18. ASSUME DailyDoubleEnds
        PROVE  TimerKeys'
    <2>1. Stops \/ UNCHANGED <<armed, revealTimer, ticks>>
      BY <1>18, ClearStops DEF DailyDoubleEnds, tickerVars
    <2>2. oneShots' = oneShots
      BY <1>18 DEF DailyDoubleEnds
    <2>3. rounds' >= rounds /\ rounds \in Nat /\ rounds' \in Nat
      BY RoundsGrow
    <2>4. \A t \in oneShots : t.key <= rounds /\ t.key \in Nat
      BY DEF OneShot, Rounds
    <2>5. \A t \in oneShots' : t.key <= rounds'
      BY <2>2, <2>3, <2>4
    <2>6. \A j \in Rounds : j > rounds' => armed'[j] = 0 /\ ticks'[j] = 0
      BY <2>1, <2>3 DEF Stops, Rounds
    <2>7. QED
      BY <2>5, <2>6
  <1>19. CASE UNCHANGED <<armed, ticks, oneShots, rounds>>
    BY <1>19
  <1>20. QED
    BY <1>1, <1>2, <1>3, <1>4, <1>5, <1>6, <1>7, <1>8, <1>9, <1>10, <1>11, <1>12, <1>13, <1>14,
       <1>15, <1>16, <1>17, <1>18, <1>19
       DEF Next, Timers, Floor, Admin, Game, Hello, Disconnect, Buzz, WindowWon, WindowCloses,
           GradeIncorrect, GradePartial, SetRevealCfg, DailyDoubleOffered

-----------------------------------------------------------------------------
(* The clock and the game. *)

(* A clock that runs is of this round. *)
LEMMA LiveInvStep == IInv /\ [Next]_vars => LiveInv'
  <1> SUFFICES ASSUME IInv, [Next]_vars
               PROVE  LiveInv'
    OBVIOUS
  <1> USE ConstantsOK
         DEF vars, gameVars, IInv, LiveInv, Judged
  <1>1. ASSUME YearShows
        PROVE  LiveInv'
    <2>1. GoesOn /\ UNCHANGED <<track, roundKey>>
      BY <1>1, YearEffect DEF YearShows
    <2>2. QED
      BY <2>1 DEF GoesOn, Onward, Same
  <1>2. ASSUME BlockFlips
        PROVE  LiveInv'
    <2>1. GoesOn /\ UNCHANGED <<track, roundKey>>
      BY <1>2, BlockEffect DEF BlockFlips
    <2>2. QED
      BY <2>1 DEF GoesOn, Onward, Same
  <1>3. ASSUME LettersStart
        PROVE  LiveInv'
    <2>1. GoesOn /\ UNCHANGED <<track, roundKey>>
      BY <1>3, LettersEffect DEF LettersStart
    <2>2. QED
      BY <2>1 DEF GoesOn, Onward, Same
  <1>4. ASSUME NEW k \in Rounds, TickPaused(k)
        PROVE  LiveInv'
    <2>1. GoesOn /\ UNCHANGED <<track, roundKey>>
      BY <1>4, PausedEffect DEF TickPaused
    <2>2. QED
      BY <2>1 DEF GoesOn, Onward, Same
  <1>5. ASSUME NEW k \in Rounds, RevealTick(k)
        PROVE  LiveInv'
    <2>1. GoesOn /\ UNCHANGED <<track, roundKey>>
      BY <1>5, TickEffect DEF RevealTick
    <2>2. QED
      BY <2>1 DEF GoesOn, Onward, Same
  <1>6. ASSUME NEW k \in Rounds, AutoKaraoke(k)
        PROVE  LiveInv'
    <2>1. (Keeps \/ Fills) /\ UNCHANGED <<track, roundKey>>
      BY <1>6, FinalizeEffect DEF AutoKaraoke, EnterKaraoke, Keeps, Judged
    <2>2. QED
      BY <2>1 DEF Keeps, Fills
  <1>7. ASSUME GradeFinal
        PROVE  LiveInv'
    <2>1. (Keeps \/ Fills) /\ UNCHANGED <<track, roundKey>>
      BY <1>7, FinalizeEffect DEF GradeFinal, EnterKaraoke, Keeps, Judged
    <2>2. QED
      BY <2>1 DEF Keeps, Fills
  <1>8. ASSUME NEW f \in Fields \cup {None}, GradePartial(f)
        PROVE  LiveInv'
    <2>1. (Keeps \/ GoesOn) /\ UNCHANGED <<track, roundKey>>
      BY <1>8, PartialEffect DEF GradePartial, Judged
    <2>2. QED
      BY <2>1 DEF Keeps, GoesOn, Onward, Same
  <1>9. ASSUME AdminReveal
        PROVE  LiveInv'
    <2>1. (Keeps \/ Fills) /\ UNCHANGED <<track, roundKey>>
      BY <1>9, FinalizeEffect DEF AdminReveal, EnterKaraoke, Keeps, Judged
    <2>2. QED
      BY <2>1 DEF Keeps, Fills
  <1>10. ASSUME EndRound
        PROVE  LiveInv'
    BY <1>10, NoClockFits DEF EndRound, ClearReveal
  <1>11. ASSUME EndGame
        PROVE  LiveInv'
    BY <1>11, NoClockFits DEF EndGame, ClearReveal
  <1>12. ASSUME ResetToLobby
        PROVE  LiveInv'
    BY <1>12, NoClockFits DEF ResetToLobby, ClearReveal
  <1>13. ASSUME NEW size \in Sizes, PerformanceStarts(size)
        PROVE  LiveInv'
    BY <1>13, NoClockFits DEF PerformanceStarts, ClearReveal
  <1>14. ASSUME NEW size \in Sizes, NEW year \in BOOLEAN, StartTrack(size, year)
        PROVE  LiveInv'
    <2>1. Starts(size) /\ track' = size /\ roundKey' = rounds'
      BY <1>14, StartEffect DEF StartTrack, FreshKey
    <2>2. size # None
      BY ConstantsOK
    <2>3. QED
      BY <2>1, <2>2 DEF Starts
  <1>15. ASSUME LeaveKaraoke
        PROVE  LiveInv'
    BY <1>15, NoClockFits DEF LeaveKaraoke, ClearReveal
  <1>16. ASSUME DailyDoubleEnds
        PROVE  LiveInv'
    BY <1>16, NoClockFits DEF DailyDoubleEnds, ClearReveal
  <1>17. CASE UNCHANGED <<rc, track, roundKey>>
    BY <1>17
  <1>18. QED
    BY <1>1, <1>2, <1>3, <1>4, <1>5, <1>6, <1>7, <1>8, <1>9, <1>10, <1>11, <1>12, <1>13, <1>14,
       <1>15, <1>16, <1>17
       DEF Next, Timers, Floor, Admin, Game, OneShotIgnored, TickerFires, TickIgnored, Hello,
           Disconnect, Buzz, WindowWon, WindowCloses, GradeIncorrect, SetRevealCfg,
           DailyDoubleOffered

(* In karaoke nothing is revealed any more. *)
LEMMA KaraokeInvStep == IInv /\ [Next]_vars => KaraokeInv'
  <1> SUFFICES ASSUME IInv, [Next]_vars
               PROVE  KaraokeInv'
    OBVIOUS
  <1> USE ConstantsOK
         DEF vars, people, tickerVars, gameVars, IInv, KaraokeInv
  <1>1. ASSUME YearShows
        PROVE  KaraokeInv'
    <2>1. rc.active /\ state' = state
      BY <1>1, YearEffect DEF YearShows, GoesOn, gameVars
    <2>2. QED
      BY <2>1
  <1>2. ASSUME BlockFlips
        PROVE  KaraokeInv'
    <2>1. rc.active /\ state' = state
      BY <1>2, BlockEffect DEF BlockFlips, GoesOn, gameVars
    <2>2. QED
      BY <2>1
  <1>3. ASSUME LettersStart
        PROVE  KaraokeInv'
    <2>1. rc.active /\ state' = state
      BY <1>3, LettersEffect DEF LettersStart, GoesOn, gameVars
    <2>2. QED
      BY <2>1
  <1>4. ASSUME NEW k \in Rounds, TickPaused(k)
        PROVE  KaraokeInv'
    <2>1. rc.active /\ state' = state
      BY <1>4, PausedEffect DEF TickPaused, GoesOn, gameVars
    <2>2. QED
      BY <2>1
  <1>5. ASSUME NEW k \in Rounds, RevealTick(k)
        PROVE  KaraokeInv'
    <2>1. rc.active /\ state' = state
      BY <1>5, TickEffect DEF RevealTick, GoesOn, gameVars
    <2>2. QED
      BY <2>1
  <1>6. ASSUME NEW k \in Rounds, AutoKaraoke(k)
        PROVE  KaraokeInv'
    <2>1. (track = None /\ Keeps) \/ Fills \/ UNCHANGED <<state, rc>>
      BY <1>6, FinalizeEffect DEF AutoKaraoke, EnterKaraoke
    <2>2. QED
      BY <2>1 DEF Keeps, Fills, LiveInv
  <1>7. ASSUME NEW p \in Players, WindowWon(p)
        PROVE  KaraokeInv'
    BY <1>7 DEF WindowWon
  <1>8. ASSUME GradeFinal
        PROVE  KaraokeInv'
    <2>1. (track = None /\ Keeps) \/ Fills \/ UNCHANGED <<state, rc>>
      BY <1>8, FinalizeEffect DEF GradeFinal, EnterKaraoke
    <2>2. QED
      BY <2>1 DEF Keeps, Fills, LiveInv
  <1>9. ASSUME GradeIncorrect
        PROVE  KaraokeInv'
    BY <1>9 DEF GradeIncorrect
  <1>10. ASSUME NEW f \in Fields \cup {None}, GradePartial(f)
        PROVE  KaraokeInv'
    BY <1>10 DEF GradePartial
  <1>11. ASSUME AdminReveal
        PROVE  KaraokeInv'
    <2>1. (track = None /\ Keeps) \/ Fills \/ UNCHANGED <<state, rc>>
      BY <1>11, FinalizeEffect DEF AdminReveal, EnterKaraoke
    <2>2. QED
      BY <2>1 DEF Keeps, Fills, LiveInv
  <1>12. ASSUME EndRound
        PROVE  KaraokeInv'
    BY <1>12, NoClockFits DEF EndRound, ClearReveal
  <1>13. ASSUME EndGame
        PROVE  KaraokeInv'
    BY <1>13, NoClockFits DEF EndGame, ClearReveal
  <1>14. ASSUME ResetToLobby
        PROVE  KaraokeInv'
    BY <1>14, NoClockFits DEF ResetToLobby, ClearReveal
  <1>15. ASSUME NEW size \in Sizes, PerformanceStarts(size)
        PROVE  KaraokeInv'
    BY <1>15, NoClockFits DEF PerformanceStarts, ClearReveal
  <1>16. ASSUME NEW size \in Sizes, NEW year \in BOOLEAN, StartTrack(size, year)
        PROVE  KaraokeInv'
    BY <1>16 DEF StartTrack
  <1>17. ASSUME LeaveKaraoke
        PROVE  KaraokeInv'
    BY <1>17, NoClockFits DEF LeaveKaraoke, ClearReveal
  <1>18. ASSUME DailyDoubleOffered
        PROVE  KaraokeInv'
    BY <1>18 DEF DailyDoubleOffered
  <1>19. ASSUME DailyDoubleEnds
        PROVE  KaraokeInv'
    BY <1>19, NoClockFits DEF DailyDoubleEnds, ClearReveal
  <1>20. CASE UNCHANGED <<state, rc>>
    BY <1>20
  <1>21. QED
    BY <1>1, <1>2, <1>3, <1>4, <1>5, <1>6, <1>7, <1>8, <1>9, <1>10, <1>11, <1>12, <1>13, <1>14,
       <1>15, <1>16, <1>17, <1>18, <1>19, <1>20
       DEF Next, Timers, Floor, Admin, Game, OneShotIgnored, TickerFires, TickIgnored, Hello,
           Disconnect, Buzz, WindowCloses, SetRevealCfg

(* The ticker of a running clock can be reached. *)
LEMMA ReachInvStep == IInv /\ [Next]_vars => ReachInv'
  <1> SUFFICES ASSUME IInv, [Next]_vars
               PROVE  ReachInv'
    OBVIOUS
  <1> USE ConstantsOK
         DEF vars, people, tickerVars, gameVars, IInv, ReachInv
  <1>1. ASSUME YearShows
        PROVE  ReachInv'
    <2>1. GoesOn /\ revealTimer' = revealTimer
      BY <1>1, YearEffect DEF YearShows, tickerVars
    <2>2. QED
      BY <2>1 DEF GoesOn, Onward, Same
  <1>2. ASSUME BlockFlips
        PROVE  ReachInv'
    <2>1. GoesOn /\ revealTimer' = revealTimer
      BY <1>2, BlockEffect DEF BlockFlips, tickerVars
    <2>2. QED
      BY <2>1 DEF GoesOn, Onward, Same
  <1>3. ASSUME LettersStart
        PROVE  ReachInv'
    <2>1. GoesOn /\ Arms(rc.key)
      BY <1>3, LettersEffect
    <2>2. QED
      BY <2>1 DEF GoesOn, Onward, Same, Arms
  <1>4. ASSUME NEW k \in Rounds, TickPaused(k)
        PROVE  ReachInv'
    <2>1. GoesOn /\ rc.key = k /\ (~rc'.active \/ Arms(k))
      BY <1>4, PausedEffect
    <2>2. QED
      BY <2>1 DEF GoesOn, Onward, Same, Arms
  <1>5. ASSUME NEW k \in Rounds, RevealTick(k)
        PROVE  ReachInv'
    <2>1. GoesOn /\ rc.key = k /\ (~rc'.active \/ Arms(k))
      BY <1>5, TickEffect
    <2>2. QED
      BY <2>1 DEF GoesOn, Onward, Same, Arms
  <1>6. ASSUME NEW k \in Rounds, AutoKaraoke(k)
        PROVE  ReachInv'
    <2>1. (track = None /\ Keeps) \/ Fills \/ UNCHANGED <<rc, revealTimer>>
      BY <1>6, FinalizeEffect DEF AutoKaraoke, EnterKaraoke, tickerVars
    <2>2. QED
      BY <2>1 DEF Keeps, Fills, LiveInv
  <1>7. ASSUME GradeFinal
        PROVE  ReachInv'
    <2>1. (track = None /\ Keeps) \/ Fills \/ UNCHANGED <<rc, revealTimer>>
      BY <1>7, FinalizeEffect DEF GradeFinal, EnterKaraoke, tickerVars
    <2>2. QED
      BY <2>1 DEF Keeps, Fills, LiveInv
  <1>8. ASSUME NEW f \in Fields \cup {None}, GradePartial(f)
        PROVE  ReachInv'
    <2>1. (Keeps \/ GoesOn) /\ revealTimer' = revealTimer
      BY <1>8, PartialEffect DEF GradePartial
    <2>2. QED
      BY <2>1 DEF Keeps, GoesOn, Onward, Same
  <1>9. ASSUME AdminReveal
        PROVE  ReachInv'
    <2>1. (track = None /\ Keeps) \/ Fills \/ UNCHANGED <<rc, revealTimer>>
      BY <1>9, FinalizeEffect DEF AdminReveal, EnterKaraoke, tickerVars
    <2>2. QED
      BY <2>1 DEF Keeps, Fills, LiveInv
  <1>10. ASSUME EndRound
        PROVE  ReachInv'
    BY <1>10, NoClockFits DEF EndRound, ClearReveal
  <1>11. ASSUME EndGame
        PROVE  ReachInv'
    BY <1>11, NoClockFits DEF EndGame, ClearReveal
  <1>12. ASSUME ResetToLobby
        PROVE  ReachInv'
    BY <1>12, NoClockFits DEF ResetToLobby, ClearReveal
  <1>13. ASSUME NEW size \in Sizes, PerformanceStarts(size)
        PROVE  ReachInv'
    BY <1>13, NoClockFits DEF PerformanceStarts, ClearReveal
  <1>14. ASSUME NEW size \in Sizes, NEW year \in BOOLEAN, StartTrack(size, year)
        PROVE  ReachInv'
    BY <1>14 DEF StartTrack, StartReveal, StopRevealTimer
  <1>15. ASSUME LeaveKaraoke
        PROVE  ReachInv'
    BY <1>15, NoClockFits DEF LeaveKaraoke, ClearReveal
  <1>16. ASSUME DailyDoubleEnds
        PROVE  ReachInv'
    BY <1>16, NoClockFits DEF DailyDoubleEnds, ClearReveal
  <1>17. CASE UNCHANGED <<rc, revealTimer>>
    BY <1>17
  <1>18. QED
    BY <1>1, <1>2, <1>3, <1>4, <1>5, <1>6, <1>7, <1>8, <1>9, <1>10, <1>11, <1>12, <1>13, <1>14,
       <1>15, <1>16, <1>17
       DEF Next, Timers, Floor, Admin, Game, OneShotIgnored, TickerFires, TickIgnored, Hello,
           Disconnect, Buzz, WindowWon, WindowCloses, GradeIncorrect, SetRevealCfg,
           DailyDoubleOffered

(* One thing drives the clock. *)
LEMMA TickerRunsStep == IInv /\ [Next]_vars => TickerRuns'
  <1> SUFFICES ASSUME IInv, [Next]_vars
               PROVE  TickerRuns'
    OBVIOUS
  <1> USE ConstantsOK
         DEF vars, people, tickerVars, gameVars, IInv, TickerRuns, ReachInv, Judged
  <1>1. ASSUME YearShows
        PROVE  TickerRuns'
    <2>1. GoesOn /\ Alike(rc, rc') /\ UNCHANGED <<armed, ticks, revealTimer>>
      BY <1>1, YearEffect DEF YearShows, tickerVars
    <2>2. rc.active /\ rc'.key = rc.key /\ rc'.phase1Done = rc.phase1Done
      BY <2>1 DEF GoesOn, Alike, Same
    <2>3. [kind |-> "letters", key |-> rc.key] \in oneShots' <=> [kind |-> "letters", key |-> rc.key] \in oneShots
      BY <1>1 DEF YearShows, Runs
    <2>4. QED
      BY <2>1, <2>2, <2>3
  <1>2. ASSUME BlockFlips
        PROVE  TickerRuns'
    <2>1. GoesOn /\ Alike(rc, rc') /\ UNCHANGED <<armed, ticks, revealTimer>>
      BY <1>2, BlockEffect DEF BlockFlips, tickerVars
    <2>2. rc.active /\ rc'.key = rc.key /\ rc'.phase1Done = rc.phase1Done
      BY <2>1 DEF GoesOn, Alike, Same
    <2>3. [kind |-> "letters", key |-> rc.key] \in oneShots' <=> [kind |-> "letters", key |-> rc.key] \in oneShots
      BY <1>2 DEF BlockFlips, Runs
    <2>4. QED
      BY <2>1, <2>2, <2>3
  <1>3. ASSUME LettersStart
        PROVE  TickerRuns'
    <2>1. /\ GoesOn /\ ~rc.phase1Done /\ rc'.phase1Done /\ Arms(rc.key) /\ rc'.active
          /\ ticks' = ticks
      BY <1>3, LettersEffect DEF LettersStart
    <2>2. rc.active /\ rc'.key = rc.key /\ rc.key \in Rounds
      BY <2>1, RunningClock DEF GoesOn, Onward, Same
    <2>3. [kind |-> "letters", key |-> rc.key] \notin oneShots'
      BY <1>3 DEF LettersStart, Runs
    <2>4. /\ armed[rc.key] \in Nat /\ ticks[rc.key] \in Nat /\ armed[rc.key] + ticks[rc.key] = 0
          /\ revealTimer \in {0, rc.key}
      BY <2>1, <2>2 DEF TimerTypes
    <2>5. armed'[rc.key] = 1 /\ ticks'[rc.key] = 0
      BY <2>1, <2>2, <2>4 DEF Arms, TimerTypes
    <2>6. \A k \in Rounds : armed'[k] <= IF revealTimer' = k THEN 1 ELSE 0
      BY <2>1, <2>2, <2>4, <2>5 DEF Arms, TimerTypes, Rounds
    <2>7. QED
      BY <2>1, <2>2, <2>3, <2>5, <2>6
  <1>4. ASSUME NEW t \in oneShots, OneShotIgnored(t)
        PROVE  TickerRuns'
    BY <1>4 DEF OneShotIgnored, Superseded
  <1>5. ASSUME NEW k \in Rounds, TickerFires(k)
        PROVE  TickerRuns'
    <2>1. armed' = [armed EXCEPT ![k] = armed[k] - 1] /\ ticks' = [ticks EXCEPT ![k] = ticks[k] + 1]
      BY <1>5 DEF TickerFires
    <2>2. \A j \in Rounds : armed'[j] + ticks'[j] = armed[j] + ticks[j] /\ armed'[j] <= armed[j]
      BY <2>1 DEF TimerTypes
    <2>3. \A j \in Rounds : armed[j] \in Nat /\ armed'[j] \in Int
      BY <2>1 DEF TimerTypes
    <2>4. UNCHANGED <<rc, oneShots, revealTimer>>
      BY <1>5 DEF TickerFires
    <2>5. rc.active => rc.key \in Rounds
      BY RunningClock
    <2>6. \A j \in Rounds : armed'[j] <= IF revealTimer' = j THEN 1 ELSE 0
      BY <2>2, <2>3, <2>4
    <2>7. QED
      BY <2>2, <2>4, <2>5, <2>6
  <1>6. ASSUME NEW k \in Rounds, TickIgnored(k)
        PROVE  TickerRuns'
    <2>1. ticks' = [ticks EXCEPT ![k] = ticks[k] - 1] /\ UNCHANGED <<rc, oneShots, armed, revealTimer>>
      BY <1>6 DEF TickIgnored, TakesTick
    <2>2. rc.active => rc.key \in Rounds /\ rc.key # k
      BY <1>6, RunningClock DEF TickIgnored
    <2>3. QED
      BY <2>1, <2>2 DEF TimerTypes
  <1>7. ASSUME NEW k \in Rounds, TickPaused(k)
        PROVE  TickerRuns'
    <2>1. /\ GoesOn /\ rc.key = k /\ rc'.phase1Done = rc.phase1Done
          /\ \/ ~rc'.active /\ UNCHANGED <<armed, revealTimer>>
             \/ rc'.active /\ Arms(k) /\ oneShots' = oneShots
      BY <1>7, PausedEffect DEF TickPaused, Alike
    <2>2. ticks' = [ticks EXCEPT ![k] = ticks[k] - 1] /\ ticks[k] > 0
      BY <1>7 DEF TickPaused, TakesTick
    <2>3. rc.active /\ rc'.key = k
      BY <2>1 DEF GoesOn, Onward, Same
    <2>4. /\ armed[k] \in Nat /\ ticks[k] \in Nat /\ armed[k] + ticks[k] = 1 /\ rc.phase1Done
          /\ revealTimer \in {0, k} /\ [kind |-> "letters", key |-> k] \notin oneShots
      BY <2>1, <2>2, <2>3 DEF TimerTypes
    <2>5. CASE ~rc'.active
      BY <2>1, <2>5
    <2>6. CASE Arms(k) /\ oneShots' = oneShots
      <3>1. armed'[k] = 1 /\ ticks'[k] = 0
        BY <2>2, <2>4, <2>6 DEF Arms, TimerTypes
      <3>2. \A j \in Rounds : armed'[j] <= IF revealTimer' = j THEN 1 ELSE 0
        BY <2>4, <2>6, <3>1 DEF Arms, TimerTypes, Rounds
      <3>3. QED
        BY <2>1, <2>3, <2>4, <2>6, <3>1, <3>2
    <2>7. QED
      BY <2>1, <2>5, <2>6
  <1>8. ASSUME NEW k \in Rounds, RevealTick(k)
        PROVE  TickerRuns'
    <2>1. /\ GoesOn /\ rc.key = k /\ rc'.phase1Done = rc.phase1Done
          /\ \/ ~rc'.active /\ UNCHANGED <<armed, revealTimer>>
             \/ rc'.active /\ Arms(k) /\ oneShots' = oneShots
      BY <1>8, TickEffect DEF RevealTick, Alike
    <2>2. ticks' = [ticks EXCEPT ![k] = ticks[k] - 1] /\ ticks[k] > 0
      BY <1>8 DEF RevealTick, TakesTick
    <2>3. rc.active /\ rc'.key = k
      BY <2>1 DEF GoesOn, Onward, Same
    <2>4. /\ armed[k] \in Nat /\ ticks[k] \in Nat /\ armed[k] + ticks[k] = 1 /\ rc.phase1Done
          /\ revealTimer \in {0, k} /\ [kind |-> "letters", key |-> k] \notin oneShots
      BY <2>1, <2>2, <2>3 DEF TimerTypes
    <2>5. CASE ~rc'.active
      BY <2>1, <2>5
    <2>6. CASE Arms(k) /\ oneShots' = oneShots
      <3>1. armed'[k] = 1 /\ ticks'[k] = 0
        BY <2>2, <2>4, <2>6 DEF Arms, TimerTypes
      <3>2. \A j \in Rounds : armed'[j] <= IF revealTimer' = j THEN 1 ELSE 0
        BY <2>4, <2>6, <3>1 DEF Arms, TimerTypes, Rounds
      <3>3. QED
        BY <2>1, <2>3, <2>4, <2>6, <3>1, <3>2
    <2>7. QED
      BY <2>1, <2>5, <2>6
  <1>9. ASSUME NEW k \in Rounds, AutoKaraoke(k)
        PROVE  TickerRuns'
    <2>1. \/ (track = None /\ Keeps) /\ UNCHANGED <<armed, revealTimer, ticks>>
          \/ Fills /\ Stops
          \/ UNCHANGED <<rc, armed, revealTimer, ticks>>
      BY <1>9, FinalizeEffect, FinalizeStops DEF AutoKaraoke, EnterKaraoke, tickerVars, Fills
    <2>2. [kind |-> "letters", key |-> rc.key] \in oneShots' <=> [kind |-> "letters", key |-> rc.key] \in oneShots
      BY <1>9 DEF AutoKaraoke, Judged
    <2>3. QED
      BY <2>1, <2>2 DEF Keeps, Fills, Stops, LiveInv
  <1>10. ASSUME GradeFinal
        PROVE  TickerRuns'
    <2>1. \/ (track = None /\ Keeps) /\ UNCHANGED <<armed, revealTimer, ticks>>
          \/ Fills /\ Stops
          \/ UNCHANGED <<rc, armed, revealTimer, ticks>>
      BY <1>10, FinalizeEffect, FinalizeStops DEF GradeFinal, EnterKaraoke, tickerVars, Fills
    <2>2. [kind |-> "letters", key |-> rc.key] \in oneShots' <=> [kind |-> "letters", key |-> rc.key] \in oneShots
      BY <1>10 DEF GradeFinal, Judged
    <2>3. QED
      BY <2>1, <2>2 DEF Keeps, Fills, Stops, LiveInv
  <1>11. ASSUME NEW f \in Fields \cup {None}, GradePartial(f)
        PROVE  TickerRuns'
    <2>1. UNCHANGED <<armed, ticks, revealTimer, oneShots>>
      BY <1>11 DEF GradePartial, tickerVars
    <2>2. Keeps \/ (GoesOn /\ rc'.phase1Done = rc.phase1Done)
      BY <1>11, PartialEffect
    <2>3. QED
      BY <2>1, <2>2 DEF Keeps, GoesOn, Onward, Same
  <1>12. ASSUME AdminReveal
        PROVE  TickerRuns'
    <2>1. \/ (track = None /\ Keeps) /\ UNCHANGED <<armed, revealTimer, ticks>>
          \/ Fills /\ Stops
          \/ UNCHANGED <<rc, armed, revealTimer, ticks>>
      BY <1>12, FinalizeEffect, FinalizeStops DEF AdminReveal, EnterKaraoke, tickerVars, Fills
    <2>2. [kind |-> "letters", key |-> rc.key] \in oneShots' <=> [kind |-> "letters", key |-> rc.key] \in oneShots
      BY <1>12 DEF AdminReveal, Judged
    <2>3. QED
      BY <2>1, <2>2 DEF Keeps, Fills, Stops, LiveInv
  <1>13. ASSUME EndRound
        PROVE  TickerRuns'
    <2>1. rc' = NoClock /\ Stops
      BY <1>13, ClearStops DEF EndRound, ClearReveal
    <2>2. QED
      BY <2>1, NoClockFits DEF Stops
  <1>14. ASSUME EndGame
        PROVE  TickerRuns'
    <2>1. \/ rc' = NoClock /\ Stops
          \/ UNCHANGED <<rc, armed, revealTimer, ticks>>
      BY <1>14, ClearStops DEF EndGame, ClearReveal, tickerVars
    <2>2. oneShots' = oneShots
      BY <1>14 DEF EndGame
    <2>3. QED
      BY <2>1, <2>2, NoClockFits DEF Stops
  <1>15. ASSUME ResetToLobby
        PROVE  TickerRuns'
    <2>1. rc' = NoClock /\ Stops
      BY <1>15, ClearStops DEF ResetToLobby, ClearReveal
    <2>2. QED
      BY <2>1, NoClockFits DEF Stops
  <1>16. ASSUME NEW size \in Sizes, PerformanceStarts(size)
        PROVE  TickerRuns'
    <2>1. rc' = NoClock /\ Stops
      BY <1>16, ClearStops DEF PerformanceStarts, ClearReveal
    <2>2. QED
      BY <2>1, NoClockFits DEF Stops
  <1>17. ASSUME NEW size \in Sizes, NEW year \in BOOLEAN, StartTrack(size, year)
        PROVE  TickerRuns'
    <2>7. rounds + 1 \in Rounds /\ ticks' = ticks /\ rounds' = rounds + 1
      BY <1>17 DEF StartTrack, FreshKey, StateTypes, Keys, Rounds
    <2>1. Starts(size) /\ rounds + 1 \in Rounds /\ ticks' = ticks
      BY <1>17, <2>7, StartEffect
    <2>2. (\A j \in Rounds : armed'[j] = 0) /\ revealTimer' = 0
      BY <1>17, NoneLeft DEF StartTrack, StartReveal, StopRevealTimer
    <2>3. ticks[rounds + 1] = 0
      BY <2>1 DEF TimerKeys, Rounds, StateTypes, Keys
    <2>4. [kind |-> "letters", key |-> rounds + 1] \in oneShots'
      BY <1>17 DEF StartTrack, StartReveal
    <2>5. rc'.key = rounds + 1 /\ ~rc'.phase1Done
      BY <2>1 DEF Starts
    <2>6. QED
      BY <2>1, <2>2, <2>3, <2>4, <2>5
  <1>18. ASSUME LeaveKaraoke
        PROVE  TickerRuns'
    <2>1. rc' = NoClock /\ Stops
      BY <1>18, ClearStops DEF LeaveKaraoke, ClearReveal
    <2>2. QED
      BY <2>1, NoClockFits DEF Stops
  <1>19. ASSUME DailyDoubleEnds
        PROVE  TickerRuns'
    <2>1. rc' = NoClock /\ Stops
      BY <1>19, ClearStops DEF DailyDoubleEnds, ClearReveal
    <2>2. QED
      BY <2>1, NoClockFits DEF Stops
  <1>20. CASE UNCHANGED <<rc, armed, ticks, revealTimer, oneShots>>
    BY <1>20
  <1>21. QED
    BY <1>1, <1>2, <1>3, <1>4, <1>5, <1>6, <1>7, <1>8, <1>9, <1>10, <1>11, <1>12, <1>13, <1>14,
       <1>15, <1>16, <1>17, <1>18, <1>19, <1>20
       DEF Next, Timers, Floor, Admin, Game, Hello, Disconnect, Buzz, WindowWon, WindowCloses,
           GradeIncorrect, SetRevealCfg, DailyDoubleOffered

-----------------------------------------------------------------------------
(* What the room has seen. *)

LEMMA ShownInvStep == IInv /\ [Next]_vars => ShownInv'
  <1> SUFFICES ASSUME IInv, [Next]_vars
               PROVE  ShownInv'
    OBVIOUS
  <1>1. CASE Keeps \/ Clears \/ Fills
    BY <1>1, NoClockFits DEF Keeps, Clears, Fills, ShownInv, IInv
  <1>2. CASE GoesOn
    <2>1. Fits(rc) /\ rc.phase # 0 /\ Fits(rc') /\ rc'.phase >= rc.phase /\ shown' = CurrentMask(rc')
      BY <1>2, RunningClock DEF GoesOn, Onward, Same
    <2>2. rc.phase \in 0 .. DONE /\ rc'.phase \in 0 .. DONE
      BY <2>1, FieldsOf DEF Fits
    <2>3. QED
      BY <2>1, <2>2 DEF ShownInv, DONE
  <1>3. ASSUME NEW size \in Sizes, Starts(size)
        PROVE  ShownInv'
    BY <1>3 DEF Starts, ShownInv
  <1>4. QED
    BY <1>1, <1>2, <1>3, ClockStep DEF ClockMoves

(* A track that is new comes with a key that is. *)
TrackMoves ==
    \/ track' = None
    \/ UNCHANGED <<track, roundKey>>
    \/ Starts(track') /\ roundKey' = rounds + 1
    \/ shown' = shown /\ roundKey' = rounds + 1

LEMMA TrackStep == IInv /\ [Next]_vars => TrackMoves
  <1> SUFFICES ASSUME IInv, [Next]_vars
               PROVE  TrackMoves
    OBVIOUS
  <1> USE ConstantsOK
         DEF vars, gameVars, TrackMoves, Judged, EnterKaraoke
  <1>1. ASSUME EndRound
        PROVE  TrackMoves
    BY <1>1 DEF EndRound, FreshKey, ClearReveal
  <1>2. ASSUME EndGame
        PROVE  TrackMoves
    BY <1>2 DEF EndGame, FreshKey, ClearReveal
  <1>3. ASSUME ResetToLobby
        PROVE  TrackMoves
    BY <1>3 DEF ResetToLobby, FreshKey, ClearReveal
  <1>4. ASSUME NEW size \in Sizes, PerformanceStarts(size)
        PROVE  TrackMoves
    BY <1>4 DEF PerformanceStarts, FreshKey, ClearReveal
  <1>5. ASSUME NEW size \in Sizes, NEW year \in BOOLEAN, StartTrack(size, year)
        PROVE  TrackMoves
    BY <1>5, StartEffect DEF StartTrack, FreshKey, Starts
  <1>6. ASSUME LeaveKaraoke
        PROVE  TrackMoves
    BY <1>6 DEF LeaveKaraoke, FreshKey, ClearReveal
  <1>7. ASSUME DailyDoubleEnds
        PROVE  TrackMoves
    BY <1>7 DEF DailyDoubleEnds, FreshKey, ClearReveal
  <1>8. CASE UNCHANGED <<track, roundKey>>
    BY <1>8
  <1>9. QED
    BY <1>1, <1>2, <1>3, <1>4, <1>5, <1>6, <1>7, <1>8
       DEF Next, Timers, Floor, Admin, Game, YearShows, BlockFlips, LettersStart, OneShotIgnored,
           TickerFires, TickIgnored, TickPaused, RevealTick, AutoKaraoke, Hello, Disconnect, Buzz,
           WindowWon, WindowCloses, GradeFinal, GradeIncorrect, GradePartial, SetRevealCfg,
           AdminReveal, DailyDoubleOffered

LEMMA SeenInvStep == IInv /\ [Next]_vars => SeenInv'
  <1> SUFFICES ASSUME IInv, [Next]_vars, track' # None, shown'.key = roundKey',
                      NEW f \in Fields
               PROVE  shown'.letters[f] <= track'[f]
    BY DEF SeenInv
  <1>1. /\ Fits(rc) /\ shown.key <= rounds /\ shown.key \in Nat /\ rounds \in Nat
        /\ shown.letters[f] \in Nat /\ track' \in [Fields -> Nat]
    <2>1. track' \in Sizes
      BY StateTypesStep DEF StateTypes
    <2>2. QED
      BY <2>1, ConstantsOK DEF IInv, ClockTypes, ClockKeys, StateTypes, Keys, Mask
  <1>2. CASE Starts(track') /\ roundKey' = rounds + 1
    <2>1. Fits(rc') /\ rc'.revealed[f] = 0 /\ shown' = CurrentMask(rc')
      BY <1>2 DEF Starts
    <2>2. shown'.letters[f] = 0
      BY <2>1, MaskOf
    <2>3. QED
      BY <1>1, <2>2
  <1>3. CASE shown' = shown /\ roundKey' = rounds + 1
    BY <1>1, <1>3
  <1>4. CASE UNCHANGED <<track, roundKey>>
    <2>1. CASE Keeps \/ Clears
      BY <1>4, <2>1 DEF Keeps, Clears, IInv, SeenInv
    <2>2. CASE Fills
      BY <1>1, <1>4, <2>2 DEF Fills
    <2>3. CASE GoesOn
      <3>1. Fits(rc') /\ rc'.size = track' /\ shown' = CurrentMask(rc')
        BY <1>4, <2>3, RunningClock DEF GoesOn, Onward, Same
      <3>2. /\ shown'.letters[f] = 0 \/ shown'.letters[f] = rc'.revealed[f]
            /\ rc'.revealed[f] <= rc'.size[f]
        BY <3>1, MaskOf DEF Fits
      <3>3. QED
        BY <1>1, <3>1, <3>2
    <2>4. ASSUME NEW size \in Sizes, Starts(size)
          PROVE  shown'.letters[f] <= track'[f]
      <3>1. Fits(rc') /\ rc'.revealed[f] = 0 /\ shown' = CurrentMask(rc')
        BY <2>4 DEF Starts
      <3>2. shown'.letters[f] = 0
        BY <3>1, MaskOf
      <3>3. QED
        BY <1>1, <3>2
    <2>5. QED
      BY <2>1, <2>2, <2>3, <2>4, ClockStep DEF ClockMoves
  <1>5. QED
    BY <1>2, <1>3, <1>4, TrackStep DEF TrackMoves

(* Before the letters, at most a partial answer. *)
LEMMA EarlyInvStep == IInv /\ [Next]_vars => EarlyInv'
  <1> SUFFICES ASSUME IInv, [Next]_vars
               PROVE  EarlyInv'
    OBVIOUS
  <1> USE ConstantsOK
         DEF vars, people, tickerVars, gameVars, IInv, EarlyInv, Judged
  <1>1. ASSUME YearShows
        PROVE  EarlyInv'
    <2>1. GoesOn /\ Alike(rc, rc') /\ partial' = partial
      BY <1>1, YearEffect DEF YearShows, gameVars, people
    <2>2. QED
      BY <2>1 DEF GoesOn, Alike
  <1>2. ASSUME BlockFlips
        PROVE  EarlyInv'
    <2>1. GoesOn /\ Alike(rc, rc') /\ partial' = partial
      BY <1>2, BlockEffect DEF BlockFlips, gameVars, people
    <2>2. QED
      BY <2>1 DEF GoesOn, Alike
  <1>3. ASSUME LettersStart
        PROVE  EarlyInv'
    BY <1>3, LettersEffect
  <1>4. ASSUME NEW k \in Rounds, TickPaused(k)
        PROVE  EarlyInv'
    <2>1. GoesOn /\ Alike(rc, rc') /\ partial' = partial
      BY <1>4, PausedEffect DEF TickPaused, gameVars, people
    <2>2. QED
      BY <2>1 DEF GoesOn, Alike
  <1>5. ASSUME NEW k \in Rounds, RevealTick(k)
        PROVE  EarlyInv'
    <2>1. rc'.phase1Done = rc.phase1Done /\ rc.key = k /\ rc.active /\ ticks[k] > 0
      BY <1>5, TickEffect DEF RevealTick, TakesTick
    <2>2. armed[k] \in Nat /\ ticks[k] \in Nat
      BY DEF TimerTypes
    <2>3. rc.phase1Done
      BY <2>1, <2>2 DEF TickerRuns
    <2>4. QED
      BY <2>1, <2>3
  <1>6. ASSUME NEW k \in Rounds, AutoKaraoke(k)
        PROVE  EarlyInv'
    <2>1. (Keeps \/ Fills) /\ partial' = partial
      BY <1>6, FinalizeEffect DEF AutoKaraoke, EnterKaraoke, Keeps
    <2>2. QED
      BY <2>1 DEF Keeps, Fills
  <1>7. ASSUME GradeFinal
        PROVE  EarlyInv'
    <2>1. (Keeps \/ Fills) /\ partial' = partial
      BY <1>7, FinalizeEffect DEF GradeFinal, EnterKaraoke, Keeps
    <2>2. QED
      BY <2>1 DEF Keeps, Fills
  <1>8. ASSUME NEW f \in Fields \cup {None}, GradePartial(f)
        PROVE  EarlyInv'
    <2>1. ~partial /\ partial'
      BY <1>8 DEF GradePartial
    <2>2. \/ ~rc.active /\ Keeps
          \/ rc.active /\ Keeps
          \/ /\ rc.active /\ rc'.phase1Done = rc.phase1Done /\ f \in Fields
             /\ \A g \in Fields \ {f} : rc'.revealed[g] = rc.revealed[g]
      BY <1>8, PartialEffect DEF GoesOn
    <2>3. f \in Fields => Other(f) \in Fields \ {f}
      BY DEF Other, Fields
    <2>4. QED
      BY <2>1, <2>2, <2>3 DEF Keeps
  <1>9. ASSUME AdminReveal
        PROVE  EarlyInv'
    <2>1. (Keeps \/ Fills) /\ partial' = partial
      BY <1>9, FinalizeEffect DEF AdminReveal, EnterKaraoke, Keeps
    <2>2. QED
      BY <2>1 DEF Keeps, Fills
  <1>10. ASSUME EndRound
        PROVE  EarlyInv'
    BY <1>10, NoClockFits DEF EndRound, ClearReveal
  <1>11. ASSUME EndGame
        PROVE  EarlyInv'
    BY <1>11, NoClockFits DEF EndGame, ClearReveal
  <1>12. ASSUME ResetToLobby
        PROVE  EarlyInv'
    BY <1>12, NoClockFits DEF ResetToLobby, ClearReveal
  <1>13. ASSUME NEW size \in Sizes, PerformanceStarts(size)
        PROVE  EarlyInv'
    BY <1>13, NoClockFits DEF PerformanceStarts, ClearReveal
  <1>14. ASSUME NEW size \in Sizes, NEW year \in BOOLEAN, StartTrack(size, year)
        PROVE  EarlyInv'
    BY <1>14, StartEffect DEF Starts, Fields
  <1>15. ASSUME LeaveKaraoke
        PROVE  EarlyInv'
    BY <1>15, NoClockFits DEF LeaveKaraoke, ClearReveal
  <1>16. ASSUME DailyDoubleEnds
        PROVE  EarlyInv'
    BY <1>16, NoClockFits DEF DailyDoubleEnds, ClearReveal
  <1>17. CASE UNCHANGED <<rc, partial>>
    BY <1>17
  <1>18. QED
    BY <1>1, <1>2, <1>3, <1>4, <1>5, <1>6, <1>7, <1>8, <1>9, <1>10, <1>11, <1>12, <1>13, <1>14,
       <1>15, <1>16, <1>17
       DEF Next, Timers, Floor, Admin, Game, OneShotIgnored, TickerFires, TickIgnored, Hello,
           Disconnect, Buzz, WindowWon, WindowCloses, GradeIncorrect, SetRevealCfg,
           DailyDoubleOffered

(* Locked by the clock is locked. *)
LEMMA LockInvStep == IInv /\ [Next]_vars => LockInv'
  <1> SUFFICES ASSUME IInv, [Next]_vars
               PROVE  LockInv'
    OBVIOUS
  <1> USE ConstantsOK
         DEF vars, people, tickerVars, gameVars, IInv, LockInv, Judged
  <1>1. ASSUME YearShows
        PROVE  LockInv'
    <2>1. rc'.lockedOut = rc.lockedOut /\ revealLocked' = revealLocked
      BY <1>1, YearEffect DEF YearShows, Alike
    <2>2. QED
      BY <2>1
  <1>2. ASSUME BlockFlips
        PROVE  LockInv'
    <2>1. rc'.lockedOut = rc.lockedOut /\ revealLocked' = revealLocked
      BY <1>2, BlockEffect DEF BlockFlips, Alike
    <2>2. QED
      BY <2>1
  <1>3. ASSUME LettersStart
        PROVE  LockInv'
    <2>1. rc'.lockedOut = rc.lockedOut /\ revealLocked' = revealLocked
      BY <1>3, LettersEffect DEF LettersStart, Alike
    <2>2. QED
      BY <2>1
  <1>4. ASSUME NEW k \in Rounds, TickPaused(k)
        PROVE  LockInv'
    <2>1. rc'.lockedOut = rc.lockedOut /\ revealLocked' = revealLocked
      BY <1>4, PausedEffect DEF TickPaused, Alike
    <2>2. QED
      BY <2>1
  <1>5. ASSUME NEW k \in Rounds, RevealTick(k)
        PROVE  LockInv'
    BY <1>5, TickEffect
  <1>6. ASSUME NEW k \in Rounds, AutoKaraoke(k)
        PROVE  LockInv'
    <2>1. (Keeps \/ Fills) /\ revealLocked' = revealLocked
      BY <1>6, FinalizeEffect DEF AutoKaraoke, EnterKaraoke, Keeps, Judged
    <2>2. QED
      BY <2>1 DEF Keeps, Fills
  <1>7. ASSUME GradeFinal
        PROVE  LockInv'
    <2>1. (Keeps \/ Fills) /\ revealLocked' = revealLocked
      BY <1>7, FinalizeEffect DEF GradeFinal, EnterKaraoke, Keeps, Judged
    <2>2. QED
      BY <2>1 DEF Keeps, Fills
  <1>8. ASSUME NEW f \in Fields \cup {None}, GradePartial(f)
        PROVE  LockInv'
    <2>1. (Keeps \/ rc'.lockedOut = rc.lockedOut) /\ revealLocked' = revealLocked
      BY <1>8, PartialEffect DEF GradePartial, Judged
    <2>2. QED
      BY <2>1 DEF Keeps
  <1>9. ASSUME AdminReveal
        PROVE  LockInv'
    <2>1. (Keeps \/ Fills) /\ revealLocked' = revealLocked
      BY <1>9, FinalizeEffect DEF AdminReveal, EnterKaraoke, Keeps, Judged
    <2>2. QED
      BY <2>1 DEF Keeps, Fills
  <1>10. ASSUME EndRound
        PROVE  LockInv'
    BY <1>10, NoClockFits DEF EndRound, ClearReveal
  <1>11. ASSUME EndGame
        PROVE  LockInv'
    BY <1>11, NoClockFits DEF EndGame, ClearReveal
  <1>12. ASSUME ResetToLobby
        PROVE  LockInv'
    BY <1>12, NoClockFits DEF ResetToLobby, ClearReveal
  <1>13. ASSUME NEW size \in Sizes, PerformanceStarts(size)
        PROVE  LockInv'
    BY <1>13, NoClockFits DEF PerformanceStarts, ClearReveal
  <1>14. ASSUME NEW size \in Sizes, NEW year \in BOOLEAN, StartTrack(size, year)
        PROVE  LockInv'
    BY <1>14, StartEffect DEF Starts
  <1>15. ASSUME LeaveKaraoke
        PROVE  LockInv'
    BY <1>15, NoClockFits DEF LeaveKaraoke, ClearReveal
  <1>16. ASSUME DailyDoubleEnds
        PROVE  LockInv'
    BY <1>16, NoClockFits DEF DailyDoubleEnds, ClearReveal
  <1>17. CASE UNCHANGED <<rc, revealLocked>>
    BY <1>17
  <1>18. QED
    BY <1>1, <1>2, <1>3, <1>4, <1>5, <1>6, <1>7, <1>8, <1>9, <1>10, <1>11, <1>12, <1>13, <1>14,
       <1>15, <1>16, <1>17
       DEF Next, Timers, Floor, Admin, Game, OneShotIgnored, TickerFires, TickIgnored, Hello,
           Disconnect, Buzz, WindowWon, WindowCloses, GradeIncorrect, SetRevealCfg,
           DailyDoubleOffered

(* In karaoke the answer is public. *)
LEMMA AnswerPublicStep == IInv /\ [Next]_vars => AnswerPublicInKaraoke'
  <1> SUFFICES ASSUME IInv, [Next]_vars
               PROVE  AnswerPublicInKaraoke'
    OBVIOUS
  <1> USE ConstantsOK
         DEF vars, people, tickerVars, gameVars, IInv, AnswerPublicInKaraoke, Judged
  <1>1. ASSUME YearShows
        PROVE  AnswerPublicInKaraoke'
    <2>1. rc.active /\ state' = state
      BY <1>1, YearEffect DEF YearShows, GoesOn, gameVars
    <2>2. QED
      BY <2>1 DEF KaraokeInv
  <1>2. ASSUME BlockFlips
        PROVE  AnswerPublicInKaraoke'
    <2>1. rc.active /\ state' = state
      BY <1>2, BlockEffect DEF BlockFlips, GoesOn, gameVars
    <2>2. QED
      BY <2>1 DEF KaraokeInv
  <1>3. ASSUME LettersStart
        PROVE  AnswerPublicInKaraoke'
    <2>1. rc.active /\ state' = state
      BY <1>3, LettersEffect DEF LettersStart, GoesOn, gameVars
    <2>2. QED
      BY <2>1 DEF KaraokeInv
  <1>4. ASSUME NEW k \in Rounds, RevealTick(k)
        PROVE  AnswerPublicInKaraoke'
    <2>1. rc.active /\ state' = state
      BY <1>4, TickEffect DEF RevealTick, GoesOn, gameVars
    <2>2. QED
      BY <2>1 DEF KaraokeInv
  <1>5. ASSUME NEW k \in Rounds, AutoKaraoke(k)
        PROVE  AnswerPublicInKaraoke'
    <2>1. (track = None \/ Fills \/ UNCHANGED <<state, shown>>) /\ UNCHANGED <<track, roundKey>>
      BY <1>5, FinalizeEffect DEF AutoKaraoke, EnterKaraoke, Judged
    <2>2. QED
      BY <2>1 DEF Fills
  <1>6. ASSUME NEW p \in Players, WindowWon(p)
        PROVE  AnswerPublicInKaraoke'
    BY <1>6 DEF WindowWon
  <1>7. ASSUME GradeFinal
        PROVE  AnswerPublicInKaraoke'
    <2>1. (track = None \/ Fills \/ UNCHANGED <<state, shown>>) /\ UNCHANGED <<track, roundKey>>
      BY <1>7, FinalizeEffect DEF GradeFinal, EnterKaraoke, Judged
    <2>2. QED
      BY <2>1 DEF Fills
  <1>8. ASSUME GradeIncorrect
        PROVE  AnswerPublicInKaraoke'
    BY <1>8 DEF GradeIncorrect
  <1>9. ASSUME NEW f \in Fields \cup {None}, GradePartial(f)
        PROVE  AnswerPublicInKaraoke'
    BY <1>9 DEF GradePartial
  <1>10. ASSUME AdminReveal
        PROVE  AnswerPublicInKaraoke'
    <2>1. (track = None \/ Fills \/ UNCHANGED <<state, shown>>) /\ UNCHANGED <<track, roundKey>>
      BY <1>10, FinalizeEffect DEF AdminReveal, EnterKaraoke, Judged
    <2>2. QED
      BY <2>1 DEF Fills
  <1>11. ASSUME EndRound
        PROVE  AnswerPublicInKaraoke'
    BY <1>11 DEF EndRound
  <1>12. ASSUME EndGame
        PROVE  AnswerPublicInKaraoke'
    BY <1>12 DEF EndGame
  <1>13. ASSUME ResetToLobby
        PROVE  AnswerPublicInKaraoke'
    BY <1>13 DEF ResetToLobby
  <1>14. ASSUME NEW size \in Sizes, PerformanceStarts(size)
        PROVE  AnswerPublicInKaraoke'
    BY <1>14 DEF PerformanceStarts
  <1>15. ASSUME NEW size \in Sizes, NEW year \in BOOLEAN, StartTrack(size, year)
        PROVE  AnswerPublicInKaraoke'
    BY <1>15 DEF StartTrack
  <1>16. ASSUME LeaveKaraoke
        PROVE  AnswerPublicInKaraoke'
    BY <1>16 DEF LeaveKaraoke
  <1>17. ASSUME DailyDoubleOffered
        PROVE  AnswerPublicInKaraoke'
    BY <1>17 DEF DailyDoubleOffered
  <1>18. ASSUME DailyDoubleEnds
        PROVE  AnswerPublicInKaraoke'
    BY <1>18 DEF DailyDoubleEnds
  <1>19. CASE UNCHANGED <<state, track, roundKey, shown>>
    BY <1>19
  <1>20. QED
    BY <1>1, <1>2, <1>3, <1>4, <1>5, <1>6, <1>7, <1>8, <1>9, <1>10, <1>11, <1>12, <1>13, <1>14,
       <1>15, <1>16, <1>17, <1>18, <1>19
       DEF Next, Timers, Floor, Admin, Game, OneShotIgnored, TickerFires, TickIgnored, TickPaused,
           Hello, Disconnect, Buzz, WindowCloses, SetRevealCfg

(* A guess judged with the answer shown is remembered. *)
LEMMA JudgedStep == IInv /\ [Next]_vars => JudgedInv'
  <1> SUFFICES ASSUME IInv, [Next]_vars
               PROVE  JudgedInv'
    OBVIOUS
  <1> USE ConstantsOK
         DEF vars, people, tickerVars, gameVars, IInv, JudgedInv, Judged
  <1>1. ASSUME YearShows
        PROVE  JudgedInv'
    <2>1. /\ rc'.key = rc.key /\ rc'.size = rc.size /\ rc'.revealed = rc.revealed
          /\ UNCHANGED <<state, roundKey, judgedShown>>
      BY <1>1, YearEffect DEF YearShows, GoesOn, Onward, Same, Alike, gameVars
    <2>2. AllDone(rc') = AllDone(rc)
      BY <2>1 DEF AllDone, FieldDone
    <2>3. QED
      BY <2>1, <2>2
  <1>2. ASSUME BlockFlips
        PROVE  JudgedInv'
    <2>1. /\ rc'.key = rc.key /\ rc'.size = rc.size /\ rc'.revealed = rc.revealed
          /\ UNCHANGED <<state, roundKey, judgedShown>>
      BY <1>2, BlockEffect DEF BlockFlips, GoesOn, Onward, Same, Alike, gameVars
    <2>2. AllDone(rc') = AllDone(rc)
      BY <2>1 DEF AllDone, FieldDone
    <2>3. QED
      BY <2>1, <2>2
  <1>3. ASSUME LettersStart
        PROVE  JudgedInv'
    <2>1. /\ rc'.key = rc.key /\ rc'.size = rc.size /\ rc'.revealed = rc.revealed
          /\ UNCHANGED <<state, roundKey, judgedShown>>
      BY <1>3, LettersEffect DEF LettersStart, GoesOn, Onward, Same, Alike, gameVars
    <2>2. AllDone(rc') = AllDone(rc)
      BY <2>1 DEF AllDone, FieldDone
    <2>3. QED
      BY <2>1, <2>2
  <1>4. ASSUME NEW k \in Rounds, TickPaused(k)
        PROVE  JudgedInv'
    <2>1. /\ rc'.key = rc.key /\ rc'.size = rc.size /\ rc'.revealed = rc.revealed
          /\ UNCHANGED <<state, roundKey, judgedShown>>
      BY <1>4, PausedEffect DEF TickPaused, GoesOn, Onward, Same, Alike, gameVars
    <2>2. AllDone(rc') = AllDone(rc)
      BY <2>1 DEF AllDone, FieldDone
    <2>3. QED
      BY <2>1, <2>2
  <1>5. ASSUME NEW k \in Rounds, RevealTick(k)
        PROVE  JudgedInv'
    BY <1>5 DEF RevealTick
  <1>6. ASSUME NEW k \in Rounds, AutoKaraoke(k)
        PROVE  JudgedInv'
    BY <1>6 DEF AutoKaraoke, EnterKaraoke
  <1>7. ASSUME NEW p \in Players, WindowWon(p)
        PROVE  JudgedInv'
    BY <1>7 DEF WindowWon
  <1>8. ASSUME GradeFinal
        PROVE  JudgedInv'
    BY <1>8 DEF GradeFinal, EnterKaraoke
  <1>9. ASSUME GradeIncorrect
        PROVE  JudgedInv'
    BY <1>9 DEF GradeIncorrect
  <1>10. ASSUME NEW f \in Fields \cup {None}, GradePartial(f)
        PROVE  JudgedInv'
    BY <1>10 DEF GradePartial
  <1>11. ASSUME AdminReveal
        PROVE  JudgedInv'
    BY <1>11 DEF AdminReveal, EnterKaraoke
  <1>12. ASSUME EndRound
        PROVE  JudgedInv'
    BY <1>12 DEF EndRound
  <1>13. ASSUME EndGame
        PROVE  JudgedInv'
    BY <1>13 DEF EndGame
  <1>14. ASSUME ResetToLobby
        PROVE  JudgedInv'
    BY <1>14 DEF ResetToLobby
  <1>15. ASSUME NEW size \in Sizes, PerformanceStarts(size)
        PROVE  JudgedInv'
    BY <1>15 DEF PerformanceStarts
  <1>16. ASSUME NEW size \in Sizes, NEW year \in BOOLEAN, StartTrack(size, year)
        PROVE  JudgedInv'
    BY <1>16 DEF StartTrack
  <1>17. ASSUME LeaveKaraoke
        PROVE  JudgedInv'
    BY <1>17 DEF LeaveKaraoke
  <1>18. ASSUME DailyDoubleOffered
        PROVE  JudgedInv'
    BY <1>18 DEF DailyDoubleOffered
  <1>19. ASSUME DailyDoubleEnds
        PROVE  JudgedInv'
    BY <1>19 DEF DailyDoubleEnds
  <1>20. CASE UNCHANGED <<state, roundKey, rc, judgedShown>>
    BY <1>20
  <1>21. QED
    BY <1>1, <1>2, <1>3, <1>4, <1>5, <1>6, <1>7, <1>8, <1>9, <1>10, <1>11, <1>12, <1>13, <1>14,
       <1>15, <1>16, <1>17, <1>18, <1>19, <1>20
       DEF Next, Timers, Floor, Admin, Game, OneShotIgnored, TickerFires, TickIgnored, Hello,
           Disconnect, Buzz, WindowCloses, SetRevealCfg

(* Of a clock that still runs, TickerRuns says what comes; what is left are *)
(* the rounds whose clock has stopped.                                     *)
Stopping ==
    state = "ROUND_ACTIVE" /\ rc.key = roundKey /\ AllDone(rc) /\ ~judgedShown /\ ~rc.active =>
        /\ revealLocked
        /\ rc.cfg.auto => [kind |-> "auto", key |-> rc.key] \in oneShots

(* A clock that stops in an open round leaves it closing. *)
LEMMA StoppingStep == IInv /\ Stopping /\ [Next]_vars => Stopping'
  <1> SUFFICES ASSUME IInv, Stopping, [Next]_vars
               PROVE  Stopping'
    OBVIOUS
  <1> USE ConstantsOK
         DEF vars, people, tickerVars, gameVars, IInv, Stopping
  <1>1. ASSUME YearShows
        PROVE  Stopping'
    BY <1>1, YearEffect
  <1>2. ASSUME BlockFlips
        PROVE  Stopping'
    BY <1>2, BlockEffect
  <1>3. ASSUME LettersStart
        PROVE  Stopping'
    BY <1>3, LettersEffect
  <1>4. ASSUME NEW t \in oneShots, OneShotIgnored(t)
        PROVE  Stopping'
    BY <1>4 DEF OneShotIgnored, Superseded
  <1>5. ASSUME NEW k \in Rounds, TickPaused(k)
        PROVE  Stopping'
    BY <1>5 DEF TickPaused, gameVars
  <1>6. ASSUME NEW k \in Rounds, RevealTick(k)
        PROVE  Stopping'
    <2>1. /\ rc'.active \/ (revealLocked' /\ ScheduleAutoKaraoke(rc', k))
          /\ rc.key = k /\ GoesOn
      BY <1>6, TickEffect
    <2>2. rc'.key = k
      BY <2>1 DEF GoesOn, Onward, Same
    <2>3. QED
      BY <2>1, <2>2 DEF ScheduleAutoKaraoke
  <1>7. ASSUME NEW k \in Rounds, AutoKaraoke(k)
        PROVE  Stopping'
    BY <1>7 DEF AutoKaraoke, EnterKaraoke
  <1>8. ASSUME NEW p \in Players, WindowWon(p)
        PROVE  Stopping'
    BY <1>8 DEF WindowWon
  <1>9. ASSUME GradeFinal
        PROVE  Stopping'
    BY <1>9 DEF GradeFinal, EnterKaraoke
  <1>10. ASSUME GradeIncorrect
        PROVE  Stopping'
    BY <1>10 DEF GradeIncorrect, Judged, JudgedInv
  <1>11. ASSUME NEW f \in Fields \cup {None}, GradePartial(f)
        PROVE  Stopping'
    <2>1. rc'.active \/ Keeps
      BY <1>11, PartialEffect
    <2>2. UNCHANGED <<roundKey, judgedShown>> /\ state = "ADJUDICATE"
      BY <1>11 DEF GradePartial, Judged
    <2>3. QED
      BY <2>1, <2>2 DEF Keeps, JudgedInv
  <1>12. ASSUME AdminReveal
        PROVE  Stopping'
    BY <1>12 DEF AdminReveal, EnterKaraoke
  <1>13. ASSUME EndRound
        PROVE  Stopping'
    BY <1>13 DEF EndRound
  <1>14. ASSUME EndGame
        PROVE  Stopping'
    BY <1>14 DEF EndGame
  <1>15. ASSUME ResetToLobby
        PROVE  Stopping'
    BY <1>15 DEF ResetToLobby
  <1>16. ASSUME NEW size \in Sizes, PerformanceStarts(size)
        PROVE  Stopping'
    BY <1>16 DEF PerformanceStarts
  <1>17. ASSUME NEW size \in Sizes, NEW year \in BOOLEAN, StartTrack(size, year)
        PROVE  Stopping'
    BY <1>17, StartEffect DEF Starts
  <1>18. ASSUME LeaveKaraoke
        PROVE  Stopping'
    BY <1>18 DEF LeaveKaraoke
  <1>19. ASSUME DailyDoubleOffered
        PROVE  Stopping'
    BY <1>19 DEF DailyDoubleOffered
  <1>20. ASSUME DailyDoubleEnds
        PROVE  Stopping'
    BY <1>20 DEF DailyDoubleEnds
  <1>21. CASE UNCHANGED <<state, roundKey, rc, judgedShown, revealLocked, oneShots>>
    BY <1>21
  <1>22. QED
    BY <1>1, <1>2, <1>3, <1>4, <1>5, <1>6, <1>7, <1>8, <1>9, <1>10, <1>11, <1>12, <1>13, <1>14,
       <1>15, <1>16, <1>17, <1>18, <1>19, <1>20, <1>21
       DEF Next, Timers, Floor, Admin, Game, TickerFires, TickIgnored, Hello, Disconnect, Buzz,
           WindowCloses, SetRevealCfg

LEMMA CloseStep == IInv /\ [Next]_vars => RevealedRoundCloses'
  <1> SUFFICES ASSUME IInv, [Next]_vars
               PROVE  RevealedRoundCloses'
    OBVIOUS
  <1>1. Stopping
    BY DEF IInv, RevealedRoundCloses, Stopping
  <1>2. Stopping' /\ TickerRuns'
    BY <1>1, StoppingStep, TickerRunsStep
  <1>3. QED
    BY <1>2 DEF Stopping, TickerRuns, RevealedRoundCloses

-----------------------------------------------------------------------------
LEMMA InitInv == Init => IInv
  <1> SUFFICES ASSUME Init
               PROVE  IInv
    OBVIOUS
  <1> USE ConstantsOK DEF Init
  <1>1. StateTypes /\ PeopleTypes
    <2>1. 0 \in Keys /\ "BOARD" \in States /\ "BOARD" # "ADJUDICATE"
      BY DEF Keys, States
    <2>2. StateTypes
      BY <2>1 DEF StateTypes
    <2>3. PeopleTypes
      BY <2>1 DEF PeopleTypes
    <2>4. QED
      BY <2>2, <2>3
  <1>2. TimerTypes
    BY DEF TimerTypes, Keys
  <1>3. ClockTypes
    BY NoClockFits, MaskOf DEF ClockTypes
  <1>4. shown.key = 0
    BY NoClockFits, MaskOf
  <1>5. ClockKeys /\ GameKeys /\ TimerKeys
    BY <1>4, NoClockFits DEF ClockKeys, GameKeys, TimerKeys
  <1>6. LiveInv /\ KaraokeInv /\ ReachInv /\ ShownInv /\ SeenInv /\ EarlyInv /\ LockInv
    BY NoClockFits DEF LiveInv, KaraokeInv, ReachInv, ShownInv, SeenInv, EarlyInv, LockInv
  <1>7. TickerRuns
    BY NoClockFits DEF TickerRuns
  <1>8. AnswerPublicInKaraoke /\ JudgedInv /\ RevealedRoundCloses
    BY DEF AnswerPublicInKaraoke, JudgedInv, RevealedRoundCloses
  <1>9. QED
    BY <1>1, <1>2, <1>3, <1>5, <1>6, <1>7, <1>8 DEF IInv

LEMMA NextInv == IInv /\ [Next]_vars => IInv'
  <1> SUFFICES ASSUME IInv, [Next]_vars
               PROVE  IInv'
    OBVIOUS
  <1>1. StateTypes' /\ PeopleTypes' /\ TimerTypes' /\ ClockTypes'
    BY StateTypesStep, PeopleTypesStep, TimerTypesStep, ClockTypesStep
  <1>2. ClockKeys' /\ GameKeys' /\ TimerKeys'
    BY ClockKeysStep, GameKeysStep, TimerKeysStep
  <1>3. LiveInv' /\ KaraokeInv' /\ ReachInv' /\ TickerRuns'
    BY LiveInvStep, KaraokeInvStep, ReachInvStep, TickerRunsStep
  <1>4. ShownInv' /\ SeenInv' /\ EarlyInv' /\ LockInv'
    BY ShownInvStep, SeenInvStep, EarlyInvStep, LockInvStep
  <1>5. AnswerPublicInKaraoke' /\ JudgedInv' /\ RevealedRoundCloses'
    BY AnswerPublicStep, JudgedStep, CloseStep
  <1>6. QED
    BY <1>1, <1>2, <1>3, <1>4, <1>5 DEF IInv

(* The clock, its timers and the game stay together: keys, sizes, what the *)
(* room has seen and what it will.                                         *)
THEOREM RevealInvariant == Spec => []IInv
  <1>1. QED
    BY InitInv, NextInv, PTL DEF Spec

(* Every variable has its type, and no clock counts more letters than its  *)
(* field has, whoever filled it first: revealFieldFully or the ticks.      *)
THEOREM TypeCorrect == Spec => []TypeOK
  <1>1. IInv => TypeOK
    BY DEF IInv, StateTypes, PeopleTypes, TimerTypes, ClockTypes, Fits, TypeOK
  <1>2. QED
    BY <1>1, RevealInvariant, PTL

(* A live clock has exactly one thing that drives it, and stopRevealTimer  *)
(* reaches the only ticker there is: no pause, partial answer, end of a    *)
(* round or reset loses the next tick or arms a second one.                *)
THEOREM TickerAlwaysRuns == Spec => []TickerRuns
  <1>1. IInv => TickerRuns
    BY DEF IInv
  <1>2. QED
    BY <1>1, RevealInvariant, PTL

(* enterKaraoke, from wherever it is called, leaves the room with all of   *)
(* the current track, and no timer of the round changes what it sees.      *)
THEOREM AnswerAlwaysPublicInKaraoke == Spec => []AnswerPublicInKaraoke
  <1>1. IInv => AnswerPublicInKaraoke
    BY DEF IInv
  <1>2. QED
    BY <1>1, RevealInvariant, PTL

(* revealTick never leaves a round open with its answer on the wall, unless *)
(* a guess was judged in between: a tick is to come, or buzzing is closed   *)
(* and karaoke scheduled.                                                   *)
THEOREM RevealedRoundAlwaysCloses == Spec => []RevealedRoundCloses
  <1>1. IInv => RevealedRoundCloses
    BY DEF IInv
  <1>2. QED
    BY <1>1, RevealInvariant, PTL

(* Whatever partial answers have filled, revealOneLetter finds a field that *)
(* is not full.                                                            *)
LEMMA TickShows ==
    ASSUME IInv, NEW k \in Rounds, RevealTick(k), ~AllDone(rc)
    PROVE  RemainingHidden(rc') < RemainingHidden(rc)
  <1>1. /\ rc.active /\ Onward(rc, rc')
        /\ \E f \in Fields : rc'.revealed[f] > rc.revealed[f]
    BY TickEffect DEF GoesOn
  <1>2. Fits(rc) /\ Fits(rc') /\ rc'.size = rc.size
    BY <1>1, RunningClock DEF Onward, Same
  <1>3. /\ "artist" \in Fields /\ "song" \in Fields
        /\ \A f \in Fields : f = "artist" \/ f = "song"
    BY DEF Fields
  <1>4. \A f \in Fields : /\ rc.size[f] \in Nat /\ rc.revealed[f] \in Nat
                          /\ rc'.revealed[f] \in Nat /\ rc'.revealed[f] >= rc.revealed[f]
                          /\ rc'.revealed[f] <= rc.size[f]
    BY <1>1, <1>2, FieldsOf DEF Fits, Onward
  <1>5. \/ rc'.revealed["artist"] > rc.revealed["artist"]
        \/ rc'.revealed["song"] > rc.revealed["song"]
    BY <1>1, <1>3
  <1>6. QED
    BY <1>2, <1>3, <1>4, <1>5 DEF RemainingHidden

(* broadcastMask never takes back a letter or a phase of a round, however  *)
(* late a timer runs, and every tick of an open round shows a letter as    *)
(* long as one is hidden: with the ticker running, that is what ends a     *)
(* round nobody answers.                                                   *)
THEOREM ShownNeverHidden == Spec => ShownOnlyGrows
  <1> DEFINE Grows == shown'.key = shown.key =>
                          /\ shown'.phase >= shown.phase
                          /\ \A f \in Fields : shown'.letters[f] >= shown.letters[f]
  <1>1. ASSUME IInv, [Next]_vars
        PROVE  Grows
    <2>1. /\ shown.key <= rounds /\ shown.key \in Nat /\ rounds \in Nat
          /\ shown.phase \in 0 .. DONE /\ shown.letters \in [Fields -> Nat]
      BY <1>1 DEF IInv, ClockTypes, ClockKeys, StateTypes, Keys, Mask
    <2>2. CASE Keeps \/ Clears
      BY <2>1, <2>2 DEF Keeps, Clears, DONE
    <2>3. CASE Fills
      <3>1. track \in [Fields -> Nat] /\ track # None
        BY <1>1, <2>3, ConstantsOK DEF IInv, StateTypes, Fills
      <3>2. shown.key = roundKey => \A f \in Fields : shown.letters[f] <= track[f]
        BY <1>1, <3>1 DEF IInv, SeenInv
      <3>3. shown'.key = roundKey /\ shown'.phase = DONE /\ shown'.letters = track
        BY <2>3 DEF Fills
      <3>4. QED
        BY <2>1, <3>1, <3>2, <3>3 DEF DONE
    <2>4. CASE GoesOn
      <3>1. Fits(rc) /\ rc.phase # 0 /\ shown = CurrentMask(rc)
        BY <1>1, <2>4, RunningClock DEF GoesOn
      <3>2. QED
        BY <2>4, <3>1, MaskGrows DEF GoesOn
    <2>5. ASSUME NEW size \in Sizes, Starts(size)
          PROVE  Grows
      <3>1. Fits(rc') /\ rc'.key = rounds + 1 /\ shown' = CurrentMask(rc')
        BY <2>5 DEF Starts
      <3>2. shown'.key = rounds + 1
        BY <3>1, MaskOf
      <3>3. QED
        BY <2>1, <3>2
    <2>6. QED
      BY <1>1, <2>2, <2>3, <2>4, <2>5, ClockStep DEF ClockMoves
  <1> DEFINE Shows == \A k \in Rounds : RevealTick(k) /\ ~AllDone(rc) =>
                          RemainingHidden(rc') < RemainingHidden(rc)
  <1>2. IInv => Shows
    BY TickShows
  <1>3. IInv /\ [Next]_vars => [Grows /\ Shows]_vars
    <2> HIDE DEF Grows, Shows
    <2>1. QED
      BY <1>1, <1>2
  <1>4. QED
    BY <1>3, RevealInvariant, PTL DEF Spec, ShownOnlyGrows

-----------------------------------------------------------------------------
(* The steps of GuessFloor. *)

LEMMA FloorInitial == Init => Guessing!FloorInit
  BY DEF Init, Guessing!FloorInit

GuessMoves == Guessing!FloorNext \/ UNCHANGED <<state, buzzWinner, guessed>>

(* Whatever happens in a round is a step of GuessFloor, or none. *)
LEMMA FloorStep == IInv /\ [Next]_vars => GuessMoves
  <1> SUFFICES ASSUME IInv, [Next]_vars
               PROVE  GuessMoves
    OBVIOUS
  <1> USE ConstantsOK
         DEF vars, people, tickerVars, gameVars, GuessMoves, IInv, PeopleTypes
  <1>1. ASSUME NEW k \in Rounds, RevealTick(k)
        PROVE  GuessMoves
    <2>1. /\ state = "ROUND_ACTIVE" /\ UNCHANGED <<state, buzzWinner>>
          /\ guessed' = guessed \cup online \/ guessed' = guessed
      BY <1>1 DEF RevealTick, LockOutReveal
    <2>2. CASE guessed' = guessed \cup online
      <3>1. Guessing!Withdraw(online)
        BY <2>1, <2>2 DEF Guessing!Withdraw
      <3>2. online \in SUBSET Players
        BY DEF PeopleTypes
      <3>3. QED
        BY <3>1, <3>2 DEF Guessing!FloorNext
    <2>3. CASE guessed' = guessed
      BY <2>1, <2>3
    <2>4. QED
      BY <2>1, <2>2, <2>3
  <1>2. ASSUME NEW k \in Rounds, AutoKaraoke(k)
        PROVE  GuessMoves
    <2>1. CASE roundKey = k /\ state = "ROUND_ACTIVE"
      <3>1. Guessing!Abandon
        BY <1>2, <2>1 DEF AutoKaraoke, EnterKaraoke, Guessing!Abandon
      <3>2. QED
        BY <3>1 DEF Guessing!FloorNext
    <2>2. CASE ~(roundKey = k /\ state = "ROUND_ACTIVE")
      BY <1>2, <2>2 DEF AutoKaraoke
    <2>3. QED
      BY <2>1, <2>2
  <1>3. ASSUME NEW p \in Players, WindowWon(p)
        PROVE  GuessMoves
    <2>1. Guessing!TakeFloor(p)
      BY <1>3, ConstantsOK DEF WindowWon, Eligible, Guessing!TakeFloor
    <2>2. QED
      BY <2>1 DEF Guessing!FloorNext
  <1>4. ASSUME GradeFinal
        PROVE  GuessMoves
    <2>1. Guessing!Judge
      BY <1>4, ConstantsOK DEF GradeFinal, Judged, EnterKaraoke, Guessing!Judge
    <2>2. QED
      BY <2>1 DEF Guessing!FloorNext
  <1>5. ASSUME GradeIncorrect
        PROVE  GuessMoves
    <2>1. Guessing!Judge
      BY <1>5, ConstantsOK DEF GradeIncorrect, Judged, Guessing!Judge
    <2>2. QED
      BY <2>1 DEF Guessing!FloorNext
  <1>6. ASSUME NEW f \in Fields \cup {None}, GradePartial(f)
        PROVE  GuessMoves
    <2>1. Guessing!Judge
      BY <1>6, ConstantsOK DEF GradePartial, Judged, Guessing!Judge
    <2>2. QED
      BY <2>1 DEF Guessing!FloorNext
  <1>7. ASSUME AdminReveal
        PROVE  GuessMoves
    <2>1. Guessing!Abandon
      BY <1>7, ConstantsOK DEF AdminReveal, EnterKaraoke, Guessing!Abandon
    <2>2. QED
      BY <2>1 DEF Guessing!FloorNext
  <1>8. ASSUME EndRound
        PROVE  GuessMoves
    <2>1. Guessing!Abandon
      BY <1>8, ConstantsOK DEF EndRound, Guessing!Abandon
    <2>2. QED
      BY <2>1 DEF Guessing!FloorNext
  <1>9. ASSUME EndGame
        PROVE  GuessMoves
    <2>1. Guessing!Abandon
      BY <1>9, ConstantsOK DEF EndGame, Guessing!Abandon
    <2>2. QED
      BY <2>1 DEF Guessing!FloorNext
  <1>10. ASSUME ResetToLobby
        PROVE  GuessMoves
    <2>1. Guessing!Forget
      BY <1>10, ConstantsOK DEF ResetToLobby, Guessing!Forget
    <2>2. QED
      BY <2>1 DEF Guessing!FloorNext
  <1>11. ASSUME NEW size \in Sizes, PerformanceStarts(size)
        PROVE  GuessMoves
    <2>1. Guessing!Abandon
      BY <1>11, ConstantsOK DEF PerformanceStarts, Guessing!Abandon
    <2>2. QED
      BY <2>1 DEF Guessing!FloorNext
  <1>12. ASSUME NEW size \in Sizes, NEW year \in BOOLEAN, StartTrack(size, year)
        PROVE  GuessMoves
    <2>1. Guessing!NewRound
      BY <1>12, ConstantsOK DEF StartTrack, Guessing!NewRound
    <2>2. QED
      BY <2>1 DEF Guessing!FloorNext
  <1>13. ASSUME LeaveKaraoke
        PROVE  GuessMoves
    <2>1. Guessing!Abandon
      BY <1>13, ConstantsOK DEF LeaveKaraoke, Guessing!Abandon
    <2>2. QED
      BY <2>1 DEF Guessing!FloorNext
  <1>14. ASSUME DailyDoubleOffered
        PROVE  GuessMoves
    <2>1. Guessing!Abandon
      BY <1>14, ConstantsOK DEF DailyDoubleOffered, Guessing!Abandon
    <2>2. QED
      BY <2>1 DEF Guessing!FloorNext
  <1>15. ASSUME DailyDoubleEnds
        PROVE  GuessMoves
    <2>1. Guessing!Abandon
      BY <1>15, ConstantsOK DEF DailyDoubleEnds, Guessing!Abandon
    <2>2. QED
      BY <2>1 DEF Guessing!FloorNext
  <1>16. CASE UNCHANGED <<state, buzzWinner, guessed>>
    BY <1>16
  <1>17. QED
    BY <1>1, <1>2, <1>3, <1>4, <1>5, <1>6, <1>7, <1>8, <1>9, <1>10, <1>11, <1>12, <1>13, <1>14,
       <1>15, <1>16
       DEF Next, Timers, Floor, Admin, Game, YearShows, BlockFlips, LettersStart, OneShotIgnored,
           TickerFires, TickIgnored, TickPaused, Hello, Disconnect, Buzz, WindowCloses,
           SetRevealCfg

(* WindowWon, the verdicts and the lockout of the reveal keep the promise   *)
(* of GuessFloor, that a guess is given once and only to who still has it:  *)
(* the round of Reveal and the round of BuzzRound implement the same one.   *)
THEOREM RoundImplementsFloor == Spec => ImplementsGuessFloor
  <1>1. GuessMoves => [Guessing!FloorNext]_(Guessing!floorVars)
    BY DEF GuessMoves, Guessing!floorVars
  <1>2. IInv /\ [Next]_vars => [Guessing!FloorNext]_(Guessing!floorVars)
    BY <1>1, FloorStep
  <1>3. QED
    BY <1>2, FloorInitial, RevealInvariant, PTL DEF Spec, ImplementsGuessFloor, Guessing!FloorSpec

=============================================================================
