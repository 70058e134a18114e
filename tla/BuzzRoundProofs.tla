--------------------------- MODULE BuzzRoundProofs ---------------------------
(***************************************************************************)
(* The safety properties of BuzzRound, for any number of players, admins,  *)
(* rows, times, stamps and rounds.  They rest on one invariant, whose      *)
(* parts are proved in turn, each from those before it.                    *)
(***************************************************************************)
EXTENDS BuzzRound, ScoringProofs

(* Someone has the floor while an answer is being judged. *)
FloorHeld == state = "ADJUDICATE" => buzzWinner \in Players

(* A verdict spends the guess, and whoever has the floor was not judged.   *)
VerdictInv ==
    /\ \A p \in Players : verdicts[p] <= 1 /\ (verdicts[p] = 1 => p \in guessed)
    /\ state = "ADJUDICATE" => verdicts[buzzWinner] = 0

(* Only rounds that have begun have timers; the floor is taken only by the *)
(* resolution of the window, which leaves neither.                         *)
TimerInv ==
    /\ \A k \in Keys : k > rounds => timers[k] = 0
    /\ WindowHasItsTimer
    /\ state = "ADJUDICATE" => ~windowOpen /\ timers[roundKey] = 0

(* Only rounds that have begun were ever locked. *)
LockInv ==
    /\ \A k \in locks : k <= rounds
    /\ LockFreeWhileOpen

(* While a round can still pay, what it has paid is what the first partial *)
(* answer took, and that and what remains fit under the ceiling.           *)
PayInv ==
    /\ PayoutBounded
    /\ state \in {"ROUND_ACTIVE", "ADJUDICATE"} =>
          IF partial.active
          THEN /\ paid = PartialPoints
               /\ PartialPoints <= partial.remaining
               /\ partial.remaining + PartialPoints <= MaxPointsForRow(curRow)
          ELSE paid = 0

(* The window's contenders are those it heard, at their earliest. *)
HeardInv ==
    /\ heard = contenders
    /\ ~windowOpen => contenders = NoContender

IInv == TypeOK /\ FloorHeld /\ VerdictInv /\ TimerInv /\ LockInv /\ PayInv /\ HeardInv

-----------------------------------------------------------------------------
(* Helpers.                                                                *)

(* What a right answer pays is in the pool of the round. *)
LEMMA PointsOfRound ==
    ASSUME NEW row \in Int, NEW active \in BOOLEAN, NEW rest \in Nat, NEW t \in Nat,
           NEW pts \in CurrentPointsFromPool(RoundPool(row, active, rest).max,
                                             RoundPool(row, active, rest).base, t)
    PROVE  /\ pts \in Nat
           /\ pts <= RoundPool(row, active, rest).max
  <1> DEFINE pool == RoundPool(row, active, rest)
  <1>1. MaxPointsForRow(row) \in Nat /\ 100 <= MaxPointsForRow(row)
    BY RowCeiling
  <1>2. pool.max \in Nat /\ pool.base \in Nat /\ pool.base <= pool.max
    BY <1>1 DEF RoundPool, BaseValue, PartialPoints
  <1> HIDE DEF pool
  <1>3. pts \in CurrentPointsFromPool(pool.max, pool.base, t)
    BY DEF pool
  <1>4. pts \in pool.base .. pool.max
    BY <1>2, <1>3, PoolBounds
  <1>5. pts \in Nat /\ pts <= pool.max
    BY <1>2, <1>4
  <1>6. QED
    BY <1>5 DEF pool

(* A first partial answer leaves at least what it took. *)
LEMMA RestOfRow ==
    ASSUME NEW row \in Int, NEW t \in Nat, NEW rest \in RemainingAfterPartial(row, t)
    PROVE  /\ rest \in Nat
           /\ PartialPoints <= rest
           /\ rest + PartialPoints <= MaxPointsForRow(row)
  <1>1. PICK pts \in CurrentPointsFromPool(MaxPointsForRow(row), BaseValue, t) :
               rest = IF pts > PartialPoints THEN pts - PartialPoints ELSE 0
    BY DEF RemainingAfterPartial, CurrentPoints
  <1>2. MaxPointsForRow(row) \in Nat /\ 100 <= MaxPointsForRow(row) /\ BaseValue = 100
    BY RowCeiling DEF BaseValue
  <1>3. MaxPointsForRow(row) \in Nat /\ BaseValue \in Nat /\ BaseValue <= MaxPointsForRow(row)
    BY <1>2
  <1>4. pts \in BaseValue .. MaxPointsForRow(row)
    BY <1>3, PoolBounds
  <1>5. QED
    BY <1>1, <1>2, <1>4 DEF PartialPoints

LEMMA NoContenderType == NoContender \in [Players -> Arrivals \cup {None}]
  BY DEF NoContender

LEMMA BumpType ==
    ASSUME NEW frames
    PROVE  BumpNonce(frames) \in [Players -> Arrivals \cup {Stale, None}]
  BY DEF BumpNonce

-----------------------------------------------------------------------------
(* Types.                                                                  *)

LEMMA TypeStep == TypeOK /\ FloorHeld /\ [Next]_vars => TypeOK' /\ FloorHeld'
  <1> SUFFICES ASSUME TypeOK, FloorHeld, [Next]_vars
               PROVE  TypeOK' /\ FloorHeld'
    OBVIOUS
  <1> USE ConstantsOK, NoContenderType, BumpType
      DEF TypeOK, RoundTypes, WindowTypes, PeopleTypes, FloorHeld, States, Keys, vars,
         engineVars, windowVars, peopleVars,
          lockVars, history, transitionTo, CloseWindow, Release, resumeAudio
  <1>1. ASSUME NEW p \in Players, Connect(p)
        PROVE  TypeOK' /\ FloorHeld'
    BY <1>1 DEF Connect
  <1>2. ASSUME NEW p \in Players, Disconnect(p)
        PROVE  TypeOK' /\ FloorHeld'
    BY <1>2 DEF Disconnect
  <1>3. ASSUME NEW p \in Players, KickAndBan(p)
        PROVE  TypeOK' /\ FloorHeld'
    BY <1>3 DEF KickAndBan
  <1>4. ASSUME NEW row \in Rows, SelectCell(row)
        PROVE  TypeOK' /\ FloorHeld'
    <2>1. roundKey' \in Keys /\ rounds' \in Keys /\ roundKey' <= rounds'
      BY <1>4 DEF SelectCell
    <2>2. RoundTypes' /\ FloorHeld'
      BY <1>4, <2>1 DEF SelectCell
    <2>3. WindowTypes'
      BY <1>4, <2>1 DEF SelectCell
    <2>4. PeopleTypes'
      BY <1>4 DEF SelectCell
    <2>5. QED
      BY <2>2, <2>3, <2>4
  <1>5. ASSUME AdminReveal
        PROVE  TypeOK' /\ FloorHeld'
    BY <1>5 DEF AdminReveal
  <1>6. ASSUME EndRound
        PROVE  TypeOK' /\ FloorHeld'
    BY <1>6 DEF EndRound
  <1>7. ASSUME EndGame
        PROVE  TypeOK' /\ FloorHeld'
    BY <1>7 DEF EndGame
  <1>8. ASSUME ResetToLobby
        PROVE  TypeOK' /\ FloorHeld'
    <2>1. /\ roundKey' \in Keys /\ rounds' \in Keys /\ roundKey' <= rounds'
          /\ partial' \in [active : BOOLEAN, remaining : Nat]
      BY <1>8 DEF ResetToLobby
    <2>2. RoundTypes' /\ FloorHeld'
      <3>1. /\ state' \in States /\ guessed' = {} /\ buzzWinner' = None /\ FloorHeld'
            /\ elapsed' \in Times /\ pausedAt' \in Times /\ curRow' \in Int
        BY <1>8 DEF ResetToLobby
      <3>2. revealLocked' \in BOOLEAN /\ track' \in BOOLEAN
        BY <1>8 DEF ResetToLobby
      <3>3. QED
        BY <2>1, <3>1, <3>2
    <2>3. WindowTypes'
      BY <1>8, <2>1 DEF ResetToLobby
    <2>4. PeopleTypes'
      BY <1>8 DEF ResetToLobby
    <2>5. QED
      BY <2>2, <2>3, <2>4
  <1>9. ASSUME Pause
        PROVE  TypeOK' /\ FloorHeld'
    BY <1>9 DEF Pause
  <1>10. ASSUME Resume
        PROVE  TypeOK' /\ FloorHeld'
    BY <1>10 DEF Resume
  <1>11. ASSUME NEW p \in Players, NEW at \in Arrivals, SendBuzz(p, at)
        PROVE  TypeOK' /\ FloorHeld'
    BY <1>11 DEF SendBuzz
  <1>12. ASSUME NEW p \in Players, BuzzRefused(p)
        PROVE  TypeOK' /\ FloorHeld'
    BY <1>12 DEF BuzzRefused
  <1>13. ASSUME NEW p \in Players, BuzzJoinsWindow(p)
        PROVE  TypeOK' /\ FloorHeld'
    BY <1>13 DEF BuzzJoinsWindow, addContender, Hear, BuzzAccepted
  <1>14. ASSUME NEW p \in Players, BuzzOpensWindow(p)
        PROVE  TypeOK' /\ FloorHeld'
    BY <1>14 DEF BuzzOpensWindow, Hear, BuzzAccepted
  <1>15. ASSUME NEW k \in Keys, TimerIgnored(k)
        PROVE  TypeOK' /\ FloorHeld'
    BY <1>15 DEF TimerIgnored
  <1>16. ASSUME NEW k \in Keys, NobodyEligible(k)
        PROVE  TypeOK' /\ FloorHeld'
    <2>1. timers' \in [Keys -> Nat]
      BY <1>16 DEF NobodyEligible
    <2>2. RoundTypes' /\ FloorHeld'
      BY <1>16, <2>1 DEF NobodyEligible
    <2>3. WindowTypes'
      BY <1>16, <2>1 DEF NobodyEligible
    <2>4. PeopleTypes'
      BY <1>16 DEF NobodyEligible
    <2>5. QED
      BY <2>2, <2>3, <2>4
  <1>17. ASSUME NEW k \in Keys, WindowLoses(k)
        PROVE  TypeOK' /\ FloorHeld'
    <2>1. timers' \in [Keys -> Nat]
      BY <1>17 DEF WindowLoses
    <2>2. RoundTypes' /\ FloorHeld'
      BY <1>17, <2>1 DEF WindowLoses
    <2>3. WindowTypes'
      BY <1>17, <2>1 DEF WindowLoses
    <2>4. PeopleTypes'
      BY <1>17 DEF WindowLoses
    <2>5. QED
      BY <2>2, <2>3, <2>4
  <1>18. ASSUME NEW k \in Keys, NEW p \in Players, WindowWon(k, p)
        PROVE  TypeOK' /\ FloorHeld'
    <2>1. timers' \in [Keys -> Nat]
      BY <1>18 DEF WindowWon
    <2>2. RoundTypes' /\ FloorHeld'
      BY <1>18, <2>1 DEF WindowWon
    <2>3. WindowTypes'
      BY <1>18, <2>1 DEF WindowWon
    <2>4. PeopleTypes'
      BY <1>18 DEF WindowWon
    <2>5. QED
      BY <2>2, <2>3, <2>4
  <1>19. ASSUME NEW k \in Keys, LockExpires(k)
        PROVE  TypeOK' /\ FloorHeld'
    BY <1>19 DEF LockExpires
  <1>20. ASSUME NEW a \in Admins, NEW v \in Verdicts, SendGrade(a, v)
        PROVE  TypeOK' /\ FloorHeld'
    BY <1>20 DEF SendGrade, GradeFrames
  <1>21. ASSUME NEW a \in Admins, GradeIgnored(a)
        PROVE  TypeOK' /\ FloorHeld'
    BY <1>21 DEF GradeIgnored, TakeGrade
  <1>22. ASSUME NEW a \in Admins, GradeBadVerdict(a)
        PROVE  TypeOK' /\ FloorHeld'
    BY <1>22 DEF GradeBadVerdict, TakeGrade, MarkGuessed
  <1>23. ASSUME NEW a \in Admins, gradeCorrect(a)
        PROVE  TypeOK' /\ FloorHeld'
    <2>1. PICK pts \in CurrentPointsFromPool(
                           RoundPool(curRow, partial.active, partial.remaining).max,
                           RoundPool(curRow, partial.active, partial.remaining).base, pausedAt) :
                 Judged(pts)
      BY <1>23 DEF gradeCorrect
    <2>2. pts \in Nat
      BY <2>1, PointsOfRound
    <2>3. RoundTypes' /\ FloorHeld'
      BY <1>23, <2>1, <2>2 DEF gradeCorrect, TakeGrade, MarkGuessed, Judged
    <2>4. WindowTypes'
      BY <1>23, <2>1, <2>2 DEF gradeCorrect, TakeGrade, MarkGuessed, Judged
    <2>5. PeopleTypes'
      BY <1>23, <2>1, <2>2 DEF gradeCorrect, TakeGrade, MarkGuessed, Judged
    <2>6. QED
      BY <2>3, <2>4, <2>5
  <1>24. ASSUME NEW a \in Admins, gradeFirstPartial(a)
        PROVE  TypeOK' /\ FloorHeld'
    <2>1. PICK rest \in RemainingAfterPartial(curRow, pausedAt) :
                 partial' = [active |-> TRUE, remaining |-> rest]
      BY <1>24 DEF gradeFirstPartial
    <2>2. rest \in Nat
      BY <2>1, RestOfRow
    <2>3. RoundTypes' /\ FloorHeld'
      BY <1>24, <2>1, <2>2 DEF gradeFirstPartial, TakeGrade, MarkGuessed, Judged, PartialPoints
    <2>4. WindowTypes'
      BY <1>24, <2>1, <2>2 DEF gradeFirstPartial, TakeGrade, MarkGuessed, Judged, PartialPoints
    <2>5. PeopleTypes'
      BY <1>24, <2>1, <2>2 DEF gradeFirstPartial, TakeGrade, MarkGuessed, Judged, PartialPoints
    <2>6. QED
      BY <2>3, <2>4, <2>5
  <1>25. ASSUME NEW a \in Admins, gradeSecondPartial(a)
        PROVE  TypeOK' /\ FloorHeld'
    <2>1. RoundTypes' /\ FloorHeld'
      BY <1>25
         DEF gradeSecondPartial, TakeGrade, MarkGuessed, Judged, PartialPoints, RemainingAfterSecond
    <2>2. WindowTypes'
      BY <1>25
         DEF gradeSecondPartial, TakeGrade, MarkGuessed, Judged, PartialPoints, RemainingAfterSecond
    <2>3. PeopleTypes'
      BY <1>25
         DEF gradeSecondPartial, TakeGrade, MarkGuessed, Judged, PartialPoints, RemainingAfterSecond
    <2>4. QED
      BY <2>1, <2>2, <2>3
  <1>26. ASSUME NEW a \in Admins, gradeIncorrect(a)
        PROVE  TypeOK' /\ FloorHeld'
    <2>1. RoundTypes' /\ FloorHeld'
      BY <1>26 DEF gradeIncorrect, TakeGrade, MarkGuessed, Judged
    <2>2. WindowTypes'
      BY <1>26 DEF gradeIncorrect, TakeGrade, MarkGuessed, Judged
    <2>3. PeopleTypes'
      BY <1>26 DEF gradeIncorrect, TakeGrade, MarkGuessed, Judged
    <2>4. QED
      BY <2>1, <2>2, <2>3
  <1>27. ASSUME LeaveKaraoke
        PROVE  TypeOK' /\ FloorHeld'
    BY <1>27 DEF LeaveKaraoke
  <1>28. ASSUME LockOutReveal
        PROVE  TypeOK' /\ FloorHeld'
    BY <1>28 DEF LockOutReveal
  <1>29. ASSUME NEW t \in Times, Tick(t)
        PROVE  TypeOK' /\ FloorHeld'
    BY <1>29 DEF Tick
  <1>30. CASE UNCHANGED vars
    BY <1>30
  <1>31. QED
    BY <1>1, <1>2, <1>3, <1>4, <1>5, <1>6, <1>7, <1>8, <1>9, <1>10, <1>11, <1>12, <1>13, <1>14,
       <1>15, <1>16, <1>17, <1>18, <1>19, <1>20, <1>21, <1>22, <1>23, <1>24, <1>25, <1>26,
       <1>27, <1>28, <1>29, <1>30
       DEF Next, People, Admin, Buzzing, Grading

-----------------------------------------------------------------------------
(* The rest of the invariant.                                              *)

LEMMA RestStep ==
    IInv /\ TypeOK' /\ [Next]_vars => VerdictInv' /\ TimerInv' /\ LockInv' /\ PayInv' /\ HeardInv'
  <1> DEFINE Rest == VerdictInv /\ TimerInv /\ LockInv /\ PayInv /\ HeardInv
  <1> SUFFICES ASSUME IInv, TypeOK', [Next]_vars
               PROVE  Rest'
    OBVIOUS
  <1> USE ConstantsOK
      DEF IInv, TypeOK, RoundTypes, WindowTypes, PeopleTypes, FloorHeld, VerdictInv, TimerInv,
          WindowHasItsTimer, LockInv, LockFreeWhileOpen, PayInv, PayoutBounded, HeardInv,
          Keys, vars, engineVars, windowVars, peopleVars, lockVars, history,
          transitionTo, CloseWindow, Release, resumeAudio
  <1>0. /\ MaxPointsForRow(curRow) \in Nat /\ 100 <= MaxPointsForRow(curRow)
        /\ MaxPointsForRow(curRow') \in Nat /\ 100 <= MaxPointsForRow(curRow')
    BY RowCeiling
  <1>1. ASSUME NEW p \in Players, Connect(p)
        PROVE  Rest'
    BY <1>1 DEF Connect
  <1>2. ASSUME NEW p \in Players, Disconnect(p)
        PROVE  Rest'
    BY <1>2 DEF Disconnect
  <1>3. ASSUME NEW p \in Players, KickAndBan(p)
        PROVE  Rest'
    BY <1>3 DEF KickAndBan
  <1>4. ASSUME NEW row \in Rows, SelectCell(row)
        PROVE  Rest'
    <2>1. VerdictInv'
      BY <1>4 DEF SelectCell
    <2>2. TimerInv'
      BY <1>4 DEF SelectCell
    <2>3. LockInv'
      BY <1>4 DEF SelectCell
    <2>4. PayInv'
      BY <1>4, <1>0 DEF SelectCell
    <2>5. HeardInv'
      BY <1>4 DEF SelectCell
    <2>6. QED
      BY <2>1, <2>2, <2>3, <2>4, <2>5
  <1>5. ASSUME AdminReveal
        PROVE  Rest'
    BY <1>5 DEF AdminReveal
  <1>6. ASSUME EndRound
        PROVE  Rest'
    BY <1>6 DEF EndRound
  <1>7. ASSUME EndGame
        PROVE  Rest'
    BY <1>7 DEF EndGame
  <1>8. ASSUME ResetToLobby
        PROVE  Rest'
    <2>1. VerdictInv'
      BY <1>8 DEF ResetToLobby
    <2>2. TimerInv'
      BY <1>8 DEF ResetToLobby
    <2>3. LockInv'
      BY <1>8 DEF ResetToLobby
    <2>4. PayInv'
      BY <1>8, <1>0 DEF ResetToLobby
    <2>5. HeardInv'
      BY <1>8 DEF ResetToLobby
    <2>6. QED
      BY <2>1, <2>2, <2>3, <2>4, <2>5
  <1>9. ASSUME Pause
        PROVE  Rest'
    BY <1>9 DEF Pause
  <1>10. ASSUME Resume
        PROVE  Rest'
    BY <1>10 DEF Resume
  <1>11. ASSUME NEW p \in Players, NEW at \in Arrivals, SendBuzz(p, at)
        PROVE  Rest'
    BY <1>11 DEF SendBuzz
  <1>12. ASSUME NEW p \in Players, BuzzRefused(p)
        PROVE  Rest'
    BY <1>12 DEF BuzzRefused
  <1>13. ASSUME NEW p \in Players, BuzzJoinsWindow(p)
        PROVE  Rest'
    <2>1. VerdictInv'
      BY <1>13 DEF BuzzJoinsWindow, addContender, Hear, BuzzAccepted
    <2>2. TimerInv'
      BY <1>13 DEF BuzzJoinsWindow, addContender, Hear, BuzzAccepted
    <2>3. LockInv'
      BY <1>13 DEF BuzzJoinsWindow, addContender, Hear, BuzzAccepted
    <2>4. PayInv'
      BY <1>13 DEF BuzzJoinsWindow, addContender, Hear, BuzzAccepted
    <2>5. HeardInv'
      BY <1>13 DEF BuzzJoinsWindow, addContender, Hear, BuzzAccepted
    <2>6. QED
      BY <2>1, <2>2, <2>3, <2>4, <2>5
  <1>14. ASSUME NEW p \in Players, BuzzOpensWindow(p)
        PROVE  Rest'
    <2>1. VerdictInv'
      BY <1>14 DEF BuzzOpensWindow, Hear, BuzzAccepted
    <2>2. TimerInv'
      BY <1>14 DEF BuzzOpensWindow, Hear, BuzzAccepted
    <2>3. LockInv'
      BY <1>14 DEF BuzzOpensWindow, Hear, BuzzAccepted
    <2>4. PayInv'
      BY <1>14 DEF BuzzOpensWindow, Hear, BuzzAccepted
    <2>5. HeardInv'
      <3>1. heard = NoContender /\ heard[p] = None
        BY <1>14 DEF BuzzOpensWindow, NoContender
      <3>2. heard' = [NoContender EXCEPT ![p] = buzzes[p]]
        BY <1>14, <3>1 DEF BuzzOpensWindow, Hear
      <3>3. QED
        BY <1>14, <3>2 DEF BuzzOpensWindow
    <2>6. QED
      BY <2>1, <2>2, <2>3, <2>4, <2>5
  <1>15. ASSUME NEW k \in Keys, TimerIgnored(k)
        PROVE  Rest'
    <2>1. VerdictInv'
      BY <1>15 DEF TimerIgnored
    <2>2. TimerInv'
      BY <1>15 DEF TimerIgnored, StaleTimer
    <2>3. LockInv'
      BY <1>15 DEF TimerIgnored
    <2>4. PayInv'
      BY <1>15 DEF TimerIgnored
    <2>5. HeardInv'
      BY <1>15 DEF TimerIgnored
    <2>6. QED
      BY <2>1, <2>2, <2>3, <2>4, <2>5
  <1>16. ASSUME NEW k \in Keys, NobodyEligible(k)
        PROVE  Rest'
    <2>1. VerdictInv'
      BY <1>16 DEF NobodyEligible
    <2>2. TimerInv'
      BY <1>16 DEF NobodyEligible, StaleTimer
    <2>3. LockInv'
      BY <1>16 DEF NobodyEligible
    <2>4. PayInv'
      BY <1>16 DEF NobodyEligible
    <2>5. HeardInv'
      BY <1>16 DEF NobodyEligible
    <2>6. QED
      BY <2>1, <2>2, <2>3, <2>4, <2>5
  <1>17. ASSUME NEW k \in Keys, WindowLoses(k)
        PROVE  Rest'
    <2>1. VerdictInv'
      BY <1>17 DEF WindowLoses
    <2>2. TimerInv'
      BY <1>17 DEF WindowLoses, StaleTimer
    <2>3. LockInv'
      BY <1>17 DEF WindowLoses
    <2>4. PayInv'
      BY <1>17 DEF WindowLoses
    <2>5. HeardInv'
      BY <1>17 DEF WindowLoses
    <2>6. QED
      BY <2>1, <2>2, <2>3, <2>4, <2>5
  <1>18. ASSUME NEW k \in Keys, NEW p \in Players, WindowWon(k, p)
        PROVE  Rest'
    <2>1. VerdictInv'
      BY <1>18 DEF WindowWon, Earliest, Eligible
    <2>2. TimerInv'
      BY <1>18 DEF WindowWon, StaleTimer
    <2>3. LockInv'
      BY <1>18 DEF WindowWon
    <2>4. PayInv'
      BY <1>18 DEF WindowWon, StaleTimer
    <2>5. HeardInv'
      BY <1>18 DEF WindowWon
    <2>6. QED
      BY <2>1, <2>2, <2>3, <2>4, <2>5
  <1>19. ASSUME NEW k \in Keys, LockExpires(k)
        PROVE  Rest'
    BY <1>19 DEF LockExpires
  <1>20. ASSUME NEW a \in Admins, NEW v \in Verdicts, SendGrade(a, v)
        PROVE  Rest'
    BY <1>20 DEF SendGrade, GradeFrames
  <1>21. ASSUME NEW a \in Admins, GradeIgnored(a)
        PROVE  Rest'
    BY <1>21 DEF GradeIgnored, TakeGrade
  <1>22. ASSUME NEW a \in Admins, GradeBadVerdict(a)
        PROVE  Rest'
    <2>1. VerdictInv'
      BY <1>22 DEF GradeBadVerdict, TakeGrade, MarkGuessed
    <2>2. TimerInv'
      BY <1>22 DEF GradeBadVerdict, TakeGrade, MarkGuessed
    <2>3. LockInv'
      BY <1>22 DEF GradeBadVerdict, TakeGrade, MarkGuessed
    <2>4. PayInv'
      BY <1>22 DEF GradeBadVerdict, TakeGrade, MarkGuessed
    <2>5. HeardInv'
      BY <1>22 DEF GradeBadVerdict, TakeGrade, MarkGuessed
    <2>6. QED
      BY <2>1, <2>2, <2>3, <2>4, <2>5
  <1>23. ASSUME NEW a \in Admins, gradeCorrect(a)
        PROVE  Rest'
    <2>1. VerdictInv'
      BY <1>23 DEF gradeCorrect, TakeGrade, MarkGuessed, Judged
    <2>2. TimerInv'
      BY <1>23 DEF gradeCorrect, TakeGrade, MarkGuessed, Judged
    <2>3. LockInv'
      BY <1>23 DEF gradeCorrect, TakeGrade, MarkGuessed, Judged
    <2>4. PayInv'
      <3>1. PICK pts \in CurrentPointsFromPool(
                             RoundPool(curRow, partial.active, partial.remaining).max,
                             RoundPool(curRow, partial.active, partial.remaining).base, pausedAt) :
                   Judged(pts)
        BY <1>23 DEF gradeCorrect
      <3>2. pts \in Nat /\ pts <= RoundPool(curRow, partial.active, partial.remaining).max
        BY <3>1, PointsOfRound
      <3>3. paid + pts <= MaxPointsForRow(curRow)
        <4>1. CASE partial.active
          <5>1. pts <= partial.remaining /\ paid = PartialPoints
            BY <1>23, <3>2, <4>1 DEF gradeCorrect, MarkGuessed, RoundPool
          <5>2. QED
            BY <1>23, <1>0, <3>2, <4>1, <5>1 DEF gradeCorrect, MarkGuessed, PartialPoints
        <4>2. CASE ~partial.active
          <5>1. pts <= MaxPointsForRow(curRow) /\ paid = 0
            BY <1>23, <3>2, <4>2 DEF gradeCorrect, MarkGuessed, RoundPool
          <5>2. QED
            BY <1>0, <3>2, <5>1
        <4>3. QED
          BY <4>1, <4>2
      <3>4. QED
        BY <1>23, <3>1, <3>3 DEF gradeCorrect, Judged
    <2>5. HeardInv'
      BY <1>23 DEF gradeCorrect, TakeGrade, MarkGuessed, Judged
    <2>6. QED
      BY <2>1, <2>2, <2>3, <2>4, <2>5
  <1>24. ASSUME NEW a \in Admins, gradeFirstPartial(a)
        PROVE  Rest'
    <2>1. VerdictInv'
      BY <1>24
         DEF gradeFirstPartial, TakeGrade, MarkGuessed, Judged, PartialPoints, RemainingAfterPartial
    <2>2. TimerInv'
      BY <1>24
         DEF gradeFirstPartial, TakeGrade, MarkGuessed, Judged, PartialPoints, RemainingAfterPartial
    <2>3. LockInv'
      BY <1>24
         DEF gradeFirstPartial, TakeGrade, MarkGuessed, Judged, PartialPoints, RemainingAfterPartial
    <2>4. PayInv'
      <3>1. PICK rest \in RemainingAfterPartial(curRow, pausedAt) :
                   partial' = [active |-> TRUE, remaining |-> rest]
        BY <1>24 DEF gradeFirstPartial
      <3>2. /\ rest \in Nat /\ PartialPoints <= rest
            /\ rest + PartialPoints <= MaxPointsForRow(curRow)
        BY <3>1, RestOfRow
      <3>3. paid' = PartialPoints
        BY <1>24 DEF gradeFirstPartial, MarkGuessed, Judged, PartialPoints
      <3>4. QED
        BY <1>24, <3>1, <3>2, <1>0, <3>3 DEF gradeFirstPartial, PartialPoints
    <2>5. HeardInv'
      BY <1>24
         DEF gradeFirstPartial, TakeGrade, MarkGuessed, Judged, PartialPoints, RemainingAfterPartial
    <2>6. QED
      BY <2>1, <2>2, <2>3, <2>4, <2>5
  <1>25. ASSUME NEW a \in Admins, gradeSecondPartial(a)
        PROVE  Rest'
    <2>1. VerdictInv'
      BY <1>25
         DEF gradeSecondPartial, TakeGrade, MarkGuessed, Judged, PartialPoints, RemainingAfterSecond
    <2>2. TimerInv'
      BY <1>25
         DEF gradeSecondPartial, TakeGrade, MarkGuessed, Judged, PartialPoints, RemainingAfterSecond
    <2>3. LockInv'
      BY <1>25
         DEF gradeSecondPartial, TakeGrade, MarkGuessed, Judged, PartialPoints, RemainingAfterSecond
    <2>4. PayInv'
      <3>1. paid' = PartialPoints + PartialPoints
        BY <1>25 DEF gradeSecondPartial, MarkGuessed, Judged, PartialPoints
      <3>2. PartialPoints + PartialPoints <= MaxPointsForRow(curRow)
        BY <1>0 DEF PartialPoints
      <3>3. QED
        BY <1>25, <3>1, <3>2 DEF gradeSecondPartial
    <2>5. HeardInv'
      BY <1>25
         DEF gradeSecondPartial, TakeGrade, MarkGuessed, Judged, PartialPoints, RemainingAfterSecond
    <2>6. QED
      BY <2>1, <2>2, <2>3, <2>4, <2>5
  <1>26. ASSUME NEW a \in Admins, gradeIncorrect(a)
        PROVE  Rest'
    <2>1. VerdictInv'
      BY <1>26 DEF gradeIncorrect, TakeGrade, MarkGuessed, Judged
    <2>2. TimerInv'
      BY <1>26 DEF gradeIncorrect, TakeGrade, MarkGuessed, Judged
    <2>3. LockInv'
      BY <1>26 DEF gradeIncorrect, TakeGrade, MarkGuessed, Judged
    <2>4. PayInv'
      BY <1>26 DEF gradeIncorrect, TakeGrade, MarkGuessed, Judged
    <2>5. HeardInv'
      BY <1>26 DEF gradeIncorrect, TakeGrade, MarkGuessed, Judged
    <2>6. QED
      BY <2>1, <2>2, <2>3, <2>4, <2>5
  <1>27. ASSUME LeaveKaraoke
        PROVE  Rest'
    BY <1>27 DEF LeaveKaraoke
  <1>28. ASSUME LockOutReveal
        PROVE  Rest'
    BY <1>28 DEF LockOutReveal
  <1>29. ASSUME NEW t \in Times, Tick(t)
        PROVE  Rest'
    BY <1>29 DEF Tick
  <1>30. CASE UNCHANGED vars
    BY <1>30
  <1>31. QED
    BY <1>1, <1>2, <1>3, <1>4, <1>5, <1>6, <1>7, <1>8, <1>9, <1>10, <1>11, <1>12, <1>13, <1>14,
       <1>15, <1>16, <1>17, <1>18, <1>19, <1>20, <1>21, <1>22, <1>23, <1>24, <1>25, <1>26,
       <1>27, <1>28, <1>29, <1>30
       DEF Next, People, Admin, Buzzing, Grading

-----------------------------------------------------------------------------
(* What is always true.                                                    *)

LEMMA InitIInv == Init => IInv
  <1> SUFFICES ASSUME Init PROVE IInv
    OBVIOUS
  <1> USE ConstantsOK DEF Init, States, Keys
  <1>1. TypeOK /\ FloorHeld
    <2>1. RoundTypes /\ FloorHeld
      <3>1. /\ state \in States /\ roundKey \in Keys /\ rounds \in Keys /\ roundKey <= rounds
            /\ elapsed \in Times /\ pausedAt \in Times
        OBVIOUS
      <3>2. curRow \in Int /\ partial \in [active : BOOLEAN, remaining : Nat]
        OBVIOUS
      <3>3. QED
        BY <3>1, <3>2 DEF RoundTypes, FloorHeld
    <2>2. WindowTypes
      BY NoContenderType DEF WindowTypes
    <2>3. PeopleTypes
      BY DEF PeopleTypes
    <2>4. QED
      BY <2>1, <2>2, <2>3 DEF TypeOK
  <1>2. VerdictInv /\ TimerInv /\ LockInv /\ HeardInv
    BY DEF VerdictInv, TimerInv, WindowHasItsTimer, LockInv, LockFreeWhileOpen, HeardInv
  <1>3. PayInv
    BY <1>1, RowCeiling DEF PayInv, PayoutBounded
  <1>4. QED
    BY <1>1, <1>2, <1>3 DEF IInv

THEOREM Invariant == Spec => []IInv
  <1>1. IInv /\ [Next]_vars => IInv'
    <2>1. IInv /\ [Next]_vars => TypeOK' /\ FloorHeld'
      BY TypeStep DEF IInv
    <2>2. QED
      BY <2>1, RestStep DEF IInv
  <1>2. QED
    BY InitIInv, <1>1, PTL DEF Spec

(* Every variable stays in its type. *)
THEOREM TypeCorrect == Spec => []TypeOK
  <1>1. IInv => TypeOK
    BY DEF IInv
  <1>2. QED
    BY Invariant, <1>1, PTL

(* No player is judged twice in a round (onGrade, awardBuzzWinner). *)
THEOREM NobodyJudgedTwice == Spec => []OneVerdictPerPlayer
  <1>1. IInv => OneVerdictPerPlayer
    BY DEF IInv, VerdictInv, OneVerdictPerPlayer
  <1>2. QED
    BY Invariant, <1>1, PTL

(* A round pays no more than its row's ceiling (gradePartial, roundPool). *)
THEOREM NeverOverpays == Spec => []PayoutBounded
  <1>1. IInv => PayoutBounded
    BY DEF IInv, PayInv
  <1>2. QED
    BY Invariant, <1>1, PTL

(* An open round's lock is free unless a call to the lock failed. *)
THEOREM NextWindowCanBeWon == Spec => []LockFreeWhileOpen
  <1>1. IInv => LockFreeWhileOpen
    BY DEF IInv, LockInv
  <1>2. QED
    BY Invariant, <1>1, PTL

(* An open window has exactly one pending resolution. *)
THEOREM OneTimerPerWindow == Spec => []WindowHasItsTimer
  <1>1. IInv => WindowHasItsTimer
    BY DEF IInv, TimerInv
  <1>2. QED
    BY Invariant, <1>1, PTL

-----------------------------------------------------------------------------
(* What every step does.                                                   *)

(* The only step that gives the floor resolves a window. *)
LEMMA FloorIsWon ==
    ASSUME TypeOK, [Next]_vars, state = "ROUND_ACTIVE", state' = "ADJUDICATE"
    PROVE  \E k \in Keys, p \in Players : WindowWon(k, p)
  <1> USE DEF transitionTo, vars, engineVars
  <1>1. ASSUME NEW p \in Players, Connect(p)
        PROVE  FALSE
    BY <1>1 DEF Connect
  <1>2. ASSUME NEW p \in Players, Disconnect(p)
        PROVE  FALSE
    BY <1>2 DEF Disconnect
  <1>3. ASSUME NEW p \in Players, KickAndBan(p)
        PROVE  FALSE
    BY <1>3 DEF KickAndBan
  <1>4. ASSUME NEW row \in Rows, SelectCell(row)
        PROVE  FALSE
    BY <1>4 DEF SelectCell
  <1>5. ASSUME AdminReveal
        PROVE  FALSE
    BY <1>5 DEF AdminReveal
  <1>6. ASSUME EndRound
        PROVE  FALSE
    BY <1>6 DEF EndRound
  <1>7. ASSUME EndGame
        PROVE  FALSE
    BY <1>7 DEF EndGame
  <1>8. ASSUME ResetToLobby
        PROVE  FALSE
    BY <1>8 DEF ResetToLobby
  <1>9. ASSUME Pause
        PROVE  FALSE
    BY <1>9 DEF Pause
  <1>10. ASSUME Resume
        PROVE  FALSE
    BY <1>10 DEF Resume
  <1>11. ASSUME NEW p \in Players, NEW at \in Arrivals, SendBuzz(p, at)
        PROVE  FALSE
    BY <1>11 DEF SendBuzz
  <1>12. ASSUME NEW p \in Players, BuzzRefused(p)
        PROVE  FALSE
    BY <1>12 DEF BuzzRefused
  <1>13. ASSUME NEW p \in Players, BuzzJoinsWindow(p)
        PROVE  FALSE
    BY <1>13 DEF BuzzJoinsWindow
  <1>14. ASSUME NEW p \in Players, BuzzOpensWindow(p)
        PROVE  FALSE
    BY <1>14 DEF BuzzOpensWindow
  <1>15. ASSUME NEW k \in Keys, TimerIgnored(k)
        PROVE  FALSE
    BY <1>15 DEF TimerIgnored
  <1>16. ASSUME NEW k \in Keys, NobodyEligible(k)
        PROVE  FALSE
    BY <1>16 DEF NobodyEligible
  <1>17. ASSUME NEW k \in Keys, WindowLoses(k)
        PROVE  FALSE
    BY <1>17 DEF WindowLoses
  <1>18. ASSUME NEW k \in Keys, LockExpires(k)
        PROVE  FALSE
    BY <1>18 DEF LockExpires
  <1>19. ASSUME NEW a \in Admins, NEW v \in Verdicts, SendGrade(a, v)
        PROVE  FALSE
    BY <1>19 DEF SendGrade
  <1>20. ASSUME NEW a \in Admins, GradeIgnored(a)
        PROVE  FALSE
    BY <1>20 DEF GradeIgnored
  <1>21. ASSUME NEW a \in Admins, GradeBadVerdict(a)
        PROVE  FALSE
    BY <1>21 DEF GradeBadVerdict
  <1>22. ASSUME NEW a \in Admins, gradeCorrect(a)
        PROVE  FALSE
    BY <1>22 DEF gradeCorrect, MarkGuessed
  <1>23. ASSUME NEW a \in Admins, gradeFirstPartial(a)
        PROVE  FALSE
    BY <1>23 DEF gradeFirstPartial, MarkGuessed
  <1>24. ASSUME NEW a \in Admins, gradeSecondPartial(a)
        PROVE  FALSE
    BY <1>24 DEF gradeSecondPartial, MarkGuessed
  <1>25. ASSUME NEW a \in Admins, gradeIncorrect(a)
        PROVE  FALSE
    BY <1>25 DEF gradeIncorrect, MarkGuessed
  <1>26. ASSUME LeaveKaraoke
        PROVE  FALSE
    BY <1>26 DEF LeaveKaraoke
  <1>27. ASSUME LockOutReveal
        PROVE  FALSE
    BY <1>27 DEF LockOutReveal
  <1>28. ASSUME NEW t \in Times, Tick(t)
        PROVE  FALSE
    BY <1>28 DEF Tick
  <1>29. CASE UNCHANGED vars
    BY <1>29
  <1>30. QED
    BY <1>1, <1>2, <1>3, <1>4, <1>5, <1>6, <1>7, <1>8, <1>9, <1>10, <1>11, <1>12, <1>13, <1>14,
       <1>15, <1>16, <1>17, <1>18, <1>19, <1>20, <1>21, <1>22, <1>23, <1>24, <1>25, <1>26,
       <1>27, <1>28, <1>29
       DEF Next, People, Admin, Buzzing, Grading

(* The earliest eligible buzz of the window gets the floor. *)
THEOREM EarliestWins == Spec => EarliestBuzzWins
  <1> DEFINE Won ==  state = "ROUND_ACTIVE" /\ state' = "ADJUDICATE" =>
                        /\ heard[buzzWinner'] # None
                        /\ \A q \in online \ (banned \cup guessed) :
                              heard[q] # None => heard[buzzWinner'] <= heard[q]
  <1>1. IInv /\ [Next]_vars => Won
    <2> SUFFICES ASSUME IInv, [Next]_vars, state = "ROUND_ACTIVE", state' = "ADJUDICATE"
                 PROVE  /\ heard[buzzWinner'] # None
                        /\ \A q \in online \ (banned \cup guessed) :
                              heard[q] # None => heard[buzzWinner'] <= heard[q]
      OBVIOUS
    <2>1. PICK k \in Keys, p \in Players : WindowWon(k, p)
      BY FloorIsWon DEF IInv
    <2>2. buzzWinner' = p /\ p \in Earliest
      BY <2>1 DEF WindowWon
    <2>3. heard = contenders /\ online \subseteq Players
      BY DEF IInv, HeardInv, TypeOK, PeopleTypes
    <2>4. QED
      BY <2>2, <2>3 DEF Earliest, Eligible
  <1>2. QED
    BY Invariant, <1>1, PTL DEF Spec, EarliestBuzzWins

-----------------------------------------------------------------------------
(* A buzz round keeps the promise of GuessFloor.                           *)

LEMMA FloorInitial == Init => Floor!FloorInit
  BY DEF Init, Floor!FloorInit

LEMMA FloorStep == IInv /\ [Next]_vars => [Floor!FloorNext]_(Floor!floorVars)
  <1> DEFINE Step == Floor!FloorNext \/ UNCHANGED Floor!floorVars
  <1> SUFFICES ASSUME IInv, [Next]_vars
               PROVE  Step
    OBVIOUS
  <1>0. /\ online \subseteq Players
        /\ state = "ADJUDICATE" => buzzWinner \in Players /\ buzzWinner # None
    BY ConstantsOK DEF IInv, TypeOK, PeopleTypes, FloorHeld
  <1> USE DEF transitionTo, vars, engineVars, Floor!floorVars
  <1>1. ASSUME NEW p \in Players, Connect(p)
        PROVE  Step
    BY <1>1 DEF Connect
  <1>2. ASSUME NEW p \in Players, Disconnect(p)
        PROVE  Step
    BY <1>2 DEF Disconnect
  <1>3. ASSUME NEW p \in Players, KickAndBan(p)
        PROVE  Step
    BY <1>3 DEF KickAndBan
  <1>4. ASSUME NEW row \in Rows, SelectCell(row)
        PROVE  Step
    <2>1. Floor!NewRound
      BY <1>0, <1>4 DEF SelectCell, Floor!NewRound
    <2>2. QED
      BY <2>1 DEF Floor!FloorNext
  <1>5. ASSUME AdminReveal
        PROVE  Step
    <2>1. Floor!Abandon
      BY <1>0, <1>5 DEF AdminReveal, Floor!Abandon
    <2>2. QED
      BY <2>1 DEF Floor!FloorNext
  <1>6. ASSUME EndRound
        PROVE  Step
    <2>1. Floor!Abandon
      BY <1>0, <1>6 DEF EndRound, Floor!Abandon
    <2>2. QED
      BY <2>1 DEF Floor!FloorNext
  <1>7. ASSUME EndGame
        PROVE  Step
    <2>1. Floor!Abandon
      BY <1>0, <1>7 DEF EndGame, Floor!Abandon
    <2>2. QED
      BY <2>1 DEF Floor!FloorNext
  <1>8. ASSUME ResetToLobby
        PROVE  Step
    <2>1. Floor!Forget
      BY <1>0, <1>8 DEF ResetToLobby, Floor!Forget
    <2>2. QED
      BY <2>1 DEF Floor!FloorNext
  <1>9. ASSUME Pause
        PROVE  Step
    BY <1>9 DEF Pause
  <1>10. ASSUME Resume
        PROVE  Step
    BY <1>10 DEF Resume
  <1>11. ASSUME NEW p \in Players, NEW at \in Arrivals, SendBuzz(p, at)
        PROVE  Step
    BY <1>11 DEF SendBuzz
  <1>12. ASSUME NEW p \in Players, BuzzRefused(p)
        PROVE  Step
    BY <1>12 DEF BuzzRefused
  <1>13. ASSUME NEW p \in Players, BuzzJoinsWindow(p)
        PROVE  Step
    BY <1>13 DEF BuzzJoinsWindow
  <1>14. ASSUME NEW p \in Players, BuzzOpensWindow(p)
        PROVE  Step
    BY <1>14 DEF BuzzOpensWindow
  <1>15. ASSUME NEW k \in Keys, TimerIgnored(k)
        PROVE  Step
    BY <1>15 DEF TimerIgnored
  <1>16. ASSUME NEW k \in Keys, NobodyEligible(k)
        PROVE  Step
    BY <1>16 DEF NobodyEligible
  <1>17. ASSUME NEW k \in Keys, WindowLoses(k)
        PROVE  Step
    BY <1>17 DEF WindowLoses
  <1>18. ASSUME NEW k \in Keys, NEW p \in Players, WindowWon(k, p)
        PROVE  Step
    <2>1. Floor!TakeFloor(p)
      BY <1>18 DEF WindowWon, StaleTimer, Earliest, Eligible, Floor!TakeFloor
    <2>2. QED
      BY <2>1 DEF Floor!FloorNext
  <1>19. ASSUME NEW k \in Keys, LockExpires(k)
        PROVE  Step
    BY <1>19 DEF LockExpires
  <1>20. ASSUME NEW a \in Admins, NEW v \in Verdicts, SendGrade(a, v)
        PROVE  Step
    BY <1>20 DEF SendGrade
  <1>21. ASSUME NEW a \in Admins, GradeIgnored(a)
        PROVE  Step
    BY <1>21 DEF GradeIgnored
  <1>22. ASSUME NEW a \in Admins, GradeBadVerdict(a)
        PROVE  Step
    <2>1. Floor!MarkSpent
      BY <1>0, <1>22 DEF GradeBadVerdict, Floor!MarkSpent, MarkGuessed
    <2>2. QED
      BY <2>1 DEF Floor!FloorNext
  <1>23. ASSUME NEW a \in Admins, gradeCorrect(a)
        PROVE  Step
    <2>1. Floor!Judge
      BY <1>0, <1>23 DEF gradeCorrect, MarkGuessed, Floor!Judge
    <2>2. QED
      BY <2>1 DEF Floor!FloorNext
  <1>24. ASSUME NEW a \in Admins, gradeFirstPartial(a)
        PROVE  Step
    <2>1. Floor!Judge
      BY <1>0, <1>24 DEF gradeFirstPartial, MarkGuessed, Floor!Judge
    <2>2. QED
      BY <2>1 DEF Floor!FloorNext
  <1>25. ASSUME NEW a \in Admins, gradeSecondPartial(a)
        PROVE  Step
    <2>1. Floor!Judge
      BY <1>0, <1>25 DEF gradeSecondPartial, MarkGuessed, Floor!Judge
    <2>2. QED
      BY <2>1 DEF Floor!FloorNext
  <1>26. ASSUME NEW a \in Admins, gradeIncorrect(a)
        PROVE  Step
    <2>1. Floor!Judge
      BY <1>0, <1>26 DEF gradeIncorrect, MarkGuessed, Floor!Judge
    <2>2. QED
      BY <2>1 DEF Floor!FloorNext
  <1>27. ASSUME LeaveKaraoke
        PROVE  Step
    BY <1>27 DEF LeaveKaraoke
  <1>28. ASSUME LockOutReveal
        PROVE  Step
    <2>1. Floor!Withdraw(online)
      BY <1>28 DEF LockOutReveal, Floor!Withdraw
    <2>2. QED
      BY <1>0, <2>1 DEF Floor!FloorNext
  <1>29. ASSUME NEW t \in Times, Tick(t)
        PROVE  Step
    BY <1>29 DEF Tick
  <1>30. CASE UNCHANGED vars
    BY <1>30
  <1>31. QED
    BY <1>1, <1>2, <1>3, <1>4, <1>5, <1>6, <1>7, <1>8, <1>9, <1>10, <1>11, <1>12, <1>13, <1>14,
       <1>15, <1>16, <1>17, <1>18, <1>19, <1>20, <1>21, <1>22, <1>23, <1>24, <1>25, <1>26,
       <1>27, <1>28, <1>29, <1>30
       DEF Next, People, Admin, Buzzing, Grading

(* At most one player speaks, each player once: GuessFloor, implemented.   *)
THEOREM RoundImplementsFloor == Spec => ImplementsGuessFloor
  BY Invariant, FloorInitial, FloorStep, PTL DEF Spec, ImplementsGuessFloor, Floor!FloorSpec
=============================================================================
