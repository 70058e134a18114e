------------------------------- MODULE Scoring -------------------------------
(***************************************************************************)
(* The pure arithmetic of a game: what a track is worth, how that worth    *)
(* decays, what a partial answer takes out of it, what a Daily Double      *)
(* performance pays and how many votes skip a karaoke.  Go computes these   *)
(* in float64 and int (scoring.go, engine.go); times are milliseconds.     *)
(***************************************************************************)
EXTENDS Integers

BaseValue     == 100
PartialPoints == 50
DecayHoldMs   == 5000
DecayEndMs    == 60000

(* Rows outside 1..5 are clamped by RowMultiplier, so are they here. *)
RowQuarters(row) == IF row <= 1 THEN 0 ELSE IF row >= 5 THEN 4 ELSE row - 1

MaxPointsForRow(row) == BaseValue + 25 * RowQuarters(row)

(***************************************************************************)
(* The decay curve between two bounds of a pool, exact in the rationals.   *)
(***************************************************************************)
DecayExact(maxP, baseP, t) ==
    IF t <= DecayHoldMs THEN maxP
    ELSE IF t >= DecayEndMs THEN baseP
    ELSE baseP + ((maxP - baseP) * (DecayEndMs - t)) \div (DecayEndMs - DecayHoldMs)

(* The float64 formula meets an integer from below where the exact curve   *)
(* passes through one: math.Floor may then return the integer before it    *)
(* (it does at 45.7 s in row 5, 125 for 126).  Elsewhere the two agree.    *)
FallsOnInteger(maxP, baseP, t) ==
    /\ maxP > baseP
    /\ t > DecayHoldMs
    /\ t < DecayEndMs
    /\ ((maxP - baseP) * (DecayEndMs - t)) % (DecayEndMs - DecayHoldMs) = 0

CurrentPointsFromPool(maxP, baseP, t) ==
    {DecayExact(maxP, baseP, t)} \cup
        IF FallsOnInteger(maxP, baseP, t) THEN {DecayExact(maxP, baseP, t) - 1} ELSE {}

CurrentPoints(row, t) == CurrentPointsFromPool(MaxPointsForRow(row), BaseValue, t)

(* What stays in the pool once a first partial answer has taken its 50. *)
RemainingAfterPartial(row, t) ==
    {IF pts > PartialPoints THEN pts - PartialPoints ELSE 0 : pts \in CurrentPoints(row, t)}

(* ... and once a second one has (its pool is dropped: the round is over). *)
RemainingAfterSecond(remaining) ==
    IF remaining > PartialPoints THEN remaining - PartialPoints ELSE 0

RoundPoolOfRow(row, partialActive, remaining) ==             \* a mutation of RoundPool
    [max |-> MaxPointsForRow(row), base |-> BaseValue]

(***************************************************************************)
(* Engine.roundPool: the ceiling and the floor of what the round can pay.  *)
(***************************************************************************)
RoundPool(row, partialActive, remaining) ==
    LET maxP  == IF partialActive THEN remaining ELSE MaxPointsForRow(row)
        baseP == IF partialActive THEN BaseValue - PartialPoints ELSE BaseValue
    IN  [max |-> maxP, base |-> IF baseP > maxP THEN maxP ELSE baseP]

(* Engine.needVotes: how many of the active voters must ask for a skip. *)
NeedVotes(active, pct) ==
    IF pct >= 100 THEN active
    ELSE LET need == (active * pct) \div 100 + 1
         IN  IF need > active THEN active ELSE need

(* DailyDoubleMultiplier, in quarters, from the sum of n star ratings.     *)
(* avg >= 4.5 is 2*sum >= 9*n, and so on: halves are exact in float64, and *)
(* dividing two small integers cannot cross one.                           *)
MultiplierQuarters(sum, n) ==
    IF n = 0 THEN 4
    ELSE IF 2 * sum >= 9 * n THEN 8
    ELSE IF 2 * sum >= 7 * n THEN 7
    ELSE IF 2 * sum >= 5 * n THEN 6
    ELSE IF 2 * sum >= 3 * n THEN 5
    ELSE 4

DailyDoublePayout(row, sum, n) == (MaxPointsForRow(row) * MultiplierQuarters(sum, n)) \div 4
=============================================================================
