---------------------------- MODULE ScoringProofs ----------------------------
(***************************************************************************)
(* Facts about the arithmetic of Scoring, for every row, pool and time.    *)
(***************************************************************************)
EXTENDS Scoring, TLAPS

(* A row is worth between 100 and 200 points. *)
LEMMA RowCeiling ==
    ASSUME NEW row \in Int
    PROVE  /\ MaxPointsForRow(row) \in Nat
           /\ 100 <= MaxPointsForRow(row)
           /\ MaxPointsForRow(row) <= 200
  BY DEF MaxPointsForRow, RowQuarters, BaseValue

(* Sharing b out over the decay: s of its 55000 ms are left. *)
Span       == DecayEndMs - DecayHoldMs
Left       == {s \in Nat : 0 < s /\ s < Span}
ShareInRange(b, s) ==
    /\ (b * s) \div Span \in 0 .. b
    /\ b > 0 /\ (b * s) % Span = 0 => (b * s) \div Span >= 1

(* The share stays between 0 and b, and is at least 1 when something is    *)
(* left and the division is exact.                                         *)
LEMMA ShareOfBonus == \A b \in Nat, s \in Left : ShareInRange(b, s)
  <1> SUFFICES ASSUME NEW b \in Nat, NEW s \in Left
               PROVE  ShareInRange(b, s)
    OBVIOUS
  <1> DEFINE x == b * s
  <1>0. s \in Nat /\ 1 <= s /\ s <= 54999 /\ Span = 55000
    BY DEF Left, Span, DecayEndMs, DecayHoldMs
  <1>1. x \in Nat /\ x <= b * 55000 /\ (b > 0 => x > 0)
    <2>1. b * s \in Nat
      BY <1>0
    <2>2. b * s <= b * 55000
      <3>1. b * (55000 - s) >= 0
        BY <1>0
      <3>2. b * (55000 - s) = b * 55000 - b * s
        BY <1>0
      <3>3. QED
        BY <3>1, <3>2, <2>1
    <2>3. b > 0 => b * s > 0
      BY <1>0
    <2>4. QED
      BY <2>1, <2>2, <2>3
  <1> HIDE DEF x
  <1>2. /\ x \div Span \in 0 .. b
        /\ b > 0 /\ x % Span = 0 => x \div Span >= 1
    BY <1>0, <1>1
  <1>3. QED
    BY <1>2 DEF x, ShareInRange

(* Whatever float64 does at an integer, a pool never pays more than its    *)
(* ceiling nor less than its floor.                                        *)
THEOREM PoolBounds ==
    ASSUME NEW maxP \in Nat, NEW baseP \in Nat, baseP <= maxP, NEW t \in Nat,
           NEW pts \in CurrentPointsFromPool(maxP, baseP, t)
    PROVE  pts \in baseP .. maxP
  <1> DEFINE b == maxP - baseP
             s == DecayEndMs - t
  <1>1. CASE t <= DecayHoldMs
    BY <1>1 DEF CurrentPointsFromPool, DecayExact, FallsOnInteger, DecayHoldMs
  <1>2. CASE t >= DecayEndMs
    BY <1>2 DEF CurrentPointsFromPool, DecayExact, FallsOnInteger, DecayHoldMs, DecayEndMs
  <1>3. CASE t > DecayHoldMs /\ t < DecayEndMs
    <2>1. b \in Nat /\ s \in Left /\ maxP = baseP + b
      BY <1>3 DEF DecayHoldMs, DecayEndMs, Left, Span
    <2>2. /\ DecayExact(maxP, baseP, t) = baseP + ((b * s) \div Span)
          /\ FallsOnInteger(maxP, baseP, t) => b > 0 /\ (b * s) % Span = 0
      BY <1>3 DEF DecayExact, FallsOnInteger, DecayHoldMs, DecayEndMs, Span
    <2> HIDE DEF b, s
    <2>3. ShareInRange(b, s)
      BY <2>1, ShareOfBonus
    <2>4. QED
      BY <2>1, <2>2, <2>3 DEF CurrentPointsFromPool, ShareInRange
  <1>4. QED
    BY <1>1, <1>2, <1>3 DEF DecayHoldMs, DecayEndMs

(* A karaoke is skipped by at least one vote, never needs more votes than  *)
(* there are voters, and below 100 % needs strictly more than the share.   *)
THEOREM NeedVotesBounds ==
    ASSUME NEW active \in Nat \ {0}, NEW pct \in 0 .. 100
    PROVE  /\ NeedVotes(active, pct) \in 1 .. active
           /\ NeedVotes(active, pct) = active \/ NeedVotes(active, pct) * 100 > active * pct
  <1> DEFINE x == active * pct
  <1>1. x \in Nat
    OBVIOUS
  <1>2. NeedVotes(active, pct) =
            IF pct >= 100 THEN active
            ELSE IF (x \div 100) + 1 > active THEN active ELSE (x \div 100) + 1
    BY DEF NeedVotes
  <1> HIDE DEF x
  <1>3. /\ NeedVotes(active, pct) \in 1 .. active
        /\ NeedVotes(active, pct) = active \/ NeedVotes(active, pct) * 100 > x
    BY <1>1, <1>2
  <1>4. QED
    BY <1>3 DEF x
=============================================================================
