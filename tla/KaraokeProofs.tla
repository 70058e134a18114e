---------------------------- MODULE KaraokeProofs ----------------------------
(***************************************************************************)
(* The safety of Karaoke for any finite set of players, any cells, tracks, *)
(* thresholds, and any number of karaokes and games.  One invariant is     *)
(* proved inductive, part by part; nothing is assumed about the order in   *)
(* which votes, picks, departures, countdowns and admins come.             *)
(***************************************************************************)
EXTENDS Karaoke, ScoringProofs, FiniteSetTheorems

(* Who may vote is here: departures leave the pool. *)
PoolPresent == votingPool \subseteq online

(* The screen counts down only while a goroutine sleeps. *)
CountdownRuns == state = "TRANSITION" => countdowns > 0

(* An unplayed track is still counted in its cell; a played one is played  *)
(* because its answer was shown.                                           *)
TrackInv ==
    /\ track # None /\ ~played => left[track] > 0
    /\ played = shownNow

(* Once the condition was met, the other half has not been in, and it will *)
(* find the flag set if there is anybody to bring it.                      *)
GateInv ==
    state = "KARAOKE" /\ condition =>
        /\ pendingPick = None
        /\ cellPicker # None => karaokeReady

TypeInv == GateTypes /\ FlagTypes /\ PeopleTypes /\ PoolPresent /\ CountdownRuns
SpentInv == TrackTypes /\ TrackInv /\ SpentOnce

IInv == TypeInv /\ SpentInv /\ GateInv /\ NoMissedMajority

-----------------------------------------------------------------------------
(* The parts of the invariant.                                             *)

(* State, gate and people. *)
LEMMA TypeStep == TypeInv /\ TrackTypes /\ [Next]_vars => TypeInv'
  <1> SUFFICES ASSUME TypeInv, TrackTypes, [Next]_vars
               PROVE  TypeInv'
    OBVIOUS
  <1> USE ConstantsOK
         DEF TypeInv, TrackTypes, GateTypes, FlagTypes, PeopleTypes, PoolPresent, CountdownRuns, States,
             StaysPut, StartsCountdown, NoTrack, enterKaraoke, karaokeConditionMet, startTrack,
             DailyDoubleEnds, selectCell, LeavesPool, MayPick,
             vars, gateVars, voteVars,
             trackVars, peopleVars, bounds
  <1>1. ASSUME NEW p \in Players, Hello(p)
        PROVE  TypeInv'
    BY <1>1 DEF Hello
  <1>2. ASSUME NEW p \in Players, Gone(p)
        PROVE  TypeInv'
    <2>1. GateTypes'
      BY <1>2 DEF Gone
    <2>2. FlagTypes'
      BY <1>2 DEF Gone
    <2>3. PeopleTypes'
      BY <1>2 DEF Gone
    <2>4. PoolPresent'
      BY <1>2 DEF Gone
    <2>5. CountdownRuns'
      BY <1>2 DEF Gone
    <2>6. QED
      BY <2>1, <2>2, <2>3, <2>4, <2>5
  <1>3. ASSUME NEW p \in Players, NEW ban \in BOOLEAN, Kick(p, ban)
        PROVE  TypeInv'
    <2>1. GateTypes'
      BY <1>3 DEF Kick
    <2>2. FlagTypes'
      BY <1>3 DEF Kick
    <2>3. PeopleTypes'
      BY <1>3 DEF Kick
    <2>4. PoolPresent'
      BY <1>3 DEF Kick
    <2>5. CountdownRuns'
      BY <1>3 DEF Kick
    <2>6. QED
      BY <2>1, <2>2, <2>3, <2>4, <2>5
  <1>4. ASSUME StartGame
        PROVE  TypeInv'
    BY <1>4 DEF StartGame
  <1>5. ASSUME EndGame
        PROVE  TypeInv'
    BY <1>5 DEF EndGame
  <1>6. ASSUME ResetToLobby
        PROVE  TypeInv'
    BY <1>6 DEF ResetToLobby
  <1>7. ASSUME RoundWon
        PROVE  TypeInv'
    <2>1. GateTypes'
      BY <1>7 DEF RoundWon
    <2>2. FlagTypes'
      BY <1>7 DEF RoundWon
    <2>3. PeopleTypes'
      BY <1>7 DEF RoundWon
    <2>4. PoolPresent'
      BY <1>7 DEF RoundWon
    <2>5. CountdownRuns'
      BY <1>7 DEF RoundWon
    <2>6. QED
      BY <2>1, <2>2, <2>3, <2>4, <2>5
  <1>8. ASSUME RoundReopened
        PROVE  TypeInv'
    BY <1>8 DEF RoundReopened
  <1>9. ASSUME RoundUnwon
        PROVE  TypeInv'
    <2>1. GateTypes'
      BY <1>9 DEF RoundUnwon
    <2>2. FlagTypes'
      BY <1>9 DEF RoundUnwon
    <2>3. PeopleTypes'
      BY <1>9 DEF RoundUnwon
    <2>4. PoolPresent'
      BY <1>9 DEF RoundUnwon
    <2>5. CountdownRuns'
      BY <1>9 DEF RoundUnwon
    <2>6. QED
      BY <2>1, <2>2, <2>3, <2>4, <2>5
  <1>10. ASSUME AdminReveal
        PROVE  TypeInv'
    <2>1. GateTypes'
      BY <1>10 DEF AdminReveal
    <2>2. FlagTypes'
      BY <1>10 DEF AdminReveal
    <2>3. PeopleTypes'
      BY <1>10 DEF AdminReveal
    <2>4. PoolPresent'
      BY <1>10 DEF AdminReveal
    <2>5. CountdownRuns'
      BY <1>10 DEF AdminReveal
    <2>6. QED
      BY <2>1, <2>2, <2>3, <2>4, <2>5
  <1>11. ASSUME EndRound
        PROVE  TypeInv'
    BY <1>11 DEF EndRound
  <1>12. ASSUME NEW c \in Cells, AdminSelect(c)
        PROVE  TypeInv'
    BY <1>12 DEF AdminSelect
  <1>13. ASSUME NEW c \in Cells, AdminSelectsExhausted(c)
        PROVE  TypeInv'
    BY <1>13 DEF AdminSelectsExhausted
  <1>14. ASSUME NEW p \in Players, TakesFloor(p)
        PROVE  TypeInv'
    BY <1>14 DEF TakesFloor
  <1>15. ASSUME NEW p \in Players, Vote(p)
        PROVE  TypeInv'
    <2>1. GateTypes'
      BY <1>15 DEF Vote
    <2>2. FlagTypes'
      BY <1>15 DEF Vote
    <2>3. PeopleTypes'
      BY <1>15 DEF Vote
    <2>4. PoolPresent'
      BY <1>15 DEF Vote
    <2>5. CountdownRuns'
      BY <1>15 DEF Vote
    <2>6. QED
      BY <2>1, <2>2, <2>3, <2>4, <2>5
  <1>16. ASSUME NEW p \in Players, NEW c \in Cells, PickOnBoard(p, c)
        PROVE  TypeInv'
    BY <1>16 DEF PickOnBoard
  <1>17. ASSUME NEW p \in Players, NEW c \in Cells, PickInKaraoke(p, c)
        PROVE  TypeInv'
    BY <1>17 DEF PickInKaraoke
  <1>18. ASSUME NEW v \in Thresholds, SetThreshold(v)
        PROVE  TypeInv'
    <2>1. GateTypes'
      BY <1>18 DEF SetThreshold
    <2>2. FlagTypes'
      BY <1>18 DEF SetThreshold
    <2>3. PeopleTypes'
      BY <1>18 DEF SetThreshold
    <2>4. PoolPresent'
      BY <1>18 DEF SetThreshold
    <2>5. CountdownRuns'
      BY <1>18 DEF SetThreshold
    <2>6. QED
      BY <2>1, <2>2, <2>3, <2>4, <2>5
  <1>19. ASSUME TrackEnded
        PROVE  TypeInv'
    <2>1. GateTypes'
      BY <1>19 DEF TrackEnded
    <2>2. FlagTypes'
      BY <1>19 DEF TrackEnded
    <2>3. PeopleTypes'
      BY <1>19 DEF TrackEnded
    <2>4. PoolPresent'
      BY <1>19 DEF TrackEnded
    <2>5. CountdownRuns'
      BY <1>19 DEF TrackEnded
    <2>6. QED
      BY <2>1, <2>2, <2>3, <2>4, <2>5
  <1>20. ASSUME CountdownStale
        PROVE  TypeInv'
    BY <1>20 DEF CountdownStale
  <1>21. ASSUME CountdownPlaysPick
        PROVE  TypeInv'
    BY <1>21 DEF CountdownPlaysPick, PickCanStart
  <1>22. ASSUME CountdownToBoard
        PROVE  TypeInv'
    <2>1. GateTypes'
      BY <1>22 DEF CountdownToBoard
    <2>2. FlagTypes'
      BY <1>22 DEF CountdownToBoard
    <2>3. PeopleTypes'
      BY <1>22 DEF CountdownToBoard
    <2>4. PoolPresent'
      BY <1>22 DEF CountdownToBoard
    <2>5. CountdownRuns'
      BY <1>22 DEF CountdownToBoard
    <2>6. QED
      BY <2>1, <2>2, <2>3, <2>4, <2>5
  <1>23. ASSUME UNCHANGED vars
        PROVE  TypeInv'
    BY <1>23 DEF vars
  <1>24. QED
    BY <1>1, <1>2, <1>3, <1>4, <1>5, <1>6, <1>7, <1>8, <1>9, <1>10, <1>11,
       <1>12, <1>13, <1>14, <1>15, <1>16, <1>17, <1>18, <1>19, <1>20, <1>21, <1>22, <1>23
       DEF Next, People, Game, Singing, Countdown

(* consumeTrack takes the current track out of its cell, if it is in. *)
LEMMA Consumed ==
    ASSUME SpentInv
    PROVE  /\ ConsumedLeft \in [Cells -> 0 .. Tracks]
           /\ \A c \in Cells :
                  ConsumedLeft[c] = IF c = track /\ ~played THEN left[c] - 1 ELSE left[c]
  <1> USE ConstantsOK DEF SpentInv, TrackTypes, TrackInv, ConsumedLeft
  <1>1. CASE track # None /\ ~played
    <2>1. track \in Cells /\ left[track] \in 1 .. Tracks
      BY <1>1
    <2>2. QED
      BY <1>1, <2>1
  <1>2. CASE track = None \/ played
    BY <1>2
  <1>3. QED
    BY <1>1, <1>2

(* Showing the answer of a track counts it where it is taken from. *)
LEMMA ShownIsSpent ==
    ASSUME SpentInv, consumeTrackShown, buzzWinner' = None
    PROVE  SpentInv'
  <1> USE ConstantsOK, Consumed DEF SpentInv, TrackTypes, TrackInv, SpentOnce, Counted
  <1>1. /\ left' \in [Cells -> 0 .. Tracks]
        /\ \A c \in Cells : left'[c] = IF c = track /\ ~played THEN left[c] - 1 ELSE left[c]
    BY DEF consumeTrackShown
  <1>2. /\ shown' \in [Cells -> Nat]
        /\ \A c \in Cells : shown'[c] = IF c = track /\ ~played THEN shown[c] + 1 ELSE shown[c]
    <2>1. CASE track # None /\ ~shownNow
      BY <2>1 DEF consumeTrackShown
    <2>2. CASE track = None \/ shownNow
      BY <2>2 DEF consumeTrackShown
    <2>3. QED
      BY <2>1, <2>2
  <1>3. SpentOnce'
    <2>1. SUFFICES ASSUME NEW c \in Cells
                   PROVE  left'[c] + shown'[c] + skipped'[c] = Tracks
      OBVIOUS
    <2>2. /\ left[c] + shown[c] + skipped[c] = Tracks
          /\ left[c] \in Int /\ shown[c] \in Int /\ skipped[c] \in Int
      OBVIOUS
    <2>3. skipped' = skipped
      BY DEF consumeTrackShown
    <2>4. QED
      BY <1>1, <1>2, <2>2, <2>3
  <1>4. /\ track' = track /\ skipped' = skipped
        /\ played' = (track # None) /\ shownNow' = (track # None)
    BY DEF consumeTrackShown
  <1>5. TrackInv'
    BY <1>4
  <1>6. TrackTypes'
    BY <1>1, <1>2, <1>4
  <1>7. QED
    BY <1>3, <1>5, <1>6

(* Tracks: what is shown leaves its cell. *)
LEMMA SpentStep == TypeInv /\ SpentInv /\ [Next]_vars => SpentInv'
  <1> SUFFICES ASSUME TypeInv, SpentInv, [Next]_vars
               PROVE  SpentInv'
    OBVIOUS
  <1> USE ConstantsOK
         DEF SpentInv, TrackTypes, TrackInv, SpentOnce,
             StaysPut, StartsCountdown, NoTrack, enterKaraoke, karaokeConditionMet, startTrack,
             DailyDoubleEnds, selectCell, LeavesPool, MayPick,
             vars, gateVars, voteVars,
             trackVars, peopleVars, bounds
  <1>1. ASSUME NEW p \in Players, Hello(p)
        PROVE  SpentInv'
    BY <1>1 DEF Hello
  <1>2. ASSUME NEW p \in Players, Gone(p)
        PROVE  SpentInv'
    BY <1>2 DEF Gone
  <1>3. ASSUME NEW p \in Players, NEW ban \in BOOLEAN, Kick(p, ban)
        PROVE  SpentInv'
    BY <1>3 DEF Kick
  <1>4. ASSUME StartGame
        PROVE  SpentInv'
    BY <1>4 DEF StartGame
  <1>5. ASSUME EndGame
        PROVE  SpentInv'
    BY <1>5 DEF EndGame
  <1>6. ASSUME ResetToLobby
        PROVE  SpentInv'
    <2>1. \A c \in Cells : left'[c] = Tracks /\ shown'[c] = 0 /\ skipped'[c] = 0
      BY <1>6 DEF ResetToLobby
    <2>2. /\ left' \in [Cells -> 0 .. Tracks]
          /\ shown' \in [Cells -> Nat] /\ skipped' \in [Cells -> Nat]
      BY <1>6 DEF ResetToLobby
    <2>3. SpentOnce'
      BY <2>1
    <2>4. TrackTypes' /\ TrackInv'
      BY <1>6, <2>2 DEF ResetToLobby
    <2>5. QED
      BY <2>3, <2>4
  <1>7. ASSUME RoundWon
        PROVE  SpentInv'
    BY <1>7, ShownIsSpent DEF RoundWon
  <1>8. ASSUME RoundReopened
        PROVE  SpentInv'
    BY <1>8 DEF RoundReopened
  <1>9. ASSUME RoundUnwon
        PROVE  SpentInv'
    BY <1>9, ShownIsSpent DEF RoundUnwon
  <1>10. ASSUME AdminReveal
        PROVE  SpentInv'
    BY <1>10, ShownIsSpent DEF AdminReveal
  <1>11. ASSUME EndRound
        PROVE  SpentInv'
    <2>1. /\ left' \in [Cells -> 0 .. Tracks]
          /\ \A c \in Cells : left'[c] = IF c = track /\ ~played THEN left[c] - 1 ELSE left[c]
      BY <1>11, Consumed DEF EndRound
    <2>2. /\ skipped' \in [Cells -> Nat]
          /\ \A c \in Cells :
                skipped'[c] = IF c = track /\ ~played THEN skipped[c] + 1 ELSE skipped[c]
      <3>1. CASE track # None /\ ~shownNow
        BY <1>11, <3>1 DEF EndRound, Counted
      <3>2. CASE track = None \/ shownNow
        BY <1>11, <3>2 DEF EndRound, Counted
      <3>3. QED
        BY <3>1, <3>2
    <2>3. SpentOnce'
      <3>1. SUFFICES ASSUME NEW c \in Cells
                     PROVE  left'[c] + shown'[c] + skipped'[c] = Tracks
        OBVIOUS
      <3>2. /\ left[c] + shown[c] + skipped[c] = Tracks
            /\ left[c] \in Int /\ shown[c] \in Int /\ skipped[c] \in Int
        OBVIOUS
      <3>3. shown' = shown
        BY <1>11 DEF EndRound
      <3>4. QED
        BY <2>1, <2>2, <3>2, <3>3
    <2>4. TrackTypes' /\ TrackInv'
      BY <1>11, <2>1, <2>2 DEF EndRound
    <2>5. QED
      BY <2>3, <2>4
  <1>12. ASSUME NEW c \in Cells, AdminSelect(c)
        PROVE  SpentInv'
    BY <1>12 DEF AdminSelect
  <1>13. ASSUME NEW c \in Cells, AdminSelectsExhausted(c)
        PROVE  SpentInv'
    BY <1>13 DEF AdminSelectsExhausted
  <1>14. ASSUME NEW p \in Players, TakesFloor(p)
        PROVE  SpentInv'
    BY <1>14 DEF TakesFloor
  <1>15. ASSUME NEW p \in Players, Vote(p)
        PROVE  SpentInv'
    BY <1>15 DEF Vote
  <1>16. ASSUME NEW p \in Players, NEW c \in Cells, PickOnBoard(p, c)
        PROVE  SpentInv'
    BY <1>16 DEF PickOnBoard
  <1>17. ASSUME NEW p \in Players, NEW c \in Cells, PickInKaraoke(p, c)
        PROVE  SpentInv'
    BY <1>17 DEF PickInKaraoke
  <1>18. ASSUME NEW v \in Thresholds, SetThreshold(v)
        PROVE  SpentInv'
    BY <1>18 DEF SetThreshold
  <1>19. ASSUME TrackEnded
        PROVE  SpentInv'
    BY <1>19 DEF TrackEnded
  <1>20. ASSUME CountdownStale
        PROVE  SpentInv'
    BY <1>20 DEF CountdownStale
  <1>21. ASSUME CountdownPlaysPick
        PROVE  SpentInv'
    BY <1>21 DEF CountdownPlaysPick, PickCanStart
  <1>22. ASSUME CountdownToBoard
        PROVE  SpentInv'
    BY <1>22 DEF CountdownToBoard
  <1>23. ASSUME UNCHANGED vars
        PROVE  SpentInv'
    BY <1>23 DEF vars
  <1>24. QED
    BY <1>1, <1>2, <1>3, <1>4, <1>5, <1>6, <1>7, <1>8, <1>9, <1>10, <1>11,
       <1>12, <1>13, <1>14, <1>15, <1>16, <1>17, <1>18, <1>19, <1>20, <1>21, <1>22, <1>23
       DEF Next, People, Game, Singing, Countdown

(* The gate: a first half waits with the flag set, a second one opens it. *)
LEMMA GateStep == TypeInv /\ GateInv /\ [Next]_vars => GateInv'
  <1> SUFFICES ASSUME TypeInv, GateInv, [Next]_vars
               PROVE  GateInv'
    OBVIOUS
  <1> USE ConstantsOK
         DEF TypeInv, GateTypes, GateInv, States,
             StaysPut, StartsCountdown, NoTrack, enterKaraoke, karaokeConditionMet, startTrack,
             DailyDoubleEnds, selectCell, LeavesPool, MayPick,
             vars, gateVars, voteVars,
             trackVars, peopleVars, bounds
  <1>1. ASSUME NEW p \in Players, Hello(p)
        PROVE  GateInv'
    BY <1>1 DEF Hello
  <1>2. ASSUME NEW p \in Players, Gone(p)
        PROVE  GateInv'
    BY <1>2 DEF Gone
  <1>3. ASSUME NEW p \in Players, NEW ban \in BOOLEAN, Kick(p, ban)
        PROVE  GateInv'
    BY <1>3 DEF Kick
  <1>4. ASSUME StartGame
        PROVE  GateInv'
    BY <1>4 DEF StartGame
  <1>5. ASSUME EndGame
        PROVE  GateInv'
    BY <1>5 DEF EndGame
  <1>6. ASSUME ResetToLobby
        PROVE  GateInv'
    BY <1>6 DEF ResetToLobby
  <1>7. ASSUME RoundWon
        PROVE  GateInv'
    BY <1>7 DEF RoundWon
  <1>8. ASSUME RoundReopened
        PROVE  GateInv'
    BY <1>8 DEF RoundReopened
  <1>9. ASSUME RoundUnwon
        PROVE  GateInv'
    BY <1>9 DEF RoundUnwon
  <1>10. ASSUME AdminReveal
        PROVE  GateInv'
    BY <1>10 DEF AdminReveal
  <1>11. ASSUME EndRound
        PROVE  GateInv'
    BY <1>11 DEF EndRound
  <1>12. ASSUME NEW c \in Cells, AdminSelect(c)
        PROVE  GateInv'
    BY <1>12 DEF AdminSelect
  <1>13. ASSUME NEW c \in Cells, AdminSelectsExhausted(c)
        PROVE  GateInv'
    BY <1>13 DEF AdminSelectsExhausted
  <1>14. ASSUME NEW p \in Players, TakesFloor(p)
        PROVE  GateInv'
    BY <1>14 DEF TakesFloor
  <1>15. ASSUME NEW p \in Players, Vote(p)
        PROVE  GateInv'
    BY <1>15 DEF Vote
  <1>16. ASSUME NEW p \in Players, NEW c \in Cells, PickOnBoard(p, c)
        PROVE  GateInv'
    BY <1>16 DEF PickOnBoard
  <1>17. ASSUME NEW p \in Players, NEW c \in Cells, PickInKaraoke(p, c)
        PROVE  GateInv'
    BY <1>17 DEF PickInKaraoke
  <1>18. ASSUME NEW v \in Thresholds, SetThreshold(v)
        PROVE  GateInv'
    BY <1>18 DEF SetThreshold
  <1>19. ASSUME TrackEnded
        PROVE  GateInv'
    BY <1>19 DEF TrackEnded
  <1>20. ASSUME CountdownStale
        PROVE  GateInv'
    BY <1>20 DEF CountdownStale
  <1>21. ASSUME CountdownPlaysPick
        PROVE  GateInv'
    BY <1>21 DEF CountdownPlaysPick, PickCanStart
  <1>22. ASSUME CountdownToBoard
        PROVE  GateInv'
    BY <1>22 DEF CountdownToBoard
  <1>23. ASSUME UNCHANGED vars
        PROVE  GateInv'
    BY <1>23 DEF vars
  <1>24. QED
    BY <1>1, <1>2, <1>3, <1>4, <1>5, <1>6, <1>7, <1>8, <1>9, <1>10, <1>11,
       <1>12, <1>13, <1>14, <1>15, <1>16, <1>17, <1>18, <1>19, <1>20, <1>21, <1>22, <1>23
       DEF Next, People, Game, Singing, Countdown

(* Without a vote there is no majority. *)
LEMMA NoVoteNoMajority ==
    ASSUME NEW pool \in SUBSET Players, NEW here, NEW threshold \in 50 .. 100
    PROVE  ~VotesSuffice(pool, {}, here, threshold)
  <1> DEFINE electorate == pool \cap here
  <1>1. SUFFICES ASSUME electorate # {}
                 PROVE  ~(Cardinality({}) >= NeedVotes(Cardinality(electorate), threshold))
    <2>1. {} \cap electorate = {}
      OBVIOUS
    <2>2. QED
      BY <2>1 DEF VotesSuffice
  <1>2. IsFiniteSet(electorate)
    BY ConstantsOK, FS_Subset DEF ConstantsOK
  <1> HIDE DEF electorate
  <1>3. Cardinality(electorate) \in Nat \ {0}
    BY <1>1, <1>2, FS_CardinalityType, FS_EmptySet
  <1>4. NeedVotes(Cardinality(electorate), threshold) \in 1 .. Cardinality(electorate)
    <2>1. threshold \in 0 .. 100
      OBVIOUS
    <2>2. QED
      BY <1>3, <2>1, NeedVotesBounds
  <1>5. Cardinality({}) = 0
    BY FS_EmptySet
  <1>6. QED
    BY <1>3, <1>4, <1>5

(* Majorities: every change of what VotesSuffice reads asks it again. *)
LEMMA MajorityStep == TypeInv /\ NoMissedMajority /\ [Next]_vars => NoMissedMajority'
  <1> SUFFICES ASSUME TypeInv, NoMissedMajority, [Next]_vars
               PROVE  NoMissedMajority'
    OBVIOUS
  <1> USE ConstantsOK
         DEF TypeInv, NoMissedMajority,
             StaysPut, StartsCountdown, NoTrack, enterKaraoke, karaokeConditionMet, startTrack,
             DailyDoubleEnds, selectCell, LeavesPool, MayPick,
             vars, gateVars, voteVars,
             trackVars, peopleVars, bounds
  <1>1. ASSUME NEW p \in Players, Hello(p)
        PROVE  NoMissedMajority'
    <2>1. votingPool \cap online' = votingPool \cap online
      BY <1>1 DEF Hello, PoolPresent
    <2>2. VotesSuffice(votingPool, votes, online', pct) <=> VotesSuffice(votingPool, votes, online, pct)
      BY <2>1 DEF VotesSuffice
    <2>3. QED
      BY <1>1, <2>2 DEF Hello
  <1>2. ASSUME NEW p \in Players, Gone(p)
        PROVE  NoMissedMajority'
    BY <1>2 DEF Gone
  <1>3. ASSUME NEW p \in Players, NEW ban \in BOOLEAN, Kick(p, ban)
        PROVE  NoMissedMajority'
    BY <1>3 DEF Kick
  <1>4. ASSUME StartGame
        PROVE  NoMissedMajority'
    BY <1>4 DEF StartGame
  <1>5. ASSUME EndGame
        PROVE  NoMissedMajority'
    BY <1>5 DEF EndGame
  <1>6. ASSUME ResetToLobby
        PROVE  NoMissedMajority'
    BY <1>6 DEF ResetToLobby
  <1>7. ASSUME RoundWon
        PROVE  NoMissedMajority'
    <2>1. votingPool' \in SUBSET Players /\ votes' = {} /\ pct' \in 50 .. 100
      BY <1>7 DEF RoundWon, PeopleTypes
    <2>2. QED
      BY <1>7, <2>1, NoVoteNoMajority DEF RoundWon
  <1>8. ASSUME RoundReopened
        PROVE  NoMissedMajority'
    BY <1>8 DEF RoundReopened
  <1>9. ASSUME RoundUnwon
        PROVE  NoMissedMajority'
    <2>1. votingPool' \in SUBSET Players /\ votes' = {} /\ pct' \in 50 .. 100
      BY <1>9 DEF RoundUnwon, PeopleTypes
    <2>2. QED
      BY <1>9, <2>1, NoVoteNoMajority DEF RoundUnwon
  <1>10. ASSUME AdminReveal
        PROVE  NoMissedMajority'
    <2>1. votingPool' \in SUBSET Players /\ votes' = {} /\ pct' \in 50 .. 100
      BY <1>10 DEF AdminReveal, PeopleTypes
    <2>2. QED
      BY <1>10, <2>1, NoVoteNoMajority DEF AdminReveal
  <1>11. ASSUME EndRound
        PROVE  NoMissedMajority'
    BY <1>11 DEF EndRound
  <1>12. ASSUME NEW c \in Cells, AdminSelect(c)
        PROVE  NoMissedMajority'
    BY <1>12 DEF AdminSelect
  <1>13. ASSUME NEW c \in Cells, AdminSelectsExhausted(c)
        PROVE  NoMissedMajority'
    BY <1>13 DEF AdminSelectsExhausted
  <1>14. ASSUME NEW p \in Players, TakesFloor(p)
        PROVE  NoMissedMajority'
    BY <1>14 DEF TakesFloor
  <1>15. ASSUME NEW p \in Players, Vote(p)
        PROVE  NoMissedMajority'
    BY <1>15 DEF Vote
  <1>16. ASSUME NEW p \in Players, NEW c \in Cells, PickOnBoard(p, c)
        PROVE  NoMissedMajority'
    BY <1>16 DEF PickOnBoard
  <1>17. ASSUME NEW p \in Players, NEW c \in Cells, PickInKaraoke(p, c)
        PROVE  NoMissedMajority'
    BY <1>17 DEF PickInKaraoke
  <1>18. ASSUME NEW v \in Thresholds, SetThreshold(v)
        PROVE  NoMissedMajority'
    BY <1>18 DEF SetThreshold
  <1>19. ASSUME TrackEnded
        PROVE  NoMissedMajority'
    BY <1>19 DEF TrackEnded
  <1>20. ASSUME CountdownStale
        PROVE  NoMissedMajority'
    BY <1>20 DEF CountdownStale
  <1>21. ASSUME CountdownPlaysPick
        PROVE  NoMissedMajority'
    BY <1>21 DEF CountdownPlaysPick, PickCanStart
  <1>22. ASSUME CountdownToBoard
        PROVE  NoMissedMajority'
    BY <1>22 DEF CountdownToBoard
  <1>23. ASSUME UNCHANGED vars
        PROVE  NoMissedMajority'
    BY <1>23 DEF vars
  <1>24. QED
    BY <1>1, <1>2, <1>3, <1>4, <1>5, <1>6, <1>7, <1>8, <1>9, <1>10, <1>11,
       <1>12, <1>13, <1>14, <1>15, <1>16, <1>17, <1>18, <1>19, <1>20, <1>21, <1>22, <1>23
       DEF Next, People, Game, Singing, Countdown

-----------------------------------------------------------------------------
(* The theorems.                                                           *)

LEMMA InitInv == Init => IInv
  <1> SUFFICES ASSUME Init
               PROVE  IInv
    OBVIOUS
  <1> USE ConstantsOK DEF Init
  <1>1. TypeInv
    <2>1. GateTypes
      BY DEF GateTypes, States
    <2>2. FlagTypes
      BY DEF FlagTypes
    <2>3. PeopleTypes
      BY DEF PeopleTypes
    <2>4. PoolPresent /\ CountdownRuns
      BY DEF PoolPresent, CountdownRuns
    <2>5. QED
      BY <2>1, <2>2, <2>3, <2>4 DEF TypeInv
  <1>2. SpentInv
    <2>1. /\ left \in [Cells -> 0 .. Tracks]
          /\ shown \in [Cells -> Nat] /\ skipped \in [Cells -> Nat]
      OBVIOUS
    <2>2. TrackTypes
      BY <2>1 DEF TrackTypes
    <2>3. TrackInv
      BY DEF TrackInv
    <2>4. SpentOnce
      BY DEF SpentOnce
    <2>5. QED
      BY <2>2, <2>3, <2>4 DEF SpentInv
  <1>3. GateInv /\ NoMissedMajority
    BY DEF GateInv, NoMissedMajority
  <1>4. QED
    BY <1>1, <1>2, <1>3 DEF IInv

LEMMA NextInv == IInv /\ [Next]_vars => IInv'
  BY TypeStep, SpentStep, GateStep, MajorityStep DEF IInv, SpentInv

(* The inductive invariant of a karaoke and of what leads into and out of  *)
(* it.                                                                     *)
THEOREM KaraokeInvariant == Spec => []IInv
  BY InitInv, NextInv, PTL DEF Spec

(* Every variable stays in its type. *)
THEOREM TypeCorrect == Spec => []TypeOK
  <1>1. IInv => TypeOK
    BY DEF IInv, TypeInv, SpentInv, TypeOK
  <1>2. QED
    BY <1>1, KaraokeInvariant, PTL

(* A majority is never overlooked, whatever tips it: a vote, a departure,  *)
(* a kick or a threshold, among any number of voters.                      *)
THEOREM MajoritiesAreNoticed == Spec => []NoMissedMajority
  <1>1. IInv => NoMissedMajority
    BY DEF IInv
  <1>2. QED
    BY <1>1, KaraokeInvariant, PTL

(* A karaoke whose condition was met has no pick waiting in it. *)
THEOREM GateIsOpened == Spec => []GateOpens
  <1>1. IInv => GateOpens
    BY DEF IInv, GateInv, GateOpens
  <1>2. QED
    BY <1>1, KaraokeInvariant, PTL

(* In any game, of any length, a cell's pool has lost exactly the tracks   *)
(* whose answer was shown and those that were closed without one: none     *)
(* twice, and none of them can be played again.                            *)
THEOREM TracksAreSpentOnce == Spec => []SpentOnce
  <1>1. IInv => SpentOnce
    BY DEF IInv, SpentInv
  <1>2. QED
    BY <1>1, KaraokeInvariant, PTL

(* The screen never counts down without a goroutine that will end it: the  *)
(* safety half of TransitionEnds.                                          *)
THEOREM CountdownsRun == Spec => []CountdownRuns
  <1>1. IInv => CountdownRuns
    BY DEF IInv, TypeInv
  <1>2. QED
    BY <1>1, KaraokeInvariant, PTL

=============================================================================
