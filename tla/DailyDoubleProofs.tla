-------------------------- MODULE DailyDoubleProofs --------------------------
(***************************************************************************)
(* The safety of DailyDouble for any players, cells, songs, sizes of a     *)
(* hand and of the curated list, and any number of games and boards.       *)
(***************************************************************************)
EXTENDS DailyDouble, TLAPS

(* An unplayed track is still counted in its cell. *)
TrackCounted == curTrack \in Cells /\ ~played => left[curTrack] > 0

(* Who may pick during a Daily Double is the performer, unpaid. *)
PickerPerforms ==
    state = "DAILY_DOUBLE" /\ cellPicker # None =>
        cellPicker = singer /\ paid = 0 /\ curTrack \in performed

-----------------------------------------------------------------------------
(* The parts of the invariant.                                             *)

(* The marker of a fade and the fades of the current round key. *)
LEMMA MarkerStep == MarkerIsAFade /\ HistoryTypes /\ [Next]_vars => MarkerIsAFade'
  <1> SUFFICES ASSUME MarkerIsAFade, HistoryTypes, [Next]_vars
               PROVE  MarkerIsAFade'
    OBVIOUS
  <1> USE ConstantsOK
         DEF vars, fadeVars, NewRoundKey, startTrack, startCellNormally, beginDailyDoubleOffer, selectCell,
             declineDailyDouble, StartFade, CheckComplete, Leaves, FadeOver, MarkerIsAFade, HistoryTypes
  <1>1. ASSUME NEW p \in Players, Disconnect(p)
        PROVE  MarkerIsAFade'
    BY <1>1 DEF Disconnect
  <1>2. ASSUME NEW p \in Players, NEW ban \in BOOLEAN, Kick(p, ban)
        PROVE  MarkerIsAFade'
    BY <1>2 DEF Kick
  <1>3. ASSUME NEW p \in Players, NEW song \in Songs, Choose(p, song)
        PROVE  MarkerIsAFade'
    BY <1>3 DEF Choose
  <1>4. ASSUME NEW p \in Players, ChooseOnVanishedCell(p)
        PROVE  MarkerIsAFade'
    BY <1>4 DEF ChooseOnVanishedCell
  <1>5. ASSUME Decline
        PROVE  MarkerIsAFade'
    BY <1>5 DEF Decline
  <1>6. ASSUME FadeOut
        PROVE  MarkerIsAFade'
    BY <1>6 DEF FadeOut
  <1>7. ASSUME NEW c \in Cells, AdminSelect(c)
        PROVE  MarkerIsAFade'
    BY <1>7 DEF AdminSelect
  <1>8. ASSUME NEW c \in Cells, NEW p \in Players, PickOnBoard(p, c)
        PROVE  MarkerIsAFade'
    BY <1>8 DEF PickOnBoard
  <1>9. ASSUME ResetToLobby
        PROVE  MarkerIsAFade'
    BY <1>9 DEF ResetToLobby
  <1>10. ASSUME FadeEnds
        PROVE  MarkerIsAFade'
    BY <1>10 DEF FadeEnds
  <1>11. ASSUME StaleFadeEnds
        PROVE  MarkerIsAFade'
    BY <1>11 DEF StaleFadeEnds
  <1>12. CASE UNCHANGED <<fading, fades>>
    BY <1>12
  <1>13. QED
    BY <1>1, <1>2, <1>3, <1>4, <1>5, <1>6, <1>7, <1>8, <1>9, <1>10, <1>11, <1>12
       DEF Next, People, Doubling, Game, Connect, Accept, Rate, EndPerformance, RoundWon,
           AdminSelectsNothing, AdminReveal, KaraokeEnds, EndRound, EndGame, StartGame, ReloadBoard

(* Who holds an open offer: departures, kicks and bans decline it. *)
LEMMA AnswerableStep == OfferTypes /\ OfferIsAnswerable /\ [Next]_vars => OfferIsAnswerable'
  <1> SUFFICES ASSUME OfferTypes, OfferIsAnswerable, [Next]_vars
               PROVE  OfferIsAnswerable'
    OBVIOUS
  <1> USE ConstantsOK
         DEF vars, peopleVars, startTrack, startCellNormally, beginDailyDoubleOffer, selectCell,
             declineDailyDouble, Finish, finishDailyDouble, Leaves, OfferTypes, Offers, States,
             OfferIsAnswerable, Contestants
  <1>1. ASSUME NEW p \in Players, Connect(p)
        PROVE  OfferIsAnswerable'
    BY <1>1 DEF Connect
  <1>2. ASSUME NEW p \in Players, Disconnect(p)
        PROVE  OfferIsAnswerable'
    BY <1>2 DEF Disconnect
  <1>3. ASSUME NEW p \in Players, NEW ban \in BOOLEAN, Kick(p, ban)
        PROVE  OfferIsAnswerable'
    BY <1>3 DEF Kick
  <1>4. ASSUME NEW p \in Players, Accept(p)
        PROVE  OfferIsAnswerable'
    BY <1>4 DEF Accept
  <1>5. ASSUME NEW p \in Players, NEW song \in Songs, Choose(p, song)
        PROVE  OfferIsAnswerable'
    BY <1>5 DEF Choose
  <1>6. ASSUME NEW p \in Players, ChooseOnVanishedCell(p)
        PROVE  OfferIsAnswerable'
    BY <1>6 DEF ChooseOnVanishedCell
  <1>7. ASSUME Decline
        PROVE  OfferIsAnswerable'
    BY <1>7 DEF Decline
  <1>8. ASSUME EndPerformance
        PROVE  OfferIsAnswerable'
    BY <1>8 DEF EndPerformance
  <1>9. ASSUME NEW c \in Cells, AdminSelect(c)
        PROVE  OfferIsAnswerable'
    BY <1>9 DEF AdminSelect
  <1>10. ASSUME NEW c \in Cells, NEW p \in Players, PickOnBoard(p, c)
        PROVE  OfferIsAnswerable'
    BY <1>10 DEF PickOnBoard
  <1>11. ASSUME NEW p \in Players, RoundWon(p)
        PROVE  OfferIsAnswerable'
    BY <1>11 DEF RoundWon
  <1>12. ASSUME AdminReveal
        PROVE  OfferIsAnswerable'
    BY <1>12 DEF AdminReveal
  <1>13. ASSUME KaraokeEnds
        PROVE  OfferIsAnswerable'
    BY <1>13 DEF KaraokeEnds
  <1>14. ASSUME EndRound
        PROVE  OfferIsAnswerable'
    BY <1>14 DEF EndRound
  <1>15. ASSUME EndGame
        PROVE  OfferIsAnswerable'
    BY <1>15 DEF EndGame
  <1>16. ASSUME ResetToLobby
        PROVE  OfferIsAnswerable'
    BY <1>16 DEF ResetToLobby
  <1>17. ASSUME StartGame
        PROVE  OfferIsAnswerable'
    BY <1>17 DEF StartGame
  <1>18. ASSUME FadeEnds
        PROVE  OfferIsAnswerable'
    BY <1>18 DEF FadeEnds
  <1>19. CASE UNCHANGED <<state, offer, online, banned>>
    BY <1>19
  <1>20. QED
    BY <1>1, <1>2, <1>3, <1>4, <1>5, <1>6, <1>7, <1>8, <1>9, <1>10, <1>11, <1>12, <1>13, <1>14, <1>15,
       <1>16, <1>17, <1>18, <1>19
       DEF Next, People, Doubling, Game, Rate, FadeOut, AdminSelectsNothing, ReloadBoard, StaleFadeEnds

(* Something to answer or to end. *)
Endable == state = "DAILY_DOUBLE" => offer # None \/ curTrack # None

LEMMA StrandedStep == OfferTypes /\ PeopleTypes /\ Endable /\ [Next]_vars => Endable'
  <1> SUFFICES ASSUME OfferTypes, PeopleTypes, Endable, [Next]_vars
               PROVE  Endable'
    OBVIOUS
  <1> USE ConstantsOK
         DEF vars, trackVars, NoTrack, startTrack, startCellNormally, beginDailyDoubleOffer, selectCell,
             declineDailyDouble, Finish, finishDailyDouble, Leaves, OfferTypes, PeopleTypes, Offers, States,
             Endable, Contestants, Performing
  <1>1. ASSUME NEW p \in Players, Disconnect(p)
        PROVE  Endable'
    BY <1>1 DEF Disconnect
  <1>2. ASSUME NEW p \in Players, NEW ban \in BOOLEAN, Kick(p, ban)
        PROVE  Endable'
    BY <1>2 DEF Kick
  <1>3. ASSUME NEW p \in Players, Accept(p)
        PROVE  Endable'
    BY <1>3 DEF Accept
  <1>4. ASSUME NEW p \in Players, NEW song \in Songs, Choose(p, song)
        PROVE  Endable'
    BY <1>4 DEF Choose
  <1>5. ASSUME NEW p \in Players, ChooseOnVanishedCell(p)
        PROVE  Endable'
    BY <1>5 DEF ChooseOnVanishedCell
  <1>6. ASSUME Decline
        PROVE  Endable'
    BY <1>6 DEF Decline
  <1>7. ASSUME EndPerformance
        PROVE  Endable'
    BY <1>7 DEF EndPerformance
  <1>8. ASSUME NEW c \in Cells, AdminSelect(c)
        PROVE  Endable'
    BY <1>8 DEF AdminSelect
  <1>9. ASSUME NEW c \in Cells, NEW p \in Players, PickOnBoard(p, c)
        PROVE  Endable'
    BY <1>9 DEF PickOnBoard
  <1>10. ASSUME NEW p \in Players, RoundWon(p)
        PROVE  Endable'
    BY <1>10 DEF RoundWon
  <1>11. ASSUME AdminReveal
        PROVE  Endable'
    BY <1>11 DEF AdminReveal
  <1>12. ASSUME KaraokeEnds
        PROVE  Endable'
    BY <1>12 DEF KaraokeEnds
  <1>13. ASSUME EndRound
        PROVE  Endable'
    BY <1>13 DEF EndRound
  <1>14. ASSUME EndGame
        PROVE  Endable'
    BY <1>14 DEF EndGame
  <1>15. ASSUME ResetToLobby
        PROVE  Endable'
    BY <1>15 DEF ResetToLobby
  <1>16. ASSUME StartGame
        PROVE  Endable'
    BY <1>16 DEF StartGame
  <1>17. ASSUME ReloadBoard
        PROVE  Endable'
    BY <1>17 DEF ReloadBoard
  <1>18. ASSUME FadeEnds
        PROVE  Endable'
    BY <1>18 DEF FadeEnds
  <1>19. CASE UNCHANGED <<state, offer, curTrack>>
    BY <1>19
  <1>20. QED
    BY <1>1, <1>2, <1>3, <1>4, <1>5, <1>6, <1>7, <1>8, <1>9, <1>10, <1>11, <1>12, <1>13, <1>14, <1>15,
       <1>16, <1>17, <1>18, <1>19
       DEF Next, People, Doubling, Game, Connect, Rate, FadeOut, AdminSelectsNothing, StaleFadeEnds

(* A performed song has left the bucket and the hand. *)
LEMMA SongsStep == OfferTypes /\ NoSongTwice /\ [Next]_vars => NoSongTwice'
  <1> SUFFICES ASSUME OfferTypes, NoSongTwice, [Next]_vars
               PROVE  NoSongTwice'
    OBVIOUS
  <1> USE ConstantsOK
         DEF vars, cellVars, history, bounds, beginDailyDoubleOffer, selectCell, declineDailyDouble, Finish,
             finishDailyDouble, Leaves, OfferTypes, Offers, NoSongTwice, Available, Hand, Unused
  <1>1. ASSUME NEW p \in Players, Disconnect(p)
        PROVE  NoSongTwice'
    BY <1>1 DEF Disconnect
  <1>2. ASSUME NEW p \in Players, NEW ban \in BOOLEAN, Kick(p, ban)
        PROVE  NoSongTwice'
    BY <1>2 DEF Kick
  <1>3. ASSUME NEW p \in Players, Accept(p)
        PROVE  NoSongTwice'
    BY <1>3 DEF Accept
  <1>4. ASSUME NEW p \in Players, NEW song \in Songs, Choose(p, song)
        PROVE  NoSongTwice'
    BY <1>4 DEF Choose
  <1>5. ASSUME NEW p \in Players, ChooseOnVanishedCell(p)
        PROVE  NoSongTwice'
    BY <1>5 DEF ChooseOnVanishedCell
  <1>6. ASSUME Decline
        PROVE  NoSongTwice'
    BY <1>6 DEF Decline
  <1>7. ASSUME NEW c \in Cells, AdminSelect(c)
        PROVE  NoSongTwice'
    BY <1>7 DEF AdminSelect
  <1>8. ASSUME NEW c \in Cells, NEW p \in Players, PickOnBoard(p, c)
        PROVE  NoSongTwice'
    BY <1>8 DEF PickOnBoard
  <1>9. ASSUME ResetToLobby
        PROVE  NoSongTwice'
    BY <1>9 DEF ResetToLobby
  <1>10. ASSUME ReloadBoard
        PROVE  NoSongTwice'
    BY <1>10 DEF ReloadBoard
  <1>11. CASE UNCHANGED <<reloaded, bucket, offer, performed>>
    BY <1>11
  <1>12. QED
    BY <1>1, <1>2, <1>3, <1>4, <1>5, <1>6, <1>7, <1>8, <1>9, <1>10, <1>11
       DEF Next, People, Doubling, Game, Connect, Rate, EndPerformance, FadeOut, RoundWon,
           AdminSelectsNothing, AdminReveal, KaraokeEnds, EndRound, EndGame, StartGame, FadeEnds,
           StaleFadeEnds

(* The picker of a Daily Double is its unpaid performer. *)
LEMMA PickerStep == OfferTypes /\ HistoryTypes /\ PickerPerforms /\ [Next]_vars => PickerPerforms'
  <1> SUFFICES ASSUME OfferTypes, HistoryTypes, PickerPerforms, [Next]_vars
               PROVE  PickerPerforms'
    OBVIOUS
  <1> USE ConstantsOK
         DEF vars, trackVars, history, NoTrack, startTrack, startCellNormally, beginDailyDoubleOffer,
             selectCell, declineDailyDouble, Payout, Finish, finishDailyDouble, Leaves, OfferTypes,
             HistoryTypes, Offers, States, PickerPerforms, Contestants, Performing
  <1>1. ASSUME NEW p \in Players, Disconnect(p)
        PROVE  PickerPerforms'
    BY <1>1 DEF Disconnect
  <1>2. ASSUME NEW p \in Players, NEW ban \in BOOLEAN, Kick(p, ban)
        PROVE  PickerPerforms'
    BY <1>2 DEF Kick
  <1>3. ASSUME NEW p \in Players, NEW song \in Songs, Choose(p, song)
        PROVE  PickerPerforms'
    BY <1>3 DEF Choose
  <1>4. ASSUME NEW p \in Players, ChooseOnVanishedCell(p)
        PROVE  PickerPerforms'
    BY <1>4 DEF ChooseOnVanishedCell
  <1>5. ASSUME Decline
        PROVE  PickerPerforms'
    BY <1>5 DEF Decline
  <1>6. ASSUME EndPerformance
        PROVE  PickerPerforms'
    BY <1>6 DEF EndPerformance
  <1>7. ASSUME NEW c \in Cells, AdminSelect(c)
        PROVE  PickerPerforms'
    BY <1>7 DEF AdminSelect
  <1>8. ASSUME NEW c \in Cells, NEW p \in Players, PickOnBoard(p, c)
        PROVE  PickerPerforms'
    BY <1>8 DEF PickOnBoard
  <1>9. ASSUME NEW p \in Players, RoundWon(p)
        PROVE  PickerPerforms'
    BY <1>9 DEF RoundWon
  <1>10. ASSUME AdminSelectsNothing
        PROVE  PickerPerforms'
    BY <1>10 DEF AdminSelectsNothing
  <1>11. ASSUME AdminReveal
        PROVE  PickerPerforms'
    BY <1>11 DEF AdminReveal
  <1>12. ASSUME KaraokeEnds
        PROVE  PickerPerforms'
    BY <1>12 DEF KaraokeEnds
  <1>13. ASSUME EndRound
        PROVE  PickerPerforms'
    BY <1>13 DEF EndRound
  <1>14. ASSUME EndGame
        PROVE  PickerPerforms'
    BY <1>14 DEF EndGame
  <1>15. ASSUME ResetToLobby
        PROVE  PickerPerforms'
    BY <1>15 DEF ResetToLobby
  <1>16. ASSUME StartGame
        PROVE  PickerPerforms'
    BY <1>16 DEF StartGame
  <1>17. ASSUME ReloadBoard
        PROVE  PickerPerforms'
    BY <1>17 DEF ReloadBoard
  <1>18. ASSUME FadeEnds
        PROVE  PickerPerforms'
    BY <1>18 DEF FadeEnds
  <1>19. CASE UNCHANGED <<state, cellPicker, singer, paid, curTrack, performed>>
    BY <1>19
  <1>20. QED
    BY <1>1, <1>2, <1>3, <1>4, <1>5, <1>6, <1>7, <1>8, <1>9, <1>10, <1>11, <1>12, <1>13, <1>14, <1>15,
       <1>16, <1>17, <1>18, <1>19
       DEF Next, People, Doubling, Game, Connect, Accept, Rate, FadeOut, StaleFadeEnds

(* The cells: a count goes down only for a track that was counted. *)
LEMMA CellStep == CellTypes /\ TrackTypes /\ OfferTypes /\ TrackCounted /\ [Next]_vars => CellTypes'
  <1> SUFFICES ASSUME CellTypes, TrackTypes, OfferTypes, TrackCounted, [Next]_vars
               PROVE  CellTypes'
    OBVIOUS
  <1> USE ConstantsOK
         DEF vars, cellVars, Consumed, beginDailyDoubleOffer, selectCell, Rearm, declineDailyDouble, Leaves,
             Triggers, Replacements, Contestants, Offers, States, Unused, Performing, CellTypes, TrackTypes,
             OfferTypes, PeopleTypes, TrackCounted
  <1>1. ASSUME NEW p \in Players, Disconnect(p)
        PROVE  CellTypes'
    BY <1>1 DEF Disconnect
  <1>2. ASSUME NEW p \in Players, NEW ban \in BOOLEAN, Kick(p, ban)
        PROVE  CellTypes'
    BY <1>2 DEF Kick
  <1>3. ASSUME NEW p \in Players, ChooseOnVanishedCell(p)
        PROVE  CellTypes'
    BY <1>3 DEF ChooseOnVanishedCell
  <1>4. ASSUME Decline
        PROVE  CellTypes'
    BY <1>4 DEF Decline
  <1>5. ASSUME NEW c \in Cells, AdminSelect(c)
        PROVE  CellTypes'
    BY <1>5 DEF AdminSelect
  <1>6. ASSUME NEW c \in Cells, NEW p \in Players, PickOnBoard(p, c)
        PROVE  CellTypes'
    BY <1>6 DEF PickOnBoard
  <1>7. ASSUME NEW p \in Players, RoundWon(p)
        PROVE  CellTypes'
    BY <1>7 DEF RoundWon
  <1>8. ASSUME AdminReveal
        PROVE  CellTypes'
    BY <1>8 DEF AdminReveal
  <1>9. ASSUME EndRound
        PROVE  CellTypes'
    BY <1>9 DEF EndRound
  <1>10. ASSUME ResetToLobby
        PROVE  CellTypes'
    BY <1>10 DEF ResetToLobby
  <1>11. ASSUME StartGame
        PROVE  CellTypes'
    BY <1>11 DEF StartGame
  <1>12. ASSUME ReloadBoard
        PROVE  CellTypes'
    BY <1>12 DEF ReloadBoard
  <1>13. CASE UNCHANGED <<board, armed, left, trigger, visits>>
    BY <1>13
  <1>14. QED
    BY <1>1, <1>2, <1>3, <1>4, <1>5, <1>6, <1>7, <1>8, <1>9, <1>10, <1>11, <1>12, <1>13
       DEF Next, People, Doubling, Game, Connect, Accept, Choose, Rate, EndPerformance, FadeOut,
           AdminSelectsNothing, KaraokeEnds, EndGame, FadeEnds, StaleFadeEnds

(* The track of a round is a cell's, a song or none. *)
LEMMA TrackStep == CellTypes /\ TrackTypes /\ OfferTypes /\ [Next]_vars => TrackTypes'
  <1> SUFFICES ASSUME CellTypes, TrackTypes, OfferTypes, [Next]_vars
               PROVE  TrackTypes'
    OBVIOUS
  <1> USE ConstantsOK
         DEF vars, trackVars, NoTrack, startTrack, startCellNormally, beginDailyDoubleOffer, selectCell,
             declineDailyDouble, Finish, finishDailyDouble, Leaves, Contestants, Offers, States, Unused,
             Performing, CellTypes, TrackTypes, OfferTypes, PeopleTypes
  <1>1. ASSUME NEW p \in Players, Disconnect(p)
        PROVE  TrackTypes'
    BY <1>1 DEF Disconnect
  <1>2. ASSUME NEW p \in Players, NEW ban \in BOOLEAN, Kick(p, ban)
        PROVE  TrackTypes'
    BY <1>2 DEF Kick
  <1>3. ASSUME NEW p \in Players, NEW song \in Songs, Choose(p, song)
        PROVE  TrackTypes'
    BY <1>3 DEF Choose
  <1>4. ASSUME NEW p \in Players, ChooseOnVanishedCell(p)
        PROVE  TrackTypes'
    BY <1>4 DEF ChooseOnVanishedCell
  <1>5. ASSUME Decline
        PROVE  TrackTypes'
    BY <1>5 DEF Decline
  <1>6. ASSUME EndPerformance
        PROVE  TrackTypes'
    BY <1>6 DEF EndPerformance
  <1>7. ASSUME NEW c \in Cells, AdminSelect(c)
        PROVE  TrackTypes'
    BY <1>7 DEF AdminSelect
  <1>8. ASSUME NEW c \in Cells, NEW p \in Players, PickOnBoard(p, c)
        PROVE  TrackTypes'
    BY <1>8 DEF PickOnBoard
  <1>9. ASSUME KaraokeEnds
        PROVE  TrackTypes'
    BY <1>9 DEF KaraokeEnds
  <1>10. ASSUME EndRound
        PROVE  TrackTypes'
    BY <1>10 DEF EndRound
  <1>11. ASSUME EndGame
        PROVE  TrackTypes'
    BY <1>11 DEF EndGame
  <1>12. ASSUME ResetToLobby
        PROVE  TrackTypes'
    BY <1>12 DEF ResetToLobby
  <1>13. ASSUME ReloadBoard
        PROVE  TrackTypes'
    BY <1>13 DEF ReloadBoard
  <1>14. ASSUME FadeEnds
        PROVE  TrackTypes'
    BY <1>14 DEF FadeEnds
  <1>15. CASE UNCHANGED <<curTrack, curRow>>
    BY <1>15
  <1>16. QED
    BY <1>1, <1>2, <1>3, <1>4, <1>5, <1>6, <1>7, <1>8, <1>9, <1>10, <1>11, <1>12, <1>13, <1>14, <1>15
       DEF Next, People, Doubling, Game, Connect, Accept, Rate, FadeOut, RoundWon, AdminSelectsNothing,
           AdminReveal, StartGame, StaleFadeEnds

(* The track of the round is one of its cell's. *)
LEMMA CountedStep == CellTypes /\ TrackTypes /\ OfferTypes /\ TrackCounted /\ [Next]_vars => TrackCounted'
  <1> SUFFICES ASSUME CellTypes, TrackTypes, OfferTypes, TrackCounted, [Next]_vars
               PROVE  TrackCounted'
    OBVIOUS
  <1> USE ConstantsOK
         DEF vars, cellVars, trackVars, NoTrack, startTrack, startCellNormally, Consumed,
             beginDailyDoubleOffer, selectCell, declineDailyDouble, Finish, finishDailyDouble, Leaves,
             Contestants, Offers, States, Unused, Performing, CellTypes, TrackTypes, OfferTypes,
             PeopleTypes, TrackCounted
  <1>1. ASSUME NEW p \in Players, Disconnect(p)
        PROVE  TrackCounted'
    BY <1>1 DEF Disconnect
  <1>2. ASSUME NEW p \in Players, NEW ban \in BOOLEAN, Kick(p, ban)
        PROVE  TrackCounted'
    BY <1>2 DEF Kick
  <1>3. ASSUME NEW p \in Players, NEW song \in Songs, Choose(p, song)
        PROVE  TrackCounted'
    BY <1>3 DEF Choose
  <1>4. ASSUME NEW p \in Players, ChooseOnVanishedCell(p)
        PROVE  TrackCounted'
    BY <1>4 DEF ChooseOnVanishedCell
  <1>5. ASSUME Decline
        PROVE  TrackCounted'
    BY <1>5 DEF Decline
  <1>6. ASSUME EndPerformance
        PROVE  TrackCounted'
    BY <1>6 DEF EndPerformance
  <1>7. ASSUME NEW c \in Cells, AdminSelect(c)
        PROVE  TrackCounted'
    BY <1>7 DEF AdminSelect
  <1>8. ASSUME NEW c \in Cells, NEW p \in Players, PickOnBoard(p, c)
        PROVE  TrackCounted'
    BY <1>8 DEF PickOnBoard
  <1>9. ASSUME NEW p \in Players, RoundWon(p)
        PROVE  TrackCounted'
    BY <1>9 DEF RoundWon
  <1>10. ASSUME AdminReveal
        PROVE  TrackCounted'
    BY <1>10 DEF AdminReveal
  <1>11. ASSUME KaraokeEnds
        PROVE  TrackCounted'
    BY <1>11 DEF KaraokeEnds
  <1>12. ASSUME EndRound
        PROVE  TrackCounted'
    BY <1>12 DEF EndRound
  <1>13. ASSUME EndGame
        PROVE  TrackCounted'
    BY <1>13 DEF EndGame
  <1>14. ASSUME ResetToLobby
        PROVE  TrackCounted'
    BY <1>14 DEF ResetToLobby
  <1>15. ASSUME ReloadBoard
        PROVE  TrackCounted'
    BY <1>15 DEF ReloadBoard
  <1>16. ASSUME FadeEnds
        PROVE  TrackCounted'
    BY <1>16 DEF FadeEnds
  <1>17. CASE UNCHANGED <<curTrack, played, left>>
    BY <1>17
  <1>18. QED
    BY <1>1, <1>2, <1>3, <1>4, <1>5, <1>6, <1>7, <1>8, <1>9, <1>10, <1>11, <1>12, <1>13, <1>14, <1>15,
       <1>16, <1>17
       DEF Next, People, Doubling, Game, Connect, Accept, Rate, FadeOut, AdminSelectsNothing, StartGame,
           StaleFadeEnds

(* The offer, its songs and those in the bucket. *)
LEMMA OfferStep == CellTypes /\ OfferTypes /\ PeopleTypes /\ [Next]_vars => OfferTypes'
  <1> SUFFICES ASSUME CellTypes, OfferTypes, PeopleTypes, [Next]_vars
               PROVE  OfferTypes'
    OBVIOUS
  <1> USE ConstantsOK
         DEF vars, cellVars, startTrack, startCellNormally, beginDailyDoubleOffer, selectCell,
             declineDailyDouble, Payout, Finish, finishDailyDouble, Leaves, Contestants, Offers, States,
             Unused, Performing, CellTypes, TrackTypes, OfferTypes, PeopleTypes
  <1>1. ASSUME NEW p \in Players, Disconnect(p)
        PROVE  OfferTypes'
    BY <1>1 DEF Disconnect
  <1>2. ASSUME NEW p \in Players, NEW ban \in BOOLEAN, Kick(p, ban)
        PROVE  OfferTypes'
    BY <1>2 DEF Kick
  <1>3. ASSUME NEW p \in Players, Accept(p)
        PROVE  OfferTypes'
    BY <1>3 DEF Accept
  <1>4. ASSUME NEW p \in Players, NEW song \in Songs, Choose(p, song)
        PROVE  OfferTypes'
    BY <1>4 DEF Choose
  <1>5. ASSUME NEW p \in Players, ChooseOnVanishedCell(p)
        PROVE  OfferTypes'
    BY <1>5 DEF ChooseOnVanishedCell
  <1>6. ASSUME Decline
        PROVE  OfferTypes'
    BY <1>6 DEF Decline
  <1>7. ASSUME EndPerformance
        PROVE  OfferTypes'
    BY <1>7 DEF EndPerformance
  <1>8. ASSUME NEW c \in Cells, AdminSelect(c)
        PROVE  OfferTypes'
    BY <1>8 DEF AdminSelect
  <1>9. ASSUME NEW c \in Cells, NEW p \in Players, PickOnBoard(p, c)
        PROVE  OfferTypes'
    BY <1>9 DEF PickOnBoard
  <1>10. ASSUME NEW p \in Players, RoundWon(p)
        PROVE  OfferTypes'
    BY <1>10 DEF RoundWon
  <1>11. ASSUME AdminSelectsNothing
        PROVE  OfferTypes'
    BY <1>11 DEF AdminSelectsNothing
  <1>12. ASSUME AdminReveal
        PROVE  OfferTypes'
    BY <1>12 DEF AdminReveal
  <1>13. ASSUME KaraokeEnds
        PROVE  OfferTypes'
    BY <1>13 DEF KaraokeEnds
  <1>14. ASSUME EndRound
        PROVE  OfferTypes'
    BY <1>14 DEF EndRound
  <1>15. ASSUME EndGame
        PROVE  OfferTypes'
    BY <1>15 DEF EndGame
  <1>16. ASSUME ResetToLobby
        PROVE  OfferTypes'
    BY <1>16 DEF ResetToLobby
  <1>17. ASSUME StartGame
        PROVE  OfferTypes'
    BY <1>17 DEF StartGame
  <1>18. ASSUME ReloadBoard
        PROVE  OfferTypes'
    BY <1>18 DEF ReloadBoard
  <1>19. ASSUME FadeEnds
        PROVE  OfferTypes'
    BY <1>19 DEF FadeEnds
  <1>20. CASE UNCHANGED <<state, offer, cellPicker, lastScorer, bucket>>
    BY <1>20
  <1>21. QED
    BY <1>1, <1>2, <1>3, <1>4, <1>5, <1>6, <1>7, <1>8, <1>9, <1>10, <1>11, <1>12, <1>13, <1>14, <1>15,
       <1>16, <1>17, <1>18, <1>19, <1>20
       DEF Next, People, Doubling, Game, Connect, Rate, FadeOut, StaleFadeEnds

(* People and their ratings. *)
LEMMA PeopleStep == PeopleTypes /\ [Next]_vars => PeopleTypes'
  <1> SUFFICES ASSUME PeopleTypes, [Next]_vars
               PROVE  PeopleTypes'
    OBVIOUS
  <1> USE ConstantsOK
         DEF vars, ratingVars, peopleVars, selectCell, Finish, finishDailyDouble, Leaves, PeopleTypes,
             NoRatings
  <1>1. ASSUME NEW p \in Players, Connect(p)
        PROVE  PeopleTypes'
    BY <1>1 DEF Connect
  <1>2. ASSUME NEW p \in Players, Disconnect(p)
        PROVE  PeopleTypes'
    BY <1>2 DEF Disconnect
  <1>3. ASSUME NEW p \in Players, NEW ban \in BOOLEAN, Kick(p, ban)
        PROVE  PeopleTypes'
    BY <1>3 DEF Kick
  <1>4. ASSUME NEW p \in Players, NEW song \in Songs, Choose(p, song)
        PROVE  PeopleTypes'
    BY <1>4 DEF Choose
  <1>5. ASSUME NEW p \in Players, NEW stars \in Stars, Rate(p, stars)
        PROVE  PeopleTypes'
    BY <1>5 DEF Rate
  <1>6. ASSUME EndPerformance
        PROVE  PeopleTypes'
    BY <1>6 DEF EndPerformance
  <1>7. ASSUME EndGame
        PROVE  PeopleTypes'
    BY <1>7 DEF EndGame
  <1>8. ASSUME ResetToLobby
        PROVE  PeopleTypes'
    BY <1>8 DEF ResetToLobby
  <1>9. ASSUME FadeEnds
        PROVE  PeopleTypes'
    BY <1>9 DEF FadeEnds
  <1>10. CASE UNCHANGED <<ratingPool, ratings, online, banned>>
    BY <1>10
  <1>11. QED
    BY <1>1, <1>2, <1>3, <1>4, <1>5, <1>6, <1>7, <1>8, <1>9, <1>10
       DEF Next, People, Doubling, Game, Accept, ChooseOnVanishedCell, Decline, FadeOut, AdminSelect,
           PickOnBoard, RoundWon, AdminSelectsNothing, AdminReveal, KaraokeEnds, EndRound, StartGame,
           ReloadBoard, StaleFadeEnds

(* Fades and what has been. *)
LEMMA HistoryStep == HistoryTypes /\ MarkerIsAFade /\ OfferTypes /\ [Next]_vars => HistoryTypes'
  <1> SUFFICES ASSUME HistoryTypes, MarkerIsAFade, OfferTypes, [Next]_vars
               PROVE  HistoryTypes'
    OBVIOUS
  <1> USE ConstantsOK
         DEF vars, fadeVars, history, bounds, NewRoundKey, startTrack, startCellNormally,
             beginDailyDoubleOffer, selectCell, declineDailyDouble, Payout, Finish, finishDailyDouble,
             StartFade, CheckComplete, Leaves, FadeOver, HistoryTypes, MarkerIsAFade, OfferTypes
  <1>1. ASSUME NEW p \in Players, Disconnect(p)
        PROVE  HistoryTypes'
    BY <1>1 DEF Disconnect
  <1>2. ASSUME NEW p \in Players, NEW ban \in BOOLEAN, Kick(p, ban)
        PROVE  HistoryTypes'
    BY <1>2 DEF Kick
  <1>3. ASSUME NEW p \in Players, NEW song \in Songs, Choose(p, song)
        PROVE  HistoryTypes'
    BY <1>3 DEF Choose
  <1>4. ASSUME NEW p \in Players, ChooseOnVanishedCell(p)
        PROVE  HistoryTypes'
    BY <1>4 DEF ChooseOnVanishedCell
  <1>5. ASSUME Decline
        PROVE  HistoryTypes'
    BY <1>5 DEF Decline
  <1>6. ASSUME EndPerformance
        PROVE  HistoryTypes'
    BY <1>6 DEF EndPerformance
  <1>7. ASSUME FadeOut
        PROVE  HistoryTypes'
    BY <1>7 DEF FadeOut
  <1>8. ASSUME NEW c \in Cells, AdminSelect(c)
        PROVE  HistoryTypes'
    BY <1>8 DEF AdminSelect
  <1>9. ASSUME NEW c \in Cells, NEW p \in Players, PickOnBoard(p, c)
        PROVE  HistoryTypes'
    BY <1>9 DEF PickOnBoard
  <1>10. ASSUME EndGame
        PROVE  HistoryTypes'
    BY <1>10 DEF EndGame
  <1>11. ASSUME ResetToLobby
        PROVE  HistoryTypes'
    BY <1>11 DEF ResetToLobby
  <1>12. ASSUME ReloadBoard
        PROVE  HistoryTypes'
    BY <1>12 DEF ReloadBoard
  <1>13. ASSUME FadeEnds
        PROVE  HistoryTypes'
    BY <1>13 DEF FadeEnds
  <1>14. ASSUME StaleFadeEnds
        PROVE  HistoryTypes'
    BY <1>14 DEF StaleFadeEnds
  <1>15. CASE UNCHANGED <<fades, performed, singer, paid, games, reloads>>
    BY <1>15
  <1>16. QED
    BY <1>1, <1>2, <1>3, <1>4, <1>5, <1>6, <1>7, <1>8, <1>9, <1>10, <1>11, <1>12, <1>13, <1>14, <1>15
       DEF Next, People, Doubling, Game, Connect, Accept, Rate, RoundWon, AdminSelectsNothing,
           AdminReveal, KaraokeEnds, EndRound, StartGame

(* The flags stay Boolean. *)
LEMMA FlagStep == FlagTypes /\ [Next]_vars => FlagTypes'
  <1> SUFFICES ASSUME FlagTypes, [Next]_vars
               PROVE  FlagTypes'
    OBVIOUS
  <1> USE ConstantsOK
         DEF vars, trackVars, fadeVars, bounds, NewRoundKey, NoTrack, startTrack, startCellNormally,
             beginDailyDoubleOffer, selectCell, declineDailyDouble, Finish, finishDailyDouble, StartFade,
             CheckComplete, Leaves, FadeOver, FlagTypes
  <1>1. ASSUME NEW p \in Players, Disconnect(p)
        PROVE  FlagTypes'
    BY <1>1 DEF Disconnect
  <1>2. ASSUME NEW p \in Players, NEW ban \in BOOLEAN, Kick(p, ban)
        PROVE  FlagTypes'
    BY <1>2 DEF Kick
  <1>3. ASSUME NEW p \in Players, NEW song \in Songs, Choose(p, song)
        PROVE  FlagTypes'
    BY <1>3 DEF Choose
  <1>4. ASSUME NEW p \in Players, ChooseOnVanishedCell(p)
        PROVE  FlagTypes'
    BY <1>4 DEF ChooseOnVanishedCell
  <1>5. ASSUME Decline
        PROVE  FlagTypes'
    BY <1>5 DEF Decline
  <1>6. ASSUME EndPerformance
        PROVE  FlagTypes'
    BY <1>6 DEF EndPerformance
  <1>7. ASSUME FadeOut
        PROVE  FlagTypes'
    BY <1>7 DEF FadeOut
  <1>8. ASSUME NEW c \in Cells, AdminSelect(c)
        PROVE  FlagTypes'
    BY <1>8 DEF AdminSelect
  <1>9. ASSUME NEW c \in Cells, NEW p \in Players, PickOnBoard(p, c)
        PROVE  FlagTypes'
    BY <1>9 DEF PickOnBoard
  <1>10. ASSUME NEW p \in Players, RoundWon(p)
        PROVE  FlagTypes'
    BY <1>10 DEF RoundWon
  <1>11. ASSUME AdminReveal
        PROVE  FlagTypes'
    BY <1>11 DEF AdminReveal
  <1>12. ASSUME KaraokeEnds
        PROVE  FlagTypes'
    BY <1>12 DEF KaraokeEnds
  <1>13. ASSUME EndRound
        PROVE  FlagTypes'
    BY <1>13 DEF EndRound
  <1>14. ASSUME EndGame
        PROVE  FlagTypes'
    BY <1>14 DEF EndGame
  <1>15. ASSUME ResetToLobby
        PROVE  FlagTypes'
    BY <1>15 DEF ResetToLobby
  <1>16. ASSUME ReloadBoard
        PROVE  FlagTypes'
    BY <1>16 DEF ReloadBoard
  <1>17. ASSUME FadeEnds
        PROVE  FlagTypes'
    BY <1>17 DEF FadeEnds
  <1>18. CASE UNCHANGED <<played, fading, reloaded>>
    BY <1>18
  <1>19. QED
    BY <1>1, <1>2, <1>3, <1>4, <1>5, <1>6, <1>7, <1>8, <1>9, <1>10, <1>11, <1>12, <1>13, <1>14, <1>15,
       <1>16, <1>17, <1>18
       DEF Next, People, Doubling, Game, Connect, Accept, Rate, AdminSelectsNothing, StartGame,
           StaleFadeEnds

(* Where songs go during a Daily Double. *)
LEMMA KeepsSongsStep == OfferTypes /\ PeopleTypes /\ NoSongTwice /\ [Next]_vars => KeepsSongs
  <1> SUFFICES ASSUME OfferTypes, PeopleTypes, NoSongTwice, [Next]_vars
               PROVE  KeepsSongs
    OBVIOUS
  <1> USE ConstantsOK
         DEF vars, cellVars, beginDailyDoubleOffer, selectCell, declineDailyDouble, Finish,
             finishDailyDouble, Leaves, Contestants, Offers, States, Unused, Performing, CellTypes,
             TrackTypes, OfferTypes, PeopleTypes, KeepsSongs, Available, Hand
  <1>1. ASSUME NEW p \in Players, Disconnect(p)
        PROVE  KeepsSongs
    BY <1>1 DEF Disconnect
  <1>2. ASSUME NEW p \in Players, NEW ban \in BOOLEAN, Kick(p, ban)
        PROVE  KeepsSongs
    BY <1>2 DEF Kick
  <1>3. ASSUME NEW p \in Players, Accept(p)
        PROVE  KeepsSongs
    BY <1>3 DEF Accept
  <1>4. ASSUME NEW p \in Players, NEW song \in Songs, Choose(p, song)
        PROVE  KeepsSongs
    BY <1>4 DEF Choose
  <1>5. ASSUME NEW p \in Players, ChooseOnVanishedCell(p)
        PROVE  KeepsSongs
    BY <1>5 DEF ChooseOnVanishedCell
  <1>6. ASSUME Decline
        PROVE  KeepsSongs
    BY <1>6 DEF Decline
  <1>7. ASSUME NEW c \in Cells, AdminSelect(c)
        PROVE  KeepsSongs
    BY <1>7 DEF AdminSelect
  <1>8. ASSUME NEW c \in Cells, NEW p \in Players, PickOnBoard(p, c)
        PROVE  KeepsSongs
    BY <1>8 DEF PickOnBoard
  <1>9. ASSUME ResetToLobby
        PROVE  KeepsSongs
    BY <1>9 DEF ResetToLobby
  <1>10. ASSUME ReloadBoard
        PROVE  KeepsSongs
    BY <1>10 DEF ReloadBoard
  <1>11. CASE UNCHANGED <<bucket, offer>>
    BY <1>11
  <1>12. QED
    BY <1>1, <1>2, <1>3, <1>4, <1>5, <1>6, <1>7, <1>8, <1>9, <1>10, <1>11
       DEF Next, People, Doubling, Game, Connect, Rate, EndPerformance, FadeOut, RoundWon,
           AdminSelectsNothing, AdminReveal, KaraokeEnds, EndRound, EndGame, StartGame, FadeEnds,
           StaleFadeEnds

(* Where a payout comes from. *)
LEMMA PaysStep == OfferTypes /\ HistoryTypes /\ PickerPerforms /\ [Next]_vars => PaysTheSinger
  <1> SUFFICES ASSUME OfferTypes, HistoryTypes, PickerPerforms, [Next]_vars
               PROVE  PaysTheSinger
    OBVIOUS
  <1> USE ConstantsOK
         DEF vars, history, selectCell, Payout, Finish, finishDailyDouble, Contestants, Offers, States,
             Unused, Performing, CellTypes, TrackTypes, OfferTypes, PeopleTypes, HistoryTypes,
             PickerPerforms, PaysTheSinger
  <1>1. ASSUME NEW p \in Players, NEW song \in Songs, Choose(p, song)
        PROVE  PaysTheSinger
    BY <1>1 DEF Choose
  <1>2. ASSUME EndPerformance
        PROVE  PaysTheSinger
    BY <1>2 DEF EndPerformance
  <1>3. ASSUME EndGame
        PROVE  PaysTheSinger
    BY <1>3 DEF EndGame
  <1>4. ASSUME ResetToLobby
        PROVE  PaysTheSinger
    BY <1>4 DEF ResetToLobby
  <1>5. ASSUME FadeEnds
        PROVE  PaysTheSinger
    BY <1>5 DEF FadeEnds
  <1>6. CASE UNCHANGED <<paid>>
    BY <1>6
  <1>7. QED
    BY <1>1, <1>2, <1>3, <1>4, <1>5, <1>6
       DEF Next, People, Doubling, Game, Connect, Disconnect, Kick, Accept, ChooseOnVanishedCell, Rate,
           Decline, FadeOut, AdminSelect, PickOnBoard, RoundWon, AdminSelectsNothing, AdminReveal,
           KaraokeEnds, EndRound, StartGame, ReloadBoard, StaleFadeEnds

-----------------------------------------------------------------------------
(* Together. *)

IInv ==
    /\ TypeOK /\ TrackCounted /\ PickerPerforms
    /\ MarkerIsAFade /\ OfferIsAnswerable /\ Endable /\ NoSongTwice

LEMMA InitInv == Init => IInv
  <1> SUFFICES ASSUME Init
               PROVE  IInv
    OBVIOUS
  <1> USE ConstantsOK DEF Init
  <1>1. CellTypes /\ TrackTypes /\ OfferTypes
    BY DEF CellTypes, TrackTypes, OfferTypes, States
  <1>2. PeopleTypes /\ HistoryTypes
    BY DEF PeopleTypes, HistoryTypes, NoRatings
  <1>3. FlagTypes
    BY DEF FlagTypes
  <1>4. TrackCounted /\ PickerPerforms /\ MarkerIsAFade
    BY DEF TrackCounted, PickerPerforms, MarkerIsAFade
  <1>5. OfferIsAnswerable /\ Endable /\ NoSongTwice
    BY DEF OfferIsAnswerable, Endable, NoSongTwice, Available, Hand
  <1>6. QED
    BY <1>1, <1>2, <1>3, <1>4, <1>5 DEF IInv, TypeOK

LEMMA NextInv == IInv /\ [Next]_vars => IInv'
  BY CellStep, TrackStep, OfferStep, PeopleStep, HistoryStep, FlagStep, CountedStep, PickerStep,
     MarkerStep, AnswerableStep, StrandedStep, SongsStep
     DEF IInv, TypeOK

(* The inductive invariant of a Daily Double. *)
THEOREM DailyDoubleInvariant == Spec => []IInv
  BY InitInv, NextInv, PTL DEF Spec

(* Every variable stays in its type. *)
THEOREM TypeCorrect == Spec => []TypeOK
  BY DailyDoubleInvariant, PTL DEF IInv

(* No song is drawn, held or performed twice in a game whose board stays,  *)
(* however offers, refusals, skips and the ends of games follow each other. *)
THEOREM SongsAreNotRepeated == Spec => []NoSongTwice
  BY DailyDoubleInvariant, PTL DEF IInv

(* The contestant of an open offer is connected and may answer it, among   *)
(* any number of departures, kicks and bans.                               *)
THEOREM OffersAreAnswerable == Spec => []OfferIsAnswerable
  BY DailyDoubleInvariant, PTL DEF IInv

(* A Daily Double always has an offer to answer or a performance to end,   *)
(* and no marker outlives its fade, so that the order to end it counts.    *)
THEOREM DailyDoublesEnd == Spec => []NeverStranded
  BY DailyDoubleInvariant, PTL DEF IInv, Endable, NeverStranded

(* Songs in the bucket or in an offered hand do not get lost during a      *)
(* Daily Double.                                                           *)
THEOREM SongsAreKept == Spec => SongsStay
  <1>1. IInv /\ [Next]_vars => [KeepsSongs]_vars
    BY KeepsSongsStep DEF IInv, TypeOK
  <1>2. QED
    BY <1>1, DailyDoubleInvariant, PTL DEF Spec, SongsStay

(* Whatever ends a performance, and however often it is ended, its singer  *)
(* is paid at most once and nobody else is.                                *)
THEOREM PerformancesPayOnce == Spec => PaysOncePerSong
  <1>1. IInv /\ [Next]_vars => [PaysTheSinger]_vars
    BY PaysStep DEF IInv, TypeOK
  <1>2. QED
    BY <1>1, DailyDoubleInvariant, PTL DEF Spec, PaysOncePerSong

=============================================================================
