--------------------------------- MODULE Chess --------------------------------
(***************************************************************************)
(* A game of libchess (src/src/libchess/Chess.cc, State.cc, History.cc),   *)
(* as GameChess plays it: verifyAndMakeMove for every move of a player     *)
(* until the game has ended, and the text of the moves from which          *)
(* interpretHistoryMoves rebuilds an adjourned game.                       *)
(*                                                                         *)
(* The code tests a move by making it on the one board and taking it back; *)
(* makeMove and TakeBack are those two halves.  The game starts in one of  *)
(* Openings, positions a game from the initial one can be in, right after  *)
(* an irreversible move, and is followed for the opening's number of plies.*)
(***************************************************************************)
EXTENDS ChessBasedGame, SequencesExt

CONSTANT Openings    \* records [board, turn, castle, enpassant, plies]

VARIABLES
  game,              \* the Chess object: gameboard, current_state, history, _turn
  history_moves,     \* GameChess: the accepted moves, with explicit promotions
  opening            \* the element of Openings the game started from

vars == <<game, history_moves, opening>>

Promotions == {QUEEN, ROOK, BISHOP, KNIGHT}

ChessState(board, turn, castle, enpassant, halfmoves) ==
  [board_fen |-> board, turn |-> turn, castle |-> castle,
   enpassant |-> enpassant, halfmoves |-> halfmoves]

\* Chess::Chess: the state is put in the history and copied
NewChess(o) ==
  LET state == ChessState(o.board, o.turn, o.castle, o.enpassant, 0)
  IN [gameboard |-> o.board, current_state |-> state,
      history |-> <<state>>, turn |-> o.turn]

-----------------------------------------------------------------------------
(* Making a move and taking it back.                                       *)

verifyCastle(board, mv) == TypeAt(board, mv.from) = KING /\ distx(mv) = 2

LastLine(color) == IF color = White THEN 7 ELSE 0

(* Chess::makeMove: a castling brings the rook, a capture en passant       *)
(* removes the pawn beside, a pawn on the last line is promoted.           *)
makeMove(board, mv) ==
  LET rook == <<IF mv.to[1] < mv.from[1] THEN 0 ELSE 7, mv.from[2]>>
      next == <<(mv.from[1] + mv.to[1]) \div 2, mv.from[2]>>
      castled == IF verifyCastle(board, mv) THEN MovePiece(board, rook, next) ELSE board
      passed == IF verifyEnPassant(board, mv)
                THEN Clear(castled, <<mv.to[1], mv.from[2]>>) ELSE castled
      moved == MovePiece(passed, mv.from, mv.to)
  IN IF TypeAt(moved, mv.to) = PAWN /\ mv.to[2] = LastLine(mv.color)
     THEN createPiece(moved, mv.to,
            Piece(mv.color, IF mv.promotion \in Promotions THEN mv.promotion ELSE QUEEN))
     ELSE moved

(* Mutant: only a castling is taken back from the state's board. *)
SpecialMoveCastleOnly(board, mv) == verifyCastle(board, mv)

SpecialMove(board, mv) == verifyCastle(board, mv) \/ verifyEnPassant(board, mv)

(* The end of willBeInCheck: the two squares get back what they held, or   *)
(* the board is read again from the state.                                 *)
TakeBack(made, board, state, mv) ==
  LET put(b, pos) == IF pos \in DOMAIN board THEN createPiece(b, pos, board[pos])
                                             ELSE Clear(b, pos)
  IN IF SpecialMove(board, mv) THEN state.board_fen
     ELSE put(put(made, mv.from), mv.to)

willBeInCheck(board, state, mv) == verifyCheck(makeMove(board, mv), state, mv.color)

(* Mutant: a pinned piece may move. *)
verifyMovePinned(board, state, mv) ==
  /\ verifyPieceMove(board, state, mv)
  /\ TypeAt(board, mv.from) = KING => ~willBeInCheck(board, state, mv)

verifyMove(board, state, mv) ==
  verifyPieceMove(board, state, mv) /\ ~willBeInCheck(board, state, mv)

getPositions(board, state, pos) ==
  {to \in getpossiblePositions(board, pos) :
     verifyMove(board, state, ChessMove(pos, to, ColorAt(board, pos)))}

-----------------------------------------------------------------------------
(* The end of the game.                                                    *)

(* No piece of the player has a square to go to.                           *)
NoPositions(g, player) ==
  \A pos \in DOMAIN g.gameboard :
    g.gameboard[pos].color = player => getPositions(g.gameboard, g.current_state, pos) = {}

verifyCheckMate(g, player) ==
  verifyCheck(g.gameboard, g.current_state, player) /\ NoPositions(g, player)

verifyStaleMate(g, player) ==
  ~verifyCheck(g.gameboard, g.current_state, player) /\ NoPositions(g, player)

(* ChessState::operator== : not the counters.                              *)
SameState(s, t) == [s EXCEPT !.halfmoves = 0] = [t EXCEPT !.halfmoves = 0]

(* Only the states since the last irreversible move are compared, every    *)
(* second one.                                                             *)
verifyThreefoldRepetition(g) ==
  LET last == Len(g.history)
      n == g.history[last].halfmoves
      equal == {i \in 1..n : i % 2 = 0 /\ SameState(g.history[last - i], g.history[last])}
  IN Cardinality(equal) + 1 >= 3

verifyImpossibilityOfCheckmate(g) ==
  LET men(color) == {pos \in DOMAIN g.gameboard : g.gameboard[pos].color = color}
      w == Cardinality(men(White))
      b == Cardinality(men(Black))
      type(pos) == g.gameboard[pos].type
      minor(color) == \E pos \in men(color) : type(pos) \in {BISHOP, KNIGHT}
      shade(pos) == (pos[1] + pos[2]) % 2
  IN \/ w = 1 /\ b = 1
     \/ w = 1 /\ b = 2 /\ minor(Black)
     \/ w = 2 /\ b = 1 /\ minor(White)
     \/ /\ w = 2 /\ b = 2
        /\ \E p \in men(White), q \in men(Black) :
             type(p) = BISHOP /\ type(q) = BISHOP /\ shade(p) = shade(q)

(* Chess::verifyDraw, the codes in the order they are tested.              *)
verifyDraw(g) ==
  CASE verifyThreefoldRepetition(g) -> 1
    [] ~verifyThreefoldRepetition(g) /\ verifyImpossibilityOfCheckmate(g) -> 2
    [] OTHER -> IF g.current_state.halfmoves >= 50 THEN 3
                ELSE IF verifyStaleMate(g, g.turn) THEN 4 ELSE 0

-----------------------------------------------------------------------------
(* A move of the game.                                                     *)

RookHomes == [right \in {"Q", "K", "q", "k"} |->
  CASE right = "Q" -> <<<<0, 0>>, White>> [] right = "K" -> <<<<7, 0>>, White>>
    [] right = "q" -> <<<<0, 7>>, Black>> [] right = "k" -> <<<<7, 7>>, Black>>]

(* The rights that are left: not those of a king that moved, nor those     *)
(* whose rook is no longer at home.                                        *)
RightsLeft(board, castle, mv) ==
  {right \in castle :
     /\ ~(TypeAt(board, mv.to) = KING /\ RookHomes[right][2] = mv.color)
     /\ RookHomes[right][1] \in DOMAIN board
     /\ board[RookHomes[right][1]] = Piece(RookHomes[right][2], ROOK)}

(* updateState, on the board after the move.  A capture is a change of the *)
(* number of empty squares; a promoted pawn is no pawn any more and leaves *)
(* the counter running.                                                    *)
updateState(state, board, mv) ==
  LET pawn == TypeAt(board, mv.to) = PAWN
      captured == Cardinality(DOMAIN state.board_fen) # Cardinality(DOMAIN board)
      passed == <<mv.to[1], mv.to[2] + (IF mv.color = White THEN -1 ELSE 1)>>
  IN ChessState(board, Opponent(state.turn),
       RightsLeft(board, state.castle, mv),
       IF pawn /\ disty(mv) = 2 THEN passed ELSE NoSquare,
       IF pawn \/ captured THEN 0 ELSE state.halfmoves + 1)

(* updateMove: makeMove, updateState, updateHistory, updateTurn.           *)
updateMove(g, mv) ==
  LET board == makeMove(g.gameboard, mv)
      state == updateState(g.current_state, board, mv)
  IN [gameboard |-> board, current_state |-> state,
      history |-> Append(g.history, state), turn |-> Opponent(g.turn)]

hasThePawnPromoted(g, mv) ==
  TypeAt(g.gameboard, mv.from) = PAWN /\ mv.to[2] = LastLine(mv.color)

(* GameChess::realDone, of a game that ends by itself (auto_flag).         *)
done(g) == verifyCheckMate(g, g.turn) \/ verifyDraw(g) # 0

(* Mutant: the letter of a promotion is not written. *)
RecordedWithoutLetter(g, mv) == [mv EXCEPT !.promotion = NoType]

(* The long notation of the move: a queen is written out.                  *)
RecordedMove(g, mv) ==
  IF hasThePawnPromoted(g, mv) /\ mv.promotion = NoType
  THEN [mv EXCEPT !.promotion = QUEEN] ELSE mv

(* interpretHistoryMoves: the moves are made again, unverified.            *)
interpretHistoryMoves(o, moves) ==
  FoldLeft(LAMBDA g, mv : updateMove(g, [mv EXCEPT !.color = g.turn]), NewChess(o), moves)

Init ==
  /\ opening \in Openings
  /\ game = NewChess(opening)
  /\ history_moves = <<>>

(* GameChess::move through Chess::verifyAndMakeMove.  A letter of          *)
(* promotion is accepted with any move; it is enumerated where it counts.  *)
move(from, to, letter) ==
  LET mv == [from |-> from, to |-> to, color |-> game.turn, promotion |-> letter] IN
  /\ letter = NoType \/ hasThePawnPromoted(game, mv)
  /\ verifyMove(game.gameboard, game.current_state, mv)
  /\ game' = updateMove(game, mv)
  /\ history_moves' = Append(history_moves, RecordedMove(game, mv))
  /\ UNCHANGED opening

Next ==
  /\ Len(history_moves) < opening.plies
  /\ ~done(game)
  /\ \E from \in DOMAIN game.gameboard, to \in Squares, letter \in Promotions \cup {NoType} :
       move(from, to, letter)

Spec == Init /\ [][Next]_vars

-----------------------------------------------------------------------------
(* Properties.                                                             *)

Laws == INSTANCE LawsOfChess

Accepted ==
  {<<from, to>> \in (DOMAIN game.gameboard) \X Squares :
     verifyMove(game.gameboard, game.current_state, ChessMove(from, to, game.turn))}

AcceptedCastlings ==
  {mv \in Accepted : verifyCastle(game.gameboard, ChessMove(mv[1], mv[2], game.turn))}

(* The moves verifyMove accepts, castling aside, are the legal ones of the *)
(* reference: pins, checks, captures en passant that uncover the king.     *)
(* And no legal castling is refused.                                       *)
MovesAreLegal ==
  LET s == game.current_state IN
  /\ Accepted \ AcceptedCastlings = Laws!PlainMoves(game.gameboard, s.enpassant, game.turn)
  /\ Laws!Castlings(game.gameboard, s.castle, game.turn) \subseteq AcceptedCastlings

(* Trying a move to see whether the king would be in check leaves the one  *)
(* board as it was, for every candidate of both players.                   *)
TryingLeavesBoard ==
  LET b == game.gameboard
      s == game.current_state IN
  \A pos \in DOMAIN b : \A to \in getpossiblePositions(b, pos) :
    LET mv == ChessMove(pos, to, b[pos].color) IN
      verifyPieceMove(b, s, mv) => TakeBack(makeMove(b, mv), b, s, mv) = b

(* The candidates getpossiblePositions lists miss no legal move, so mate   *)
(* and stalemate are declared exactly when the player to move has none,    *)
(* and a dead position exactly as the laws say.  A threefold repetition is *)
(* found exactly when the position has stood on the board three times in   *)
(* the whole game, although the code looks at every second state since the *)
(* last irreversible move only.                                            *)
EndsAreRight ==
  LET b == game.gameboard
      s == game.current_state
      now == Last(game.history)
      times == Cardinality({i \in DOMAIN game.history : SameState(game.history[i], now)})
      stuck == Laws!LegalMoves(b, s.enpassant, s.castle, game.turn) = {}
  IN /\ verifyCheckMate(game, game.turn) <=> stuck /\ Laws!InCheck(b, game.turn)
     /\ verifyStaleMate(game, game.turn) <=> stuck /\ ~Laws!InCheck(b, game.turn)
     /\ verifyImpossibilityOfCheckmate(game) <=> Laws!DeadPosition(b)
     /\ ~verifyCheckMate(game, Opponent(game.turn))
     /\ verifyThreefoldRepetition(game) <=> times >= 3

(* The recorded moves rebuild the game: board, rights, counters, history   *)
(* and the player to move (an adjourned game is resumed from them).        *)
ReplayGivesGame == interpretHistoryMoves(opening, history_moves) = game
=============================================================================
