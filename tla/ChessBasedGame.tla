---------------------------- MODULE ChessBasedGame ----------------------------
(***************************************************************************)
(* The board of libchess and the moves of its pieces                       *)
(* (src/src/libchess/ChessBasedGame.cc over Board.cc, Piece.cc and         *)
(* ChessMove.cc), as operators on a board and a state.                     *)
(*                                                                         *)
(* A square is <<column, line>>, both from 0.  A board maps the occupied   *)
(* squares to their pieces.  Of a ChessState the rules read the castling   *)
(* rights and the en passant square; a move knows its squares, the player  *)
(* and the letter of a promotion.  The verify operators keep the code's    *)
(* order only where a test guards a later one.                             *)
(***************************************************************************)
EXTENDS Integers, FiniteSets, Sequences, TLC, Functions

White == "white"

Black == "black"

PieceColor == {White, Black}

KING == "king"

QUEEN == "queen"

ROOK == "rook"

BISHOP == "bishop"

KNIGHT == "knight"

PAWN == "pawn"

NoColor == "nocolor"

NoType == "notype"

Opponent(player) == IF player = White THEN Black ELSE White

Lines == 0..7

Squares == Lines \X Lines

\* Position(-1,-1)
NoSquare == <<-1, -1>>

Piece(color, type) == [color |-> color, type |-> type]

ColorAt(board, pos) == IF pos \in DOMAIN board THEN board[pos].color ELSE NoColor

TypeAt(board, pos) == IF pos \in DOMAIN board THEN board[pos].type ELSE NoType

\* Board::createPiece, with an empty ChessPiece and with a real one
Clear(board, pos) == Restrict(board, DOMAIN board \ {pos})

createPiece(board, pos, piece) == (pos :> piece) @@ board

\* ChessBoard::makeMove
MovePiece(board, from, to) == createPiece(Clear(board, from), to, board[from])

ChessMove(from, to, player) ==
  [from |-> from, to |-> to, color |-> player, promotion |-> NoType]

-----------------------------------------------------------------------------

Abs(n) == IF n < 0 THEN -n ELSE n

Sign(n) == IF n > 0 THEN 1 ELSE IF n = 0 THEN 0 ELSE -1

distx(mv) == Abs(mv.from[1] - mv.to[1])

disty(mv) == Abs(mv.from[2] - mv.to[2])

(* VerifyDiagonal, VerifyHorizontal and VerifyVertical are one walk.       *)
ClearPath(board, mv) ==
  LET k == Sign(mv.to[1] - mv.from[1])
      l == Sign(mv.to[2] - mv.from[2])
      steps == IF k # 0 THEN distx(mv) ELSE disty(mv)
  IN \A n \in 1..(steps - 1) :
       ColorAt(board, <<mv.from[1] + n * k, mv.from[2] + n * l>>) = NoColor

verifyHorseMove(board, mv) ==
  /\ ColorAt(board, mv.to) # mv.color
  /\ {distx(mv), disty(mv)} = {1, 2}

verifyPawnMove(board, state, mv) ==
  LET ahead == (mv.to[2] - mv.from[2]) * (IF mv.color = White THEN 1 ELSE -1)
      middle == <<mv.from[1], (mv.from[2] + mv.to[2]) \div 2>>
      home == IF ColorAt(board, mv.from) = White THEN 1 ELSE 6
      empty(pos) == ColorAt(board, pos) = NoColor
  IN /\ ColorAt(board, mv.to) # mv.color
     /\ \/ ahead = 1 /\ distx(mv) = 0 /\ empty(mv.to)
        \/ /\ ahead = 2 /\ distx(mv) = 0
           /\ empty(middle) /\ empty(mv.to) /\ mv.from[2] = home
        \/ ahead = 1 /\ distx(mv) = 1 /\ (~empty(mv.to) \/ state.enpassant = mv.to)

verifyRookMove(board, mv) ==
  /\ ColorAt(board, mv.to) # mv.color
  /\ (distx(mv) = 0) # (disty(mv) = 0)
  /\ ClearPath(board, mv)

verifyBishopMove(board, mv) ==
  /\ ColorAt(board, mv.to) # mv.color
  /\ distx(mv) = disty(mv) /\ distx(mv) # 0
  /\ ClearPath(board, mv)

verifyQueenMove(board, mv) ==
  /\ ColorAt(board, mv.to) # mv.color
  /\ distx(mv) = disty(mv) \/ distx(mv) = 0 \/ disty(mv) = 0
  /\ mv.from # mv.to
  /\ ClearPath(board, mv)

findKing(board, player) ==
  LET kings == {pos \in DOMAIN board : board[pos] = Piece(player, KING)}
  IN IF kings = {} THEN NoSquare ELSE CHOOSE pos \in kings : TRUE

(* Which right a castling move needs: K and Q for White, k and q for Black. *)
CastleRight(mv) ==
  LET queenside == mv.to[1] < mv.from[1] IN
    IF mv.color = White THEN IF queenside THEN "Q" ELSE "K"
                        ELSE IF queenside THEN "q" ELSE "k"

RECURSIVE beingAttacked(_, _, _, _)

(* The castling half of verifyKingMove.  The walk of the rook ends on the  *)
(* square next to the king, and verifyRookMove lets a rook capture there.  *)
VerifyCastling(board, state, mv) ==
  LET rook == <<IF mv.to[1] < mv.from[1] THEN 0 ELSE 7, mv.to[2]>>
      transit == <<(mv.from[1] + mv.to[1]) \div 2, mv.to[2]>>
      attacked(pos) == beingAttacked(board, state, pos, Opponent(mv.color))
  IN /\ CastleRight(mv) \in state.castle
     /\ verifyRookMove(board, ChessMove(rook, transit, mv.color))
     /\ ~attacked(findKing(board, mv.color))
     /\ ~attacked(transit)
     /\ ~attacked(mv.to)

verifyKingMove(board, state, mv) ==
  /\ ColorAt(board, mv.to) # mv.color
  /\ \/ distx(mv) <= 1 /\ disty(mv) <= 1
     \/ /\ distx(mv) = 2 /\ disty(mv) = 0
        /\ VerifyCastling(board, state, mv)

verifyPieceMove(board, state, mv) ==
  /\ mv.to \in Squares
  /\ mv.color = ColorAt(board, mv.from)
  /\ mv.color # ColorAt(board, mv.to)
  /\ CASE TypeAt(board, mv.from) = KNIGHT -> verifyHorseMove(board, mv)
       [] TypeAt(board, mv.from) = PAWN   -> verifyPawnMove(board, state, mv)
       [] TypeAt(board, mv.from) = ROOK   -> verifyRookMove(board, mv)
       [] TypeAt(board, mv.from) = BISHOP -> verifyBishopMove(board, mv)
       [] TypeAt(board, mv.from) = QUEEN  -> verifyQueenMove(board, mv)
       [] TypeAt(board, mv.from) = KING   -> verifyKingMove(board, state, mv)
       [] OTHER -> FALSE

beingAttacked(board, state, pos, player) ==
  \E from \in DOMAIN board :
    /\ board[from].color = player
    /\ verifyPieceMove(board, state, ChessMove(from, pos, player))

verifyCheck(board, state, player) ==
  beingAttacked(board, state, findKing(board, player), Opponent(player))

\* "this function does not verify anything"
verifyEnPassant(board, mv) ==
  /\ TypeAt(board, mv.from) = PAWN
  /\ distx(mv) = 1 /\ disty(mv) = 1
  /\ ColorAt(board, mv.to) = NoColor

-----------------------------------------------------------------------------

(* The squares getpossiblePositions proposes for a piece, before verifyMove.*)

Walk(board, pos, dir) ==
  {to \in {<<pos[1] + n * dir[1], pos[2] + n * dir[2]>> : n \in 1..7} \cap Squares :
     ClearPath(board, ChessMove(pos, to, White))}

getVerticalandHorizontal(board, pos) ==
  UNION {Walk(board, pos, dir) : dir \in {<<0, 1>>, <<0, -1>>, <<1, 0>>, <<-1, 0>>}}

getDiagonals(board, pos) ==
  UNION {Walk(board, pos, dir) : dir \in {-1, 1} \X {-1, 1}}

(* Mutant: a pawn is not tried to the left. *)
OffsetsNoLeft(type) ==
  CASE type = KNIGHT -> {d \in (-2..2) \X (-2..2) : {Abs(d[1]), Abs(d[2])} = {1, 2}}
    [] type = PAWN -> ({0} \X {1, 2, -1, -2}) \cup ({1} \X {-1, 1})
    [] type = KING -> (((-1..1) \X (-1..1)) \ {<<0, 0>>}) \cup {<<2, 0>>, <<-2, 0>>}
    [] OTHER -> {}

Offsets(type) ==
  CASE type = KNIGHT -> {d \in (-2..2) \X (-2..2) : {Abs(d[1]), Abs(d[2])} = {1, 2}}
    [] type = PAWN -> ({0} \X {1, 2, -1, -2}) \cup ({-1, 1} \X {-1, 1})
    [] type = KING -> (((-1..1) \X (-1..1)) \ {<<0, 0>>}) \cup {<<2, 0>>, <<-2, 0>>}
    [] OTHER -> {}

getpossiblePositions(board, pos) ==
  LET type == TypeAt(board, pos) IN
    {<<pos[1] + d[1], pos[2] + d[2]>> : d \in Offsets(type)}
    \cup (IF type \in {ROOK, QUEEN} THEN getVerticalandHorizontal(board, pos) ELSE {})
    \cup (IF type \in {BISHOP, QUEEN} THEN getDiagonals(board, pos) ELSE {})
=============================================================================
