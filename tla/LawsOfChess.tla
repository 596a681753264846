------------------------------ MODULE LawsOfChess -----------------------------
(***************************************************************************)
(* What the rules of chess promise: the reference the moves libchess       *)
(* accepts are compared with.  It is written from the laws of the game,    *)
(* not from the code: pieces attack squares, along rays or by jumps; a     *)
(* move is legal when it follows an attack (or a pawn's advance, or the    *)
(* rules of castling) and leaves the own king unattacked.                  *)
(*                                                                         *)
(* Boards, squares and states are those of ChessBasedGame: a board maps    *)
(* occupied squares to records with a color and a type.                    *)
(***************************************************************************)
EXTENDS Integers, FiniteSets

File == 0..7

OnBoard(square) == square \in File \X File

Enemy(color) == IF color = "white" THEN "black" ELSE "white"

Shift(square, dir, n) == <<square[1] + n * dir[1], square[2] + n * dir[2]>>

Orthogonal == {<<1, 0>>, <<-1, 0>>, <<0, 1>>, <<0, -1>>}

Diagonal == {-1, 1} \X {-1, 1}

Jumps == {d \in (-2..2) \X (-2..2) : d[1] * d[1] + d[2] * d[2] = 5}

Forward(color) == IF color = "white" THEN 1 ELSE -1

(* The squares on a ray up to and with the first piece met.                *)
Ray(board, square, dir) ==
  {Shift(square, dir, n) :
     n \in {m \in File \ {0} :
              /\ OnBoard(Shift(square, dir, m))
              /\ \A k \in 1..(m - 1) : Shift(square, dir, k) \notin DOMAIN board}}

Rays(board, square, dirs) == UNION {Ray(board, square, dir) : dir \in dirs}

Steps(square, dirs) == {Shift(square, dir, 1) : dir \in dirs} \cap (File \X File)

(* The squares a piece attacks, whatever stands there.                     *)
Attacks(board, square) ==
  LET piece == board[square] IN
    CASE piece.type = "king"   -> Steps(square, Orthogonal \cup Diagonal)
      [] piece.type = "queen"  -> Rays(board, square, Orthogonal \cup Diagonal)
      [] piece.type = "rook"   -> Rays(board, square, Orthogonal)
      [] piece.type = "bishop" -> Rays(board, square, Diagonal)
      [] piece.type = "knight" -> Steps(square, Jumps)
      [] piece.type = "pawn"   -> Steps(square, {-1, 1} \X {Forward(piece.color)})

Of(board, color) == {square \in DOMAIN board : board[square].color = color}

Attacked(board, square, by) ==
  \E from \in Of(board, by) : square \in Attacks(board, from)

InCheck(board, color) ==
  \E king \in Of(board, color) :
    board[king].type = "king" /\ Attacked(board, king, Enemy(color))

(* A pawn advances over empty squares, two at a time from its second rank. *)
Advances(board, square, color) ==
  LET one == Shift(square, <<0, Forward(color)>>, 1)
      two == Shift(square, <<0, Forward(color)>>, 2)
      second == IF color = "white" THEN 1 ELSE 6
      free(to) == OnBoard(to) /\ to \notin DOMAIN board
  IN {to \in {one} : free(one)}
     \cup {to \in {two} : free(one) /\ free(two) /\ square[2] = second}

(* Where a piece may go if the safety of its king is left aside.           *)
Targets(board, enpassant, square) ==
  LET color == board[square].color IN
    IF board[square].type = "pawn"
    THEN Advances(board, square, color)
         \cup (Attacks(board, square)
                 \cap (Of(board, Enemy(color)) \cup {enpassant}))
    ELSE Attacks(board, square) \ Of(board, color)

(* The board after such a move; what a pawn is promoted to does not matter *)
(* to the safety of its own king.                                          *)
Moved(board, enpassant, from, to) ==
  LET taken == IF board[from].type = "pawn" /\ to = enpassant /\ from[1] # to[1]
               THEN <<to[1], from[2]>> ELSE to
      left == DOMAIN board \ {from, taken}
  IN [square \in left \cup {to} |->
        IF square = to THEN board[from] ELSE board[square]]

(* Castling: the right is kept, nothing stands between king and rook, and  *)
(* the king neither leaves, crosses nor reaches an attacked square.        *)
Castlings(board, rights, color) ==
  LET rank == IF color = "white" THEN 0 ELSE 7
      right(to) == IF color = "white" THEN IF to = 6 THEN "K" ELSE "Q"
                                      ELSE IF to = 6 THEN "k" ELSE "q"
      between(to) == IF to = 6 THEN {5, 6} ELSE {1, 2, 3}
      crossed(to) == IF to = 6 THEN 4..6 ELSE 2..4
  IN {<<<<4, rank>>, <<to, rank>>>> : to \in
        {f \in {2, 6} :
           /\ right(f) \in rights
           /\ \A x \in between(f) : <<x, rank>> \notin DOMAIN board
           /\ \A x \in crossed(f) : ~Attacked(board, <<x, rank>>, Enemy(color))}}

(* The legal moves, as pairs of squares: without castling, and all.        *)
PlainMoves(board, enpassant, color) ==
  {mv \in UNION {{from} \X Targets(board, enpassant, from) : from \in Of(board, color)} :
     ~InCheck(Moved(board, enpassant, mv[1], mv[2]), color)}

LegalMoves(board, enpassant, rights, color) ==
  PlainMoves(board, enpassant, color) \cup Castlings(board, rights, color)

(* Insufficient material: kings alone, kings and one minor piece, or       *)
(* one bishop each on squares of one colour.                               *)
DeadPosition(board) ==
  LET men == {square \in DOMAIN board : board[square].type # "king"}
      minor(square) == board[square].type \in {"bishop", "knight"}
      shade(square) == (square[1] + square[2]) % 2
  IN \/ men = {}
     \/ Cardinality(men) = 1 /\ \A square \in men : minor(square)
     \/ /\ Cardinality(men) = 2
        /\ \A square \in men : board[square].type = "bishop"
        /\ Cardinality({board[square].color : square \in men}) = 2
        /\ Cardinality({shade(square) : square \in men}) = 1
=============================================================================
