-------------------------------- MODULE MCChess -------------------------------
(***************************************************************************)
(* Openings for Chess: positions a game can be in after an irreversible    *)
(* move, each chosen for a rule, and the plies it is followed for.         *)
(***************************************************************************)
EXTENDS ChessBasedGame

Men(color, men) == [pos \in {m[2] : m \in men} |->
  Piece(color, (CHOOSE m \in men : m[2] = pos)[1])]

Sq(file, rank) == <<file - 1, rank - 1>>

K(f, r) == <<KING, Sq(f, r)>>
Q(f, r) == <<QUEEN, Sq(f, r)>>
R(f, r) == <<ROOK, Sq(f, r)>>
B(f, r) == <<BISHOP, Sq(f, r)>>
N(f, r) == <<KNIGHT, Sq(f, r)>>
P(f, r) == <<PAWN, Sq(f, r)>>

Opening(white, black, turn, castle, plies) ==
  [board |-> Men(White, white) @@ Men(Black, black), turn |-> turn,
   castle |-> castle, enpassant |-> NoSquare, plies |-> plies]

BackRank(r) == {R(1, r), N(2, r), B(3, r), Q(4, r), K(5, r), B(6, r), N(7, r), R(8, r)}

\* Chess::putPieces
StartPosition(plies) ==
  Opening(BackRank(1) \cup {P(f, 2) : f \in 1..8}, BackRank(8) \cup {P(f, 7) : f \in 1..8},
          White, {"K", "Q", "k", "q"}, plies)

\* both sides castle, and take each other's rooks at home
Castles(plies) ==
  Opening({R(1, 1), K(5, 1), R(8, 1)}, {R(1, 8), K(5, 8), R(8, 8)},
          White, {"K", "Q", "k", "q"}, plies)

\* king and rook leave home and come back
RookReturns(plies) ==
  Opening({K(5, 1), R(8, 1), P(1, 6)}, {K(1, 8), P(1, 7)}, White, {"K"}, plies)

\* a pawn attacks squares the king crosses, a knight stands next to it
CastlingObserved(plies) ==
  Opening({R(1, 1), K(5, 1), R(8, 1)}, {K(5, 8), P(7, 3), N(3, 3)},
          Black, {"K", "Q"}, plies)

\* b5xc6 en passant would uncover the king on the fifth line
PinnedEnPassant(plies) ==
  Opening({K(1, 5), P(2, 5)}, {K(8, 8), R(8, 5), P(3, 7)}, Black, {}, plies)

EnPassant(plies) ==
  Opening({K(8, 1), P(4, 5), P(6, 5)}, {K(8, 8), P(5, 7)}, Black, {}, plies)

\* a pawn is promoted straight ahead or by taking
Promotion(plies) ==
  Opening({K(8, 1), P(2, 7)}, {K(8, 7), R(1, 8)}, White, {}, plies)

\* Qg7 and others mate, Qg6 is stalemate
MateOrStalemate(plies) ==
  Opening({K(6, 6), Q(7, 5)}, {K(8, 8)}, White, {}, plies)

\* Nf7 mates; after Ng6 black has one move, h7xg6
Smothered(plies) ==
  Opening({K(1, 1), N(5, 5)}, {K(8, 8), R(7, 8), P(7, 7), P(8, 7)}, White, {}, plies)

\* a capture leaves bishops of one or of two colours, or a knight
FewMen(plies) ==
  Opening({K(1, 1), B(3, 2), P(4, 3)}, {K(8, 8), B(6, 5), N(6, 4)}, Black, {}, plies)

\* all pawns are blocked: the kings walk to and fro
Blocked(plies) ==
  Opening({K(1, 1), P(1, 2), P(3, 2), P(8, 6), P(6, 6)},
          {K(8, 8), P(1, 3), P(3, 3), P(8, 7), P(6, 7)}, White, {}, plies)

AllOpenings ==
  {StartPosition(2), Castles(2), RookReturns(4), CastlingObserved(1), PinnedEnPassant(2),
   EnPassant(3), Promotion(2), MateOrStalemate(2), Smothered(2), FewMen(3), Blocked(9)}
=============================================================================
