-------------------------------- MODULE MCGames -------------------------------
(***************************************************************************)
(* The tournaments of MCTourney and games of chess from the openings of    *)
(* MCChess, for TLC.  Each behaviour is of one of them, which the first    *)
(* state chooses: in "chess" no tournament is held.                        *)
(***************************************************************************)
EXTENDS MCTourney

CONSTANT Openings

VARIABLES game, history_moves, opening

chess_vars == <<game, history_moves, opening>>

Rules == INSTANCE Chess

Positions == INSTANCE MCChess

MCOpenings == Positions!AllOpenings

GamesInit ==
  /\ MCInit /\ Rules!Init
  /\ part = "chess" \/ opening = CHOOSE o \in Openings : TRUE

GamesNext ==
  \/ MCNext /\ UNCHANGED chess_vars
  \/ part = "chess" /\ Rules!Next /\ UNCHANGED <<vars, part>>

GamesSpec == GamesInit /\ [][GamesNext]_<<vars, part, chess_vars>>

(* The properties of Chess, stated there, of the games.                    *)
MovesAreLegal == part = "chess" => Rules!MovesAreLegal
TryingLeavesBoard == part = "chess" => Rules!TryingLeavesBoard
EndsAreRight == part = "chess" => Rules!EndsAreRight
ReplayGivesGame == part = "chess" => Rules!ReplayGivesGame
=============================================================================
