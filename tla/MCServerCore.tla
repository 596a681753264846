---------------------------- MODULE MCServerCore ----------------------------
(***************************************************************************)
(* Instances of ServerCore for TLC, with two games and two modules.  These *)
(* are only compared with each other, so nothing is lost when the games    *)
(* are taken in one order and the same module takes the first: what the    *)
(* SYMMETRY of TLC would do, were there no liveness to check.              *)
(***************************************************************************)
EXTENDS ServerCore

CONSTANTS g1, g2, match, tourney, Engines

InOrder ==
  /\ game_players'[g2] # {} => game_players[g1] # {}
  /\ calls'[tourney].game # NoGame => game_players[g1] # {}

(* Engines are multigame users whenever they are available.                *)
EnginesPlayMore ==
  \A u \in Engines : users_status'[u].available = users_status'[u].multigame

MCSpec == Init /\ [][Next /\ InOrder /\ EnginesPlayMore]_vars /\ Fairness

=============================================================================
