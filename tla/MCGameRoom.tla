------------------------------- MODULE MCGameRoom -----------------------------
(***************************************************************************)
(* Instances of GameRoom.  "requests": the players make requests, for a    *)
(* short time.  "clocks": they only move, until the clocks and the timeouts*)
(* of absent players run out.                                              *)
(***************************************************************************)
EXTENDS GameRoom

CONSTANT RequestTime     \* how long the room is watched in "requests"

VARIABLE part

Watched ==
  IF part = "requests" THEN now' <= RequestTime
  ELSE \A r \in Request \ {"move"} : agreement'[r] = {}

MCIncs == {-1, 1}

(* Clocks and increments that a resumed game, or odd terms, may have: a    *)
(* move that counts costs more than is left, or one clock or both begin    *)
(* without time.                                                           *)
Clocks(white, black) == [white |-> white, black |-> black]

OddClocks ==
  {<<Clocks(1, 1), Clocks(-1, 1)>>, <<Clocks(0, 0), Clocks(1, 1)>>,
   <<Clocks(0, 1), Clocks(1, 1)>>}

MCInit ==
  /\ Init /\ part \in {"requests", "clocks"}
  /\ \/ game.turn = "white" /\ (game.auto_flag \/ part = "clocks")
     \/ game.turn = "black" /\ game.auto_flag /\ part = "clocks"
  /\ \/ <<game.time, game.inc>> = <<Clocks(1, 1), Clocks(1, 1)>>
     \/ /\ <<game.time, game.inc>> \in OddClocks
        /\ game.turn = "white" /\ game.timed /\ game.auto_flag /\ part = "clocks"

MCSpec ==
  /\ MCInit
  /\ [][Next /\ Watched /\ UNCHANGED part]_<<vars, part>>
  /\ WF_vars(Tick) /\ WF_vars(CheckTime)
=============================================================================
