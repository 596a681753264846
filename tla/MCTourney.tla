------------------------------- MODULE MCTourney ------------------------------
(***************************************************************************)
(* Instances of TourneyManager.  "rounds": few players, every order of     *)
(* events.  "pairings": more players and rounds, who join in order, and    *)
(* one event at a time: a game ends when the last one is forgotten, and    *)
(* then white wins or nobody does.                                         *)
(***************************************************************************)
EXTENDS TourneyManager

CONSTANTS Parts, FewPlayers, MoreRounds

VARIABLE part

MCCasual == {<<1, 4>>}

MCInit == part \in Parts /\ TourneyInit

Quiet == ended = {} /\ reports = <<>> /\ creating = {}

(* Of the games, the same one always ends first.                           *)
InTurn ==
  \/ handleCreate(MoreRounds)
  \/ /\ Len(tourneys) = 1 /\ Len(tourneys[1].joined) < MaxPlayers
     /\ handleJoin(Len(tourneys[1].joined) + 1, 1)
  \/ \E id \in scheduled : startTourney(id)
  \/ \E g \in creating : CreateTourneyGame(g)
  \/ \E g \in ended : ForgetGame(g)
  \/ _reportResult /\ ended = {}
  \/ /\ Quiet /\ rooms # {}
     /\ \E result \in {"win", "draw"} : EndGame(CHOOSE g \in rooms : TRUE, result)

(* A user joins after those with smaller numbers, perhaps again.           *)
InOrder(joined) ==
  /\ Len(joined) <= FewPlayers
  /\ \A i \in DOMAIN joined : \A u \in 1..(joined[i] - 1) :
       \E j \in 1..i : joined[j] = u

MCNext ==
  /\ \/ /\ part = "rounds" /\ Next
        /\ \A id \in DOMAIN tourneys' : InOrder(tourneys'[id].joined)
     \/ part = "pairings" /\ InTurn
  /\ UNCHANGED part

MCSpec == MCInit /\ [][MCNext]_<<vars, part>>
=============================================================================
