--------------------------- MODULE MCMatchManager ---------------------------
(***************************************************************************)
(* Small instances of MatchManager for TLC: two users, of which the first  *)
(* may be connected from two resources, and one adjourned game of theirs.  *)
(***************************************************************************)
EXTENDS MatchManager, TLC

CONSTANTS a1, a2, b1

MCPartialOf == [u \in Jid |-> IF u = b1 THEN "b" ELSE "a"]

MCAdjPlayers == [a \in Adjourned |-> {a1, b1}]

NoPlayersOf == [a \in {} |-> {}]

(* Terms and games are only compared, and nothing tells the two resources  *)
(* of a user apart while neither is multigame.                             *)
InterchangeableValues ==
  Permutations(Terms) \union Permutations(Game) \union Permutations({a1, a2})

(* The stanzas of the last step tell no two states apart: no action reads  *)
(* them.  TLC still evaluates the action properties on every step.         *)
StateView == <<coreVars, users_status, inbox, match_db, adjVars, crashed>>

=============================================================================
