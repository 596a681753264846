--------------------------- MODULE MatchDatabase ---------------------------
(***************************************************************************)
(* The table of pending match offers (src/src/MatchDatabase.cc) as         *)
(* operators on a record db:                                               *)
(*   matchs         MatchInfo of every id; NoMatch where the map has none  *)
(*   player_matchs  the ids each player takes part in                      *)
(*   used_id        ids below it have been handed out (IDSet)              *)
(*   unused_ids     ids handed out and released again (IDSet)              *)
(* IDSet keeps released ids on a stack; which of them acquireID returns is *)
(* left open here, because nothing depends on it.                          *)
(***************************************************************************)
EXTENDS Integers, FiniteSets

CONSTANTS
  Jid,         \* full Jids of the users
  Terms,       \* what a match proposes to play
  NoTerms,     \* the terms of an id without match
  MaxMatches   \* bound: match ids run from 0 to MaxMatches - 1

ASSUME MatchDatabaseAssumption ==
  /\ IsFiniteSet(Jid)
  /\ NoTerms \notin Terms
  /\ MaxMatches \in Nat \ {0}

MatchId == 0 .. MaxMatches - 1

MatchInfo == [players : SUBSET Jid, terms : Terms \union {NoTerms},
              accepted : SUBSET Jid, pending_count : Nat]

NoMatch == [players |-> {}, terms |-> NoTerms, accepted |-> {}, pending_count |-> 0]

Database == [matchs : [MatchId -> MatchInfo],
             player_matchs : [Jid -> SUBSET MatchId],
             used_id : 0 .. MaxMatches,
             unused_ids : SUBSET MatchId]

EmptyDatabase == [matchs |-> [id \in MatchId |-> NoMatch],
                  player_matchs |-> [p \in Jid |-> {}],
                  used_id |-> 0,
                  unused_ids |-> {}]

(* MatchInfo::MatchInfo: nobody has accepted yet. *)
NewMatchInfo(players, terms) ==
  [players |-> players, terms |-> terms,
   accepted |-> {}, pending_count |-> Cardinality(players)]

HasMatch(db, id) == id \in MatchId /\ db.matchs[id] # NoMatch

HasPlayer(db, id, p) == HasMatch(db, id) /\ p \in db.matchs[id].players

(* Mutant: a match is done when one player has still to accept. *)
IsAlmostDone(db, id) == db.matchs[id].pending_count <= 1

IsDone(db, id) == db.matchs[id].pending_count = 0

(* acquireID: a released id if there is one, else the next fresh one;      *)
(* none when the bound MaxMatches is reached.                              *)
AcquirableIds(db) ==
  IF db.unused_ids # {} THEN db.unused_ids
  ELSE {db.used_id} \intersect MatchId

InsertMatch(db, id, players, terms) ==
  [matchs |-> [db.matchs EXCEPT ![id] = NewMatchInfo(players, terms)],
   player_matchs |-> [p \in Jid |-> IF p \in players
                                    THEN db.player_matchs[p] \union {id}
                                    ELSE db.player_matchs[p]],
   used_id |-> IF id = db.used_id THEN id + 1 ELSE db.used_id,
   unused_ids |-> db.unused_ids \ {id}]

(* Mutant: a reoffer keeps the acceptances of the offer it replaces. *)
ReplaceTermsOnly(db, id, players, terms) ==
  [db EXCEPT !.matchs[id].terms = terms]

(* The players index is left alone: a reoffer has the same players. *)
ReplaceMatch(db, id, players, terms) ==
  [db EXCEPT !.matchs[id] = NewMatchInfo(players, terms)]

(* Only the first accept of a player counts. *)
AcceptMatch(db, id, p) ==
  IF p \in db.matchs[id].accepted THEN db
  ELSE [db EXCEPT !.matchs[id].accepted = @ \union {p},
                  !.matchs[id].pending_count = @ - 1]

(* closeMatch called on each of ids, all of which are in the table. *)
CloseMatchs(db, ids) ==
  [matchs |-> [id \in MatchId |-> IF id \in ids THEN NoMatch ELSE db.matchs[id]],
   player_matchs |-> [p \in Jid |->
     db.player_matchs[p] \ {id \in ids : p \in db.matchs[id].players}],
   used_id |-> db.used_id,
   unused_ids |-> db.unused_ids \union ids]

-----------------------------------------------------------------------------

(* player_matchs is exactly the inverse of the players of the matches. A   *)
(* stale id in it makes closeMatch dereference matchs.end(); a missing one *)
(* leaves an offer open after its player is gone.                          *)
IndexConsistent(db) ==
  \A p \in Jid, id \in MatchId :
    id \in db.player_matchs[p] <=> p \in db.matchs[id].players

(* The ids in use and the released ones share out the ids handed out: no   *)
(* id is given to two matches, none is lost.                               *)
IdsPartition(db) ==
  \A id \in MatchId :
    /\ HasMatch(db, id) <=> id < db.used_id /\ id \notin db.unused_ids
    /\ id \in db.unused_ids => id < db.used_id

(* pending_count is the number of players who have not accepted, whatever  *)
(* the order and repetition of accepts.                                    *)
PendingExact(db) ==
  \A id \in MatchId : LET m == db.matchs[id] IN
    /\ m.accepted \subseteq m.players
    /\ m.pending_count = Cardinality(m.players \ m.accepted)

=============================================================================
