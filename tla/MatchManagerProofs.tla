------------------------- MODULE MatchManagerProofs -------------------------
(***************************************************************************)
(* Proofs about MatchManager: for any users, terms and bounds, the table   *)
(* of matches stays consistent, no pending match has a player the module   *)
(* knows to be away, and what the modules do to the core is what           *)
(* GameRegistry allows.  The inductive invariant is IInv, further down.    *)
(* Three parts on top of it follow: the module's copy of the status        *)
(* catches up with it; what a step may do to a match and whom it tells;    *)
(* and the answers of the database are as many as the offers that wait.    *)
(***************************************************************************)
EXTENDS MatchManager, FiniteSetTheorems, SequenceTheorems, TLAPS

(***************************************************************************)
(* The table: what each operation of MatchDatabase preserves, for any      *)
(* users and any number of matches.                                        *)
(***************************************************************************)

DbInv(db) ==
  /\ db \in Database
  /\ IndexConsistent(db)
  /\ IdsPartition(db)
  /\ PendingExact(db)

(* The numbers the operations count with are numbers. *)
LEMMA SubsetsOfJid ==
  ASSUME NEW S \in SUBSET Jid
  PROVE  IsFiniteSet(S) /\ Cardinality(S) \in Nat
BY MatchDatabaseAssumption, FS_Subset, FS_CardinalityType

LEMMA NoMatchType == NoMatch \in MatchInfo
BY DEF NoMatch, MatchInfo

(* An empty table satisfies the invariant. *)
LEMMA EmptyDatabaseInv == DbInv(EmptyDatabase)
<1>1. EmptyDatabase \in Database
  BY NoMatchType, MatchDatabaseAssumption DEF EmptyDatabase, Database
<1>2. IndexConsistent(EmptyDatabase)
  BY DEF EmptyDatabase, IndexConsistent, NoMatch
<1>3. IdsPartition(EmptyDatabase)
  BY MatchDatabaseAssumption DEF EmptyDatabase, IdsPartition, HasMatch, MatchId
<1>4. PendingExact(EmptyDatabase)
  <2>1. Cardinality({} \ {}) = 0
    BY FS_EmptySet
  <2>2. QED
    BY <2>1 DEF EmptyDatabase, PendingExact, NoMatch
<1>5. QED
  BY <1>1, <1>2, <1>3, <1>4 DEF DbInv

(* A new match has all its players pending, and is a match. *)
LEMMA NewMatchInfoFacts ==
  ASSUME NEW players \in SUBSET Jid, players # {}, NEW terms \in Terms
  PROVE  /\ NewMatchInfo(players, terms) \in MatchInfo
         /\ NewMatchInfo(players, terms) # NoMatch
         /\ NewMatchInfo(players, terms).players = players
         /\ NewMatchInfo(players, terms).accepted = {}
         /\ NewMatchInfo(players, terms).pending_count
              = Cardinality(players \ {})
<1>1. players \ {} = players
  OBVIOUS
<1>2. QED
  BY <1>1, SubsetsOfJid DEF NewMatchInfo, MatchInfo, NoMatch

(* insertMatch *)
LEMMA InsertMatchInv ==
  ASSUME NEW db, DbInv(db), NEW id \in AcquirableIds(db),
         NEW players \in SUBSET Jid, players # {}, NEW terms \in Terms
  PROVE  /\ DbInv(InsertMatch(db, id, players, terms))
         /\ id \in MatchId
         /\ InsertMatch(db, id, players, terms).matchs
              = [db.matchs EXCEPT ![id] = NewMatchInfo(players, terms)]
<1> DEFINE new == NewMatchInfo(players, terms)
           db2 == InsertMatch(db, id, players, terms)
<1> USE DEF DbInv
<1>1. /\ id \in MatchId
      /\ id \in db.unused_ids \/ id = db.used_id
      /\ db.matchs \in [MatchId -> MatchInfo]
      /\ db.player_matchs \in [Jid -> SUBSET MatchId]
      /\ db.used_id \in 0 .. MaxMatches
      /\ db.unused_ids \in SUBSET MatchId
  BY DEF AcquirableIds, Database
<1>2. /\ db2.matchs = [db.matchs EXCEPT ![id] = new]
      /\ db2.player_matchs = [p \in Jid |-> IF p \in players
                                            THEN db.player_matchs[p] \union {id}
                                            ELSE db.player_matchs[p]]
      /\ db2.used_id = IF id = db.used_id THEN id + 1 ELSE db.used_id
      /\ db2.unused_ids = db.unused_ids \ {id}
  BY DEF InsertMatch
<1>0. /\ new \in MatchInfo
      /\ new # NoMatch
      /\ new.players = players
      /\ new.accepted = {}
      /\ new.pending_count = Cardinality(players \ {})
  BY NewMatchInfoFacts
<1> HIDE DEF new
<1>3. db.matchs[id] = NoMatch
  BY <1>1, MatchDatabaseAssumption DEF IdsPartition, HasMatch, MatchId
<1>4. db2 \in Database
  <2>1. db2.used_id \in 0 .. MaxMatches
    BY <1>1, <1>2, MatchDatabaseAssumption DEF MatchId
  <2>2. db2.matchs \in [MatchId -> MatchInfo]
    BY <1>1, <1>2, <1>0
  <2>3. db2.player_matchs \in [Jid -> SUBSET MatchId]
    BY <1>1, <1>2
  <2>4. db2.unused_ids \in SUBSET MatchId
    BY <1>1, <1>2
  <2>5. QED
    BY <2>1, <2>2, <2>3, <2>4 DEF Database, InsertMatch
<1>5. IndexConsistent(db2)
  <2> SUFFICES ASSUME NEW p \in Jid, NEW i \in MatchId
               PROVE  i \in db2.player_matchs[p] <=> p \in db2.matchs[i].players
    BY DEF IndexConsistent
  <2>1. i \in db.player_matchs[p] <=> p \in db.matchs[i].players
    BY DEF IndexConsistent
  <2>2. CASE i = id
    BY <1>1, <1>2, <1>3, <2>1, <2>2, <1>0 DEF NoMatch
  <2>3. CASE i # id
    BY <1>1, <1>2, <2>1, <2>3
  <2>4. QED
    BY <2>2, <2>3
<1>6. IdsPartition(db2)
  <2> SUFFICES ASSUME NEW i \in MatchId
               PROVE  /\ HasMatch(db2, i) <=> i < db2.used_id /\ i \notin db2.unused_ids
                      /\ i \in db2.unused_ids => i < db2.used_id
    BY DEF IdsPartition
  <2>1. /\ HasMatch(db, i) <=> i < db.used_id /\ i \notin db.unused_ids
        /\ i \in db.unused_ids => i < db.used_id
        /\ id \in db.unused_ids => id < db.used_id
    BY <1>1 DEF IdsPartition
  <2>2. HasMatch(db2, i) <=> i = id \/ HasMatch(db, i)
    BY <1>1, <1>2, <1>0 DEF HasMatch
  <2>3. QED
    BY <1>1, <1>2, <2>1, <2>2, MatchDatabaseAssumption DEF MatchId
<1>7. PendingExact(db2)
  <2> SUFFICES ASSUME NEW i \in MatchId
               PROVE  /\ db2.matchs[i].accepted \subseteq db2.matchs[i].players
                      /\ db2.matchs[i].pending_count
                           = Cardinality(db2.matchs[i].players \ db2.matchs[i].accepted)
    BY DEF PendingExact
  <2>1. CASE i = id
    BY <1>0, <1>1, <1>2, <2>1
  <2>2. CASE i # id
    BY <1>1, <1>2, <2>2 DEF PendingExact
  <2>3. QED
    BY <2>1, <2>2
<1>8. QED
  BY <1>1, <1>2, <1>4, <1>5, <1>6, <1>7 DEF new

(* replaceMatch by a match of the same players *)
LEMMA ReplaceMatchInv ==
  ASSUME NEW db, DbInv(db), NEW id \in MatchId, HasMatch(db, id),
         NEW players \in SUBSET Jid, players # {}, NEW terms \in Terms,
         db.matchs[id].players = players
  PROVE  /\ DbInv(ReplaceMatch(db, id, players, terms))
         /\ ReplaceMatch(db, id, players, terms).matchs
              = [db.matchs EXCEPT ![id] = NewMatchInfo(players, terms)]
<1> DEFINE new == NewMatchInfo(players, terms)
           db2 == ReplaceMatch(db, id, players, terms)
<1> USE DEF DbInv
<1>1. /\ db.matchs \in [MatchId -> MatchInfo]
      /\ db2.matchs = [db.matchs EXCEPT ![id] = new]
      /\ db2.player_matchs = db.player_matchs
      /\ db2.used_id = db.used_id
      /\ db2.unused_ids = db.unused_ids
  BY DEF Database, ReplaceMatch
<1>0. /\ new \in MatchInfo
      /\ new # NoMatch
      /\ new.players = players
      /\ new.accepted = {}
      /\ new.pending_count = Cardinality(players \ {})
  BY NewMatchInfoFacts
<1> HIDE DEF new
<1>2. db2 \in Database
  BY <1>0 DEF Database, ReplaceMatch, new
<1>3. IndexConsistent(db2)
  BY <1>1, <1>0 DEF IndexConsistent
<1>4. \A i \in MatchId : HasMatch(db2, i) <=> HasMatch(db, i)
  BY <1>1, <1>0 DEF HasMatch
<1>5. IdsPartition(db2)
  BY <1>1, <1>4 DEF IdsPartition
<1>6. PendingExact(db2)
  BY <1>1, <1>0 DEF PendingExact
<1>7. QED
  BY <1>1, <1>2, <1>3, <1>5, <1>6 DEF new

(* acceptMatch by a player of the match *)
LEMMA AcceptMatchInv ==
  ASSUME NEW db, DbInv(db), NEW id \in MatchId, HasMatch(db, id),
         NEW p \in db.matchs[id].players
  PROVE  /\ DbInv(AcceptMatch(db, id, p))
         /\ AcceptMatch(db, id, p).matchs[id].accepted
              = db.matchs[id].accepted \union {p}
         /\ \A i \in MatchId :
              /\ AcceptMatch(db, id, p).matchs[i].players = db.matchs[i].players
              /\ HasMatch(AcceptMatch(db, id, p), i) <=> HasMatch(db, i)
              /\ i # id => AcceptMatch(db, id, p).matchs[i] = db.matchs[i]
<1> DEFINE m == db.matchs[id]
           m2 == [m EXCEPT !.accepted = @ \union {p}, !.pending_count = @ - 1]
           db2 == AcceptMatch(db, id, p)
<1> USE DEF DbInv
<1>1. CASE p \in m.accepted
  <2>1. db2 = db
    BY <1>1 DEF AcceptMatch
  <2>2. m.accepted = m.accepted \union {p}
    BY <1>1
  <2>3. QED
    BY <2>1, <2>2
<1>2. CASE p \notin m.accepted
  <2>1. /\ db.matchs \in [MatchId -> MatchInfo]
        /\ m \in MatchInfo
        /\ p \in Jid
    BY DEF Database, MatchInfo
  <2>2. /\ db2.matchs = [db.matchs EXCEPT ![id] = m2]
        /\ db2.player_matchs = db.player_matchs
        /\ db2.used_id = db.used_id
        /\ db2.unused_ids = db.unused_ids
    BY <1>2, <2>1 DEF AcceptMatch, Database, MatchInfo
  <2>3. /\ m.accepted \subseteq m.players
        /\ m.pending_count = Cardinality(m.players \ m.accepted)
    BY DEF PendingExact
  <2>4. /\ Cardinality((m.players \ m.accepted) \ {p}) = Cardinality(m.players \ m.accepted) - 1
        /\ Cardinality((m.players \ m.accepted) \ {p}) \in Nat
    <3>1. m.players \ m.accepted \in SUBSET Jid
      BY <2>1 DEF MatchInfo
    <3>2. p \in m.players \ m.accepted
      BY <1>2
    <3>3. (m.players \ m.accepted) \ {p} \in SUBSET Jid
      BY <3>1
    <3>4. QED
      BY <3>1, <3>2, <3>3, SubsetsOfJid, FS_RemoveElement
  <2>5. /\ m2.players = m.players
        /\ m2.terms = m.terms
        /\ m2.accepted = m.accepted \union {p}
        /\ m2.pending_count = m.pending_count - 1
    BY <2>1 DEF MatchInfo
  <2>6. m2.players \ m2.accepted = (m.players \ m.accepted) \ {p}
    BY <2>5
  <2>7. m2.pending_count = Cardinality(m2.players \ m2.accepted) /\ m2.pending_count \in Nat
    BY <2>3, <2>4, <2>5, <2>6
  <2>8. m2 \in MatchInfo
    BY <2>1, <2>5, <2>7 DEF MatchInfo
  <2>9. m2 # NoMatch
    BY <2>5 DEF NoMatch
  <2>10. db2 \in Database
    BY <1>2, <2>1, <2>2, <2>8 DEF Database, AcceptMatch
  <2>11. \A i \in MatchId :
           /\ db2.matchs[i].players = db.matchs[i].players
           /\ HasMatch(db2, i) <=> HasMatch(db, i)
           /\ i # id => db2.matchs[i] = db.matchs[i]
    BY <2>1, <2>2, <2>5, <2>9 DEF HasMatch
  <2>12. IndexConsistent(db2)
    BY <2>2, <2>11 DEF IndexConsistent
  <2>13. IdsPartition(db2)
    BY <2>2, <2>11 DEF IdsPartition
  <2>14. PendingExact(db2)
    BY <2>1, <2>2, <2>3, <2>5, <2>7 DEF PendingExact
  <2>15. db2.matchs[id].accepted = m.accepted \union {p}
    BY <2>1, <2>2, <2>5
  <2>16. QED
    BY <2>10, <2>11, <2>12, <2>13, <2>14, <2>15
<1>3. QED
  BY <1>1, <1>2

(* closeMatch of any set of pending matches *)
LEMMA CloseMatchsInv ==
  ASSUME NEW db, DbInv(db), NEW ids \in SUBSET MatchId,
         \A id \in ids : HasMatch(db, id)
  PROVE  /\ DbInv(CloseMatchs(db, ids))
         /\ \A i \in MatchId :
              CloseMatchs(db, ids).matchs[i] = IF i \in ids THEN NoMatch ELSE db.matchs[i]
<1> DEFINE db2 == CloseMatchs(db, ids)
<1> USE DEF DbInv
<1>1. /\ db2.matchs = [id \in MatchId |-> IF id \in ids THEN NoMatch ELSE db.matchs[id]]
      /\ db2.player_matchs = [p \in Jid |->
           db.player_matchs[p] \ {id \in ids : p \in db.matchs[id].players}]
      /\ db2.used_id = db.used_id
      /\ db2.unused_ids = db.unused_ids \union ids
  BY DEF CloseMatchs
<1>2. db2 \in Database
  BY <1>1, NoMatchType DEF Database, CloseMatchs
<1>3. IndexConsistent(db2)
  <2> SUFFICES ASSUME NEW p \in Jid, NEW i \in MatchId
               PROVE  i \in db2.player_matchs[p] <=> p \in db2.matchs[i].players
    BY DEF IndexConsistent
  <2>1. i \in db.player_matchs[p] <=> p \in db.matchs[i].players
    BY DEF IndexConsistent
  <2>2. QED
    BY <1>1, <2>1 DEF NoMatch
<1>4. IdsPartition(db2)
  <2> SUFFICES ASSUME NEW i \in MatchId
               PROVE  /\ HasMatch(db2, i) <=> i < db2.used_id /\ i \notin db2.unused_ids
                      /\ i \in db2.unused_ids => i < db2.used_id
    BY DEF IdsPartition
  <2>1. /\ HasMatch(db, i) <=> i < db.used_id /\ i \notin db.unused_ids
        /\ i \in db.unused_ids => i < db.used_id
    BY DEF IdsPartition
  <2>2. HasMatch(db2, i) <=> HasMatch(db, i) /\ i \notin ids
    BY <1>1 DEF HasMatch
  <2>3. QED
    BY <1>1, <2>1, <2>2
<1>5. PendingExact(db2)
  <2>1. NoMatch.accepted \subseteq NoMatch.players
    BY DEF NoMatch
  <2>2. NoMatch.pending_count = Cardinality(NoMatch.players \ NoMatch.accepted)
    <3>1. NoMatch.players \ NoMatch.accepted = {}
      BY DEF NoMatch
    <3>2. QED
      BY <3>1, FS_EmptySet DEF NoMatch
  <2>3. QED
    BY <1>1, <2>1, <2>2 DEF PendingExact
<1>6. QED
  BY <1>1, <1>2, <1>3, <1>4, <1>5

-----------------------------------------------------------------------------
(***************************************************************************)
(* The core's part of the state is GameRegistry, so what is proved about   *)
(* it holds here. An instance has copies of the operators of FiniteSets,   *)
(* which the lemma identifies with the ones of this module.                *)
(***************************************************************************)
CoreProofs == INSTANCE GameRegistryProofs WITH users_status <- core_status

CoreInv == Core!TypeOK /\ Core!CountsExact

LEMMA SameFiniteSets ==
  \A S : /\ Core!Cardinality(S) = CoreProofs!Cardinality(S)
         /\ CoreProofs!IsFiniteSet(S) = IsFiniteSet(S)
BY DEF Core!Cardinality, CoreProofs!Cardinality, CoreProofs!IsFiniteSet, IsFiniteSet

LEMMA SameInv == CoreInv = CoreProofs!IInv /\ CoreInv' = CoreProofs!IInv'
BY SameFiniteSets
   DEF CoreInv, Core!TypeOK, Core!CountsExact, Core!UserStatus, Core!GameInfo,
       Core!LiveGames, CoreProofs!IInv, CoreProofs!TypeOK, CoreProofs!CountsExact,
       CoreProofs!UserStatus, CoreProofs!GameInfo, CoreProofs!LiveGames

LEMMA SameNext == [Core!Next]_coreVars => [CoreProofs!Next]_(CoreProofs!vars)
BY DEF coreVars, CoreProofs!vars, Core!Next, CoreProofs!Next,
       Core!SetPresence, Core!CreateGame, Core!EndGame, Core!AddGames,
       Core!AllCanPlay, Core!CanPlay, CoreProofs!SetPresence,
       CoreProofs!CreateGame, CoreProofs!EndGame, CoreProofs!AddGames,
       CoreProofs!AllCanPlay, CoreProofs!CanPlay

LEMMA CoreStep == CoreInv /\ [Core!Next]_coreVars => CoreInv'
<1>1. IsFiniteSet(Jid) /\ IsFiniteSet(Game)
  BY MatchManagerAssumption, MatchDatabaseAssumption
<1>2. CoreProofs!IInv /\ [CoreProofs!Next]_(CoreProofs!vars) => CoreProofs!IInv'
  BY <1>1, SameFiniteSets, CoreProofs!NextIInv DEF CoreProofs!FiniteRegistry
<1>3. QED
  BY <1>2, SameInv, SameNext

LEMMA CoreInit == Core!Init => CoreInv
<1>1. IsFiniteSet(Jid) /\ IsFiniteSet(Game)
  BY MatchManagerAssumption, MatchDatabaseAssumption
<1>2. CoreProofs!Init => CoreProofs!IInv
  BY <1>1, SameFiniteSets, CoreProofs!InitIInv
<1>3. Core!Init => CoreProofs!Init
  BY DEF Core!Init, CoreProofs!Init, Core!NewStatus, CoreProofs!NewStatus
<1>4. QED
  BY <1>2, <1>3, SameInv

-----------------------------------------------------------------------------
(* Stanzas: an error names no match, and nothing else does without one.    *)

WellFormed(stanzas) ==
  /\ stanzas \subseteq SentStanza
  /\ \A s \in stanzas : s.id = NoId <=> s.kind = "error"

LEMMA NoIdIsNoMatchId == NoId \notin MatchId
BY MatchDatabaseAssumption DEF NoId, MatchId

LEMMA WellFormedStanzas ==
  ASSUME NEW players \in SUBSET Jid, NEW id \in MatchId,
         NEW kind \in {"result", "offer", "decline", "start"}
  PROVE  WellFormed(SendAll(players, kind, id))
BY NoIdIsNoMatchId DEF WellFormed, SendAll, Stanza, SentStanza

LEMMA WellFormedReply ==
  ASSUME NEW u \in Jid
  PROVE  /\ \A id \in MatchId : WellFormed({Stanza(u, "result", id)})
         /\ WellFormed({Stanza(u, "error", NoId)})
BY NoIdIsNoMatchId DEF WellFormed, Stanza, SentStanza

LEMMA WellFormedDeclines ==
  ASSUME NEW db \in Database, NEW ids \in SUBSET MatchId
  PROVE  WellFormed(Declines(db, ids))
<1>1. \A id \in ids : db.matchs[id].players \in SUBSET Jid
  BY DEF Database, MatchInfo
<1>2. \A id \in ids : WellFormed(SendAll(db.matchs[id].players, "decline", id))
  BY <1>1, WellFormedStanzas
<1>3. QED
  BY <1>2 DEF WellFormed, Declines

LEMMA WellFormedUnion ==
  ASSUME NEW A, NEW B, WellFormed(A), WellFormed(B)
  PROVE  WellFormed(A \union B)
BY DEF WellFormed

-----------------------------------------------------------------------------
(* The table of matches as the module sees it between two messages: what   *)
(* MatchDatabase keeps by itself, and what it keeps only because the       *)
(* module calls it in the right order and tests the status of the players. *)

TableInv(db, status) ==
  /\ DbInv(db)
  /\ \A id \in MatchId : HasMatch(db, id) =>
       db.matchs[id].pending_count > 0 /\ db.matchs[id].accepted # {}
  /\ \A id \in MatchId : \A p \in db.matchs[id].players : status[p].available

(* Closing matches cannot break it. *)
LEMMA CloseTable ==
  ASSUME NEW db, NEW status, TableInv(db, status),
         NEW ids \in SUBSET MatchId, \A id \in ids : HasMatch(db, id)
  PROVE  TableInv(CloseMatchs(db, ids), status)
<1> DEFINE db2 == CloseMatchs(db, ids)
<1>1. /\ DbInv(db2)
      /\ \A i \in MatchId : db2.matchs[i] = IF i \in ids THEN NoMatch ELSE db.matchs[i]
  BY CloseMatchsInv DEF TableInv
<1> HIDE DEF db2
<1>2. \A i \in MatchId : HasMatch(db2, i) => HasMatch(db, i) /\ db2.matchs[i] = db.matchs[i]
  BY <1>1 DEF HasMatch
<1>3. NoMatch.players = {}
  BY DEF NoMatch
<1>4. QED
  BY <1>1, <1>2, <1>3 DEF TableInv, db2

(* The matches of a player are matches. *)
LEMMA IndexedMatchs ==
  ASSUME NEW db, DbInv(db), NEW p \in Jid, NEW id \in db.player_matchs[p]
  PROVE  id \in MatchId /\ HasMatch(db, id) /\ p \in db.matchs[id].players
<1>1. id \in MatchId
  BY DEF DbInv, Database
<1>2. p \in db.matchs[id].players
  BY <1>1 DEF DbInv, IndexConsistent
<1>3. QED
  BY <1>1, <1>2 DEF HasMatch, NoMatch

(* A player of a pair who has accepted leaves the other one pending. *)
LEMMA PairPending ==
  ASSUME NEW players \in PlayerPairs, NEW u \in players
  PROVE  /\ players \in SUBSET Jid
         /\ players # {}
         /\ Cardinality(players \ {u}) \in Nat
         /\ Cardinality(players \ {u}) > 0
<1>1. players \in SUBSET Jid /\ Cardinality(players) = 2
  BY DEF PlayerPairs
<1>2. IsFiniteSet(players)
  BY <1>1, SubsetsOfJid
<1>3. Cardinality(players \ {u}) = Cardinality(players) - 1
  BY <1>2, FS_RemoveElement
<1>4. QED
  BY <1>1, <1>3

-----------------------------------------------------------------------------
(* processOffer *)

LEMMA PublishTable ==
  ASSUME NEW status, NEW db, NEW db2, NEW id \in MatchId,
         NEW players \in PlayerPairs, NEW u \in players,
         TableInv(db, status), \A p \in players : status[p].available,
         DbInv(db2), db2.matchs[id] # NoMatch,
         db2.matchs[id].players = players, db2.matchs[id].accepted = {},
         \A i \in MatchId : i # id => db2.matchs[i] = db.matchs[i]
  PROVE  TableInv(AcceptMatch(db2, id, u), status)
<1> DEFINE db3 == AcceptMatch(db2, id, u)
<1>1. Cardinality(players \ {u}) > 0
  BY PairPending
<1>2. /\ DbInv(db3)
      /\ db3.matchs[id].accepted = {u}
      /\ db3.matchs[id].players = players
      /\ \A i \in MatchId : i # id => db3.matchs[i] = db.matchs[i]
  <2>1. HasMatch(db2, id) /\ u \in db2.matchs[id].players
    BY DEF HasMatch
  <2>2. /\ DbInv(db3)
        /\ db3.matchs[id].accepted = db2.matchs[id].accepted \union {u}
        /\ \A i \in MatchId :
             /\ db3.matchs[i].players = db2.matchs[i].players
             /\ i # id => db3.matchs[i] = db2.matchs[i]
    BY <2>1, AcceptMatchInv
  <2> HIDE DEF db3
  <2>3. QED
    BY <2>2
<1> HIDE DEF db3
<1>3. db3.matchs[id].pending_count > 0
  <2>1. db3.matchs[id].pending_count
          = Cardinality(db3.matchs[id].players \ db3.matchs[id].accepted)
    BY <1>2 DEF DbInv, PendingExact
  <2>2. QED
    BY <1>1, <1>2, <2>1
<1>4. \A i \in MatchId : i # id => (HasMatch(db3, i) <=> HasMatch(db, i))
  BY <1>2 DEF HasMatch
<1>5. TableInv(db3, status)
  BY <1>2, <1>3, <1>4 DEF TableInv
<1>6. QED
  BY <1>5 DEF db3

LEMMA OfferTable ==
  ASSUME TableInv(match_db, users_status),
         NEW u \in Jid, NEW players \in PlayerPairs, NEW terms \in Terms,
         NEW id \in MatchId \union {NoId},
         ProcessOffer(u, players, terms, id)
  PROVE  TableInv(match_db', users_status) /\ WellFormed(sent')
<1>1. players \in SUBSET Jid /\ players # {}
  <2>1. players \in SUBSET Jid /\ Cardinality(players) # 0
    BY DEF PlayerPairs
  <2>2. QED
    BY <2>1, FS_EmptySet
<1>2. ASSUME ValidPlayers(u, players), NEW i \in MatchId, NEW db, DbInv(db),
             db.matchs = [match_db.matchs EXCEPT ![i] = NewMatchInfo(players, terms)],
             PublishOffer(db, u, players, i)
      PROVE  TableInv(match_db', users_status) /\ WellFormed(sent')
  <2>1. u \in players /\ \A p \in players : users_status[p].available
    BY <1>2 DEF ValidPlayers, Core!CanPlay
  <2>2. TableInv(match_db', users_status)
    <3>1. /\ db.matchs[i] # NoMatch
          /\ db.matchs[i].players = players
          /\ db.matchs[i].accepted = {}
          /\ \A j \in MatchId : j # i => db.matchs[j] = match_db.matchs[j]
      <4>1. /\ NewMatchInfo(players, terms) # NoMatch
            /\ NewMatchInfo(players, terms).players = players
            /\ NewMatchInfo(players, terms).accepted = {}
        BY <1>1, NewMatchInfoFacts
      <4>2. match_db.matchs \in [MatchId -> MatchInfo]
        BY DEF TableInv, DbInv, Database
      <4>3. QED
        BY <1>2, <4>1, <4>2
    <3>2. TableInv(AcceptMatch(db, i, u), users_status)
      BY <1>2, <2>1, <3>1, PublishTable
    <3>3. QED
      BY <1>2, <3>2 DEF PublishOffer
  <2>3. players \ {u} \in SUBSET Jid
    BY <1>1
  <2>4. WellFormed({Stanza(u, "result", i)}) /\ WellFormed(SendAll(players \ {u}, "offer", i))
    BY <1>2, <2>3, WellFormedReply, WellFormedStanzas
  <2>5. QED
    BY <1>2, <2>2, <2>4, WellFormedUnion DEF PublishOffer
<1>3. CASE /\ ValidPlayers(u, players) /\ id # NoId /\ ValidReoffer(players, id)
           /\ PublishOffer(ReplaceMatch(match_db, id, players, terms), u, players, id)
  <2>1. id \in MatchId /\ HasMatch(match_db, id) /\ match_db.matchs[id].players = players
    BY <1>3 DEF ValidReoffer
  <2>2. /\ DbInv(ReplaceMatch(match_db, id, players, terms))
        /\ ReplaceMatch(match_db, id, players, terms).matchs
             = [match_db.matchs EXCEPT ![id] = NewMatchInfo(players, terms)]
    BY <1>1, <2>1, ReplaceMatchInv DEF TableInv
  <2>3. QED
    BY <1>2, <1>3, <2>1, <2>2
<1>4. CASE /\ ValidPlayers(u, players) /\ id = NoId
           /\ \E new \in AcquirableIds(match_db) :
                PublishOffer(InsertMatch(match_db, new, players, terms), u, players, new)
  <2>1. PICK new \in AcquirableIds(match_db) :
          PublishOffer(InsertMatch(match_db, new, players, terms), u, players, new)
    BY <1>4
  <2>2. /\ DbInv(InsertMatch(match_db, new, players, terms))
        /\ new \in MatchId
        /\ InsertMatch(match_db, new, players, terms).matchs
             = [match_db.matchs EXCEPT ![new] = NewMatchInfo(players, terms)]
    BY <1>1, InsertMatchInv DEF TableInv
  <2>3. QED
    BY <1>2, <1>4, <2>1, <2>2
<1>5. CASE Refuse(u)
  BY <1>5, WellFormedReply DEF Refuse
<1>6. QED
  BY <1>3, <1>4, <1>5 DEF ProcessOffer

-----------------------------------------------------------------------------
(* handleDecline, handleAccept and _notifyUserStatus *)

LEMMA DeclineTable ==
  ASSUME TableInv(match_db, users_status),
         NEW u \in Jid, NEW id \in MatchId \union {NoId}, HandleDecline(u, id)
  PROVE  TableInv(match_db', users_status) /\ WellFormed(sent')
<1>1. CASE /\ HasPlayer(match_db, id, u)
           /\ match_db' = CloseMatchs(match_db, {id})
           /\ sent' = {Stanza(u, "result", id)} \union Declines(match_db, {id})
  <2>1. {id} \in SUBSET MatchId /\ \A i \in {id} : HasMatch(match_db, i)
    BY <1>1 DEF HasPlayer, HasMatch
  <2>2. TableInv(match_db', users_status)
    BY <1>1, <2>1, CloseTable
  <2>3. match_db \in Database
    BY DEF TableInv, DbInv
  <2>4. WellFormed({Stanza(u, "result", id)}) /\ WellFormed(Declines(match_db, {id}))
    BY <2>1, <2>3, WellFormedReply, WellFormedDeclines
  <2>5. QED
    BY <1>1, <2>2, <2>4, WellFormedUnion
<1>2. CASE Refuse(u)
  BY <1>2, WellFormedReply DEF Refuse
<1>3. QED
  BY <1>1, <1>2 DEF HandleDecline

(* The last accept closes the match and then others, all in the table. *)
LEMMA StartTable ==
  ASSUME TableInv(match_db, users_status),
         NEW u \in Jid, NEW id \in MatchId, HasPlayer(match_db, id, u),
         StartMatch(u, id)
  PROVE  TableInv(match_db', users_status) /\ WellFormed(sent')
<1> DEFINE players == match_db.matchs[id].players
           closed  == CloseMatchs(match_db, {id})
           others  == MatchsOfMultigame(closed, players)
           told    == {Stanza(u, "result", id)} \union Declines(closed, others)
<1>1. /\ match_db \in Database
      /\ players \in SUBSET Jid
      /\ \A i \in {id} : HasMatch(match_db, i)
  BY DEF TableInv, DbInv, Database, MatchInfo, HasPlayer
<1>2. TableInv(closed, users_status)
  <2>1. {id} \in SUBSET MatchId
    OBVIOUS
  <2>2. QED
    BY <1>1, <2>1, CloseTable
<1>3. match_db' = CloseMatchs(closed, others)
  BY DEF StartMatch
<1>4. \/ sent' = told \union SendAll(players, "start", id)
      \/ sent' = told \union {Stanza(u, "error", NoId)}
  BY DEF StartMatch
<1> HIDE DEF closed, players
<1>5. others \in SUBSET MatchId /\ \A i \in others : HasMatch(closed, i)
  <2> SUFFICES ASSUME NEW i \in others
               PROVE  i \in MatchId /\ HasMatch(closed, i)
    OBVIOUS
  <2>1. PICK p \in players : i \in closed.player_matchs[p]
    BY DEF MatchsOfMultigame
  <2>2. QED
    BY <1>1, <1>2, <2>1, IndexedMatchs DEF TableInv
<1> HIDE DEF others
<1>6. TableInv(match_db', users_status)
  BY <1>2, <1>3, <1>5, CloseTable
<1>7. WellFormed(told)
  <2>1. closed \in Database
    BY <1>2 DEF TableInv, DbInv
  <2>2. WellFormed({Stanza(u, "result", id)}) /\ WellFormed(Declines(closed, others))
    BY <1>5, <2>1, WellFormedReply, WellFormedDeclines
  <2>3. QED
    BY <2>2, WellFormedUnion
<1> HIDE DEF told
<1>8. WellFormed(SendAll(players, "start", id)) /\ WellFormed({Stanza(u, "error", NoId)})
  BY <1>1, WellFormedStanzas, WellFormedReply
<1>9. WellFormed(sent')
  BY <1>4, <1>7, <1>8, WellFormedUnion
<1>10. QED
  BY <1>6, <1>9

LEMMA AcceptTable ==
  ASSUME TableInv(match_db, users_status),
         NEW u \in Jid, NEW id \in MatchId, HandleAccept(u, id)
  PROVE  TableInv(match_db', users_status) /\ WellFormed(sent')
<1>1. CASE Refuse(u)
  BY <1>1, WellFormedReply DEF Refuse
<1>2. CASE /\ HasPlayer(match_db, id, u)
           /\ ~IsDone(AcceptMatch(match_db, id, u), id)
           /\ match_db' = AcceptMatch(match_db, id, u)
           /\ sent' = {Stanza(u, "result", id)}
  <2>1. HasMatch(match_db, id) /\ u \in match_db.matchs[id].players /\ DbInv(match_db)
    BY <1>2 DEF HasPlayer, TableInv
  <2>2. /\ DbInv(match_db')
        /\ match_db'.matchs[id].accepted = match_db.matchs[id].accepted \union {u}
        /\ \A i \in MatchId :
             /\ match_db'.matchs[i].players = match_db.matchs[i].players
             /\ HasMatch(match_db', i) <=> HasMatch(match_db, i)
             /\ i # id => match_db'.matchs[i] = match_db.matchs[i]
    BY <1>2, <2>1, AcceptMatchInv
  <2>3. match_db'.matchs[id].pending_count > 0
    BY <1>2, <2>2 DEF IsDone, DbInv, Database, MatchInfo
  <2>4. TableInv(match_db', users_status)
    BY <2>2, <2>3 DEF TableInv
  <2>5. QED
    BY <1>2, <2>4, WellFormedReply
<1>3. CASE HasPlayer(match_db, id, u) /\ StartMatch(u, id)
  BY <1>3, StartTable
<1>4. QED
  BY <1>1, <1>2, <1>3 DEF HandleAccept

(* A user who is not available any more has no match left. *)
LEMMA StatusTable ==
  ASSUME TableInv(match_db, users_status),
         users_status \in [Jid -> Core!UserStatus],
         NEW msg \in StatusMsg, UpdateStatus(msg)
  PROVE  TableInv(match_db', users_status') /\ WellFormed(sent')
<1> DEFINE gone == IF msg.status.available THEN {} ELSE match_db.player_matchs[msg.user]
           db2  == CloseMatchs(match_db, gone)
<1>1. /\ msg.user \in Jid
      /\ users_status' = [users_status EXCEPT ![msg.user] = msg.status]
      /\ match_db' = db2
      /\ sent' = Declines(match_db, gone)
  BY DEF UpdateStatus, StatusMsg
<1>2. gone \in SUBSET MatchId /\ \A i \in gone : HasMatch(match_db, i)
  BY <1>1, IndexedMatchs DEF TableInv
<1>3. TableInv(db2, users_status)
  BY <1>2, CloseTable
<1>4. \A i \in MatchId : db2.matchs[i] = IF i \in gone THEN NoMatch ELSE match_db.matchs[i]
  BY <1>2, CloseMatchsInv DEF TableInv
<1> HIDE DEF db2
<1>5. ASSUME NEW i \in MatchId, NEW p \in db2.matchs[i].players
      PROVE  users_status'[p].available
  <2>1. p \in Jid /\ users_status[p].available
    BY <1>3, <1>5 DEF TableInv, DbInv, Database, MatchInfo
  <2>2. CASE p = msg.user
    <3>1. i \notin gone /\ p \in match_db.matchs[i].players
      BY <1>4, <1>5 DEF NoMatch
    <3>2. i \in match_db.player_matchs[p]
      BY <2>1, <3>1 DEF TableInv, DbInv, IndexConsistent
    <3>3. QED
      BY <1>1, <2>2, <3>1, <3>2
  <2>3. CASE p # msg.user
    BY <1>1, <2>1, <2>3
  <2>4. QED
    BY <2>2, <2>3
<1>6. TableInv(match_db', users_status')
  BY <1>1, <1>3, <1>5 DEF TableInv
<1>7. WellFormed(sent')
  BY <1>1, <1>2, WellFormedDeclines DEF TableInv, DbInv
<1>8. QED
  BY <1>6, <1>7

-----------------------------------------------------------------------------
(* The inductive invariant.                                                *)

QueuesOK ==
  /\ users_status \in [Jid -> Core!UserStatus]
  /\ inbox \in Seq(Message)
  /\ delayed_offer \in Seq(Offer)
  /\ loads \in [Adjourned -> Nat]
  /\ erases \subseteq Adjourned
  /\ adjourned_games \subseteq Adjourned
  /\ repeats \in Nat
  /\ crashed \in BOOLEAN

ModuleInv == QueuesOK /\ TableInv(match_db, users_status) /\ WellFormed(sent)

IInv == CoreInv /\ ModuleInv

(* notifyUserStatus queues messages. *)
LEMMA NotifyType ==
  ASSUME NEW players \in SUBSET Jid, core_status' \in [Jid -> Core!UserStatus],
         inbox \in Seq(Message), Notify(players)
  PROVE  inbox' \in Seq(Message)
<1>1. PICK notices \in Notices(players) : inbox' = inbox \o notices
  BY DEF Notify
<1>2. Cardinality(players) \in Nat
  BY SubsetsOfJid
<1>3. \A u \in players : StatusOf(core_status', u) \in Message
  BY DEF StatusOf, Message, StatusMsg
<1>4. notices \in [1 .. Cardinality(players) -> Message]
  BY <1>3 DEF Notices
<1>5. notices \in Seq(Message)
  BY <1>2, <1>4, SeqDef
<1>6. QED
  BY <1>1, <1>5, ConcatProperties

LEMMA InitModule == Init => ModuleInv
<1> SUFFICES ASSUME Init PROVE ModuleInv
  OBVIOUS
<1>1. QueuesOK
  BY EmptySeq, MatchManagerAssumption
     DEF Init, QueuesOK, Core!NewStatus, Core!UserStatus
<1>2. TableInv(match_db, users_status)
  <2>1. DbInv(match_db)
    BY EmptyDatabaseInv DEF Init
  <2>2. \A id \in MatchId : match_db.matchs[id] = NoMatch
    BY DEF Init, EmptyDatabase
  <2>3. NoMatch.players = {}
    BY DEF NoMatch
  <2>4. QED
    BY <2>1, <2>2, <2>3 DEF TableInv, HasMatch
<1>3. WellFormed(sent)
  BY DEF Init, WellFormed
<1>4. QED
  BY <1>1, <1>2, <1>3 DEF ModuleInv

(* What a step that leaves the table and the copy alone has to keep. *)
LEMMA TableUnchanged ==
  ASSUME ModuleInv, UNCHANGED <<users_status, match_db>>
  PROVE  TableInv(match_db', users_status')
BY DEF ModuleInv

LEMMA EnvironmentStep ==
  ASSUME IInv, core_status' \in [Jid -> Core!UserStatus], Environment
  PROVE  ModuleInv'
<1>1. ASSUME NEW players \in SUBSET Jid, Notify(players), sent' = {},
             UNCHANGED <<users_status, match_db, adjVars, crashed>>
      PROVE  ModuleInv'
  <2>1. inbox' \in Seq(Message)
    BY <1>1, NotifyType DEF IInv, ModuleInv, QueuesOK
  <2>2. QueuesOK'
    BY <1>1, <2>1 DEF IInv, ModuleInv, QueuesOK, adjVars
  <2>3. TableInv(match_db', users_status')
    BY <1>1, TableUnchanged DEF IInv
  <2>4. QED
    BY <1>1, <2>2, <2>3 DEF ModuleInv, WellFormed
<1>2. ASSUME NEW u \in Jid, NEW available \in BOOLEAN, NEW multigame \in BOOLEAN,
             HandlePresence(u, available, multigame)
      PROVE  ModuleInv'
  <2>1. {u} \in SUBSET Jid
    OBVIOUS
  <2>2. QED
    BY <1>1, <1>2, <2>1 DEF HandlePresence
<1>3. ASSUME NEW g \in Game, NEW players \in PlayerPairs, OtherCreateGame(g, players)
      PROVE  ModuleInv'
  <2>1. players \in SUBSET Jid
    BY DEF PlayerPairs
  <2>2. QED
    BY <1>1, <1>3, <2>1 DEF OtherCreateGame
<1>4. ASSUME NEW g \in Game, EndGame(g)
      PROVE  ModuleInv'
  <2>1. games[g].players \in SUBSET Jid
    BY DEF IInv, CoreInv, Core!TypeOK, Core!GameInfo
  <2>2. QED
    BY <1>1, <1>4, <2>1 DEF EndGame
<1>5. QED
  BY <1>2, <1>3, <1>4 DEF Environment

LEMMA DatabaseStep ==
  ASSUME IInv, DatabaseThreads
  PROVE  ModuleInv'
<1> USE DEF IInv
<1>1. ASSUME NEW a \in Adjourned, AnswerLoad(a)
      PROVE  inbox' \in Seq(Message)
  BY <1>1 DEF AnswerLoad, Message, ResumeMsg, ModuleInv, QueuesOK
<1>2. ASSUME NEW a \in Adjourned, LoadAdjourned(a)
      PROVE  ModuleInv'
  <2>1. inbox' \in Seq(Message)
    BY <1>1, <1>2 DEF LoadAdjourned
  <2>2. loads' \in [Adjourned -> Nat]
    BY <1>2 DEF LoadAdjourned, ModuleInv, QueuesOK
  <2>3. QueuesOK'
    BY <1>2, <2>1, <2>2 DEF LoadAdjourned, ModuleInv, QueuesOK
  <2>4. TableInv(match_db', users_status')
    BY <1>2, TableUnchanged DEF LoadAdjourned
  <2>5. QED
    BY <1>2, <2>3, <2>4 DEF LoadAdjourned, ModuleInv, WellFormed
<1>3. ASSUME NEW a \in Adjourned, RepeatLoad(a)
      PROVE  ModuleInv'
  <2>1. inbox' \in Seq(Message)
    BY <1>1, <1>3 DEF RepeatLoad
  <2>2. QueuesOK'
    BY <1>3, <2>1 DEF RepeatLoad, ModuleInv, QueuesOK
  <2>3. TableInv(match_db', users_status')
    BY <1>3, TableUnchanged DEF RepeatLoad
  <2>4. QED
    BY <1>3, <2>2, <2>3 DEF RepeatLoad, ModuleInv, WellFormed
<1>4. ASSUME NEW a \in Adjourned, EraseAdjourned(a)
      PROVE  ModuleInv'
  <2>1. QueuesOK'
    BY <1>4 DEF EraseAdjourned, ModuleInv, QueuesOK
  <2>2. TableInv(match_db', users_status')
    BY <1>4, TableUnchanged DEF EraseAdjourned
  <2>3. QED
    BY <1>4, <2>1, <2>2 DEF EraseAdjourned, ModuleInv, WellFormed
<1>5. QED
  BY <1>2, <1>3, <1>4 DEF DatabaseThreads

LEMMA IqStep ==
  ASSUME IInv, core_status' \in [Jid -> Core!UserStatus], HandleIq
  PROVE  ModuleInv'
<1> USE DEF IInv
<1>1. PICK u \in Jid, id \in MatchId \union {NoId} :
        \/ RefuseUnavailable(u)
        \/ \E players \in PlayerPairs, terms \in Terms \ Adjourned :
              HandleOffer(u, players, terms, id)
        \/ \E a \in Adjourned : HandleAdjournedOffer(u, a, id)
        \/ id # NoId /\ (HandleAccept(u, id) \/ HandleDecline(u, id))
  BY DEF HandleIq
<1>2. CASE RefuseUnavailable(u)
  <2>1. QueuesOK'
    BY <1>2 DEF RefuseUnavailable, ModuleInv, QueuesOK, adjVars
  <2>2. TableInv(match_db', users_status')
    BY <1>2, TableUnchanged DEF RefuseUnavailable, Refuse
  <2>3. QED
    BY <1>2, <2>1, <2>2, WellFormedReply DEF RefuseUnavailable, Refuse, ModuleInv
<1>3. ASSUME NEW players \in PlayerPairs, NEW terms \in Terms, HandleOffer(u, players, terms, id)
      PROVE  ModuleInv'
  <2>1. QueuesOK'
    BY <1>3 DEF HandleOffer, ModuleInv, QueuesOK, adjVars
  <2>2. TableInv(match_db', users_status) /\ WellFormed(sent')
    BY <1>3, OfferTable DEF HandleOffer, ModuleInv
  <2>3. QED
    BY <1>3, <2>1, <2>2 DEF HandleOffer, ModuleInv
<1>4. ASSUME NEW a \in Adjourned, HandleAdjournedOffer(u, a, id)
      PROVE  ModuleInv'
  <2>1. delayed_offer' \in Seq(Offer)
    BY <1>4 DEF HandleAdjournedOffer, ModuleInv, QueuesOK, Offer
  <2>2. loads' \in [Adjourned -> Nat]
    BY <1>4 DEF HandleAdjournedOffer, ModuleInv, QueuesOK
  <2>3. QueuesOK'
    BY <1>4, <2>1, <2>2 DEF HandleAdjournedOffer, ModuleInv, QueuesOK
  <2>4. TableInv(match_db', users_status')
    BY <1>4, TableUnchanged DEF HandleAdjournedOffer
  <2>5. QED
    BY <1>4, <2>3, <2>4 DEF HandleAdjournedOffer, ModuleInv, WellFormed
<1>5. CASE id # NoId /\ HandleAccept(u, id)
  <2>1. id \in MatchId
    BY <1>5
  <2>2. inbox' \in Seq(Message)
    <3>1. CASE UNCHANGED inbox
      BY <3>1 DEF ModuleInv, QueuesOK
    <3>2. CASE Notify(match_db.matchs[id].players)
      <4>1. match_db.matchs[id].players \in SUBSET Jid
        BY <2>1 DEF ModuleInv, TableInv, DbInv, Database, MatchInfo
      <4>2. QED
        BY <3>2, <4>1, NotifyType DEF ModuleInv, QueuesOK
    <3>3. QED
      BY <1>5, <3>1, <3>2 DEF HandleAccept, StartMatch
  <2>3. erases' \subseteq Adjourned
    BY <1>5 DEF HandleAccept, StartMatch, EraseIfAdjourned, ModuleInv, QueuesOK
  <2>4. QueuesOK'
    BY <1>5, <2>2, <2>3 DEF HandleAccept, ModuleInv, QueuesOK
  <2>5. TableInv(match_db', users_status) /\ WellFormed(sent')
    BY <1>5, <2>1, AcceptTable DEF ModuleInv
  <2>6. QED
    BY <1>5, <2>4, <2>5 DEF HandleAccept, ModuleInv
<1>6. CASE HandleDecline(u, id)
  <2>1. QueuesOK'
    BY <1>6 DEF HandleDecline, ModuleInv, QueuesOK, adjVars
  <2>2. TableInv(match_db', users_status) /\ WellFormed(sent')
    BY <1>6, DeclineTable DEF ModuleInv
  <2>3. QED
    BY <1>6, <2>1, <2>2 DEF HandleDecline, ModuleInv
<1>7. QED
  BY <1>1, <1>2, <1>3, <1>4, <1>5, <1>6

LEMMA MessageStep ==
  ASSUME IInv, HandleMessage
  PROVE  ModuleInv'
<1> USE DEF IInv
<1>1. /\ Head(inbox) \in Message
      /\ Tail(inbox) \in Seq(Message)
  BY HeadTailProperties
     DEF HandleMessage, HandleUserStatus, HandleResume, ResumeCrash, ModuleInv, QueuesOK
<1>2. CASE HandleUserStatus
  <2>1. Head(inbox) \in StatusMsg
    BY <1>1, <1>2 DEF HandleUserStatus, Message, ResumeMsg
  <2>2. TableInv(match_db', users_status') /\ WellFormed(sent')
    BY <1>2, <2>1, StatusTable DEF HandleUserStatus, ModuleInv, QueuesOK
  <2>3. users_status' \in [Jid -> Core!UserStatus]
    BY <1>2, <2>1 DEF HandleUserStatus, UpdateStatus, StatusMsg, ModuleInv, QueuesOK
  <2>4. QueuesOK'
    BY <1>1, <1>2, <2>3 DEF HandleUserStatus, ModuleInv, QueuesOK, adjVars
  <2>5. QED
    BY <2>2, <2>4 DEF ModuleInv
<1>3. CASE HandleResume
  <2>1. Head(inbox).adj_id \in Adjourned
    BY <1>1, <1>3 DEF HandleResume, Message, StatusMsg, ResumeMsg
  <2> DEFINE a == Head(inbox).adj_id
  <2>2. PICK i \in Waiting(a) :
          /\ ProcessOffer(delayed_offer[i].from, AdjPlayers[a], a, delayed_offer[i].id)
          /\ delayed_offer' = SubSeq(delayed_offer, 1, i - 1)
                                \o SubSeq(delayed_offer, i + 1, Len(delayed_offer))
    BY <1>3 DEF HandleResume, TakeDelayedOffer
  <2> HIDE DEF a
  <2>3. /\ delayed_offer \in Seq(Offer)
        /\ Len(delayed_offer) \in Nat
        /\ i \in 1 .. Len(delayed_offer)
        /\ \A j \in 1 .. Len(delayed_offer) : delayed_offer[j] \in Offer
    BY <2>2, LenProperties, ElementOfSeq DEF Waiting, ModuleInv, QueuesOK
  <2>4. delayed_offer' \in Seq(Offer)
    <3>1. SubSeq(delayed_offer, 1, i - 1) \in Seq(Offer)
      BY <2>3, SubSeqProperties
    <3>2. SubSeq(delayed_offer, i + 1, Len(delayed_offer)) \in Seq(Offer)
      BY <2>3, SubSeqProperties
    <3>3. QED
      BY <2>2, <3>1, <3>2, ConcatProperties
  <2>5. TableInv(match_db', users_status) /\ WellFormed(sent')
    <3>1. /\ delayed_offer[i].from \in Jid
          /\ delayed_offer[i].id \in MatchId \union {NoId}
      BY <2>3 DEF Offer
    <3>2. AdjPlayers[a] \in PlayerPairs /\ a \in Terms
      BY <2>1, MatchManagerAssumption DEF a
    <3>3. QED
      BY <2>2, <3>1, <3>2, OfferTable DEF ModuleInv
  <2>6. QueuesOK'
    BY <1>1, <1>3, <2>4 DEF HandleResume, ModuleInv, QueuesOK
  <2>7. QED
    BY <1>3, <2>5, <2>6 DEF HandleResume, ModuleInv
<1>4. CASE ResumeCrash
  <2>1. QueuesOK'
    BY <1>1, <1>4 DEF ResumeCrash, ModuleInv, QueuesOK, adjVars
  <2>2. TableInv(match_db', users_status')
    BY <1>4, TableUnchanged DEF ResumeCrash
  <2>3. QED
    BY <1>4, <2>1, <2>2 DEF ResumeCrash, ModuleInv, WellFormed
<1>5. QED
  BY <1>2, <1>3, <1>4 DEF HandleMessage

(* Every step is a step of the registry, or leaves its state alone. *)
LEMMA CoreRefinedStep == IInv /\ [Next]_vars => [Core!Next]_coreVars
<1> SUFFICES ASSUME IInv, [Next]_vars PROVE [Core!Next]_coreVars
  OBVIOUS
<1>1. CASE Environment
  <2>1. ASSUME NEW players \in PlayerPairs
        PROVE  players \in SUBSET Jid
    BY DEF PlayerPairs
  <2>2. QED
    BY <1>1, <2>1 DEF Environment, HandlePresence, OtherCreateGame, EndGame, Core!Next
<1>2. CASE DatabaseThreads
  BY <1>2 DEF DatabaseThreads, LoadAdjourned, RepeatLoad, EraseAdjourned
<1>3. CASE HandleIq
  <2>1. PICK u \in Jid, id \in MatchId \union {NoId} :
          \/ UNCHANGED coreVars
          \/ id # NoId /\ HandleAccept(u, id)
    BY <1>3 DEF HandleIq, RefuseUnavailable, HandleOffer, HandleAdjournedOffer,
                HandleDecline
  <2>2. CASE id # NoId /\ HandleAccept(u, id)
    <3>1. match_db.matchs[id].players \in SUBSET Jid
      BY <2>2 DEF IInv, ModuleInv, TableInv, DbInv, Database, MatchInfo
    <3>2. \/ UNCHANGED coreVars
          \/ \E g \in Game : Core!CreateGame(g, match_db.matchs[id].players)
      BY <2>2 DEF HandleAccept, StartMatch
    <3>3. QED
      BY <3>1, <3>2 DEF Core!Next
  <2>3. QED
    BY <2>1, <2>2
<1>4. CASE HandleMessage
  BY <1>4 DEF HandleMessage, HandleUserStatus, HandleResume, ResumeCrash
<1>5. CASE UNCHANGED vars
  BY <1>5 DEF vars
<1>6. QED
  BY <1>1, <1>2, <1>3, <1>4, <1>5 DEF Next

LEMMA InitIInv == Init => IInv
BY CoreInit, InitModule DEF Init, IInv

LEMMA NextIInv == IInv /\ [Next]_vars => IInv'
<1> SUFFICES ASSUME IInv, [Next]_vars PROVE IInv'
  OBVIOUS
<1>1. CoreInv'
  BY CoreRefinedStep, CoreStep DEF IInv
<1>2. core_status' \in [Jid -> Core!UserStatus]
  BY <1>1 DEF CoreInv, Core!TypeOK
<1>3. ModuleInv'
  <2>1. CASE UNCHANGED vars
    <3>1. QueuesOK'
      BY <2>1 DEF IInv, ModuleInv, QueuesOK, vars, adjVars
    <3>2. TableInv(match_db', users_status') /\ WellFormed(sent')
      BY <2>1 DEF IInv, ModuleInv, vars
    <3>3. QED
      BY <3>1, <3>2 DEF ModuleInv
  <2>2. QED
    BY <1>2, <2>1, EnvironmentStep, DatabaseStep, IqStep, MessageStep DEF Next
<1>4. QED
  BY <1>1, <1>3 DEF IInv

LEMMA Invariance == Spec => []IInv
BY InitIInv, NextIInv, PTL DEF Spec

(* Every variable has its type, for any users, terms and bounds.           *)
THEOREM MatchTypeCorrect == Spec => []TypeOK
<1>1. IInv => TypeOK
  BY DEF IInv, CoreInv, Core!TypeOK, ModuleInv, QueuesOK, TableInv, DbInv, WellFormed,
         TypeOK
<1>2. QED
  BY <1>1, Invariance, PTL

(* closeMatch is only called on ids of the table.                          *)
THEOREM MatchPlayersIndexed == Spec => []PlayersIndexed
<1>1. IInv => PlayersIndexed
  BY DEF IInv, ModuleInv, TableInv, DbInv, PlayersIndexed
<1>2. QED
  BY <1>1, Invariance, PTL

(* No id is lost, and none is given to two matches.                        *)
THEOREM MatchIdsAccounted == Spec => []IdsAccounted
<1>1. IInv => IdsAccounted
  BY DEF IInv, ModuleInv, TableInv, DbInv, IdsAccounted
<1>2. QED
  BY <1>1, Invariance, PTL

(* pending_count counts the players who have not accepted.                 *)
THEOREM MatchPendingCounted == Spec => []PendingCounted
<1>1. IInv => PendingCounted
  BY DEF IInv, ModuleInv, TableInv, DbInv, PendingCounted
<1>2. QED
  BY <1>1, Invariance, PTL

(* The table of matches is consistent between two messages.                *)
THEOREM MatchMatchsConsistent == Spec => []MatchsConsistent
<1>1. PlayersIndexed /\ IdsAccounted /\ PendingCounted => MatchsConsistent
  BY DEF MatchsConsistent
<1>2. QED
  BY <1>1, MatchPlayersIndexed, MatchIdsAccounted, MatchPendingCounted, PTL

(* No offer waits for a user the module knows to be away.                  *)
THEOREM MatchPlayersAvailable == Spec => []PlayersAvailable
<1>1. IInv => PlayersAvailable
  BY DEF IInv, ModuleInv, TableInv, PlayersAvailable
<1>2. QED
  BY <1>1, Invariance, PTL

(* With all the modules around it, the core is the GameRegistry.           *)
THEOREM MatchImplementsRegistry == Spec => Core!Spec
<1>1. Init => Core!Init
  BY DEF Init
<1>2. IInv /\ [Next]_vars => [Core!Next]_(Core!vars)
  BY CoreRefinedStep DEF coreVars, Core!vars
<1>3. QED
  BY <1>1, <1>2, Invariance, PTL DEF Spec, Core!Spec

-----------------------------------------------------------------------------
(* The copy of the status.                                                 *)

CopyOf(u) ==
  IF Queued(u) = {} THEN users_status[u] = core_status[u]
  ELSE \E i \in Queued(u) :
         /\ \A j \in Queued(u) : j <= i
         /\ inbox[i].status = core_status[u]

(* There are as many notices as players, so each player has one.           *)
LEMMA OneNoticeEach ==
  ASSUME NEW players \in SUBSET Jid, NEW notices \in Notices(players), NEW u \in players
  PROVE  \E i \in 1 .. Cardinality(players) :
           /\ notices[i] = StatusOf(core_status', u)
           /\ \A j \in 1 .. Cardinality(players) : notices[j].user = u => j = i
<1> DEFINE n == Cardinality(players)
           user == [i \in 1 .. n |-> notices[i].user]
<1>1. n \in Nat /\ IsFiniteSet(players)
  BY SubsetsOfJid
<1>2. /\ notices \in [1 .. n -> {StatusOf(core_status', v) : v \in players}]
      /\ \A v \in players : \E i \in DOMAIN notices : notices[i].user = v
  BY DEF Notices
<1>3. \A i \in 1 .. n : \E v \in players : notices[i] = StatusOf(core_status', v)
  BY <1>2
<1>4. \A i \in 1 .. n : notices[i].user \in players
                       /\ notices[i] = StatusOf(core_status', notices[i].user)
  <2> SUFFICES ASSUME NEW i \in 1 .. n
               PROVE  /\ notices[i].user \in players
                      /\ notices[i] = StatusOf(core_status', notices[i].user)
    OBVIOUS
  <2>1. PICK v \in players : notices[i] = StatusOf(core_status', v)
    BY <1>3
  <2>2. notices[i].user = v
    BY <2>1 DEF StatusOf
  <2>3. QED
    BY <2>1, <2>2
<1>5. user \in Surjection(1 .. n, players)
  BY <1>2, <1>4 DEF Surjection
<1>6. IsFiniteSet(1 .. n) /\ Cardinality(1 .. n) = n
  BY <1>1, FS_Interval
<1>7. user \in Injection(1 .. n, players)
  BY <1>5, <1>6, FS_Surjection
<1>8. PICK i \in 1 .. n : notices[i].user = u
  BY <1>2
<1>9. \A j \in 1 .. n : notices[j].user = u => j = i
  BY <1>7, <1>8 DEF Injection, IsInjective
<1>10. QED
  BY <1>4, <1>8, <1>9

(* Users whose status changes are notified under the same lock.            *)
LEMMA NotifiedCopy ==
  ASSUME NEW players \in SUBSET Jid, Notify(players),
         inbox \in Seq(Message), core_status' \in [Jid -> Core!UserStatus],
         \A u \in Jid \ players : core_status'[u] = core_status[u],
         UNCHANGED users_status, CopyCatchesUp
  PROVE  CopyCatchesUp'
<1> DEFINE n == Len(inbox)
           k == Cardinality(players)
<1>1. PICK notices \in Notices(players) : inbox' = inbox \o notices
  BY DEF Notify
<1>2. n \in Nat /\ k \in Nat
  BY SubsetsOfJid, LenProperties
<1>3. \A i \in 1 .. k : \E v \in players : notices[i] = StatusOf(core_status', v)
  BY DEF Notices
<1>4. notices \in Seq(Message) /\ Len(notices) = k
  <2>1. \A u \in players : StatusOf(core_status', u) \in Message
    BY DEF StatusOf, Message, StatusMsg
  <2>2. notices \in [1 .. k -> Message]
    BY <2>1 DEF Notices
  <2>3. notices \in Seq(Message)
    BY <1>2, <2>2, SeqDef
  <2>4. QED
    BY <1>2, <2>2, <2>3, LenProperties
<1>5. /\ Len(inbox') = n + k
      /\ \A i \in 1 .. n : inbox'[i] = inbox[i]
      /\ \A i \in 1 .. k : inbox'[n + i] = notices[i]
  <2>1. /\ Len(inbox') = n + k
        /\ \A i \in 1 .. n + k : inbox'[i] = IF i <= n THEN inbox[i] ELSE notices[i - n]
    <3>1. /\ Len(inbox \o notices) = Len(inbox) + Len(notices)
          /\ \A i \in 1 .. Len(inbox) + Len(notices) :
               (inbox \o notices)[i] = IF i <= Len(inbox) THEN inbox[i]
                                       ELSE notices[i - Len(inbox)]
      BY <1>4, ConcatProperties
    <3>2. QED
      BY <1>1, <1>4, <3>1
  <2> HIDE DEF n, k
  <2>2. \A i \in 1 .. n : i \in 1 .. n + k /\ i <= n
    BY <1>2
  <2>3. \A i \in 1 .. k : n + i \in 1 .. n + k /\ ~(n + i <= n) /\ (n + i) - n = i
    BY <1>2
  <2>4. \A i \in 1 .. n : inbox'[i] = inbox[i]
    BY <2>1, <2>2
  <2>5. ASSUME NEW i \in 1 .. k
        PROVE  inbox'[n + i] = notices[i]
    <3>1. inbox'[n + i] = IF n + i <= n THEN inbox[n + i] ELSE notices[(n + i) - n]
      BY <2>1, <2>3
    <3>2. QED
      BY <2>3, <3>1
  <2>6. QED
    BY <2>1, <2>4, <2>5
<1> HIDE DEF n, k
<1>6. \A i \in 1 .. n + k : i \in 1 .. n \/ \E j \in 1 .. k : i = n + j
  <2> SUFFICES ASSUME NEW i \in 1 .. n + k, i \notin 1 .. n
               PROVE  i - n \in 1 .. k /\ i = n + (i - n)
    OBVIOUS
  <2>1. QED
    BY <1>2
<1> SUFFICES ASSUME NEW u \in Jid PROVE CopyOf(u)'
  BY DEF CopyCatchesUp, CopyOf
<1>7. CopyOf(u)
  BY DEF CopyCatchesUp, CopyOf
<1>8. \A i : i \in Queued(u)' <=>
         i \in 1 .. n + k /\ inbox'[i].kind = "status" /\ inbox'[i].user = u
  BY <1>5 DEF Queued
<1>9. CASE u \in players
  <2>1. PICK i \in 1 .. k : /\ notices[i] = StatusOf(core_status', u)
                            /\ \A j \in 1 .. k : notices[j].user = u => j = i
    BY <1>9, OneNoticeEach DEF k
  <2>2. n + i \in 1 .. n + k /\ inbox'[n + i] = StatusOf(core_status', u)
    BY <1>2, <1>5, <2>1
  <2>3. n + i \in Queued(u)' /\ inbox'[n + i].status = core_status'[u]
    BY <1>8, <2>2 DEF StatusOf
  <2>4. ASSUME NEW j \in Queued(u)'
        PROVE  j <= n + i
    <3>1. CASE j \in 1 .. n
      BY <1>2, <3>1
    <3>2. ASSUME NEW l \in 1 .. k, j = n + l
          PROVE  j <= n + i
      <4>1. l = i
        BY <1>5, <1>8, <2>1, <2>4, <3>2
      <4>2. QED
        BY <1>2, <3>2, <4>1
    <3>3. QED
      BY <1>6, <1>8, <2>4, <3>1, <3>2
  <2>5. QED
    BY <2>3, <2>4 DEF CopyOf
<1>10. CASE u \notin players
  <2>1. \A i \in 1 .. k : inbox'[n + i].user # u
    <3> SUFFICES ASSUME NEW i \in 1 .. k PROVE inbox'[n + i].user # u
      OBVIOUS
    <3>1. PICK v \in players : notices[i] = StatusOf(core_status', v)
      BY <1>3
    <3>2. inbox'[n + i].user = v
      BY <1>5, <3>1 DEF StatusOf
    <3>3. QED
      BY <1>10, <3>2
  <2>2. Queued(u)' = Queued(u)
    <3>1. \A i : i \in Queued(u)' => i \in Queued(u)
      <4> SUFFICES ASSUME NEW i \in Queued(u)' PROVE i \in Queued(u)
        OBVIOUS
      <4>1. i \in 1 .. n
        BY <1>6, <1>8, <2>1
      <4>2. QED
        BY <1>5, <1>8, <4>1 DEF Queued, n
    <3>2. \A i : i \in Queued(u) => i \in Queued(u)'
      <4> SUFFICES ASSUME NEW i \in Queued(u) PROVE i \in Queued(u)'
        OBVIOUS
      <4>1. i \in 1 .. n /\ inbox[i].kind = "status" /\ inbox[i].user = u
        BY DEF Queued, n
      <4>2. i \in 1 .. n + k
        BY <1>2, <4>1
      <4>3. QED
        BY <1>5, <1>8, <4>1, <4>2
    <3>3. QED
      BY <3>1, <3>2
  <2>3. \A i \in Queued(u) : inbox'[i] = inbox[i]
    BY <1>5 DEF Queued, n
  <2>4. core_status'[u] = core_status[u] /\ users_status'[u] = users_status[u]
    BY <1>10
  <2>5. QED
    BY <1>7, <2>2, <2>3, <2>4 DEF CopyOf
<1>11. QED
  BY <1>9, <1>10

(* The first message is handled: a notification changes the copy.          *)
LEMMA HandledCopy ==
  ASSUME inbox \in Seq(Message), inbox # <<>>, inbox' = Tail(inbox),
         users_status \in [Jid -> Core!UserStatus], UNCHANGED core_status,
         users_status' = IF Head(inbox).kind = "status"
                         THEN [users_status EXCEPT ![Head(inbox).user] = Head(inbox).status]
                         ELSE users_status,
         CopyCatchesUp
  PROVE  CopyCatchesUp'
<1> DEFINE n == Len(inbox)
<1>1. n \in Nat \ {0}
  BY EmptySeq
<1>2. /\ Len(inbox') = n - 1
      /\ \A i \in 1 .. n - 1 : inbox'[i] = inbox[i + 1]
      /\ Head(inbox) = inbox[1]
  BY HeadTailProperties
<1> HIDE DEF n
<1> SUFFICES ASSUME NEW u \in Jid PROVE CopyOf(u)'
  BY DEF CopyCatchesUp, CopyOf
<1>3. CopyOf(u)
  BY DEF CopyCatchesUp, CopyOf
<1>4. \A i \in Int : i \in Queued(u)' <=> i \in 1 .. n - 1 /\ i + 1 \in Queued(u)
  BY <1>1, <1>2 DEF Queued, n
<1>5. Queued(u)' \subseteq Int /\ Queued(u) \subseteq 1 .. n
  BY DEF Queued, n
<1>6. \A i \in Queued(u) : i # 1 => i - 1 \in Queued(u)' /\ inbox'[i - 1] = inbox[i]
  <2> SUFFICES ASSUME NEW i \in Queued(u), i # 1
               PROVE  i - 1 \in Queued(u)' /\ inbox'[i - 1] = inbox[i]
    OBVIOUS
  <2>1. i - 1 \in Int /\ i - 1 \in 1 .. n - 1 /\ (i - 1) + 1 = i
    BY <1>1, <1>5
  <2>2. QED
    BY <1>2, <1>4, <2>1
<1>7. CASE 1 \in Queued(u) /\ Queued(u)' = {}
  <2>1. \A i \in Queued(u) : i = 1
    BY <1>6, <1>7
  <2>2. inbox[1].kind = "status" /\ inbox[1].user = u /\ inbox[1].status = core_status[u]
    BY <1>3, <1>7, <2>1 DEF CopyOf, Queued
  <2>3. users_status'[u] = core_status'[u]
    BY <1>2, <2>2
  <2>4. QED
    BY <1>7, <2>3 DEF CopyOf
<1>8. CASE Queued(u) = {}
  <2>1. Queued(u)' = {}
    BY <1>4, <1>5, <1>8
  <2>2. ~(inbox[1].kind = "status" /\ inbox[1].user = u)
    BY <1>1, <1>8 DEF Queued, n
  <2>3. users_status'[u] = users_status[u]
    BY <1>2, <2>2
  <2>4. QED
    BY <1>3, <1>8, <2>1, <2>3 DEF CopyOf
<1>9. CASE Queued(u) # {} /\ ~(1 \in Queued(u) /\ Queued(u)' = {})
  <2>1. PICK i \in Queued(u) : /\ \A j \in Queued(u) : j <= i
                               /\ inbox[i].status = core_status[u]
    BY <1>3, <1>9 DEF CopyOf
  <2>2. i # 1
    <3> SUFFICES ASSUME i = 1 PROVE FALSE
      OBVIOUS
    <3>1. PICK j \in Queued(u)' : TRUE
      BY <1>9
    <3>2. j \in Int /\ j \in 1 .. n - 1 /\ j + 1 \in Queued(u)
      BY <1>4, <1>5, <3>1
    <3>3. j + 1 <= 1
      BY <2>1, <3>2
    <3>4. QED
      BY <1>1, <3>2, <3>3
  <2>3. i - 1 \in Queued(u)' /\ inbox'[i - 1].status = core_status'[u]
    BY <1>6, <2>1, <2>2
  <2>4. ASSUME NEW j \in Queued(u)' PROVE j <= i - 1
    <3>1. j \in Int /\ j + 1 \in Queued(u)
      BY <1>4, <1>5, <2>4
    <3>2. j + 1 <= i /\ i \in Int
      BY <1>5, <2>1, <3>1
    <3>3. QED
      BY <3>1, <3>2
  <2>5. QED
    BY <2>3, <2>4 DEF CopyOf
<1>10. QED
  BY <1>7, <1>8, <1>9

(* An answer of the database is queued behind the notifications.           *)
LEMMA AnsweredCopy ==
  ASSUME inbox \in Seq(Message), NEW a \in Adjourned, AnswerLoad(a),
         UNCHANGED <<core_status, users_status>>, CopyCatchesUp
  PROVE  CopyCatchesUp'
<1> DEFINE n == Len(inbox)
<1>1. /\ n \in Nat
      /\ Len(inbox') = n + 1
      /\ \A i \in 1 .. n : inbox'[i] = inbox[i]
      /\ inbox'[n + 1].kind = "resume"
  BY LenProperties DEF AnswerLoad
<1> HIDE DEF n
<1>2. \A u \in Jid : Queued(u)' = Queued(u)
  BY <1>1 DEF Queued, n
<1>3. \A u \in Jid : \A i \in Queued(u) : inbox'[i] = inbox[i]
  BY <1>1 DEF Queued, n
<1>4. QED
  BY <1>2, <1>3 DEF CopyCatchesUp

LEMMA CreateGameChanges ==
  ASSUME IInv, NEW g \in Game, NEW players \in SUBSET Jid, Core!CreateGame(g, players)
  PROVE  /\ \A u \in Jid \ players : core_status'[u] = core_status[u]
         /\ games[g].phase = "new"
         /\ games'[g].phase = "live"
         /\ games'[g].players = players
BY DEF Core!CreateGame, Core!AddGames, IInv, CoreInv, Core!TypeOK

(* Whoever changes the status of users queues it for the module.           *)
LEMMA CopyStep == IInv /\ IInv' /\ [Next]_vars /\ CopyCatchesUp => CopyCatchesUp'
<1> SUFFICES ASSUME IInv, IInv', [Next]_vars, CopyCatchesUp PROVE CopyCatchesUp'
  OBVIOUS
<1>1. /\ core_status \in [Jid -> Core!UserStatus]
      /\ core_status' \in [Jid -> Core!UserStatus]
      /\ users_status \in [Jid -> Core!UserStatus]
      /\ inbox \in Seq(Message)
  BY DEF IInv, CoreInv, Core!TypeOK, ModuleInv, QueuesOK
<1>2. CASE Environment
  <2>1. ASSUME NEW u \in Jid, NEW available \in BOOLEAN, NEW multigame \in BOOLEAN,
               HandlePresence(u, available, multigame)
        PROVE  CopyCatchesUp'
    <3>1. \A v \in Jid \ {u} : core_status'[v] = core_status[v]
      BY <1>1, <2>1 DEF HandlePresence, Core!SetPresence
    <3>2. {u} \in SUBSET Jid
      OBVIOUS
    <3>3. QED
      BY <1>1, <2>1, <3>1, <3>2, NotifiedCopy DEF HandlePresence
  <2>2. ASSUME NEW g \in Game, NEW players \in PlayerPairs, OtherCreateGame(g, players)
        PROVE  CopyCatchesUp'
    <3>1. players \in SUBSET Jid
      BY DEF PlayerPairs
    <3>2. QED
      BY <1>1, <2>2, <3>1, CreateGameChanges, NotifiedCopy DEF OtherCreateGame
  <2>3. ASSUME NEW g \in Game, EndGame(g)
        PROVE  CopyCatchesUp'
    <3>1. games[g].players \in SUBSET Jid
      BY DEF IInv, CoreInv, Core!TypeOK, Core!GameInfo
    <3>2. \A v \in Jid \ games[g].players : core_status'[v] = core_status[v]
      BY <2>3 DEF EndGame, Core!EndGame, Core!AddGames
    <3>3. QED
      BY <1>1, <2>3, <3>1, <3>2, NotifiedCopy DEF EndGame
  <2>4. QED
    BY <1>2, <2>1, <2>2, <2>3 DEF Environment
<1>3. CASE DatabaseThreads
  <2>1. PICK a \in Adjourned : LoadAdjourned(a) \/ RepeatLoad(a) \/ EraseAdjourned(a)
    BY <1>3 DEF DatabaseThreads
  <2>2. /\ UNCHANGED <<core_status, users_status>>
        /\ AnswerLoad(a) \/ UNCHANGED inbox
    BY <2>1 DEF LoadAdjourned, RepeatLoad, EraseAdjourned, coreVars
  <2>3. CASE UNCHANGED inbox
    BY <2>2, <2>3 DEF CopyCatchesUp, Queued
  <2>4. QED
    BY <1>1, <2>2, <2>3, AnsweredCopy
<1>4. CASE HandleIq
  <2>1. PICK u \in Jid, id \in MatchId \union {NoId} :
          \/ UNCHANGED <<coreVars, inbox, users_status>>
          \/ id # NoId /\ HandleAccept(u, id)
    BY <1>4 DEF HandleIq, RefuseUnavailable, HandleOffer, HandleAdjournedOffer, HandleDecline
  <2>2. CASE UNCHANGED <<coreVars, inbox, users_status>>
    BY <2>2 DEF CopyCatchesUp, Queued, coreVars
  <2>3. CASE id # NoId /\ HandleAccept(u, id)
    <3>1. match_db.matchs[id].players \in SUBSET Jid
      BY <2>3 DEF IInv, ModuleInv, TableInv, DbInv, Database, MatchInfo
    <3>2. /\ UNCHANGED users_status
          /\ \/ UNCHANGED <<coreVars, inbox>>
             \/ /\ \E g \in Game : Core!CreateGame(g, match_db.matchs[id].players)
                /\ Notify(match_db.matchs[id].players)
      BY <2>3 DEF HandleAccept, StartMatch
    <3>3. CASE UNCHANGED <<coreVars, inbox>>
      BY <3>2, <3>3 DEF CopyCatchesUp, Queued, coreVars
    <3>4. QED
      BY <1>1, <3>1, <3>2, <3>3, CreateGameChanges, NotifiedCopy
  <2>4. QED
    BY <2>1, <2>2, <2>3
<1>5. CASE HandleMessage
  <2>1. inbox # <<>> /\ inbox' = Tail(inbox) /\ UNCHANGED core_status
    BY <1>5 DEF HandleMessage, HandleUserStatus, HandleResume, ResumeCrash, coreVars
  <2>2. users_status' = IF Head(inbox).kind = "status"
                        THEN [users_status EXCEPT ![Head(inbox).user] = Head(inbox).status]
                        ELSE users_status
    BY <1>5 DEF HandleMessage, HandleUserStatus, UpdateStatus, HandleResume, ResumeCrash
  <2>3. QED
    BY <1>1, <2>1, <2>2, HandledCopy
<1>6. CASE UNCHANGED vars
  BY <1>6 DEF vars, coreVars, CopyCatchesUp, Queued
<1>7. QED
  BY <1>2, <1>3, <1>4, <1>5, <1>6 DEF Next

(* The copy of the status catches up with the status it is a copy of.      *)
THEOREM MatchCopyCatchesUp == Spec => []CopyCatchesUp
<1>1. Init => CopyCatchesUp
  BY DEF Init, Core!Init, CopyCatchesUp, Queued, Core!NewStatus
<1>2. IInv /\ IInv' /\ [Next]_vars /\ CopyCatchesUp => CopyCatchesUp'
  BY CopyStep
<1>3. QED
  BY <1>1, <1>2, Invariance, PTL DEF Spec

-----------------------------------------------------------------------------
(* What the handlers do to each match, and what they send about it.        *)

(* The match is left alone, or it is offered anew by somebody who alone    *)
(* accepts it and is told its id.                                          *)
KeptOrOffered(id) ==
  \/ match_db'.matchs[id] = match_db.matchs[id]
  \/ /\ HasMatch(match_db', id)
     /\ \A p \in match_db'.matchs[id].accepted : Stanza(p, "result", id) \in sent'

(* The match is left alone, or it is closed and its players are told.      *)
KeptOrClosed(id) ==
  \/ match_db'.matchs[id] = match_db.matchs[id]
  \/ match_db'.matchs[id] = NoMatch /\ ClosedOpenly(id)

(* Nobody is told of a start. *)
NoStart == \A s \in sent' : s.kind # "start"

LEMMA DeclinesNoStart ==
  \A db, ids : \A s \in Declines(db, ids) : s.kind = "decline"
BY DEF Declines, SendAll, Stanza

LEMMA OfferedMatchs ==
  ASSUME TableInv(match_db, users_status),
         NEW u \in Jid, NEW players \in PlayerPairs, NEW terms \in Terms,
         NEW id \in MatchId \union {NoId}, ProcessOffer(u, players, terms, id)
  PROVE  NoStart /\ \A i \in MatchId : KeptOrOffered(i)
<1>1. players \in SUBSET Jid /\ players # {}
  <2>1. players \in SUBSET Jid /\ Cardinality(players) # 0
    BY DEF PlayerPairs
  <2>2. QED
    BY <2>1, FS_EmptySet
<1>2. ASSUME NEW k \in MatchId, NEW db, DbInv(db), u \in players,
             db.matchs = [match_db.matchs EXCEPT ![k] = NewMatchInfo(players, terms)],
             PublishOffer(db, u, players, k)
      PROVE  NoStart /\ \A i \in MatchId : KeptOrOffered(i)
  <2>1. match_db' = AcceptMatch(db, k, u)
    BY <1>2 DEF PublishOffer
  <2>2. /\ NewMatchInfo(players, terms) # NoMatch
        /\ NewMatchInfo(players, terms).players = players
        /\ NewMatchInfo(players, terms).accepted = {}
    BY <1>1, NewMatchInfoFacts
  <2>3. /\ db.matchs[k] = NewMatchInfo(players, terms)
        /\ \A i \in MatchId : i # k => db.matchs[i] = match_db.matchs[i]
    <3>1. match_db.matchs \in [MatchId -> MatchInfo]
      BY DEF TableInv, DbInv, Database
    <3>2. QED
      BY <1>2, <3>1
  <2>4. HasMatch(db, k) /\ u \in db.matchs[k].players
    BY <1>2, <2>2, <2>3 DEF HasMatch
  <2>5. /\ match_db'.matchs[k].accepted = {u}
        /\ HasMatch(match_db', k)
        /\ \A i \in MatchId : i # k => match_db'.matchs[i] = match_db.matchs[i]
    <3>1. /\ AcceptMatch(db, k, u).matchs[k].accepted = db.matchs[k].accepted \union {u}
          /\ \A i \in MatchId :
               /\ HasMatch(AcceptMatch(db, k, u), i) <=> HasMatch(db, i)
               /\ i # k => AcceptMatch(db, k, u).matchs[i] = db.matchs[i]
      <4>1. DbInv(db) /\ HasMatch(db, k) /\ u \in db.matchs[k].players
        BY <1>2, <2>4
      <4>2. QED
        BY <4>1, AcceptMatchInv
    <3>2. QED
      BY <2>1, <2>2, <2>3, <2>4, <3>1
  <2>6. sent' = {Stanza(u, "result", k)} \union SendAll(players \ {u}, "offer", k)
    BY <1>2 DEF PublishOffer
  <2>7. NoStart
    BY <2>6 DEF NoStart, SendAll, Stanza
  <2>8. QED
    BY <2>5, <2>6, <2>7 DEF KeptOrOffered
<1>3. CASE /\ ValidPlayers(u, players) /\ id # NoId /\ ValidReoffer(players, id)
           /\ PublishOffer(ReplaceMatch(match_db, id, players, terms), u, players, id)
  <2>1. /\ id \in MatchId /\ HasMatch(match_db, id) /\ u \in players
        /\ match_db.matchs[id].players = players
    BY <1>3 DEF ValidReoffer, ValidPlayers
  <2>2. /\ DbInv(ReplaceMatch(match_db, id, players, terms))
        /\ ReplaceMatch(match_db, id, players, terms).matchs
             = [match_db.matchs EXCEPT ![id] = NewMatchInfo(players, terms)]
    BY <1>1, <2>1, ReplaceMatchInv DEF TableInv
  <2>3. QED
    BY <1>2, <1>3, <2>1, <2>2
<1>4. CASE /\ ValidPlayers(u, players) /\ id = NoId
           /\ \E new \in AcquirableIds(match_db) :
                PublishOffer(InsertMatch(match_db, new, players, terms), u, players, new)
  <2>1. PICK new \in AcquirableIds(match_db) :
          PublishOffer(InsertMatch(match_db, new, players, terms), u, players, new)
    BY <1>4
  <2>2. /\ DbInv(InsertMatch(match_db, new, players, terms))
        /\ new \in MatchId
        /\ InsertMatch(match_db, new, players, terms).matchs
             = [match_db.matchs EXCEPT ![new] = NewMatchInfo(players, terms)]
    BY <1>1, InsertMatchInv DEF TableInv
  <2>3. u \in players
    BY <1>4 DEF ValidPlayers
  <2>4. QED
    BY <1>2, <2>1, <2>2, <2>3
<1>5. CASE Refuse(u)
  BY <1>5 DEF Refuse, NoStart, Stanza, KeptOrOffered
<1>6. QED
  BY <1>3, <1>4, <1>5 DEF ProcessOffer

(* Declining a set of matches of the table closes them in front of their   *)
(* players.                                                                *)
LEMMA DeclinedMatchs ==
  ASSUME DbInv(match_db), NEW ids \in SUBSET MatchId,
         \A id \in ids : HasMatch(match_db, id),
         match_db' = CloseMatchs(match_db, ids),
         Declines(match_db, ids) \subseteq sent'
  PROVE  \A id \in MatchId : KeptOrClosed(id)
<1>1. \A id \in MatchId :
        match_db'.matchs[id] = IF id \in ids THEN NoMatch ELSE match_db.matchs[id]
  BY CloseMatchsInv
<1>2. \A id \in ids : SendAll(match_db.matchs[id].players, "decline", id) \subseteq sent'
  BY DEF Declines
<1>3. QED
  BY <1>1, <1>2 DEF KeptOrClosed, ClosedOpenly

(* The last player accepts. *)
LEMMA StartedMatchs ==
  ASSUME IInv, NEW u \in Jid, NEW id \in MatchId, HasPlayer(match_db, id, u),
         StartMatch(u, id)
  PROVE  \A i \in MatchId : KeptOrClosed(i)
<1> DEFINE players == match_db.matchs[id].players
           closed  == CloseMatchs(match_db, {id})
           others  == MatchsOfMultigame(closed, players)
           told    == {Stanza(u, "result", id)} \union Declines(closed, others)
<1>1. /\ match_db' = CloseMatchs(closed, others)
      /\ \/ sent' = told \union SendAll(players, "start", id)
         \/ sent' = told \union {Stanza(u, "error", NoId)}
  BY DEF StartMatch
<1>2. TableInv(match_db, users_status) /\ DbInv(match_db)
  BY DEF IInv, ModuleInv, TableInv
<1>3. /\ DbInv(closed)
      /\ \A i \in MatchId :
           closed.matchs[i] = IF i \in {id} THEN NoMatch ELSE match_db.matchs[i]
  <2>1. {id} \in SUBSET MatchId /\ \A i \in {id} : HasMatch(match_db, i)
    BY DEF HasPlayer
  <2>2. QED
    BY <1>2, <2>1, CloseMatchsInv
<1>4. players \in SUBSET Jid /\ u \in players
  BY <1>2 DEF DbInv, Database, MatchInfo, HasPlayer
<1> HIDE DEF closed
<1>5. ASSUME NEW i \in others PROVE i \in MatchId /\ HasMatch(closed, i)
  <2>1. PICK p \in players : i \in closed.player_matchs[p]
    BY <1>5 DEF MatchsOfMultigame
  <2>2. QED
    BY <1>3, <1>4, <2>1, IndexedMatchs
<1> HIDE DEF others
<1>6. \A i \in MatchId :
        match_db'.matchs[i] = IF i \in others THEN NoMatch ELSE closed.matchs[i]
  BY <1>1, <1>3, <1>5, CloseMatchsInv
<1> SUFFICES ASSUME NEW i \in MatchId PROVE KeptOrClosed(i)
  OBVIOUS
<1>7. CASE i = id
  <2>1. ClosedOpenly(id)
    BY <1>1, <1>4 DEF ClosedOpenly
  <2>2. match_db'.matchs[id] = NoMatch
    BY <1>3, <1>6
  <2>3. QED
    BY <1>7, <2>1, <2>2 DEF KeptOrClosed
<1>8. CASE i # id /\ i \in others
  <2>1. SendAll(closed.matchs[i].players, "decline", i) \subseteq sent'
    BY <1>1, <1>8 DEF Declines
  <2>2. QED
    BY <1>3, <1>6, <1>8, <2>1 DEF KeptOrClosed, ClosedOpenly
<1>9. CASE i # id /\ i \notin others
  BY <1>3, <1>6, <1>9 DEF KeptOrClosed
<1>10. QED
  BY <1>7, <1>8, <1>9

(* An accept that is not the last changes the acceptances and nothing else. *)
KeptOrAccepted(id) ==
  /\ match_db'.matchs[id].terms = match_db.matchs[id].terms
  /\ HasMatch(match_db', id) <=> HasMatch(match_db, id)

(* Every step does one of the three to every match, and only the last      *)
(* accept tells of a start.                                                *)
LEMMA MatchStep ==
  ASSUME IInv, Next
  PROVE  /\ \A id \in MatchId : KeptOrOffered(id) \/ KeptOrClosed(id) \/ KeptOrAccepted(id)
         /\ \/ NoStart
            \/ \E u \in Jid, id \in MatchId :
                 /\ HasPlayer(match_db, id, u)
                 /\ IsDone(AcceptMatch(match_db, id, u), id)
                 /\ StartMatch(u, id)
<1>1. /\ TableInv(match_db, users_status) /\ DbInv(match_db)
      /\ delayed_offer \in Seq(Offer) /\ inbox \in Seq(Message)
  BY DEF IInv, ModuleInv, TableInv, QueuesOK
<1>2. CASE UNCHANGED match_db /\ NoStart
  BY <1>2 DEF KeptOrClosed
<1>3. CASE Environment \/ DatabaseThreads
  <2>1. UNCHANGED match_db /\ sent' = {}
    BY <1>3 DEF Environment, HandlePresence, OtherCreateGame, EndGame,
                DatabaseThreads, LoadAdjourned, RepeatLoad, EraseAdjourned
  <2>2. QED
    BY <1>2, <2>1 DEF NoStart
<1>4. CASE HandleIq
  <2>1. PICK u \in Jid, id \in MatchId \union {NoId} :
          \/ RefuseUnavailable(u)
          \/ \E players \in PlayerPairs, terms \in Terms \ Adjourned :
                HandleOffer(u, players, terms, id)
          \/ \E a \in Adjourned : HandleAdjournedOffer(u, a, id)
          \/ id # NoId /\ (HandleAccept(u, id) \/ HandleDecline(u, id))
    BY <1>4 DEF HandleIq
  <2>2. CASE Refuse(u)
    BY <1>2, <2>2 DEF Refuse, NoStart, Stanza
  <2>3. CASE RefuseUnavailable(u)
    BY <2>2, <2>3 DEF RefuseUnavailable
  <2>4. ASSUME NEW a \in Adjourned, HandleAdjournedOffer(u, a, id)
        PROVE  UNCHANGED match_db /\ NoStart
    BY <2>4 DEF HandleAdjournedOffer, NoStart
  <2>5. CASE \E players \in PlayerPairs, terms \in Terms \ Adjourned :
               HandleOffer(u, players, terms, id)
    BY <1>1, <2>5, OfferedMatchs DEF HandleOffer
  <2>6. CASE id # NoId /\ HandleAccept(u, id)
    <3>1. id \in MatchId
      BY <2>6
    <3>2. CASE /\ HasPlayer(match_db, id, u)
               /\ ~IsDone(AcceptMatch(match_db, id, u), id)
               /\ match_db' = AcceptMatch(match_db, id, u)
               /\ sent' = {Stanza(u, "result", id)}
      <4>1. \A i \in MatchId : HasMatch(match_db', i) <=> HasMatch(match_db, i)
        BY <1>1, <3>1, <3>2, AcceptMatchInv DEF HasPlayer
      <4>2. \A i \in MatchId : match_db'.matchs[i].terms = match_db.matchs[i].terms
        <5>1. match_db \in Database
          BY <1>1 DEF DbInv
        <5>2. QED
          BY <3>2, <5>1 DEF AcceptMatch, Database, MatchInfo
      <4>3. NoStart
        BY <3>2 DEF NoStart, Stanza
      <4>4. QED
        BY <4>1, <4>2, <4>3 DEF KeptOrAccepted
    <3>3. CASE /\ HasPlayer(match_db, id, u)
               /\ IsDone(AcceptMatch(match_db, id, u), id)
               /\ StartMatch(u, id)
      BY <3>1, <3>3, StartedMatchs
    <3>4. QED
      BY <2>2, <2>6, <3>2, <3>3 DEF HandleAccept
  <2>7. CASE id # NoId /\ HandleDecline(u, id)
    <3>1. CASE /\ HasPlayer(match_db, id, u)
               /\ match_db' = CloseMatchs(match_db, {id})
               /\ sent' = {Stanza(u, "result", id)} \union Declines(match_db, {id})
      <4>1. {id} \in SUBSET MatchId /\ \A i \in {id} : HasMatch(match_db, i)
        BY <3>1 DEF HasPlayer, HasMatch
      <4>2. \A i \in MatchId : KeptOrClosed(i)
        BY <1>1, <3>1, <4>1, DeclinedMatchs
      <4>3. NoStart
        BY <3>1, DeclinesNoStart DEF NoStart, Stanza
      <4>4. QED
        BY <4>2, <4>3
    <3>2. QED
      BY <2>2, <2>7, <3>1 DEF HandleDecline
  <2>8. QED
    BY <1>2, <2>1, <2>3, <2>4, <2>5, <2>6, <2>7
<1>5. CASE HandleUserStatus
  <2>1. Head(inbox) \in StatusMsg
    <3>1. Head(inbox) \in Message
      BY <1>1, <1>5, HeadTailProperties DEF HandleUserStatus
    <3>2. QED
      BY <1>5, <3>1 DEF HandleUserStatus, Message, ResumeMsg
  <2> DEFINE msg  == Head(inbox)
             gone == IF msg.status.available THEN {} ELSE match_db.player_matchs[msg.user]
  <2>2. msg.user \in Jid
    BY <2>1 DEF StatusMsg
  <2>3. match_db' = CloseMatchs(match_db, gone) /\ sent' = Declines(match_db, gone)
    BY <1>5 DEF HandleUserStatus, UpdateStatus
  <2>4. gone \in SUBSET MatchId /\ \A i \in gone : HasMatch(match_db, i)
    BY <1>1, <2>2, IndexedMatchs
  <2> HIDE DEF gone
  <2>5. \A i \in MatchId : KeptOrClosed(i)
    BY <1>1, <2>3, <2>4, DeclinedMatchs
  <2>6. NoStart
    BY <2>3, DeclinesNoStart DEF NoStart
  <2>7. QED
    BY <2>5, <2>6
<1>6. CASE HandleResume
  <2>1. Head(inbox) \in Message
    BY <1>1, <1>6, HeadTailProperties DEF HandleResume
  <2>2. Head(inbox).adj_id \in Adjourned
    BY <1>6, <2>1 DEF HandleResume, Message, StatusMsg, ResumeMsg
  <2> DEFINE a == Head(inbox).adj_id
  <2>3. PICK i \in Waiting(a) :
          ProcessOffer(delayed_offer[i].from, AdjPlayers[a], a, delayed_offer[i].id)
    BY <1>6 DEF HandleResume, TakeDelayedOffer
  <2> HIDE DEF a
  <2>4. delayed_offer[i] \in Offer
    BY <1>1, <2>3, LenProperties, ElementOfSeq DEF Waiting
  <2>5. /\ delayed_offer[i].from \in Jid
        /\ delayed_offer[i].id \in MatchId \union {NoId}
        /\ AdjPlayers[a] \in PlayerPairs /\ a \in Terms
    BY <2>2, <2>4, MatchManagerAssumption DEF a, Offer
  <2>6. QED
    BY <1>1, <2>3, <2>5, OfferedMatchs
<1>7. CASE ResumeCrash
  BY <1>2, <1>7 DEF ResumeCrash, NoStart
<1>8. QED
  BY <1>3, <1>4, <1>5, <1>6, <1>7 DEF Next, HandleMessage

(* The match that starts is the one whose last player has accepted now.    *)
LEMMA StartIsAgreed ==
  ASSUME IInv, IInv', NEW u \in Jid, NEW id \in MatchId, HasPlayer(match_db, id, u),
         IsDone(AcceptMatch(match_db, id, u), id), StartMatch(u, id)
  PROVE  GameFromAgreement
<1> DEFINE m == match_db.matchs[id]
           others == MatchsOfMultigame(CloseMatchs(match_db, {id}), m.players)
           told == {Stanza(u, "result", id)}
                     \union Declines(CloseMatchs(match_db, {id}), others)
<1>1. /\ match_db \in Database /\ PendingExact(match_db)
      /\ HasMatch(match_db, id) /\ u \in m.players
      /\ m.pending_count > 0
  BY DEF IInv, ModuleInv, TableInv, DbInv, HasPlayer
<1>2. /\ m \in MatchInfo /\ m.players \in SUBSET Jid
      /\ m.accepted \subseteq m.players
      /\ m.pending_count = Cardinality(m.players \ m.accepted)
  BY <1>1 DEF Database, MatchInfo, PendingExact
<1>3. m.players \ m.accepted = {u}
  <2>1. u \notin m.accepted
    BY <1>1 DEF IsDone, AcceptMatch
  <2>2. m.pending_count - 1 = 0
    BY <1>1, <2>1 DEF IsDone, AcceptMatch, Database, MatchInfo
  <2> DEFINE left == m.players \ m.accepted
  <2>3. IsFiniteSet(left) /\ u \in left /\ Cardinality(left) = 1
    BY <1>1, <1>2, <2>1, <2>2, SubsetsOfJid DEF MatchInfo
  <2>4. IsFiniteSet(left \ {u}) /\ Cardinality(left \ {u}) = 0
    BY <2>3, FS_RemoveElement
  <2>5. left \ {u} = {}
    BY <2>4, FS_EmptySet
  <2>6. QED
    BY <2>3, <2>5
<1>4. \A s \in told : s.kind # "start"
  BY DeclinesNoStart DEF Stanza
<1>5. CASE /\ \E g \in Game : Core!CreateGame(g, m.players)
           /\ sent' = told \union SendAll(m.players, "start", id)
  <2> HIDE DEF told
  <2>1. \A q, i : Started(q, i) <=> q \in m.players /\ i = id
    BY <1>4, <1>5 DEF Started, SendAll, Stanza
  <2>2. Stanza(u, "result", id) \in sent'
    BY <1>5 DEF told
  <2>3. \E g \in Game : /\ games[g].phase = "new"
                        /\ games'[g].phase = "live"
                        /\ games'[g].players = m.players
    BY <1>2, <1>5, CreateGameChanges
  <2>4. {q \in Jid : Started(q, id)} = m.players
    BY <1>2, <2>1
  <2> HIDE DEF m
  <2>5. QED
    BY <1>3, <2>1, <2>2, <2>3, <2>4 DEF GameFromAgreement, m
<1>6. CASE sent' = told \union {Stanza(u, "error", NoId)}
  <2> HIDE DEF told
  <2>1. \A q, i : ~Started(q, i)
    BY <1>4, <1>6 DEF Started, Stanza
  <2>2. QED
    BY <2>1 DEF GameFromAgreement
<1>7. QED
  BY <1>5, <1>6 DEF StartMatch

(* The terms of a game are the terms all its players have accepted.        *)
THEOREM MatchTermsAgreed == Spec => TermsAgreed
<1>1. IInv /\ IInv' /\ [Next]_vars => [GameFromAgreement /\ ReofferVoidsAccepts]_vars
  <2> SUFFICES ASSUME IInv, IInv', Next
               PROVE  GameFromAgreement /\ ReofferVoidsAccepts
    OBVIOUS
  <2>1. GameFromAgreement
    <3>1. CASE NoStart
      BY <3>1 DEF NoStart, GameFromAgreement, Started, Stanza
    <3>2. QED
      BY <3>1, MatchStep, StartIsAgreed
  <2>2. ReofferVoidsAccepts
    BY MatchStep
       DEF ReofferVoidsAccepts, HasMatch, KeptOrOffered, KeptOrClosed, KeptOrAccepted
  <2>3. QED
    BY <2>1, <2>2
<1>2. QED
  BY <1>1, Invariance, PTL DEF Spec, TermsAgreed

(* No match leaves the table without a word to its players.                *)
THEOREM MatchNoSilentClose == Spec => NoSilentClose
<1>1. IInv /\ [Next]_vars =>
        [\A id \in MatchId :
           HasMatch(match_db, id) /\ ~HasMatch(match_db', id) => ClosedOpenly(id)]_vars
  <2> SUFFICES ASSUME IInv, Next, NEW id \in MatchId,
                      HasMatch(match_db, id), ~HasMatch(match_db', id)
               PROVE  ClosedOpenly(id)
    OBVIOUS
  <2>1. KeptOrOffered(id) \/ KeptOrClosed(id) \/ KeptOrAccepted(id)
    BY MatchStep
  <2>2. QED
    BY <2>1 DEF HasMatch, KeptOrOffered, KeptOrClosed, KeptOrAccepted
<1>2. QED
  BY <1>1, Invariance, PTL DEF Spec, NoSilentClose

-----------------------------------------------------------------------------
(* The answers queued and the offers that wait are counted by position.    *)

Positions(s, T) == {i \in 1 .. Len(s) : s[i] \in T}

Count(s, T) == Cardinality(Positions(s, T))

LEMMA PositionsFinite ==
  ASSUME NEW S, NEW s \in Seq(S), NEW T
  PROVE  IsFiniteSet(Positions(s, T)) /\ Cardinality(Positions(s, T)) \in Nat
<1>1. Positions(s, T) \subseteq 1 .. Len(s)
  BY DEF Positions
<1>2. IsFiniteSet(1 .. Len(s))
  BY FS_Interval, LenProperties
<1>3. QED
  BY <1>1, <1>2, FS_Subset, FS_CardinalityType

(* One more at the end counts when it is in T.                             *)
LEMMA PositionsAppend ==
  ASSUME NEW S, NEW s \in Seq(S), NEW e \in S, NEW T
  PROVE  Count(Append(s, e), T)
           = Count(s, T) + (IF e \in T THEN 1 ELSE 0)
<1> DEFINE n == Len(s)
           t == Append(s, e)
<1>1. /\ n \in Nat
      /\ Len(t) = n + 1
      /\ \A i \in 1 .. n : t[i] = s[i]
      /\ t[n + 1] = e
  BY AppendProperties, LenProperties
<1> HIDE DEF t
<1>2. n + 1 \notin Positions(s, T)
  BY <1>1 DEF Positions
<1>3. CASE e \in T
  <2>1. Positions(t, T) = Positions(s, T) \union {n + 1}
    BY <1>1, <1>3 DEF Positions
  <2>2. QED
    BY <1>2, <1>3, <2>1, PositionsFinite, FS_AddElement DEF t, Count
<1>4. CASE e \notin T
  <2>1. Positions(t, T) = Positions(s, T)
    BY <1>1, <1>4 DEF Positions
  <2>2. QED
    BY <1>4, <2>1, PositionsFinite DEF t, Count
<1>5. QED
  BY <1>3, <1>4

(* More at the end that are not in T do not count.                         *)
LEMMA PositionsConcat ==
  ASSUME NEW S, NEW s \in Seq(S), NEW t \in Seq(S), NEW T,
         \A i \in 1 .. Len(t) : t[i] \notin T
  PROVE  Positions(s \o t, T) = Positions(s, T)
<1> DEFINE n == Len(s)
           k == Len(t)
           u == s \o t
<1>1. n \in Nat /\ k \in Nat
  BY LenProperties
<1>2. /\ Len(u) = n + k
      /\ \A i \in 1 .. n + k : u[i] = IF i <= n THEN s[i] ELSE t[i - n]
  BY ConcatProperties
<1> HIDE DEF u
<1>3. ASSUME NEW i \in 1 .. n + k, ~(i <= n)
      PROVE  u[i] \notin T
  <2>1. i - n \in 1 .. k
    BY <1>1, <1>3
  <2>2. u[i] = t[i - n]
    BY <1>2, <1>3
  <2>3. QED
    BY <2>1, <2>2
<1> HIDE DEF n, k
<1>4. \A i : i \in Positions(u, T) <=> i \in 1 .. n /\ s[i] \in T
  BY <1>1, <1>2, <1>3 DEF Positions
<1>5. QED
  BY <1>4 DEF Positions, n, u

(* t is s without its k-th element. *)
IsWithout(t, s, k) ==
  /\ k \in 1 .. Len(s)
  /\ Len(t) = Len(s) - 1
  /\ \A j \in 1 .. Len(t) : t[j] = IF j < k THEN s[j] ELSE s[j + 1]

(* Without its k-th element, a sequence has one less when that was in T.   *)
LEMMA PositionsRemoved ==
  ASSUME NEW S, NEW s \in Seq(S), NEW t \in Seq(S), NEW k, IsWithout(t, s, k), NEW T
  PROVE  Count(s, T) = Count(t, T) + (IF s[k] \in T THEN 1 ELSE 0)
<1> DEFINE n == Len(s)
           kept == Positions(s, T) \ {k}
           f == [j \in Positions(t, T) |-> IF j < k THEN j ELSE j + 1]
<1>1. /\ n \in Nat /\ k \in 1 .. n /\ Len(t) = n - 1
      /\ \A j \in 1 .. n - 1 : t[j] = IF j < k THEN s[j] ELSE s[j + 1]
  <2>1. n \in Nat
    BY LenProperties
  <2>2. QED
    BY <2>1 DEF IsWithout
<1> HIDE DEF n
<1>2. ASSUME NEW j \in Positions(t, T) PROVE f[j] \in kept
  <2>1. j \in 1 .. n - 1 /\ t[j] \in T /\ j \in Int
    BY <1>1, <1>2 DEF Positions
  <2>2. CASE j < k
    BY <1>1, <2>1, <2>2 DEF Positions, n
  <2>3. CASE ~(j < k)
    <3>1. j + 1 \in 1 .. n /\ j + 1 # k /\ s[j + 1] \in T
      BY <1>1, <2>1, <2>3
    <3>2. QED
      BY <2>3, <3>1 DEF Positions, n
  <2>4. QED
    BY <2>2, <2>3
<1>3. ASSUME NEW i \in kept PROVE \E j \in Positions(t, T) : f[j] = i
  <2>1. i \in 1 .. n /\ i # k /\ s[i] \in T /\ i \in Int
    BY <1>1, <1>3 DEF Positions, n
  <2>2. CASE i < k
    <3>1. i \in 1 .. n - 1 /\ t[i] = s[i]
      BY <1>1, <2>1, <2>2
    <3>2. i \in Positions(t, T)
      BY <1>1, <2>1, <3>1 DEF Positions
    <3>3. QED
      BY <2>2, <3>2
  <2>3. CASE ~(i < k)
    <3>1. i - 1 \in 1 .. n - 1 /\ ~(i - 1 < k) /\ (i - 1) + 1 = i
      BY <1>1, <2>1, <2>3
    <3>2. t[i - 1] = s[i]
      BY <1>1, <3>1
    <3>3. i - 1 \in Positions(t, T)
      BY <1>1, <2>1, <3>1, <3>2 DEF Positions
    <3>4. QED
      BY <3>1, <3>3
  <2>4. QED
    BY <2>2, <2>3
<1>4. \A i, j \in Positions(t, T) : f[i] = f[j] => i = j
  <2> SUFFICES ASSUME NEW i \in Positions(t, T), NEW j \in Positions(t, T), f[i] = f[j]
               PROVE  i = j
    OBVIOUS
  <2>1. i \in Int /\ j \in Int /\ k \in Int
    BY <1>1 DEF Positions
  <2>2. QED
    BY <2>1
<1>5. f \in Bijection(Positions(t, T), kept)
  <2>1. f \in [Positions(t, T) -> kept]
    BY <1>2
  <2> HIDE DEF f
  <2>2. QED
    BY <1>3, <1>4, <2>1 DEF Bijection, Injection, Surjection, IsInjective
<1>6. /\ IsFiniteSet(Positions(s, T)) /\ Cardinality(Positions(s, T)) \in Nat
      /\ IsFiniteSet(Positions(t, T)) /\ Cardinality(Positions(t, T)) \in Nat
  BY PositionsFinite
<1> HIDE DEF f
<1>7. Cardinality(kept) = Cardinality(Positions(t, T))
  BY <1>5, <1>6, FS_Bijection DEF ExistsBijection
<1>8. CASE s[k] \in T
  <2>1. k \in Positions(s, T)
    BY <1>1, <1>8 DEF Positions, n
  <2>2. Cardinality(kept) = Cardinality(Positions(s, T)) - 1
    BY <1>6, <2>1, FS_RemoveElement
  <2>3. QED
    BY <1>6, <1>7, <1>8, <2>2 DEF Count
<1>9. CASE s[k] \notin T
  <2>1. kept = Positions(s, T)
    BY <1>9 DEF Positions
  <2> HIDE DEF kept
  <2>2. Cardinality(Positions(s, T)) = Cardinality(Positions(t, T))
    BY <1>7, <2>1
  <2>3. QED
    BY <1>6, <1>9, <2>2 DEF Count
<1>10. QED
  BY <1>8, <1>9

(* The messages and the offers about the adjourned game a.                 *)
AnswersAbout(a) == {msg \in Message : msg.kind = "resume" /\ msg.adj_id = a}
OffersOf(a) == {offer \in Offer : offer.adj_id = a}

LEMMA SamePositions ==
  ASSUME inbox \in Seq(Message), delayed_offer \in Seq(Offer), NEW a \in Adjourned
  PROVE  /\ Resumes(a) = Positions(inbox, AnswersAbout(a))
         /\ Waiting(a) = Positions(delayed_offer, OffersOf(a))
<1>1. \A i \in 1 .. Len(inbox) : inbox[i] \in Message
  BY ElementOfSeq
<1>2. \A i \in 1 .. Len(delayed_offer) : delayed_offer[i] \in Offer
  BY ElementOfSeq
<1>3. QED
  BY <1>1, <1>2 DEF Resumes, Waiting, Positions, AnswersAbout, OffersOf

(* The answers expected for a, and the offers that wait for them.          *)
Answers(a) == Count(inbox, AnswersAbout(a))
Waits(a) == Count(delayed_offer, OffersOf(a))

AnswersMatchOffers(a) ==
  /\ Waits(a) <= loads[a] + Answers(a)
  /\ loads[a] + Answers(a) <= Waits(a) + repeats

LEMMA ResumeIsCount ==
  ASSUME inbox \in Seq(Message), delayed_offer \in Seq(Offer)
  PROVE  ResumeFindsOffer <=> (~crashed => \A a \in Adjourned : AnswersMatchOffers(a))
BY SamePositions DEF ResumeFindsOffer, AnswersMatchOffers, Answers, Waits, Count

LEMMA NotifiedAnswers ==
  ASSUME inbox \in Seq(Message), core_status' \in [Jid -> Core!UserStatus],
         NEW players \in SUBSET Jid, Notify(players)
  PROVE  \A a \in Adjourned : Answers(a)' = Answers(a)
<1>1. PICK notices \in Notices(players) : inbox' = inbox \o notices
  BY DEF Notify
<1>2. Cardinality(players) \in Nat
  BY SubsetsOfJid
<1>3. notices \in [1 .. Cardinality(players) -> {StatusOf(core_status', u) : u \in players}]
  BY DEF Notices
<1>4. \A u \in players : StatusOf(core_status', u) \in Message
  BY DEF StatusOf, Message, StatusMsg
<1>5. notices \in Seq(Message) /\ DOMAIN notices = 1 .. Len(notices)
  <2>1. notices \in [1 .. Cardinality(players) -> Message]
    BY <1>3, <1>4
  <2>2. notices \in Seq(Message)
    BY <1>2, <2>1, SeqDef
  <2>3. QED
    BY <2>2, LenProperties
<1>6. ASSUME NEW a \in Adjourned, NEW i \in 1 .. Len(notices)
      PROVE  notices[i] \notin AnswersAbout(a)
  <2>1. PICK u \in players : notices[i] = StatusOf(core_status', u)
    BY <1>3, <1>5
  <2>2. QED
    BY <2>1 DEF StatusOf, AnswersAbout
<1>7. QED
  BY <1>1, <1>5, <1>6, PositionsConcat DEF Answers, Count

LEMMA AnswerQueued ==
  ASSUME inbox \in Seq(Message), NEW a \in Adjourned, AnswerLoad(a)
  PROVE  \A b \in Adjourned : Answers(b)' = Answers(b) + (IF b = a THEN 1 ELSE 0)
<1> DEFINE msg == [kind |-> "resume", adj_id |-> a, found |-> a \in adjourned_games]
<1>1. msg \in Message /\ inbox' = Append(inbox, msg)
  BY DEF AnswerLoad, Message, ResumeMsg
<1>2. \A b \in Adjourned : msg \in AnswersAbout(b) <=> b = a
  BY <1>1 DEF AnswersAbout
<1> HIDE DEF msg
<1>3. \A b \in Adjourned :
        Answers(b)' = Answers(b) + (IF msg \in AnswersAbout(b) THEN 1 ELSE 0)
  BY <1>1, PositionsAppend DEF Answers
<1>4. QED
  BY <1>2, <1>3

(* The first element taken, or the k-th one erased, counts when it is in T. *)
LEMMA CountTail ==
  ASSUME NEW S, NEW s \in Seq(S), s # <<>>, NEW T
  PROVE  Count(s, T) = Count(Tail(s), T) + (IF Head(s) \in T THEN 1 ELSE 0)
<1> DEFINE t == Tail(s)
<1>1. /\ Len(s) \in Nat /\ 1 \in 1 .. Len(s)
      /\ t \in Seq(S)
      /\ Len(t) = Len(s) - 1
      /\ \A j \in 1 .. Len(t) : t[j] = s[j + 1]
      /\ Head(s) = s[1]
  BY HeadTailProperties, EmptySeq, LenProperties
<1> HIDE DEF t
<1>2. t \in Seq(S) /\ IsWithout(t, s, 1)
  BY <1>1 DEF IsWithout
<1>3. Count(s, T) = Count(t, T) + (IF s[1] \in T THEN 1 ELSE 0)
  BY <1>2, PositionsRemoved
<1>4. QED
  BY <1>1, <1>3 DEF t

LEMMA CountErased ==
  ASSUME NEW S, NEW s \in Seq(S), NEW k \in 1 .. Len(s), NEW T
  PROVE  Count(s, T) = Count(SubSeq(s, 1, k - 1) \o SubSeq(s, k + 1, Len(s)), T)
                         + (IF s[k] \in T THEN 1 ELSE 0)
<1> DEFINE n == Len(s)
           before == SubSeq(s, 1, k - 1)
           after == SubSeq(s, k + 1, n)
           t == before \o after
<1>1. n \in Nat /\ k \in 1 .. n /\ \A j \in 1 .. n : s[j] \in S
  BY LenProperties, ElementOfSeq
<1>2. /\ before \in Seq(S) /\ Len(before) = k - 1
      /\ \A j \in 1 .. k - 1 : before[j] = s[j]
  <2>1. 1 \in Int /\ k - 1 \in Int /\ \A j \in 1 .. k - 1 : s[j] \in S
    BY <1>1
  <2>2. /\ before \in Seq(S)
        /\ Len(before) = IF 1 <= k - 1 THEN (k - 1) - 1 + 1 ELSE 0
        /\ \A j \in 1 .. (k - 1) - 1 + 1 : before[j] = s[1 + j - 1]
    BY <2>1, SubSeqProperties
  <2> HIDE DEF before
  <2>3. QED
    BY <1>1, <2>2
<1>3. /\ after \in Seq(S) /\ Len(after) = n - k
      /\ \A j \in 1 .. n - k : after[j] = s[k + j]
  <2>1. n \in Int /\ k + 1 \in Int /\ \A j \in k + 1 .. n : s[j] \in S
    BY <1>1
  <2>2. /\ after \in Seq(S)
        /\ Len(after) = IF k + 1 <= n THEN n - (k + 1) + 1 ELSE 0
        /\ \A j \in 1 .. n - (k + 1) + 1 : after[j] = s[(k + 1) + j - 1]
    BY <2>1, SubSeqProperties
  <2> HIDE DEF after
  <2>3. QED
    BY <1>1, <2>2
<1> HIDE DEF before, after, n
<1>4. /\ t \in Seq(S)
      /\ Len(t) = n - 1
      /\ \A j \in 1 .. n - 1 : t[j] = IF j <= k - 1 THEN before[j] ELSE after[j - (k - 1)]
  <2>1. /\ t \in Seq(S)
        /\ Len(t) = Len(before) + Len(after)
        /\ \A j \in 1 .. Len(before) + Len(after) :
             t[j] = IF j <= Len(before) THEN before[j] ELSE after[j - Len(before)]
    BY <1>2, <1>3, ConcatProperties
  <2>2. Len(before) = k - 1 /\ Len(before) + Len(after) = n - 1
    BY <1>1, <1>2, <1>3
  <2>3. QED
    BY <2>1, <2>2
<1> HIDE DEF t
<1>5. ASSUME NEW j \in 1 .. n - 1
      PROVE  t[j] = IF j < k THEN s[j] ELSE s[j + 1]
  <2>1. CASE j < k
    <3>1. j \in 1 .. k - 1 /\ j <= k - 1
      BY <1>1, <2>1
    <3>2. QED
      BY <1>2, <1>4, <2>1, <3>1
  <2>2. CASE ~(j < k)
    <3>1. j - (k - 1) \in 1 .. n - k /\ ~(j <= k - 1) /\ k + (j - (k - 1)) = j + 1
      BY <1>1, <2>2
    <3>2. t[j] = after[j - (k - 1)]
      BY <1>4, <3>1
    <3>3. QED
      BY <1>3, <2>2, <3>1, <3>2
  <2>3. QED
    BY <2>1, <2>2
<1>6. t \in Seq(S) /\ IsWithout(t, s, k)
  BY <1>1, <1>4, <1>5 DEF IsWithout, n
<1>7. Count(s, T) = Count(t, T) + (IF s[k] \in T THEN 1 ELSE 0)
  BY <1>6, PositionsRemoved
<1>8. QED
  BY <1>7 DEF t, before, after, n

LEMMA MessageTaken ==
  ASSUME inbox \in Seq(Message), inbox # <<>>, inbox' = Tail(inbox), NEW a \in Adjourned
  PROVE  Answers(a) = Answers(a)' + (IF Head(inbox) \in AnswersAbout(a) THEN 1 ELSE 0)
BY CountTail DEF Answers

LEMMA OfferTaken ==
  ASSUME delayed_offer \in Seq(Offer), NEW a \in Adjourned, NEW i \in Waiting(a),
         delayed_offer' = SubSeq(delayed_offer, 1, i - 1)
                            \o SubSeq(delayed_offer, i + 1, Len(delayed_offer)),
         NEW b \in Adjourned
  PROVE  Waits(b) = Waits(b)' + (IF b = a THEN 1 ELSE 0)
<1>1. i \in 1 .. Len(delayed_offer) /\ delayed_offer[i].adj_id = a
  BY DEF Waiting
<1>2. delayed_offer[i] \in OffersOf(b) <=> b = a
  BY <1>1, ElementOfSeq DEF OffersOf
<1>3. Waits(b) = Waits(b)' + (IF delayed_offer[i] \in OffersOf(b) THEN 1 ELSE 0)
  BY <1>1, CountErased DEF Waits
<1>4. QED
  BY <1>2, <1>3

(* Every load that is started, answered, run again or taken counts once.   *)
LEMMA AnswersStep ==
  ASSUME IInv, IInv', Next, NEW a \in Adjourned, AnswersMatchOffers(a), ~crashed'
  PROVE  AnswersMatchOffers(a)'
<1>1. /\ QueuesOK /\ QueuesOK'
      /\ inbox \in Seq(Message) /\ delayed_offer \in Seq(Offer)
      /\ loads \in [Adjourned -> Nat]
      /\ core_status' \in [Jid -> Core!UserStatus]
  BY DEF IInv, ModuleInv, QueuesOK, CoreInv, Core!TypeOK
<1>2. /\ Answers(a) \in Nat /\ Waits(a) \in Nat /\ loads[a] \in Nat /\ repeats \in Nat
      /\ Answers(a)' \in Nat /\ Waits(a)' \in Nat /\ loads'[a] \in Nat /\ repeats' \in Nat
  <2>1. Answers(a) \in Nat /\ Waits(a) \in Nat
    BY <1>1, PositionsFinite DEF Answers, Waits, Count
  <2>2. inbox' \in Seq(Message) /\ delayed_offer' \in Seq(Offer)
    BY <1>1 DEF QueuesOK
  <2>3. Answers(a)' \in Nat /\ Waits(a)' \in Nat
    BY <2>2, PositionsFinite DEF Answers, AnswersAbout, Waits, OffersOf, Count
  <2>4. QED
    BY <1>1, <2>1, <2>3 DEF QueuesOK
<1>3. UNCHANGED delayed_offer => Waits(a)' = Waits(a)
  BY DEF Waits, OffersOf
<1>4. UNCHANGED inbox => Answers(a)' = Answers(a)
  BY DEF Answers, AnswersAbout
<1>5. ASSUME NEW players \in SUBSET Jid, Notify(players),
             UNCHANGED <<delayed_offer, loads, repeats>>
      PROVE  AnswersMatchOffers(a)'
  <2>1. Answers(a)' = Answers(a)
    BY <1>1, <1>5, NotifiedAnswers
  <2>2. QED
    BY <1>3, <1>5, <2>1 DEF AnswersMatchOffers
<1>6. CASE Environment
  <2>1. ASSUME NEW g \in Game PROVE games[g].players \in SUBSET Jid
    BY DEF IInv, CoreInv, Core!TypeOK, Core!GameInfo
  <2>2. PICK players \in SUBSET Jid :
          Notify(players) /\ UNCHANGED <<delayed_offer, loads, repeats>>
    BY <1>6, <2>1
       DEF Environment, HandlePresence, OtherCreateGame, EndGame, adjVars, PlayerPairs
  <2>3. QED
    BY <1>5, <2>2
<1>7. CASE DatabaseThreads
  <2>1. PICK b \in Adjourned : LoadAdjourned(b) \/ RepeatLoad(b) \/ EraseAdjourned(b)
    BY <1>7 DEF DatabaseThreads
  <2>2. UNCHANGED delayed_offer
    BY <2>1 DEF LoadAdjourned, RepeatLoad, EraseAdjourned
  <2>3. CASE LoadAdjourned(b)
    <3>1. Answers(a)' = Answers(a) + (IF a = b THEN 1 ELSE 0)
      BY <1>1, <2>3, AnswerQueued DEF LoadAdjourned
    <3>2. loads'[a] = loads[a] - (IF a = b THEN 1 ELSE 0) /\ repeats' = repeats
      BY <1>1, <2>3 DEF LoadAdjourned
    <3>3. QED
      BY <1>2, <1>3, <2>2, <3>1, <3>2 DEF AnswersMatchOffers
  <2>4. CASE RepeatLoad(b)
    <3>1. Answers(a)' = Answers(a) + (IF a = b THEN 1 ELSE 0)
      BY <1>1, <2>4, AnswerQueued DEF RepeatLoad
    <3>2. loads'[a] = loads[a] /\ repeats' = repeats + 1
      BY <2>4 DEF RepeatLoad
    <3>3. QED
      BY <1>2, <1>3, <2>2, <3>1, <3>2 DEF AnswersMatchOffers
  <2>5. CASE EraseAdjourned(b)
    BY <1>3, <1>4, <2>2, <2>5 DEF EraseAdjourned, AnswersMatchOffers
  <2>6. QED
    BY <2>1, <2>3, <2>4, <2>5
<1>8. CASE HandleIq
  <2>1. PICK u \in Jid, id \in MatchId \union {NoId} :
          \/ UNCHANGED <<inbox, adjVars>>
          \/ \E b \in Adjourned : HandleAdjournedOffer(u, b, id)
          \/ id # NoId /\ HandleAccept(u, id)
    BY <1>8 DEF HandleIq, RefuseUnavailable, HandleOffer, HandleDecline
  <2>2. CASE UNCHANGED <<inbox, adjVars>>
    BY <1>3, <1>4, <2>2 DEF AnswersMatchOffers, adjVars
  <2>3. ASSUME NEW b \in Adjourned, HandleAdjournedOffer(u, b, id)
        PROVE  AnswersMatchOffers(a)'
    <3> DEFINE offer == [adj_id |-> b, from |-> u, id |-> id]
    <3>1. offer \in Offer /\ (offer \in OffersOf(a) <=> a = b)
      BY DEF Offer, OffersOf
    <3>2. delayed_offer' = Append(delayed_offer, offer)
      BY <2>3 DEF HandleAdjournedOffer
    <3> HIDE DEF offer
    <3>3. Waits(a)' = Waits(a) + (IF offer \in OffersOf(a) THEN 1 ELSE 0)
      BY <1>1, <3>1, <3>2, PositionsAppend DEF Waits
    <3>4. loads'[a] = loads[a] + (IF a = b THEN 1 ELSE 0)
      BY <1>1, <2>3 DEF HandleAdjournedOffer
    <3>5. UNCHANGED <<inbox, repeats>>
      BY <2>3 DEF HandleAdjournedOffer
    <3>6. QED
      BY <1>2, <1>4, <3>1, <3>3, <3>4, <3>5 DEF AnswersMatchOffers
  <2>4. CASE id # NoId /\ HandleAccept(u, id)
    <3>1. match_db.matchs[id].players \in SUBSET Jid
      BY <2>4 DEF IInv, ModuleInv, TableInv, DbInv, Database, MatchInfo
    <3>2. /\ UNCHANGED <<delayed_offer, loads, repeats>>
          /\ UNCHANGED inbox \/ Notify(match_db.matchs[id].players)
      BY <2>4 DEF HandleAccept, StartMatch
    <3>3. CASE UNCHANGED inbox
      BY <1>3, <1>4, <3>2, <3>3 DEF AnswersMatchOffers
    <3>4. QED
      BY <1>5, <3>1, <3>2, <3>3
  <2>5. QED
    BY <2>1, <2>2, <2>3, <2>4
<1>9. CASE HandleUserStatus
  <2>1. inbox # <<>> /\ inbox' = Tail(inbox) /\ Head(inbox) \notin AnswersAbout(a)
    BY <1>9 DEF HandleUserStatus, AnswersAbout
  <2>2. Answers(a)' = Answers(a)
    BY <1>1, <1>2, <2>1, MessageTaken
  <2>3. UNCHANGED <<delayed_offer, loads, repeats>>
    BY <1>9 DEF HandleUserStatus, adjVars
  <2>4. QED
    BY <1>3, <2>2, <2>3 DEF AnswersMatchOffers
<1>10. CASE HandleResume
  <2>1. inbox # <<>> /\ inbox' = Tail(inbox) /\ UNCHANGED <<loads, repeats>>
    BY <1>10 DEF HandleResume
  <2>2. Head(inbox) \in Message /\ Head(inbox).kind = "resume"
    BY <1>1, <1>10, HeadTailProperties DEF HandleResume
  <2> DEFINE b == Head(inbox).adj_id
  <2>3. b \in Adjourned
    BY <2>2 DEF Message, StatusMsg, ResumeMsg
  <2>4. Head(inbox) \in AnswersAbout(a) <=> a = b
    BY <2>2 DEF AnswersAbout
  <2>5. Answers(a) = Answers(a)' + (IF a = b THEN 1 ELSE 0)
    BY <1>1, <2>1, <2>4, MessageTaken
  <2>6. Waits(a) = Waits(a)' + (IF a = b THEN 1 ELSE 0)
    <3>1. PICK i \in Waiting(b) :
            delayed_offer' = SubSeq(delayed_offer, 1, i - 1)
                               \o SubSeq(delayed_offer, i + 1, Len(delayed_offer))
      BY <1>10 DEF HandleResume, TakeDelayedOffer
    <3> HIDE DEF b
    <3>2. QED
      BY <1>1, <2>3, <3>1, OfferTaken
  <2>7. QED
    BY <1>2, <2>1, <2>5, <2>6 DEF AnswersMatchOffers
<1>11. CASE ResumeCrash
  BY <1>11 DEF ResumeCrash
<1>12. QED
  BY <1>6, <1>7, <1>8, <1>9, <1>10, <1>11 DEF Next, HandleMessage

(* While the process lives, an answer of the database finds its offer.     *)
THEOREM MatchResumeFindsOffer == Spec => []ResumeFindsOffer
<1> DEFINE Inv == ~crashed => \A a \in Adjourned : AnswersMatchOffers(a)
<1>1. IInv => (ResumeFindsOffer <=> Inv)
  BY ResumeIsCount DEF IInv, ModuleInv, QueuesOK
<1>2. Init => Inv
  <2> SUFFICES ASSUME Init, NEW a \in Adjourned PROVE AnswersMatchOffers(a)
    OBVIOUS
  <2>1. \A T : Positions(<<>>, T) = {}
    BY EmptySeq DEF Positions
  <2>2. Answers(a) = 0 /\ Waits(a) = 0
    BY <2>1, FS_EmptySet DEF Init, Answers, Waits, Count
  <2>3. QED
    BY <2>2 DEF Init, AnswersMatchOffers
<1>3. IInv /\ IInv' /\ [Next]_vars /\ Inv => Inv'
  <2> SUFFICES ASSUME IInv, IInv', [Next]_vars, Inv, ~crashed', NEW a \in Adjourned
               PROVE  AnswersMatchOffers(a)'
    OBVIOUS
  <2>1. CASE UNCHANGED vars
    BY <2>1 DEF vars, adjVars, AnswersMatchOffers, Answers, AnswersAbout, Waits, OffersOf
  <2>2. CASE Next
    <3>1. ~crashed
      BY <2>2 DEF Next, Environment, HandlePresence, OtherCreateGame, EndGame,
                  DatabaseThreads, LoadAdjourned, RepeatLoad, EraseAdjourned,
                  HandleIq, RefuseUnavailable, HandleOffer, HandleAdjournedOffer,
                  HandleAccept, HandleDecline, HandleMessage, HandleUserStatus,
                  HandleResume, ResumeCrash
    <3>2. QED
      BY <2>2, <3>1, AnswersStep
  <2>3. QED
    BY <2>1, <2>2
<1> HIDE DEF Inv
<1>4. QED
  BY <1>1, <1>2, <1>3, Invariance, PTL DEF Spec

=============================================================================
