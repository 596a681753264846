---------------------------- MODULE DatabaseInterface --------------------------
(***************************************************************************)
(* The tables of the database and the queries of the server on them        *)
(* (src/src/DatabaseInterface.cc, database/pgsql.sql).  A query is a       *)
(* function of the tables, an update one that returns the tables after it. *)
(* The serial key of a user is abstracted to the user's unique name, the   *)
(* one of a game to its place in the sequence of games.                    *)
(***************************************************************************)
EXTENDS Integers, Sequences, FiniteSets, SequencesExt

(* A row or an entry of a map is added, or replaced.                       *)
Put(rows, key, row) == [k \in DOMAIN rows \cup {key} |-> IF k = key THEN row ELSE rows[k]]

(* users:  user_name -> type and online_time                               *)
(* games:  sequence of the sets of <<user_name, role>> that played         *)
(* player_rating:  <<user_name, category>> -> rating                       *)
(* announcements:  id -> user, category and the limits of the rating       *)
NewTables(users, ratings) ==
  [users |-> users, player_rating |-> ratings, games |-> <<>>,
   banned_users |-> {}, banned_words |-> {}, announcements |-> <<>>]

NewUser == [type |-> "user", online_time |-> 0]

HasUser(db, name) == name \in DOMAIN db.users

(* getUserId with create: the row is inserted when there is none.          *)
WithUser(db, name) ==
  IF HasUser(db, name) THEN db ELSE [db EXCEPT !.users = Put(@, name, NewUser)]

WithUsers(db, names) ==
  [db EXCEPT !.users = [n \in DOMAIN @ \cup names |-> IF n \in DOMAIN @ THEN @[n] ELSE NewUser]]

getUserType(db, name) == IF HasUser(db, name) THEN db.users[name].type ELSE "user"

\* of all categories
getRatings(db, name) ==
  [category \in {key[2] : key \in {k \in DOMAIN db.player_rating : k[1] = name}} |->
     db.player_rating[<<name, category>>]]

(* The query for one category ends with "AND": a ";" follows it.           *)
GetRatingsFails(category) == category # ""

-----------------------------------------------------------------------------
(* Online time and bans.  A user who is not in the database gets a row for *)
(* the online time, but is not banned.                                     *)

getOnlineTime(db, name) == IF HasUser(db, name) THEN db.users[name].online_time ELSE 0

updateOnlineTime(db, name, increment) ==
  [WithUser(db, name) EXCEPT !.users[name].online_time = @ + increment]

banUser(db, name) ==
  IF HasUser(db, name) THEN [db EXCEPT !.banned_users = @ \cup {name}] ELSE db

unbanUser(db, name) == [db EXCEPT !.banned_users = @ \ {name}]

\* word is a unique key of the table: a second INSERT fails
BanWordFails(db, word) == word \in db.banned_words

banWord(db, word) == [db EXCEPT !.banned_words = @ \cup {word}]

unbanWord(db, word) == [db EXCEPT !.banned_words = @ \ {word}]

-----------------------------------------------------------------------------
(* Games.                                                                  *)

insertGame(db, players) ==
  [WithUsers(db, {q[1] : q \in players}) EXCEPT !.games = Append(@, players)]

\* how many of the ids are larger
Rank(ids, id) == Cardinality({j \in ids : j > id})

\* ORDER BY game_id DESC
Descending(ids) == [i \in 1..Cardinality(ids) |-> CHOOSE id \in ids : Rank(ids, id) = i - 1]

Page(rows, offset, max_results) ==
  SubSeq(rows, offset + 1, IF offset + max_results < Len(rows)
                           THEN offset + max_results ELSE Len(rows))

(* A role is given, or "undefined".                                        *)
Played(p, game) == \E q \in game : q[1] = p[1] /\ p[2] \in {q[2], "undefined"}

(* The games that all of the given players played, latest first, LIMIT and *)
(* OFFSET.                                                                 *)
searchGames(db, players, offset, max_results) ==
  LET matching == {id \in DOMAIN db.games : \A p \in players : Played(p, db.games[id])}
  IN IF \A p \in players : HasUser(db, p[1])
     THEN Page(Descending(matching), offset, max_results)
     ELSE <<>>

-----------------------------------------------------------------------------
(* Announcements.                                                          *)

clearAnnouncements(db) == [db EXCEPT !.announcements = <<>>]

eraseAnnouncement(db, id) ==
  [db EXCEPT !.announcements = [i \in DOMAIN @ \ {id} |-> @[i]]]

\* id is the primary key
InsertAnnouncementFails(db, id) == id \in DOMAIN db.announcements

insertAnnouncement(db, id, row) ==
  [WithUser(db, row.user) EXCEPT !.announcements = Put(@, id, row)]

(* Those of one announcer; or those of the others whose limits the rating  *)
(* of the searcher meets, in each category in which there is one.          *)
searchAnnouncement(db, name, announcer, offset, max_results) ==
  LET Meets(row) ==
        /\ row.user # name
        /\ <<name, row.category>> \in DOMAIN db.player_rating
        /\ db.player_rating[<<name, row.category>>] \in row.min_rating..row.max_rating
      found == {id \in DOMAIN db.announcements :
                  IF announcer # "" THEN db.announcements[id].user = announcer
                  ELSE Meets(db.announcements[id])}
  IN IF HasUser(db, IF announcer # "" THEN announcer ELSE name)
     THEN Page(SetToSortSeq(found, <), offset, max_results)
     ELSE <<>>
=============================================================================
