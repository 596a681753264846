----------------------------- MODULE ProfileManager ----------------------------
(***************************************************************************)
(* Online time, profiles and searches of games (src/src/ProfileManager.cc).*)
(* Time is in seconds, up to MaxTime; last_logons has one entry for a user,*)
(* however many resources the user is connected from, and is guarded by a  *)
(* lock that its readers share (Threads/SafeObject.hh).                    *)
(***************************************************************************)
EXTENDS ServerModule

CONSTANTS MaxTime, MaxGames,
          GamePlayers,         \* the sets of <<name, role>> that play
          Results              \* max_results of the searches

ASSUME ResultsAssumption == Results \subseteq Nat

VARIABLES last_logons,         \* name -> when the user was first seen
          now,
          online,              \* name -> seconds before, and with a resource that is available
          reader,              \* a client who reads the games of a player page by page
          profile              \* the fetchProfile under way, or its answer

logon_vars == <<last_logons, now, online, profile>>

profile_vars == <<logon_vars, reader>>

UserNames == Range(PartialOf)

NoReader == [page |-> "none"]

NoProfile == [step |-> "none"]

ProfileInit ==
  /\ last_logons = <<>> /\ now = 0
  /\ online = [n \in UserNames |-> getOnlineTime(db, n)] /\ reader = NoReader
  /\ profile = NoProfile

(* Mutant: the lock is released when the iq was begun. *)
LogonsUnlocked == FALSE

(* ReadLock of fetchProfile: the write locks wait until the answer is      *)
(* ready.                                                                  *)
LogonsLocked == profile.step \in {"locked", "read"}

Tick ==
  /\ process = "up" /\ now < MaxTime /\ now' = now + 1
  /\ online' = [n \in UserNames |->
                  online[n] + IF \E u \in users_status : PartialOf[u] = n THEN 1 ELSE 0]
  /\ UNCHANGED <<module_vars, last_logons, reader, profile>>

Uptime(name) == IF name \in DOMAIN last_logons THEN now - last_logons[name] ELSE 0

\* the updates of the online time of a user that are under way
Updates(n) == {t \in Pending : t.op = "online" /\ t.name = n}

Increment(name) == [op |-> "online", name |-> name, seconds |-> now - last_logons[name],
                    attempt |-> 1]

(* Mutant: the user stays in last_logons. *)
profileStatusKeepsLogon(u, is_available) ==
  LET name == PartialOf[u]
      counted == ~is_available /\ name \in DOMAIN last_logons
  IN /\ ~LogonsLocked
     /\ NextStatus(u, is_available)
     /\ last_logons' = IF is_available /\ name \notin DOMAIN last_logons
                       THEN Put(last_logons, name, now) ELSE last_logons
     /\ QueueTransactions(IF counted THEN {Increment(name)} ELSE {})
     /\ UNCHANGED <<now, online, reader, profile>>

(* _notifyUserStatus: the first resource that leaves ends the count.       *)
profileHandleUserStatus(u, is_available) ==
  LET name == PartialOf[u]
      counted == ~is_available /\ name \in DOMAIN last_logons
  IN /\ ~LogonsLocked
     /\ NextStatus(u, is_available)
     /\ last_logons' = IF is_available /\ name \notin DOMAIN last_logons
                       THEN Put(last_logons, name, now)
                       ELSE [n \in DOMAIN last_logons \ (IF counted THEN {name} ELSE {})
                               |-> last_logons[n]]
     /\ QueueTransactions(IF counted THEN {Increment(name)} ELSE {})
     /\ UNCHANGED <<now, online, reader, profile>>

(* onStop: everybody's time is counted.  What the core notifies afterwards *)
(* is not looked at any more.                                              *)
onStop ==
  /\ process = "up" /\ process' = "stopping" /\ ~LogonsLocked
  /\ QueueTransactions({Increment(n) : n \in DOMAIN last_logons})
  /\ last_logons' = <<>>
  /\ UNCHANGED <<core_vars, users_status, inbox, db, restarts, now, online, reader, profile>>

updateOnlineTimeStep(t) ==
  /\ t.op = "online"
  /\ Commit(t, updateOnlineTime(db, t.name, t.seconds))
  /\ UNCHANGED <<core_vars, users_status, inbox, process, restarts, profile_vars>>

(* The transactions are joined before the process ends.                    *)
Stopped ==
  /\ process = "stopping" /\ transactions = EmptyBag /\ process' = "down"
  /\ UNCHANGED <<core_vars, users_status, inbox, db, transactions, restarts, profile_vars>>

-----------------------------------------------------------------------------
(* Profiles and ratings.                                                   *)

handleProfile(u, name) ==
  /\ Handles(u) /\ ~\E t \in Pending : t.op = "profile"
  /\ profile.step \in {"none", "answered"} /\ profile' = NoProfile
  /\ QueueTransactions({[op |-> "profile", name |-> name, attempt |-> 1]})
  /\ UNCHANGED <<core_vars, users_status, inbox, db, process, restarts, last_logons, now,
                 online, reader>>

(* fetchProfile in three steps, each of which reads: the lock, the ratings *)
(* and the type of the user; the online time; the uptime.                  *)
fetchProfileLock(t) ==
  /\ t.op = "profile" /\ profile = NoProfile /\ process # "down"
  /\ profile' = [step |-> "locked", name |-> t.name, type |-> getUserType(db, t.name),
                 ratings |-> getRatings(db, t.name), online_time |-> 0, uptime |-> 0,
                 asked |-> online[t.name],         \* the true time, for ProfileShown
                 settled |-> Updates(t.name) = {}]
  /\ UNCHANGED <<module_vars, last_logons, now, online, reader>>

fetchProfileRead(t) ==
  /\ t.op = "profile" /\ profile.step = "locked" /\ process # "down"
  /\ profile' = [profile EXCEPT !.step = "read", !.online_time = getOnlineTime(db, t.name)]
  /\ UNCHANGED <<module_vars, last_logons, now, online, reader>>

fetchProfileAnswer(t) ==
  /\ t.op = "profile" /\ profile.step = "read"
  /\ Commit(t, db)
  /\ profile' = [profile EXCEPT !.step = "answered", !.uptime = Uptime(t.name)]
  /\ UNCHANGED <<core_vars, users_status, inbox, process, restarts, last_logons, now, online,
                 reader>>

handleRating(u, category) ==
  /\ Handles(u)
  /\ QueueTransactions({[op |-> "rating", category |-> category, attempt |-> 1]})
  /\ UNCHANGED <<core_vars, users_status, inbox, db, process, restarts, profile_vars>>

(* fetchRating: the query for one category is no SQL.                      *)
fetchRatingStep(t) ==
  /\ t.op = "rating"
  /\ IF GetRatingsFails(t.category) THEN Throw(t)
     ELSE /\ Commit(t, db)
          /\ UNCHANGED <<core_vars, users_status, inbox, process, restarts>>
  /\ UNCHANGED profile_vars

-----------------------------------------------------------------------------
(* Games that end are stored while a client reads pages: it asks for the   *)
(* page behind those it has until no "more" is in the answer.              *)

StoreGame(players) ==
  /\ process = "up" /\ Len(db.games) < MaxGames
  /\ db' = insertGame(db, players)
  /\ UNCHANGED <<core_vars, users_status, inbox, transactions, process, restarts, profile_vars>>

handleSearchGame(u, player, max_results) ==
  /\ Handles(u) /\ reader.page \in {"none", "more"}
  /\ LET first == reader.page = "none"
         offset == IF first THEN 0 ELSE reader.offset
     IN /\ ~first => reader.player = player /\ reader.max_results = max_results
        /\ QueueTransactions({[op |-> "searchGame", player |-> player, offset |-> offset,
                               max_results |-> max_results, attempt |-> 1]})
        /\ reader' = [page |-> "asked", player |-> player, offset |-> offset,
                      max_results |-> max_results,
                      seen |-> IF first THEN {} ELSE reader.seen,
                      stored |-> IF first THEN DOMAIN db.games ELSE reader.stored]
  /\ UNCHANGED <<core_vars, users_status, inbox, db, process, restarts, logon_vars>>

GameIds(db1, player) == {id \in DOMAIN db1.games : Played(player, db1.games[id])}

(* Mutant: one game too few is asked for to see that there are more. *)
AskedExactly(max_results) == max_results

\* "max_results + 1"
Asked(max_results) == max_results + 1

searchGameStep(t) ==
  /\ t.op = "searchGame" /\ process = "up"
  /\ LET games_found == searchGames(db, {t.player}, t.offset, Asked(t.max_results))
         has_more == Len(games_found) > t.max_results
         answer == IF has_more THEN Front(games_found) ELSE games_found
     IN reader' = [reader EXCEPT !.page = IF has_more THEN "more" ELSE "last",
                                 !.offset = @ + Len(answer),
                                 !.seen = @ \cup Range(answer)]
  /\ Commit(t, db)
  /\ UNCHANGED <<core_vars, users_status, inbox, process, restarts, logon_vars>>

ReaderLeaves ==
  /\ reader.page = "last" /\ reader' = NoReader
  /\ UNCHANGED <<module_vars, logon_vars>>

OnlineNext ==
  \/ \E u \in Jid, is_available \in BOOLEAN :
       \/ profileHandleUserStatus(u, is_available)
       \/ HandlePresence(u, is_available) /\ UNCHANGED profile_vars
  \/ \E t \in Pending : updateOnlineTimeStep(t)
  \/ Tick \/ onStop \/ Stopped
  \/ /\ Restart(db) /\ last_logons' = <<>> /\ reader' = NoReader /\ profile' = NoProfile
     /\ UNCHANGED <<now, online>>
  \/ Kill /\ UNCHANGED profile_vars

ProfileNext ==
  \/ \E u \in Jid, name \in UserNames : handleProfile(u, name)
  \/ \E u \in Jid, category \in {"", "blitz"} : handleRating(u, category)
  \/ \E t \in Pending : \/ fetchProfileLock(t) \/ fetchProfileRead(t)
                         \/ fetchProfileAnswer(t) \/ fetchRatingStep(t)

SearchNext ==
  \/ \E u \in Jid, player \in UNION GamePlayers, max_results \in Results :
       handleSearchGame(u, player, max_results)
  \/ \E players \in GamePlayers : StoreGame(players)
  \/ \E t \in Pending : searchGameStep(t)
  \/ ReaderLeaves

ProfileSpec(tables) ==
  /\ ServerModuleInit(tables) /\ ProfileInit
  /\ [][OnlineNext \/ ProfileNext \/ SearchNext]_<<module_vars, profile_vars>>

-----------------------------------------------------------------------------
(* Properties.                                                             *)

(* The seconds that the updates under way will add, each second of each    *)
(* copy of an update once.                                                 *)
SecondsQueued(n) ==
  UNION {{t} \X ((1..transactions[t]) \X (1..t.seconds)) : t \in Updates(n)}

(* Seconds of a user that the database has or will get when transactions   *)
(* under way have run and the user has left.                               *)
Credited(n) ==
  getOnlineTime(db, n) + Cardinality(SecondsQueued(n))
    + (IF process # "down" THEN Uptime(n) ELSE 0)

OneResource(n) == \A u, v \in Jid : PartialOf[u] = n /\ PartialOf[v] = n => u = v

(* No second is credited twice and none to a user who is not there, from   *)
(* however many resources, through a stop of the server and a restart; and *)
(* none is lost of a user with one resource unless the process was killed. *)
OnlineTimeCredited ==
  \A n \in UserNames :
    /\ Credited(n) <= online[n]
    /\ restarts = 0 /\ process # "down" /\ OneResource(n)
         => Credited(n) = online[n]

(* The online time and the uptime of a profile are read one after the      *)
(* other, while the user comes and goes and updates of the online time are *)
(* under way.  Still, no second is in both; and none of the time up to the *)
(* request is in neither, for a user with one resource of whom no update   *)
(* was under way, and unless the process was restarted.                    *)
ProfileShown ==
  profile.step = "answered" =>
    LET n == profile.name IN
    /\ profile.online_time + profile.uptime <= online[n]
    /\ profile.settled /\ restarts = 0 /\ OneResource(n)
         => profile.online_time + profile.uptime >= profile.asked

(* The online time of a user is the time the user was there: in the table  *)
(* with the updates under way, and in the profiles that clients are sent.  *)
ProfileTrue == OnlineTimeCredited /\ ProfileShown

(* Games are stored between the pages and move those a client has not read *)
(* to higher offsets.  Still, a client who read the last page has seen     *)
(* every game the player had when the first page was asked for.            *)
PagesComplete ==
  reader.page = "last" => reader.stored \cap GameIds(db, reader.player) \subseteq reader.seen
=============================================================================
