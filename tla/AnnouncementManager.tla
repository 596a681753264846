--------------------------- MODULE AnnouncementManager -------------------------
(***************************************************************************)
(* Announcements of matches (src/src/AnnouncementManager.cc): a list in    *)
(* memory, and a table that is only used for searches.  The list is        *)
(* changed by the module's thread, the table by transactions, and a search *)
(* runs in a thread of the database that reads the list without a lock.    *)
(***************************************************************************)
EXTENDS ServerModule

CONSTANTS Category, Limits,     \* categories, and the limits <<min, max>> of the rating
          MaxAnnouncements,     \* announcements of one process
          MaxSearches,          \* searches at a time
          Announcers            \* whose announcements they ask for, "" for anybody's

VARIABLES announcements,        \* id -> MatchAnnouncement
          announcement_ids,
          overtaken,            \* ids whose row was erased before it was inserted
          accepted              \* id -> the players of the game made from it

announcement_vars == <<announcements, announcement_ids, overtaken, accepted>>

AnnouncementInit ==
  /\ announcements = <<>> /\ announcement_ids = 0
  /\ overtaken = {} /\ accepted = <<>>

Transaction(op, id) == [op |-> op, id |-> id, attempt |-> 1]

Without(ids) == [i \in DOMAIN announcements \ ids |-> announcements[i]]

-----------------------------------------------------------------------------
(* The module's thread.                                                    *)

handleCreate(u, category, limits) ==
  LET id == announcement_ids
      row == [user |-> PartialOf[u], category |-> category,
              min_rating |-> limits[1], max_rating |-> limits[2]]
  IN /\ Handles(u) /\ id < MaxAnnouncements
     /\ announcement_ids' = id + 1
     /\ announcements' = Put(announcements, id, [owner |-> u, row |-> row])
     /\ QueueTransactions({[op |-> "insert", id |-> id, row |-> row, attempt |-> 1]})
     /\ UNCHANGED <<core_vars, users_status, inbox, db, process, restarts, overtaken, accepted>>

(* An id that is not listed, or somebody else's, is refused.               *)
handleDelete(u, id) ==
  /\ Handles(u)
  /\ id \in DOMAIN announcements /\ announcements[id].owner = u
  /\ announcements' = Without({id})
  /\ QueueTransactions({Transaction("erase", id)})
  /\ UNCHANGED <<core_vars, users_status, inbox, db, process, restarts,
                 announcement_ids, overtaken, accepted>>

(* Mutant: the announcement is erased only if the game could not be made. *)
handleAcceptListed(u, id) ==
  /\ Handles(u)
  /\ id \in DOMAIN announcements /\ announcements[id].owner # u
  /\ LET players == {u, announcements[id].owner} IN
       \/ /\ CreateGame(players) /\ accepted' = Put(accepted, id, players)
          /\ UNCHANGED <<announcements, transactions>>
       \/ /\ \E p \in players : ~CanPlay(p)
          /\ announcements' = Without({id})
          /\ QueueTransactions({Transaction("erase", id)})
          /\ UNCHANGED <<core_vars, inbox, accepted>>
  /\ UNCHANGED <<users_status, db, process, restarts, announcement_ids, overtaken>>

(* The announcement is gone whether or not the core makes a game of it.    *)
handleAccept(u, id) ==
  /\ Handles(u)
  /\ id \in DOMAIN announcements /\ announcements[id].owner # u
  /\ announcements' = Without({id})
  /\ QueueTransactions({Transaction("erase", id)})
  /\ LET players == {u, announcements[id].owner} IN
       \/ CreateGame(players) /\ accepted' = Put(accepted, id, players)
       \/ /\ \E p \in players : ~CanPlay(p)
          /\ UNCHANGED <<core_vars, inbox, accepted>>
  /\ UNCHANGED <<users_status, db, process, restarts, announcement_ids, overtaken>>

Of(u) == {id \in DOMAIN announcements : announcements[id].owner = u}

(* _notifyUserStatus: the announcements of a user who leaves are erased.   *)
announcementsHandleUserStatus(u, is_available) ==
  LET gone == IF is_available THEN {} ELSE Of(u) IN
  /\ NextStatus(u, is_available)
  /\ announcements' = Without(gone)
  /\ QueueTransactions({Transaction("erase", id) : id \in gone})
  /\ UNCHANGED <<announcement_ids, overtaken, accepted>>

Searches == {t \in Pending : t.op = "search"}

handleSearch(u, announcer, offset, max_results) ==
  /\ Handles(u) /\ Cardinality(Searches) < MaxSearches
  /\ QueueTransactions(
       {[op |-> "search", from |-> PartialOf[u], announcer |-> announcer, offset |-> offset,
         results |-> max_results, ids |-> <<>>, reading |-> FALSE, listed |-> {},
         old |-> {id \in 0..announcement_ids - 1 : id \notin DOMAIN announcements},
         attempt |-> 1]})
  /\ UNCHANGED <<core_vars, users_status, inbox, db, process, restarts, announcement_vars>>

-----------------------------------------------------------------------------
(* Threads of the database.                                                *)

\* RowsFollowList: the INSERT of a pending transaction never fails
insertStep(t) ==
  /\ t.op = "insert" /\ ~InsertAnnouncementFails(db, t.id)
  /\ Commit(t, insertAnnouncement(db, t.id, t.row))
  /\ UNCHANGED <<core_vars, users_status, inbox, process, restarts, announcement_vars>>

eraseStep(t) ==
  /\ t.op = "erase"
  /\ Commit(t, eraseAnnouncement(db, t.id))
  /\ overtaken' = IF t.id \in DOMAIN db.announcements THEN overtaken ELSE overtaken \cup {t.id}
  /\ UNCHANGED <<core_vars, users_status, inbox, process, restarts,
                 announcements, announcement_ids, accepted>>

SearchStep(t, new) ==
  /\ transactions' = transactions (-) SetToBag({t}) (+) SetToBag({new})
  /\ UNCHANGED <<core_vars, users_status, inbox, db, restarts, announcement_vars>>

(* The query gives the ids.                                                *)
searchQuery(t) ==
  /\ process = "up" /\ t.op = "search" /\ ~t.reading
  /\ SearchStep(t, [t EXCEPT !.reading = TRUE, !.ids =
                    searchAnnouncement(db, t.from, t.announcer, t.offset, t.results)])
  /\ UNCHANGED process

(* Mutant: the list is not asked whether it has the id. *)
searchUnlisted(t) ==
  /\ process = "up" /\ t.op = "search" /\ t.ids # <<>> /\ Head(t.ids) \notin t.listed
  /\ SearchStep(t, [t EXCEPT !.listed = @ \cup {Head(t.ids)}])
  /\ UNCHANGED process

(* The first id is looked up in the list: an id that is not there any more *)
(* is left out.                                                            *)
searchFind(t) ==
  /\ process = "up" /\ t.op = "search" /\ t.ids # <<>> /\ Head(t.ids) \notin t.listed
  /\ SearchStep(t, IF Head(t.ids) \in DOMAIN announcements
                   THEN [t EXCEPT !.listed = @ \cup {Head(t.ids)}]
                   ELSE [t EXCEPT !.ids = Tail(@)])
  /\ UNCHANGED process

(* It is looked up again and read.  If it was erased in between, what is   *)
(* read is not there: the process may end.                                 *)
searchRead(t) ==
  /\ process = "up" /\ t.op = "search" /\ t.ids # <<>> /\ Head(t.ids) \in t.listed
  /\ \/ SearchStep(t, [t EXCEPT !.ids = Tail(@)]) /\ UNCHANGED process
     \/ /\ Head(t.ids) \notin DOMAIN announcements
        /\ process' = "down"
        /\ SearchStep(t, t)

(* The result is sent and the transaction ends.                            *)
searchResult(t) ==
  /\ t.op = "search" /\ t.reading /\ t.ids = <<>>
  /\ Commit(t, db)
  /\ UNCHANGED <<core_vars, users_status, inbox, process, restarts, announcement_vars>>

-----------------------------------------------------------------------------

(* Mutant: the table keeps the rows of the process before. *)
RestartKeepingRows ==
  /\ Restart(db)
  /\ announcements' = <<>> /\ announcement_ids' = 0
  /\ overtaken' = {} /\ accepted' = <<>>

(* The constructor: the list is empty, the ids begin at 0 again, and the   *)
(* rows of the process before are erased.                                  *)
announcementsRestart ==
  /\ Restart(clearAnnouncements(db))
  /\ announcements' = <<>> /\ announcement_ids' = 0
  /\ overtaken' = {} /\ accepted' = <<>>

AnnouncementNext ==
  \/ \E u \in Jid :
       \/ \E category \in Category, limits \in Limits : handleCreate(u, category, limits)
       \/ \E id \in DOMAIN announcements : handleDelete(u, id) \/ handleAccept(u, id)
       \/ \E announcer \in Announcers : handleSearch(u, announcer, 0, 2)
       \/ \E is_available \in BOOLEAN : announcementsHandleUserStatus(u, is_available)
  \/ \E t \in Pending :
       \/ insertStep(t) \/ eraseStep(t)
       \/ searchQuery(t) \/ searchFind(t) \/ searchRead(t) \/ searchResult(t)
  \/ announcementsRestart
  \/ \E u \in Jid, is_available \in BOOLEAN :
       HandlePresence(u, is_available) /\ UNCHANGED announcement_vars
  \/ \E players \in games : EndGame(players) /\ UNCHANGED announcement_vars
  \/ Kill /\ UNCHANGED announcement_vars

(* The module alone, over the tables of a database.                        *)
AnnouncementSpec(tables) ==
  /\ ServerModuleInit(tables) /\ AnnouncementInit
  /\ [][AnnouncementNext]_<<module_vars, announcement_vars>>

-----------------------------------------------------------------------------
(* Properties.                                                             *)

PendingIds(op) == {t.id : t \in {x \in Pending : x.op = op}}

(* The list and the table are changed at different times by different      *)
(* threads: a listed announcement has its row or will have it, a row that  *)
(* is not listed will be erased unless its erase ran before its insert     *)
(* (AnnouncementManager.cc:247), and no insert meets a row with its id,    *)
(* though ids begin at 0 again in every process.                           *)
RowsFollowList ==
  process = "up" =>
    LET rows == DOMAIN db.announcements
        inserts == PendingIds("insert")
    IN /\ DOMAIN announcements \subseteq rows \cup inserts
       /\ rows \subseteq DOMAIN announcements \cup PendingIds("erase") \cup overtaken
       /\ inserts \cap rows = {}

(* An announcement gives at most one game and never stays listed after it, *)
(* and the owner of a listed one is available for all the module knows.    *)
OneGameEach ==
  /\ \A id \in DOMAIN announcements :
       id \notin DOMAIN accepted /\ announcements[id].owner \in users_status
  /\ \A id \in DOMAIN accepted : Cardinality(accepted[id]) = 2

(* A search shows no announcement that had been deleted, accepted or       *)
(* dropped when it was asked for, whatever rows have been left behind.     *)
SearchShowsListed ==
  \A t \in Searches : t.listed \cap t.old = {}

(* The table follows the list as far as the order of the transactions      *)
(* allows, and no user sees where it does not.                             *)
TableFollowsList == RowsFollowList /\ SearchShowsListed
=============================================================================
