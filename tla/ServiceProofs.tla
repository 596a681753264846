------------------------------ MODULE ServiceProofs -----------------------------
(***************************************************************************)
(* Proofs about the modules of the server that keep a table next to what   *)
(* they have in memory, and about what users see of the games they played: *)
(* the announcements of matches, the bans, the online time, the pages of a *)
(* search and the ratings, for any number of users, games, transactions    *)
(* and restarts.                                                           *)
(*                                                                         *)
(* The list of announcements and its table are changed by different        *)
(* threads, so neither OneGameEach nor TableFollowsList is inductive.  The *)
(* invariant says where an id that was ever given out can be:              *)
(*   - ListInv: the list and the accepted announcements share no id, and   *)
(*     only ids already given out are in them;                             *)
(*   - QueueInv: an id has at most one INSERT under way, and it is the     *)
(*     only copy of it; only ids already given out are queued;             *)
(*   - TableInv: what RowsFollowList says, and that no erase is under way  *)
(*     for a listed id, and that a late INSERT has its erase still under   *)
(*     way or among the overtaken ones;                                    *)
(*   - SearchInv: what a search saw as gone stays gone and is not shown.   *)
(*                                                                         *)
(* ProfileTrue is not inductive.  OnlineInv adds to it                     *)
(*   - LogonInv: while the process is up, who is in last_logons has a      *)
(*     resource that is available, and a user with one resource that is    *)
(*     available is in last_logons, with a time that has passed;           *)
(*   - ShownInv: what the fetchProfile under way has read is not more than *)
(*     what is in the table or in last_logons now, and with what it will   *)
(*     read it is not less than what it was asked for.                     *)
(* PagesInv says of the client who reads pages that the one search under   *)
(* way is the one it waits for, and that it has seen every game of the     *)
(* player that as many later ones come before as it has read.              *)
(* ResultInv says of a result that its transaction holds the rows it has   *)
(* read of players with a rating, which are as it read them.               *)
(***************************************************************************)
EXTENDS AnnouncementManager, AdminComponent, ProfileManager, GameResults,
        FiniteSetTheorems, SequenceTheorems, TLAPS

Given == 0..announcement_ids - 1

ListInv ==
  /\ announcement_ids \in Nat
  /\ DOMAIN announcements \cup DOMAIN accepted \subseteq Given
  /\ DOMAIN announcements \cap DOMAIN accepted = {}
  /\ \A id \in DOMAIN announcements : announcements[id].owner \in users_status
  /\ \A id \in DOMAIN accepted : Cardinality(accepted[id]) = 2

IsUpdate(t) == t.op \in {"insert", "erase"} /\ t.id \in Given

IsSearch(t) ==
  /\ t = [op |-> "search", from |-> t.from, announcer |-> t.announcer, offset |-> t.offset,
          results |-> t.results, ids |-> t.ids, reading |-> t.reading, listed |-> t.listed,
          old |-> t.old, attempt |-> t.attempt]

QueueInv ==
  /\ IsABag(transactions)
  /\ \A t \in Pending : IsUpdate(t) \/ IsSearch(t)
  /\ \A t \in Pending : t.op = "insert" => transactions[t] = 1
  /\ \A s, t \in Pending : s.op = "insert" /\ t.op = "insert" /\ s.id = t.id => s = t

TableInv ==
  /\ {"users", "announcements"} \subseteq DOMAIN db
  /\ overtaken \subseteq Given /\ DOMAIN db.announcements \subseteq Given
  /\ DOMAIN announcements \subseteq DOMAIN db.announcements \cup PendingIds("insert")
  /\ DOMAIN db.announcements \cup PendingIds("insert")
       \subseteq DOMAIN announcements \cup PendingIds("erase") \cup overtaken
  /\ PendingIds("insert") \cap DOMAIN db.announcements = {}
  /\ PendingIds("erase") \cap DOMAIN announcements = {}

SearchInv ==
  \A t \in Searches : /\ t.old \subseteq Given /\ t.old \cap DOMAIN announcements = {}
                      /\ t.listed \cap t.old = {}

IInv == ListInv /\ QueueInv /\ TableInv /\ SearchInv

-----------------------------------------------------------------------------
(* The bag of the transactions.                                            *)

(* Bags: what the difference with one element holds.                       *)
LEMMA RemovedBag ==
  ASSUME NEW B, IsABag(B), NEW t \in DOMAIN B, NEW C, C = B (-) SetToBag({t})
  PROVE  /\ IsABag(C)
         /\ DOMAIN C \subseteq DOMAIN B /\ DOMAIN B \ {t} \subseteq DOMAIN C
         /\ B[t] = 1 => t \notin DOMAIN C
         /\ \A s \in DOMAIN B \ {t} : C[s] = B[s]
BY DEF IsABag, SetToBag, (-)

(* The transactions of a set are added.                                    *)
Queued(B, S) == B (+) SetToBag(S)

LEMMA AddedBag ==
  ASSUME NEW B, IsABag(B), NEW S
  PROVE  LET C == Queued(B, S)
         IN /\ IsABag(C) /\ DOMAIN C = DOMAIN B \cup S
            /\ \A t \in DOMAIN B \ S : C[t] = B[t]
            /\ \A t \in S \ DOMAIN B : C[t] = 1
<1> DEFINE C == Queued(B, S)
<1>1. IsABag(C) /\ DOMAIN C = DOMAIN B \cup S
  BY DEF Queued, IsABag, SetToBag, (+)
<1>2. \A t \in DOMAIN B \ S : C[t] = B[t]
  BY DEF Queued, IsABag, SetToBag, (+)
<1>3. \A t \in S \ DOMAIN B : C[t] = 1
  BY DEF Queued, IsABag, SetToBag, (+)
<1> HIDE DEF C
<1>4. /\ IsABag(C) /\ DOMAIN C = DOMAIN B \cup S
      /\ \A t \in DOMAIN B \ S : C[t] = B[t]
      /\ \A t \in S \ DOMAIN B : C[t] = 1
  BY <1>1, <1>2, <1>3
<1> QED BY <1>4 DEF C

(* A transaction is queued again as another one.                           *)
Requeued(B, t, s) == (B (-) SetToBag({t})) (+) SetToBag({s})

LEMMA RequeuedBag ==
  ASSUME NEW B, IsABag(B), NEW t \in DOMAIN B, NEW s
  PROVE  LET D == Requeued(B, t, s)
         IN /\ IsABag(D) /\ s \in DOMAIN D
            /\ DOMAIN D \subseteq DOMAIN B \cup {s} /\ DOMAIN B \ {t} \subseteq DOMAIN D
            /\ \A r \in DOMAIN B \ {t, s} : D[r] = B[r]
<1> DEFINE D == Requeued(B, t, s)  C == B (-) SetToBag({t})  S == {s}
<1>1. /\ IsABag(C) /\ DOMAIN C \subseteq DOMAIN B /\ DOMAIN B \ {t} \subseteq DOMAIN C
      /\ \A r \in DOMAIN B \ {t} : C[r] = B[r]
  BY RemovedBag
<1>2. D = Queued(C, S)
  BY DEF Requeued, Queued
<1> HIDE DEF C, S, D
<1>3. /\ IsABag(D) /\ DOMAIN D = DOMAIN C \cup S
      /\ \A r \in DOMAIN C \ S : D[r] = C[r]
  BY <1>1, <1>2, AddedBag
<1>4. /\ IsABag(D) /\ s \in DOMAIN D
      /\ DOMAIN D \subseteq DOMAIN B \cup {s} /\ DOMAIN B \ {t} \subseteq DOMAIN D
      /\ \A r \in DOMAIN B \ {t, s} : D[r] = B[r]
  BY <1>1, <1>3 DEF S
<1> QED BY <1>4 DEF D

(* queueTransaction: the new ones are added, those under way stay.         *)
LEMMA QueueGrows ==
  ASSUME QueueInv, NEW S, QueueTransactions(S)
  PROVE  /\ IsABag(transactions') /\ Pending' = Pending \cup S
         /\ \A t \in Pending \ S : transactions'[t] = transactions[t]
         /\ \A t \in S \ Pending : transactions'[t] = 1
<1> DEFINE C == Queued(transactions, S)
<1>1. IsABag(transactions) /\ transactions' = C
  BY DEF QueueInv, QueueTransactions, Queued
<1>2. /\ IsABag(C) /\ DOMAIN C = DOMAIN transactions \cup S
      /\ \A t \in DOMAIN transactions \ S : C[t] = transactions[t]
      /\ \A t \in S \ DOMAIN transactions : C[t] = 1
  BY <1>1, AddedBag
<1> HIDE DEF C
<1> QED BY <1>1, <1>2 DEF Pending, BagToSet

(* A transaction that ends: the others stay, and so may a copy of it,      *)
(* unless there was none.                                                  *)
LEMMA QueueShrinks ==
  ASSUME QueueInv, NEW t, NEW tables, Commit(t, tables)
  PROVE  /\ IsABag(transactions') /\ t \in Pending
         /\ Pending' \subseteq Pending /\ Pending \ {t} \subseteq Pending'
         /\ transactions[t] = 1 => t \notin Pending'
         /\ \A s \in Pending \ {t} : transactions'[s] = transactions[s]
         /\ db' = tables
<1>1. /\ IsABag(transactions) /\ t \in DOMAIN transactions /\ t \in Pending
      /\ transactions' = transactions (-) SetToBag({t}) /\ db' = tables
  BY DEF QueueInv, Commit, Pending, BagToSet
<1>2. /\ IsABag(transactions') /\ DOMAIN transactions' \subseteq DOMAIN transactions
      /\ DOMAIN transactions \ {t} \subseteq DOMAIN transactions'
      /\ transactions[t] = 1 => t \notin DOMAIN transactions'
      /\ \A s \in DOMAIN transactions \ {t} : transactions'[s] = transactions[s]
  BY <1>1, RemovedBag
<1> QED BY <1>1, <1>2 DEF Pending, BagToSet

-----------------------------------------------------------------------------
(* The steps that erase announcements of the list.                         *)

LEMMA ListShrinks ==
  ASSUME NEW ids, announcements' = Without(ids)
  PROVE  /\ DOMAIN announcements' = DOMAIN announcements \ ids
         /\ \A id \in DOMAIN announcements' : announcements'[id] = announcements[id]
BY DEF Without

(* Announcements leave the list and their erases are queued.               *)
LEMMA EraseKeeps ==
  ASSUME IInv, NEW gone \in SUBSET DOMAIN announcements,
         announcements' = Without(gone),
         QueueTransactions({Transaction("erase", id) : id \in gone}),
         UNCHANGED <<db, overtaken, announcement_ids>>
  PROVE  QueueInv' /\ TableInv' /\ SearchInv'
<1> DEFINE S == {Transaction("erase", id) : id \in gone}
<1>1. /\ IsABag(transactions') /\ Pending' = Pending \cup S
      /\ \A t \in Pending \ S : transactions'[t] = transactions[t]
  BY QueueGrows DEF IInv
<1>2. \A t \in S : t.op = "erase" /\ t.id \in gone
  BY DEF Transaction
<1>3. ASSUME NEW id \in gone PROVE \E t \in S : t.op = "erase" /\ t.id = id
  <2> WITNESS Transaction("erase", id) \in S
  <2> QED BY DEF Transaction
<1> HIDE DEF S
<1>4. gone \subseteq Given /\ Given' = Given
  BY DEF IInv, ListInv, Given
<1>5. DOMAIN announcements' = DOMAIN announcements \ gone
  BY ListShrinks
<1>6. PendingIds("insert")' = PendingIds("insert")
  BY <1>1, <1>2 DEF PendingIds
<1>7. PendingIds("erase")' = PendingIds("erase") \cup gone
  BY <1>1, <1>2, <1>3 DEF PendingIds
<1>8. Searches' = Searches
  BY <1>1, <1>2 DEF Searches
<1>9. QueueInv'
  <2>1. ASSUME NEW t \in Pending' PROVE IsUpdate(t)' \/ IsSearch(t)
    BY <1>1, <1>2, <1>4 DEF IInv, QueueInv, IsUpdate
  <2>2. ASSUME NEW t \in Pending', t.op = "insert" PROVE t \in Pending \ S
    BY <1>1, <1>2, <2>2
  <2> QED BY <1>1, <2>1, <2>2 DEF IInv, QueueInv, IsSearch
<1>10. TableInv'
  BY <1>4, <1>5, <1>6, <1>7 DEF IInv, TableInv
<1>11. SearchInv'
  BY <1>4, <1>5, <1>8 DEF IInv, SearchInv
<1> QED BY <1>9, <1>10, <1>11

-----------------------------------------------------------------------------
(* The steps of the module's thread.                                       *)

LEMMA PairHasTwo ==
  ASSUME NEW a, NEW b, a # b
  PROVE  Cardinality({a, b}) = 2
<1>1. {a, b} = {a} \cup {b} /\ b \notin {a}
  OBVIOUS
<1>2. IsFiniteSet({a}) /\ Cardinality({a}) = 1
  BY FS_Singleton
<1>3. Cardinality({a} \cup {b}) = 1 + 1
  BY <1>1, <1>2, FS_AddElement
<1> QED BY <1>1, <1>3

LEMMA CreateKeeps ==
  ASSUME IInv, NEW u, NEW category, NEW limits, handleCreate(u, category, limits)
  PROVE  IInv'
<1> DEFINE id == announcement_ids
           row == [user |-> PartialOf[u], category |-> category,
                   min_rating |-> limits[1], max_rating |-> limits[2]]
           new == [op |-> "insert", id |-> id, row |-> row, attempt |-> 1]
           added == [owner |-> u, row |-> row]
<1>1. /\ u \in users_status /\ QueueTransactions({new})
      /\ announcement_ids' = id + 1 /\ announcements' = Put(announcements, id, added)
      /\ UNCHANGED <<users_status, db, overtaken, accepted>>
  BY DEF handleCreate, Handles
<1>2. id \in Nat /\ new.op = "insert" /\ new.id = id /\ added.owner = u
  BY DEF IInv, ListInv
<1> HIDE DEF row, new, added, id
<1>3. /\ IsABag(transactions') /\ Pending' = Pending \cup {new}
      /\ \A t \in Pending \ {new} : transactions'[t] = transactions[t]
      /\ \A t \in {new} \ Pending : transactions'[t] = 1
  BY <1>1, QueueGrows DEF IInv
<1>4. Given' = Given \cup {id} /\ id \notin Given /\ Given \subseteq Given'
  BY <1>1, <1>2 DEF Given, id
<1>5. /\ DOMAIN announcements' = DOMAIN announcements \cup {id}
      /\ announcements'[id].owner = u
      /\ \A i \in DOMAIN announcements : i # id => announcements'[i] = announcements[i]
  BY <1>1, <1>2 DEF Put
<1>6. new \notin Pending
  BY <1>2, <1>4 DEF IInv, QueueInv, IsUpdate, IsSearch
<1>7. ListInv'
  BY <1>1, <1>2, <1>4, <1>5 DEF IInv, ListInv, id
<1>8. QueueInv'
  <2>1. ASSUME NEW t \in Pending' PROVE IsUpdate(t)' \/ IsSearch(t)
    BY <1>2, <1>3, <1>4 DEF IInv, QueueInv, IsUpdate
  <2>2. ASSUME NEW t \in Pending', t.op = "insert" PROVE transactions'[t] = 1
    BY <1>3, <1>6, <2>2 DEF IInv, QueueInv
  <2>3. ASSUME NEW t \in Pending, t.op = "insert" PROVE t.id # id
    BY <1>4, <2>3 DEF IInv, QueueInv, IsUpdate, IsSearch
  <2>4. ASSUME NEW s \in Pending', NEW t \in Pending', s.op = "insert", t.op = "insert",
               s.id = t.id
        PROVE  s = t
    BY <1>2, <1>3, <2>3, <2>4 DEF IInv, QueueInv
  <2> QED BY <1>3, <2>1, <2>2, <2>4 DEF QueueInv, IsSearch
<1>9. TableInv'
  <2>1. PendingIds("insert")' = PendingIds("insert") \cup {id}
    BY <1>2, <1>3 DEF PendingIds
  <2>2. PendingIds("erase")' = PendingIds("erase") /\ PendingIds("erase") \subseteq Given
    BY <1>2, <1>3 DEF PendingIds, IInv, QueueInv, IsUpdate, IsSearch
  <2> QED BY <1>1, <1>4, <1>5, <2>1, <2>2 DEF IInv, TableInv
<1>10. SearchInv'
  BY <1>2, <1>3, <1>4, <1>5 DEF IInv, SearchInv, Searches
<1> QED BY <1>7, <1>8, <1>9, <1>10 DEF IInv

LEMMA DeleteKeeps ==
  ASSUME IInv, NEW u, NEW id, handleDelete(u, id)
  PROVE  IInv'
<1> DEFINE gone == {id}
<1>1. /\ gone \in SUBSET DOMAIN announcements /\ announcements' = Without(gone)
      /\ UNCHANGED <<users_status, db, overtaken, announcement_ids, accepted>>
  BY DEF handleDelete
<1>2. QueueTransactions({Transaction("erase", i) : i \in gone})
  <2>1. {Transaction("erase", i) : i \in {id}} = {Transaction("erase", id)}
    OBVIOUS
  <2> QED BY <2>1 DEF handleDelete
<1> HIDE DEF gone
<1>3. QueueInv' /\ TableInv' /\ SearchInv'
  BY <1>1, <1>2, EraseKeeps
<1>4. ListInv'
  BY <1>1, ListShrinks DEF IInv, ListInv, Given
<1> QED BY <1>3, <1>4 DEF IInv

LEMMA AcceptKeeps ==
  ASSUME IInv, NEW u, NEW id, handleAccept(u, id)
  PROVE  IInv'
<1> DEFINE gone == {id}
           players == {u, announcements[id].owner}
<1>1. /\ gone \in SUBSET DOMAIN announcements /\ announcements' = Without(gone)
      /\ id \in DOMAIN announcements /\ announcements[id].owner # u
      /\ UNCHANGED <<users_status, db, overtaken, announcement_ids>>
      /\ accepted' = Put(accepted, id, players) \/ accepted' = accepted
  BY DEF handleAccept
<1>2. QueueTransactions({Transaction("erase", i) : i \in gone})
  <2>1. {Transaction("erase", i) : i \in {id}} = {Transaction("erase", id)}
    OBVIOUS
  <2> QED BY <2>1 DEF handleAccept
<1>3. Cardinality(players) = 2
  BY <1>1, PairHasTwo
<1>4. /\ DOMAIN accepted' \subseteq DOMAIN accepted \cup {id}
      /\ \A i \in DOMAIN accepted' : accepted'[i] = players
                                    \/ (i \in DOMAIN accepted /\ accepted'[i] = accepted[i])
  <2> HIDE DEF players
  <2>1. CASE accepted' = Put(accepted, id, players)
    <3>1. DOMAIN accepted' = DOMAIN accepted \cup {id}
      BY <2>1 DEF Put
    <3>2. \A i \in DOMAIN accepted \cup {id} :
            accepted'[i] = IF i = id THEN players ELSE accepted[i]
      BY <2>1 DEF Put
    <3>3. ASSUME NEW i \in DOMAIN accepted \cup {id}
          PROVE  accepted'[i] = players \/ (i \in DOMAIN accepted /\ accepted'[i] = accepted[i])
      BY <3>2, <3>3
    <3> QED BY <3>1, <3>3
  <2>2. CASE accepted' = accepted
    BY <2>2
  <2> QED BY <1>1, <2>1, <2>2
<1>5. gone = {id}
  OBVIOUS
<1> HIDE DEF gone, players
<1>6. QueueInv' /\ TableInv' /\ SearchInv'
  BY <1>1, <1>2, EraseKeeps
<1>7. ListInv'
  <2>1. /\ DOMAIN announcements' = DOMAIN announcements \ {id}
        /\ \A i \in DOMAIN announcements' : announcements'[i] = announcements[i]
    BY <1>1, <1>5, ListShrinks
  <2>2. ASSUME NEW i \in DOMAIN accepted' PROVE Cardinality(accepted'[i]) = 2
    BY <1>3, <1>4, <2>2 DEF IInv, ListInv
  <2>3. Given' = Given /\ users_status' = users_status /\ announcement_ids' \in Nat
    BY <1>1 DEF Given, IInv, ListInv
  <2>4. DOMAIN announcements \cup DOMAIN accepted \subseteq Given
    BY DEF IInv, ListInv
  <2>5. /\ DOMAIN announcements' \cup DOMAIN accepted' \subseteq Given
        /\ DOMAIN announcements' \cap DOMAIN accepted' = {}
    BY <1>1, <1>4, <2>1, <2>4 DEF IInv, ListInv
  <2>6. \A i \in DOMAIN announcements' : announcements'[i].owner \in users_status
    BY <2>1 DEF IInv, ListInv
  <2> QED BY <2>2, <2>3, <2>5, <2>6 DEF ListInv
<1> QED BY <1>6, <1>7 DEF IInv

LEMMA StatusKeeps ==
  ASSUME IInv, NEW u, NEW is_available \in BOOLEAN,
         announcementsHandleUserStatus(u, is_available)
  PROVE  IInv'
<1> DEFINE gone == IF is_available THEN {} ELSE Of(u)
<1>1. /\ announcements' = Without(gone)
      /\ QueueTransactions({Transaction("erase", id) : id \in gone})
      /\ UNCHANGED <<db, overtaken, announcement_ids, accepted>>
      /\ users_status' = IF is_available THEN users_status \cup {u} ELSE users_status \ {u}
  BY DEF announcementsHandleUserStatus, NextStatus
<1>2. gone \in SUBSET DOMAIN announcements
  BY DEF Of
<1>3. \A id \in DOMAIN announcements \ gone : announcements[id].owner \in users_status'
  BY <1>1 DEF Of, IInv, ListInv
<1> HIDE DEF gone
<1>4. QueueInv' /\ TableInv' /\ SearchInv'
  BY <1>1, <1>2, EraseKeeps
<1>5. ListInv'
  BY <1>1, <1>3, ListShrinks DEF IInv, ListInv, Given
<1> QED BY <1>4, <1>5 DEF IInv

(* A search that is asked for: what is gone now is in old.                 *)
LEMMA SearchKeeps ==
  ASSUME IInv, NEW u, NEW announcer, NEW offset, NEW max_results,
         handleSearch(u, announcer, offset, max_results)
  PROVE  IInv'
<1> DEFINE new == [op |-> "search", from |-> PartialOf[u], announcer |-> announcer,
                   offset |-> offset, results |-> max_results, ids |-> <<>>,
                   reading |-> FALSE, listed |-> {},
                   old |-> {id \in 0..announcement_ids - 1 : id \notin DOMAIN announcements},
                   attempt |-> 1]
<1>1. QueueTransactions({new}) /\ UNCHANGED <<users_status, db, announcement_vars>>
  BY DEF handleSearch
<1>2. /\ new.op = "search" /\ IsSearch(new) /\ new.listed = {}
      /\ new.old \subseteq Given /\ new.old \cap DOMAIN announcements = {}
  BY DEF IsSearch, Given
<1> HIDE DEF new
<1>3. /\ IsABag(transactions') /\ Pending' = Pending \cup {new}
      /\ \A t \in Pending \ {new} : transactions'[t] = transactions[t]
  BY <1>1, QueueGrows DEF IInv
<1>4. ListInv'
  BY <1>1 DEF IInv, ListInv, announcement_vars, Given
<1>5. QueueInv'
  BY <1>1, <1>2, <1>3 DEF IInv, QueueInv, IsUpdate, IsSearch, Given, announcement_vars
<1>6. PendingIds("insert")' = PendingIds("insert") /\ PendingIds("erase")' = PendingIds("erase")
  BY <1>2, <1>3 DEF PendingIds
<1>7. TableInv'
  BY <1>1, <1>6 DEF IInv, TableInv, announcement_vars, Given
<1>8. SearchInv'
  BY <1>1, <1>2, <1>3 DEF IInv, SearchInv, Searches, announcement_vars, Given
<1> QED BY <1>4, <1>5, <1>7, <1>8 DEF IInv

-----------------------------------------------------------------------------
(* The steps of the database's threads.                                    *)

LEMMA InsertKeeps ==
  ASSUME IInv, NEW t, insertStep(t)
  PROVE  IInv'
<1>1. /\ t.op = "insert" /\ Commit(t, insertAnnouncement(db, t.id, t.row))
      /\ UNCHANGED <<users_status, announcement_vars>>
  BY DEF insertStep
<1>2. /\ IsABag(transactions') /\ t \in Pending
      /\ Pending' \subseteq Pending /\ Pending \ {t} \subseteq Pending'
      /\ transactions[t] = 1 => t \notin Pending'
      /\ \A s \in Pending \ {t} : transactions'[s] = transactions[s]
      /\ db' = insertAnnouncement(db, t.id, t.row)
  BY <1>1, QueueShrinks DEF IInv
<1>3. Pending' = Pending \ {t} /\ t.id \in Given
  BY <1>1, <1>2 DEF IInv, QueueInv, IsUpdate, IsSearch
<1>4. /\ {"users", "announcements"} \subseteq DOMAIN db'
      /\ DOMAIN db'.announcements = DOMAIN db.announcements \cup {t.id}
  <2> DEFINE db1 == WithUser(db, t.row.user)
  <2>1. {"users", "announcements"} \subseteq DOMAIN db
    BY DEF IInv, TableInv
  <2>2. DOMAIN db1 = DOMAIN db /\ db1.announcements = db.announcements
    BY <2>1 DEF WithUser
  <2> HIDE DEF db1
  <2>3. db' = [db1 EXCEPT !.announcements = Put(@, t.id, t.row)]
    BY <1>2 DEF insertAnnouncement, db1
  <2>4. DOMAIN db' = DOMAIN db1 /\ db'.announcements = Put(db.announcements, t.id, t.row)
    BY <2>1, <2>2, <2>3
  <2> QED BY <2>1, <2>2, <2>4 DEF Put
<1>5. ListInv'
  BY <1>1 DEF IInv, ListInv, announcement_vars, Given
<1>6. QueueInv'
  BY <1>1, <1>2 DEF IInv, QueueInv, IsUpdate, IsSearch, Given, announcement_vars
<1>7. /\ PendingIds("insert")' = PendingIds("insert") \ {t.id} /\ t.id \in PendingIds("insert")
      /\ PendingIds("erase")' = PendingIds("erase")
  BY <1>1, <1>2, <1>3 DEF PendingIds, IInv, QueueInv
<1>8. TableInv'
  BY <1>1, <1>3, <1>4, <1>7 DEF IInv, TableInv, announcement_vars, Given
<1>9. SearchInv'
  BY <1>1, <1>2 DEF IInv, SearchInv, Searches, announcement_vars, Given
<1> QED BY <1>5, <1>6, <1>8, <1>9 DEF IInv

LEMMA EraseStepKeeps ==
  ASSUME IInv, NEW t, eraseStep(t)
  PROVE  IInv'
<1>1. /\ t.op = "erase" /\ Commit(t, eraseAnnouncement(db, t.id))
      /\ UNCHANGED <<users_status, announcements, announcement_ids, accepted>>
      /\ overtaken' = IF t.id \in DOMAIN db.announcements THEN overtaken ELSE overtaken \cup {t.id}
  BY DEF eraseStep
<1>2. /\ IsABag(transactions') /\ t \in Pending
      /\ Pending' \subseteq Pending /\ Pending \ {t} \subseteq Pending'
      /\ \A s \in Pending \ {t} : transactions'[s] = transactions[s]
      /\ db' = eraseAnnouncement(db, t.id)
  BY <1>1, QueueShrinks DEF IInv
<1>3. t.id \in Given /\ t.id \in PendingIds("erase")
  BY <1>1, <1>2 DEF IInv, QueueInv, IsUpdate, IsSearch, PendingIds
<1>4. /\ {"users", "announcements"} \subseteq DOMAIN db'
      /\ DOMAIN db'.announcements = DOMAIN db.announcements \ {t.id}
  BY <1>2 DEF IInv, TableInv, eraseAnnouncement
<1>5. ListInv'
  BY <1>1 DEF IInv, ListInv, Given
<1>6. QueueInv'
  BY <1>1, <1>2 DEF IInv, QueueInv, IsUpdate, IsSearch, Given
<1>7. /\ PendingIds("insert")' = PendingIds("insert")
      /\ PendingIds("erase")' \subseteq PendingIds("erase")
      /\ PendingIds("erase") \ {t.id} \subseteq PendingIds("erase")'
  BY <1>1, <1>2 DEF PendingIds
<1>8. TableInv'
  BY <1>1, <1>3, <1>4, <1>7 DEF IInv, TableInv, Given
<1>9. SearchInv'
  BY <1>1, <1>2 DEF IInv, SearchInv, Searches, Given
<1> QED BY <1>5, <1>6, <1>8, <1>9 DEF IInv

(* A step of a search: it may list an id that is in the list.              *)
LEMMA SearchStepKeeps ==
  ASSUME IInv, NEW t \in Searches, NEW new, SearchStep(t, new),
         IsSearch(new), new.op = "search", new.old = t.old,
         new.listed \subseteq t.listed \cup DOMAIN announcements
  PROVE  IInv'
<1> DEFINE B == transactions  C == B (-) SetToBag({t})  D == transactions'
<1>1. IsABag(B) /\ t \in DOMAIN B /\ D = C (+) SetToBag({new})
  BY DEF IInv, QueueInv, SearchStep, Searches, Pending, BagToSet
<1> HIDE DEF B, D
<1>2. /\ IsABag(C) /\ DOMAIN C \subseteq DOMAIN B /\ DOMAIN B \ {t} \subseteq DOMAIN C
      /\ \A s \in DOMAIN B \ {t} : C[s] = B[s]
  BY <1>1, RemovedBag
<1> HIDE DEF C
<1>3. IsABag(D) /\ DOMAIN D = DOMAIN C \cup {new}
  BY <1>1, <1>2 DEF IsABag, SetToBag, (+)
<1>4. \A s \in DOMAIN C \ {new} : D[s] = C[s]
  BY <1>1, <1>2 DEF IsABag, SetToBag, (+)
<1>5. /\ IsABag(transactions') /\ Pending' \subseteq Pending \cup {new}
      /\ Pending \ {t} \subseteq Pending'
      /\ \A s \in Pending \ {t, new} : transactions'[s] = transactions[s]
  BY <1>2, <1>3, <1>4 DEF B, D, Pending, BagToSet
<1>6. UNCHANGED <<users_status, db, announcement_vars>> /\ t.op = "search"
  BY DEF SearchStep, Searches
<1>7. ListInv'
  BY <1>6 DEF IInv, ListInv, announcement_vars, Given
<1>8. QueueInv'
  BY <1>5, <1>6 DEF IInv, QueueInv, IsUpdate, IsSearch, Given, announcement_vars
<1>9. PendingIds("insert")' = PendingIds("insert") /\ PendingIds("erase")' = PendingIds("erase")
  BY <1>5, <1>6 DEF PendingIds
<1>10. TableInv'
  BY <1>6, <1>9 DEF IInv, TableInv, announcement_vars, Given
<1>11. SearchInv'
  BY <1>5, <1>6 DEF IInv, SearchInv, Searches, announcement_vars, Given
<1> QED BY <1>7, <1>8, <1>10, <1>11 DEF IInv

LEMMA SearchShape ==
  ASSUME IInv, NEW t \in Pending, t.op = "search"
  PROVE  t \in Searches /\ IsSearch(t)
BY DEF IInv, QueueInv, IsUpdate, Searches

LEMMA QueryKeeps ==
  ASSUME IInv, NEW t \in Pending, searchQuery(t)
  PROVE  IInv'
<1> DEFINE found == searchAnnouncement(db, t.from, t.announcer, t.offset, t.results)
           yes == TRUE
           marked == [t EXCEPT !.reading = yes]
           new == [marked EXCEPT !.ids = found]
<1>1. SearchStep(t, new) /\ t.op = "search"
  BY DEF searchQuery
<1>2. t \in Searches /\ IsSearch(t)
  BY <1>1, SearchShape
<1> HIDE DEF found, yes
<1>3. IsSearch(marked) /\ marked.op = "search" /\ marked.old = t.old /\ marked.listed = t.listed
  BY <1>1, <1>2 DEF IsSearch
<1> HIDE DEF marked
<1>4. IsSearch(new) /\ new.op = "search" /\ new.old = t.old /\ new.listed = t.listed
  BY <1>3 DEF IsSearch
<1> HIDE DEF new
<1> QED BY <1>1, <1>2, <1>4, SearchStepKeeps

LEMMA FindKeeps ==
  ASSUME IInv, NEW t \in Pending, searchFind(t)
  PROVE  IInv'
<1> DEFINE id == Head(t.ids)  rest == Tail(t.ids)
           shown == [t EXCEPT !.listed = @ \cup {id}]
           left_out == [t EXCEPT !.ids = rest]
<1>1. /\ t.op = "search"
      /\ SearchStep(t, IF id \in DOMAIN announcements THEN shown ELSE left_out)
  BY DEF searchFind
<1>2. t \in Searches /\ IsSearch(t)
  BY <1>1, SearchShape
<1> HIDE DEF id, rest
<1>3. /\ IsSearch(shown) /\ shown.op = "search" /\ shown.old = t.old
      /\ shown.listed = t.listed \cup {id}
  BY <1>1, <1>2 DEF IsSearch
<1>4. /\ IsSearch(left_out) /\ left_out.op = "search" /\ left_out.old = t.old
      /\ left_out.listed = t.listed
  BY <1>1, <1>2 DEF IsSearch
<1> HIDE DEF shown, left_out
<1>5. CASE id \in DOMAIN announcements
  BY <1>1, <1>2, <1>3, <1>5, SearchStepKeeps
<1>6. CASE id \notin DOMAIN announcements
  BY <1>1, <1>2, <1>4, <1>6, SearchStepKeeps
<1> QED BY <1>5, <1>6

LEMMA ReadKeeps ==
  ASSUME IInv, NEW t \in Pending, searchRead(t)
  PROVE  IInv'
<1> DEFINE rest == Tail(t.ids)
           new == [t EXCEPT !.ids = rest]
<1>1. t.op = "search" /\ (SearchStep(t, new) \/ SearchStep(t, t))
  BY DEF searchRead
<1>2. t \in Searches /\ IsSearch(t)
  BY <1>1, SearchShape
<1> HIDE DEF rest
<1>3. IsSearch(new) /\ new.op = "search" /\ new.old = t.old /\ new.listed = t.listed
  BY <1>1, <1>2 DEF IsSearch
<1> HIDE DEF new
<1> QED BY <1>1, <1>2, <1>3, SearchStepKeeps

LEMMA ResultKeeps ==
  ASSUME IInv, NEW t, searchResult(t)
  PROVE  IInv'
<1>1. t.op = "search" /\ Commit(t, db) /\ UNCHANGED <<users_status, announcement_vars>>
  BY DEF searchResult
<1>2. /\ IsABag(transactions') /\ t \in Pending
      /\ Pending' \subseteq Pending /\ Pending \ {t} \subseteq Pending'
      /\ \A s \in Pending \ {t} : transactions'[s] = transactions[s]
      /\ db' = db
  BY <1>1, QueueShrinks DEF IInv
<1>3. ListInv'
  BY <1>1 DEF IInv, ListInv, announcement_vars, Given
<1>4. QueueInv'
  BY <1>1, <1>2 DEF IInv, QueueInv, IsUpdate, IsSearch, Given, announcement_vars
<1>5. PendingIds("insert")' = PendingIds("insert") /\ PendingIds("erase")' = PendingIds("erase")
  BY <1>1, <1>2 DEF PendingIds
<1>6. TableInv'
  BY <1>1, <1>2, <1>5 DEF IInv, TableInv, announcement_vars, Given
<1>7. SearchInv'
  BY <1>1, <1>2 DEF IInv, SearchInv, Searches, announcement_vars, Given
<1> QED BY <1>3, <1>4, <1>6, <1>7 DEF IInv

-----------------------------------------------------------------------------
(* The process and the core.                                               *)

LEMMA EmptyKeeps ==
  ASSUME announcements = <<>>, announcement_ids = 0, overtaken = {}, accepted = <<>>,
         transactions = EmptyBag, {"users", "announcements"} \subseteq DOMAIN db,
         db.announcements = <<>>
  PROVE  IInv
<1>1. Pending = {} /\ IsABag(transactions)
  BY DEF Pending, BagToSet, EmptyBag, SetToBag, IsABag
<1>2. DOMAIN announcements = {} /\ DOMAIN accepted = {} /\ DOMAIN db.announcements = {}
  OBVIOUS
<1>3. PendingIds("insert") = {} /\ PendingIds("erase") = {} /\ Searches = {}
  BY <1>1 DEF PendingIds, Searches
<1> QED BY <1>1, <1>2, <1>3 DEF IInv, ListInv, QueueInv, TableInv, SearchInv, Given

LEMMA RestartKeeps ==
  ASSUME IInv, announcementsRestart
  PROVE  IInv'
<1>1. /\ announcements' = <<>> /\ announcement_ids' = 0 /\ overtaken' = {} /\ accepted' = <<>>
      /\ transactions' = EmptyBag /\ db' = clearAnnouncements(db)
  BY DEF announcementsRestart, Restart
<1>2. {"users", "announcements"} \subseteq DOMAIN db' /\ db'.announcements = <<>>
  BY <1>1 DEF clearAnnouncements, IInv, TableInv
<1>3. Pending' = {} /\ IsABag(transactions')
  BY <1>1 DEF Pending, BagToSet, EmptyBag, SetToBag, IsABag
<1>4. DOMAIN announcements' = {} /\ DOMAIN accepted' = {} /\ DOMAIN db'.announcements = {}
  BY <1>1, <1>2
<1>5. PendingIds("insert")' = {} /\ PendingIds("erase")' = {} /\ Searches' = {}
  BY <1>3 DEF PendingIds, Searches
<1> QED BY <1>1, <1>2, <1>3, <1>4, <1>5 DEF IInv, ListInv, QueueInv, TableInv, SearchInv, Given

(* The core's steps touch nothing of it.                                   *)
LEMMA OthersKeep ==
  ASSUME IInv, UNCHANGED <<announcement_vars, users_status, db, transactions>>
  PROVE  IInv'
BY DEF IInv, ListInv, QueueInv, TableInv, SearchInv, Given, Pending, PendingIds, Searches,
       IsUpdate, IsSearch, announcement_vars

LEMMA IInvStep ==
  ASSUME IInv, [AnnouncementNext]_<<module_vars, announcement_vars>>
  PROVE  IInv'
<1>1. ASSUME NEW u \in Jid, NEW category \in Category, NEW limits \in Limits,
             handleCreate(u, category, limits)
      PROVE  IInv'
  BY <1>1, CreateKeeps
<1>2. ASSUME NEW u \in Jid, NEW id \in DOMAIN announcements,
             handleDelete(u, id) \/ handleAccept(u, id)
      PROVE  IInv'
  BY <1>2, DeleteKeeps, AcceptKeeps
<1>3. ASSUME NEW u \in Jid, NEW announcer \in Announcers, handleSearch(u, announcer, 0, 2)
      PROVE  IInv'
  BY <1>3, SearchKeeps
<1>4. ASSUME NEW u \in Jid, NEW is_available \in BOOLEAN,
             announcementsHandleUserStatus(u, is_available)
      PROVE  IInv'
  BY <1>4, StatusKeeps
<1>5. ASSUME NEW t \in Pending,
             \/ insertStep(t) \/ eraseStep(t)
             \/ searchQuery(t) \/ searchFind(t) \/ searchRead(t) \/ searchResult(t)
      PROVE  IInv'
  BY <1>5, InsertKeeps, EraseStepKeeps, QueryKeeps, FindKeeps, ReadKeeps, ResultKeeps
<1>6. ASSUME announcementsRestart PROVE IInv'
  BY <1>6, RestartKeeps
<1>7. ASSUME NEW u \in Jid, NEW is_available \in BOOLEAN,
             HandlePresence(u, is_available), UNCHANGED announcement_vars
      PROVE  IInv'
  BY <1>7, OthersKeep DEF HandlePresence
<1>8. ASSUME NEW players \in games, EndGame(players), UNCHANGED announcement_vars
      PROVE  IInv'
  BY <1>8, OthersKeep DEF EndGame
<1>9. ASSUME Kill, UNCHANGED announcement_vars PROVE IInv'
  BY <1>9, OthersKeep DEF Kill
<1>10. ASSUME UNCHANGED <<module_vars, announcement_vars>> PROVE IInv'
  BY <1>10, OthersKeep DEF module_vars
<1> QED BY <1>1, <1>2, <1>3, <1>4, <1>5, <1>6, <1>7, <1>8, <1>9, <1>10 DEF AnnouncementNext

-----------------------------------------------------------------------------
(* The theorems, over the tables of any database.                          *)

LEMMA IInvAlways ==
  ASSUME NEW users, NEW ratings
  PROVE  AnnouncementSpec(NewTables(users, ratings)) => []IInv
<1> DEFINE tables == NewTables(users, ratings)
<1>1. {"users", "announcements"} \subseteq DOMAIN tables /\ tables.announcements = <<>>
  BY DEF NewTables
<1> HIDE DEF tables
<1>2. ServerModuleInit(tables) /\ AnnouncementInit => IInv
  BY <1>1, EmptyKeeps DEF ServerModuleInit, AnnouncementInit
<1>3. IInv /\ [AnnouncementNext]_<<module_vars, announcement_vars>> => IInv'
  BY IInvStep
<1>4. AnnouncementSpec(tables) => []IInv
  BY <1>2, <1>3, PTL DEF AnnouncementSpec
<1> QED BY <1>4 DEF tables

(* An announcement gives at most one game, and none stays listed after its *)
(* game or after its owner has left (handleAccept, handleUserStatus).      *)
THEOREM AnnouncementOneGame ==
  ASSUME NEW users, NEW ratings
  PROVE  AnnouncementSpec(NewTables(users, ratings)) => []OneGameEach
<1>1. IInv => OneGameEach
  BY DEF IInv, ListInv, OneGameEach
<1> QED BY <1>1, IInvAlways, PTL

(* However the transactions of the database interleave with the module's   *)
(* list, the two agree up to what is under way or has overtaken its        *)
(* insert, and no search shows what was gone when it was asked for         *)
(* (AnnouncementManager.cc:247).                                           *)
THEOREM AnnouncementTable ==
  ASSUME NEW users, NEW ratings
  PROVE  AnnouncementSpec(NewTables(users, ratings)) => []TableFollowsList
<1>1. IInv => TableFollowsList
  BY DEF IInv, TableInv, SearchInv, TableFollowsList, RowsFollowList, SearchShowsListed
<1> QED BY <1>1, IInvAlways, PTL

-----------------------------------------------------------------------------
(* The bans.  A key that no two transactions were under way for at once    *)
(* has at most one of them, whose effect is what is in memory, and its     *)
(* tables agree with memory when none is under way, but for the bans that  *)
(* found no row.                                                           *)

BanOps == {"ban", "unban"}

WordOps == {"banWord", "unbanWord"}

ChangesInv ==
  /\ IsABag(transactions)
  /\ \A t \in Pending :
       /\ t = [op |-> t.op, key |-> t.key, attempt |-> t.attempt]
       /\ t.op \in BanOps \cup WordOps
       /\ t.attempt \in Nat /\ (t.attempt > 1 => t.key \in raced)
  /\ \A t \in Pending : t.key \notin raced =>
       transactions[t] = 1 /\ \A s \in Pending : s.key = t.key => s = t

MemoryInv ==
  \A t \in Pending : t.key \notin raced =>
    /\ t.op \in BanOps => (t.key \in banneds <=> t.op = "ban")
    /\ t.op \in WordOps => (t.key \in banned_words <=> t.op = "banWord")
    /\ t.op = "banWord" => t.key \notin db.banned_words

UnderWay(ops) == {t.key : t \in {x \in Pending : x.op \in ops}}

StoredInv ==
  /\ {"users", "banned_users", "banned_words"} \subseteq DOMAIN db
  /\ db.banned_users \subseteq DOMAIN db.users
  /\ \A name : name \notin raced \cup UnderWay(BanOps) =>
       IF name \in missed THEN name \in banneds /\ name \notin db.banned_users
       ELSE name \in banneds <=> name \in db.banned_users
  /\ \A word : word \notin raced \cup UnderWay(WordOps) =>
       (word \in db.banned_words <=> word \in banned_words)
  /\ acl = banneds

AdminInv == ChangesInv /\ MemoryInv /\ StoredInv

(* What an admin asks for changes memory at the key only, the way its      *)
(* transaction will change the table.                                      *)
LEMMA AskedKeeps ==
  ASSUME AdminInv, NEW op \in BanOps \cup WordOps, NEW key, Change(op, key),
         db' = db, acl' = banneds',
         \A x : x # key => (x \in banneds' <=> x \in banneds)
                           /\ (x \in banned_words' <=> x \in banned_words),
         op \in BanOps => banned_words' = banned_words /\ (key \in banneds' <=> op = "ban"),
         op \in WordOps => banneds' = banneds /\ (key \in banned_words' <=> op = "banWord"),
         op = "banWord" => key \notin banned_words
  PROVE  AdminInv'
<1> DEFINE new == [op |-> op, key |-> key, attempt |-> 1]
<1>1. /\ transactions' = transactions (+) SetToBag({new})
      /\ raced' = IF key \in Keys THEN raced \cup {key} ELSE raced
  BY DEF Change, QueueTransactions
<1>2. /\ new = [op |-> new.op, key |-> new.key, attempt |-> new.attempt]
      /\ new.op = op /\ new.key = key /\ new.attempt = 1
  OBVIOUS
<1> HIDE DEF new
<1>3. /\ IsABag(transactions') /\ Pending' = Pending \cup {new}
      /\ \A t \in Pending \ {new} : transactions'[t] = transactions[t]
      /\ \A t \in {new} \ Pending : transactions'[t] = 1
  <2>1. IsABag(transactions)
    BY DEF AdminInv, ChangesInv
  <2>2. transactions' = Queued(transactions, {new})
    BY <1>1 DEF Queued
  <2>3. /\ IsABag(transactions') /\ DOMAIN transactions' = DOMAIN transactions \cup {new}
        /\ \A t \in DOMAIN transactions \ {new} : transactions'[t] = transactions[t]
        /\ \A t \in {new} \ DOMAIN transactions : transactions'[t] = 1
    BY <2>1, <2>2, AddedBag
  <2> QED BY <2>3 DEF Pending, BagToSet
<1>4. \A t \in Pending : t.key \in Keys
  BY DEF Keys, Changes, AdminInv, ChangesInv, BanOps, WordOps
<1>5. /\ raced \subseteq raced' /\ raced' \subseteq raced \cup {key}
      /\ key \notin raced' => key \notin raced /\ \A t \in Pending : t.key # key
  BY <1>1, <1>4
<1>6. ChangesInv'
  <2>1. ASSUME NEW t \in Pending'
        PROVE  /\ t = [op |-> t.op, key |-> t.key, attempt |-> t.attempt]
               /\ t.op \in BanOps \cup WordOps
               /\ t.attempt \in Nat /\ (t.attempt > 1 => t.key \in raced')
    BY <1>2, <1>3, <1>5 DEF AdminInv, ChangesInv
  <2>2. ASSUME NEW t \in Pending', t.key \notin raced'
        PROVE  transactions'[t] = 1 /\ \A s \in Pending' : s.key = t.key => s = t
    <3>1. CASE t = new
      BY <1>2, <1>3, <1>5, <2>2, <3>1
    <3>2. CASE t # new
      BY <1>2, <1>3, <1>5, <2>2, <3>2 DEF AdminInv, ChangesInv
    <3> QED BY <3>1, <3>2
  <2> QED BY <1>3, <2>1, <2>2 DEF ChangesInv
<1>7. /\ UnderWay(BanOps) \subseteq UnderWay(BanOps)'
      /\ UnderWay(WordOps) \subseteq UnderWay(WordOps)'
      /\ op \in BanOps => key \in UnderWay(BanOps)'
      /\ op \in WordOps => key \in UnderWay(WordOps)'
  BY <1>2, <1>3 DEF UnderWay
<1>8. MemoryInv'
  <2> SUFFICES ASSUME NEW t \in Pending', t.key \notin raced'
               PROVE  /\ t.op \in BanOps => (t.key \in banneds' <=> t.op = "ban")
                      /\ t.op \in WordOps => (t.key \in banned_words' <=> t.op = "banWord")
                      /\ t.op = "banWord" => t.key \notin db'.banned_words
    BY DEF MemoryInv
  <2>1. CASE t = new
    <3>1. key \notin raced /\ \A s \in Pending : s.key # key
      BY <1>2, <1>5, <2>1
    <3>2. key \notin UnderWay(WordOps)
      BY <3>1 DEF UnderWay
    <3>3. op = "banWord" => key \notin db.banned_words
      BY <3>1, <3>2 DEF AdminInv, StoredInv
    <3> QED BY <1>2, <2>1, <3>3
  <2>2. CASE t # new
    <3>1. t \in Pending /\ t.key \notin raced
      BY <1>3, <1>5, <2>2
    <3>2. t.key # key
      BY <1>2, <1>3, <1>6, <2>2 DEF ChangesInv
    <3> QED BY <3>1, <3>2 DEF AdminInv, MemoryInv
  <2> QED BY <2>1, <2>2
<1>9. StoredInv'
  <2>1. ASSUME NEW name, name \notin raced' \cup UnderWay(BanOps)'
        PROVE  IF name \in missed' THEN name \in banneds' /\ name \notin db'.banned_users
               ELSE name \in banneds' <=> name \in db'.banned_users
    <3>1. name \notin raced \cup UnderWay(BanOps)
      BY <1>5, <1>7, <2>1
    <3>2. name # key \/ banneds' = banneds
      BY <1>7, <2>1
    <3>3. missed' = missed
      BY DEF Change
    <3> QED BY <3>1, <3>2, <3>3 DEF AdminInv, StoredInv
  <2>2. ASSUME NEW word, word \notin raced' \cup UnderWay(WordOps)'
        PROVE  word \in db'.banned_words <=> word \in banned_words'
    <3>1. word \notin raced \cup UnderWay(WordOps)
      BY <1>5, <1>7, <2>2
    <3>2. word # key \/ banned_words' = banned_words
      BY <1>7, <2>2
    <3> QED BY <3>1, <3>2 DEF AdminInv, StoredInv
  <2> QED BY <2>1, <2>2 DEF AdminInv, StoredInv
<1> QED BY <1>6, <1>8, <1>9 DEF AdminInv

LEMMA AskingKeeps ==
  ASSUME AdminInv, NEW u, NEW key,
         \/ handleBan(u, key) \/ handleUnban(u, key)
         \/ handleBanWord(u, key) \/ handleUnbanWord(u, key)
  PROVE  AdminInv'
<1>1. acl = banneds
  BY DEF AdminInv, StoredInv
<1>2. CASE handleBan(u, key)
  <2>1. /\ Change("ban", key) /\ db' = db /\ banned_words' = banned_words
        /\ banneds' = banneds \cup {key} /\ acl' = banneds'
    BY <1>2 DEF handleBan
  <2> QED BY <2>1, AskedKeeps DEF BanOps, WordOps
<1>3. CASE handleUnban(u, key)
  <2>1. /\ Change("unban", key) /\ db' = db /\ banned_words' = banned_words
        /\ banneds' = banneds \ {key} /\ acl' = banneds'
    BY <1>3 DEF handleUnban
  <2> QED BY <2>1, AskedKeeps DEF BanOps, WordOps
<1>4. CASE handleBanWord(u, key)
  <2>1. /\ Change("banWord", key) /\ db' = db /\ banneds' = banneds /\ acl' = acl
        /\ key \notin banned_words /\ banned_words' = banned_words \cup {key}
    BY <1>4 DEF handleBanWord
  <2> QED BY <1>1, <2>1, AskedKeeps DEF BanOps, WordOps
<1>5. CASE handleUnbanWord(u, key)
  <2>1. /\ Change("unbanWord", key) /\ db' = db /\ banneds' = banneds /\ acl' = acl
        /\ banned_words' = banned_words \ {key}
    BY <1>5 DEF handleUnbanWord
  <2> QED BY <1>1, <2>1, AskedKeeps DEF BanOps, WordOps
<1> QED BY <1>2, <1>3, <1>4, <1>5

(* A transaction that commits changes its table at its key only; the other *)
(* transactions stay.                                                      *)
LEMMA CommittedKeeps ==
  ASSUME AdminInv, NEW t, NEW op, NEW tables, NEW unknown, AdminStep(t, op, tables, unknown),
         DOMAIN tables = DOMAIN db, tables.users = db.users,
         tables.banned_users \subseteq DOMAIN db.users,
         \A x : x # t.key => (x \in unknown <=> x \in missed),
         \A x : x # t.key => (x \in tables.banned_users <=> x \in db.banned_users)
                             /\ (x \in tables.banned_words <=> x \in db.banned_words),
         op \in BanOps => /\ tables.banned_words = db.banned_words
                          /\ IF t.key \in unknown
                             THEN op = "ban" /\ t.key \notin tables.banned_users
                             ELSE op = "ban" <=> t.key \in tables.banned_users,
         op \in WordOps => /\ tables.banned_users = db.banned_users /\ unknown = missed
                           /\ t.key \in tables.banned_words <=> op = "banWord"
  PROVE  AdminInv'
<1>1. /\ t.op = op /\ db' = tables /\ missed' = unknown
      /\ IsABag(transactions) /\ t \in DOMAIN transactions /\ t \in Pending
      /\ transactions' = transactions (-) SetToBag({t})
      /\ UNCHANGED <<banneds, banned_words, acl, raced>>
  BY DEF AdminStep, Commit, Pending, BagToSet, AdminInv, ChangesInv
<1>2. /\ IsABag(transactions') /\ Pending' \subseteq Pending /\ Pending \ {t} \subseteq Pending'
      /\ transactions[t] = 1 => t \notin Pending'
      /\ \A s \in Pending \ {t} : transactions'[s] = transactions[s]
  <2>1. IsABag(transactions) /\ t \in DOMAIN transactions
    BY <1>1
  <2>2. transactions' = transactions (-) SetToBag({t})
    BY <1>1
  <2>3. /\ IsABag(transactions') /\ DOMAIN transactions' \subseteq DOMAIN transactions
        /\ DOMAIN transactions \ {t} \subseteq DOMAIN transactions'
        /\ transactions[t] = 1 => t \notin DOMAIN transactions'
        /\ \A s \in DOMAIN transactions \ {t} : transactions'[s] = transactions[s]
    BY ONLY <2>1, <2>2, RemovedBag
  <2> QED BY <2>3 DEF Pending, BagToSet
<1>3. t.key \notin raced => t \notin Pending' /\ \A s \in Pending : s.key = t.key => s = t
  BY <1>1, <1>2 DEF AdminInv, ChangesInv
<1>4. ChangesInv'
  BY <1>1, <1>2, <1>3 DEF AdminInv, ChangesInv
<1>5. MemoryInv'
  <2> SUFFICES ASSUME NEW s \in Pending', s.key \notin raced
               PROVE  /\ s.op \in BanOps => (s.key \in banneds <=> s.op = "ban")
                      /\ s.op \in WordOps => (s.key \in banned_words <=> s.op = "banWord")
                      /\ s.op = "banWord" => s.key \notin tables.banned_words
    BY <1>1 DEF MemoryInv
  <2>1. s \in Pending /\ s.key # t.key
    BY <1>2, <1>3
  <2> QED BY <2>1 DEF AdminInv, MemoryInv
<1>6. /\ UnderWay(BanOps) \subseteq UnderWay(BanOps)' \cup {t.key}
      /\ UnderWay(WordOps) \subseteq UnderWay(WordOps)' \cup {t.key}
      /\ op \in BanOps /\ t.key \notin raced => t.key \notin UnderWay(WordOps)
      /\ op \in WordOps /\ t.key \notin raced => t.key \notin UnderWay(BanOps)
  <2>1. \A s \in Pending : s \in Pending' \/ s.key = t.key
    BY <1>2
  <2>2. BanOps \cap WordOps = {}
    BY DEF BanOps, WordOps
  <2> QED BY <1>1, <1>3, <2>1, <2>2 DEF UnderWay
<1>7. op \in BanOps \cup WordOps
  BY <1>1 DEF AdminInv, ChangesInv
<1>8. StoredInv'
  <2>1. ASSUME NEW name, name \notin raced \cup UnderWay(BanOps)'
        PROVE  IF name \in unknown THEN name \in banneds /\ name \notin tables.banned_users
               ELSE name \in banneds <=> name \in tables.banned_users
    <3>1. CASE name # t.key
      BY <1>6, <2>1, <3>1 DEF AdminInv, StoredInv
    <3>2. CASE name = t.key /\ op \in BanOps
      BY <1>1, <2>1, <3>2 DEF AdminInv, MemoryInv
    <3>3. CASE name = t.key /\ op \in WordOps
      BY <1>6, <2>1, <3>3 DEF AdminInv, StoredInv
    <3> QED BY <1>7, <3>1, <3>2, <3>3
  <2>2. ASSUME NEW word, word \notin raced \cup UnderWay(WordOps)'
        PROVE  word \in tables.banned_words <=> word \in banned_words
    <3>1. CASE word # t.key
      BY <1>6, <2>2, <3>1 DEF AdminInv, StoredInv
    <3>2. CASE word = t.key /\ op \in WordOps
      BY <1>1, <2>2, <3>2 DEF AdminInv, MemoryInv
    <3>3. CASE word = t.key /\ op \in BanOps
      BY <1>6, <2>2, <3>3 DEF AdminInv, StoredInv
    <3> QED BY <1>7, <3>1, <3>2, <3>3
  <2>3. /\ {"users", "banned_users", "banned_words"} \subseteq DOMAIN tables
        /\ tables.banned_users \subseteq DOMAIN tables.users /\ acl = banneds
    BY DEF AdminInv, StoredInv
  <2> QED BY <1>1, <2>1, <2>2, <2>3 DEF StoredInv
<1> QED BY <1>4, <1>5, <1>8 DEF AdminInv

LEMMA CommitsKeep ==
  ASSUME AdminInv, NEW t, banStep(t) \/ unbanStep(t) \/ banWordStep(t) \/ unbanWordStep(t)
  PROVE  AdminInv'
<1>1. /\ {"users", "banned_users", "banned_words"} \subseteq DOMAIN db
      /\ db.banned_users \subseteq DOMAIN db.users
  BY DEF AdminInv, StoredInv
<1>2. /\ "ban" \in BanOps /\ "unban" \in BanOps /\ "ban" # "unban"
      /\ "banWord" \in WordOps /\ "unbanWord" \in WordOps /\ "banWord" # "unbanWord"
      /\ BanOps \cap WordOps = {}
  BY DEF BanOps, WordOps
<1>3. CASE banStep(t)
  <2> DEFINE tables == banUser(db, t.key)
             unknown == IF HasUser(db, t.key) THEN missed \ {t.key} ELSE missed \cup {t.key}
  <2>1. /\ DOMAIN tables = DOMAIN db /\ tables.users = db.users
        /\ tables.banned_words = db.banned_words
        /\ tables.banned_users = IF t.key \in DOMAIN db.users THEN db.banned_users \cup {t.key}
                                 ELSE db.banned_users
        /\ unknown = IF t.key \in DOMAIN db.users THEN missed \ {t.key} ELSE missed \cup {t.key}
    BY <1>1 DEF banUser, HasUser
  <2> HIDE DEF tables, unknown
  <2>2. AdminStep(t, "ban", tables, unknown)
    BY <1>3 DEF tables, unknown, banStep
  <2>3. /\ tables.banned_users \subseteq DOMAIN db.users
        /\ \A x : x # t.key => (x \in unknown <=> x \in missed)
        /\ IF t.key \in unknown THEN t.key \notin tables.banned_users
           ELSE t.key \in tables.banned_users
    BY <1>1, <2>1
  <2> QED BY <1>2, <2>1, <2>2, <2>3, CommittedKeeps
<1>4. CASE unbanStep(t)
  <2> DEFINE tables == unbanUser(db, t.key)
             unknown == missed \ {t.key}
  <2>1. /\ DOMAIN tables = DOMAIN db /\ tables.users = db.users
        /\ tables.banned_words = db.banned_words
        /\ tables.banned_users = db.banned_users \ {t.key}
        /\ t.key \notin unknown /\ \A x : x # t.key => (x \in unknown <=> x \in missed)
    BY <1>1 DEF unbanUser
  <2> HIDE DEF tables, unknown
  <2>2. AdminStep(t, "unban", tables, unknown)
    BY <1>4 DEF tables, unknown, unbanStep
  <2> QED BY <1>1, <1>2, <2>1, <2>2, CommittedKeeps
<1>5. CASE banWordStep(t)
  <2> DEFINE tables == banWord(db, t.key)
  <2>1. /\ DOMAIN tables = DOMAIN db /\ tables.users = db.users
        /\ tables.banned_users = db.banned_users
        /\ tables.banned_words = db.banned_words \cup {t.key}
    BY <1>1 DEF banWord
  <2> HIDE DEF tables
  <2>2. AdminStep(t, "banWord", tables, missed)
    BY <1>5 DEF tables, banWordStep
  <2> QED BY <1>1, <1>2, <2>1, <2>2, CommittedKeeps
<1>6. CASE unbanWordStep(t)
  <2> DEFINE tables == unbanWord(db, t.key)
  <2>1. /\ DOMAIN tables = DOMAIN db /\ tables.users = db.users
        /\ tables.banned_users = db.banned_users
        /\ tables.banned_words = db.banned_words \ {t.key}
    BY <1>1 DEF unbanWord
  <2> HIDE DEF tables
  <2>2. AdminStep(t, "unbanWord", tables, missed)
    BY <1>6 DEF tables, unbanWordStep
  <2> QED BY <1>1, <1>2, <2>1, <2>2, CommittedKeeps
<1> QED BY <1>3, <1>4, <1>5, <1>6

(* A row that another module adds to the users makes no ban of a user who  *)
(* had none.                                                               *)
LEMMA AddedUserKeeps ==
  ASSUME AdminInv, NEW name, OthersAddUser(name)
  PROVE  AdminInv'
<1>1. /\ db' = [db EXCEPT !.users = Put(@, name, NewUser)]
      /\ UNCHANGED <<transactions, banneds, banned_words, acl, raced, missed>>
  BY DEF OthersAddUser, WithUser, admin_vars
<1>2. DOMAIN Put(db.users, name, NewUser) = DOMAIN db.users \cup {name}
  BY DEF Put
<1>3. /\ DOMAIN db' = DOMAIN db /\ DOMAIN db.users \subseteq DOMAIN db'.users
      /\ db'.banned_users = db.banned_users /\ db'.banned_words = db.banned_words
  BY <1>1, <1>2 DEF AdminInv, StoredInv
<1>4. /\ ChangesInv' /\ Pending' = Pending
      /\ UnderWay(BanOps)' = UnderWay(BanOps) /\ UnderWay(WordOps)' = UnderWay(WordOps)
  BY <1>1 DEF AdminInv, ChangesInv, UnderWay, Pending
<1>5. MemoryInv'
  BY <1>1, <1>3, <1>4 DEF AdminInv, MemoryInv
<1>6. StoredInv'
  BY <1>1, <1>3, <1>4 DEF AdminInv, StoredInv
<1> QED BY <1>4, <1>5, <1>6 DEF AdminInv

(* Only a word of which two transactions raced is found in the table, and  *)
(* its transaction is queued again.                                        *)
LEMMA FailureKeeps ==
  ASSUME AdminInv, NEW t, banWordFailure(t)
  PROVE  AdminInv'
<1>0. PICK new : new = [t EXCEPT !.attempt = @ + 1]
  OBVIOUS
<1>1. /\ t.op = "banWord" /\ t.key \in db.banned_words /\ t \in Pending
      /\ UNCHANGED <<db, banneds, banned_words, acl, raced, missed>>
      /\ \/ transactions' = transactions
         \/ transactions' = transactions (-) SetToBag({t}) (+) SetToBag({new})
  BY <1>0 DEF banWordFailure, BanWordFails, Throw, admin_vars
<1>2. t.key \in raced
  BY <1>1 DEF AdminInv, MemoryInv
<1>3. CASE transactions' = transactions
  BY <1>1, <1>3 DEF AdminInv, ChangesInv, MemoryInv, StoredInv, UnderWay, Pending
<1>4. CASE transactions' = transactions (-) SetToBag({t}) (+) SetToBag({new})
  <2>1. /\ new.op = t.op /\ new.key = t.key /\ new.attempt \in Nat
        /\ new = [op |-> new.op, key |-> new.key, attempt |-> new.attempt]
    BY <1>0, <1>1 DEF AdminInv, ChangesInv
  <2>2. IsABag(transactions) /\ t \in DOMAIN transactions
    BY <1>1 DEF AdminInv, ChangesInv, Pending, BagToSet
  <2>3. transactions' = Requeued(transactions, t, new)
    BY <1>4 DEF Requeued
  <2>4. /\ IsABag(transactions') /\ new \in DOMAIN transactions'
        /\ DOMAIN transactions' \subseteq DOMAIN transactions \cup {new}
        /\ DOMAIN transactions \ {t} \subseteq DOMAIN transactions'
        /\ \A s \in DOMAIN transactions \ {t, new} : transactions'[s] = transactions[s]
    BY <2>2, <2>3, RequeuedBag
  <2>5. /\ Pending' \subseteq Pending \cup {new} /\ Pending \ {t} \subseteq Pending'
        /\ new \in Pending'
        /\ \A s \in Pending \ {t, new} : transactions'[s] = transactions[s]
    BY <2>4 DEF Pending, BagToSet
  <2>6. ASSUME NEW s \in Pending', s.key \notin raced
        PROVE  s \in Pending \ {t, new} /\ transactions'[s] = transactions[s]
    BY <1>2, <2>1, <2>5, <2>6
  <2>7. ChangesInv'
    <3>1. ASSUME NEW s \in Pending'
          PROVE  /\ s = [op |-> s.op, key |-> s.key, attempt |-> s.attempt]
                 /\ s.op \in BanOps \cup WordOps
                 /\ s.attempt \in Nat /\ (s.attempt > 1 => s.key \in raced)
      BY <1>1, <1>2, <2>1, <2>5 DEF AdminInv, ChangesInv
    <3>2. ASSUME NEW s \in Pending', s.key \notin raced
          PROVE  transactions'[s] = 1 /\ \A r \in Pending' : r.key = s.key => r = s
      BY <2>6, <3>2 DEF AdminInv, ChangesInv
    <3> QED BY <1>1, <2>4, <3>1, <3>2 DEF ChangesInv
  <2>8. MemoryInv'
    BY <1>1, <2>6 DEF AdminInv, MemoryInv
  <2>9. /\ UnderWay(BanOps) \subseteq UnderWay(BanOps)'
        /\ UnderWay(WordOps) \subseteq UnderWay(WordOps)' \cup raced
    <3>1. \A s \in Pending : s \in Pending' \/ s = t
      BY <2>5
    <3>2. t.op \notin BanOps
      BY <1>1 DEF BanOps
    <3> QED BY <1>2, <3>1, <3>2 DEF UnderWay
  <2>10. StoredInv'
    BY <1>1, <2>9 DEF AdminInv, StoredInv
  <2> QED BY <2>7, <2>8, <2>10 DEF AdminInv
<1> QED BY <1>1, <1>3, <1>4

LEMMA BansUntouched ==
  ASSUME AdminInv, UNCHANGED <<admin_vars, db, transactions>>
  PROVE  AdminInv'
BY DEF AdminInv, ChangesInv, MemoryInv, StoredInv, UnderWay, Pending, admin_vars

(* A process that starts loads the tables, and nothing is under way.       *)
LEMMA LoadedBans ==
  ASSUME transactions = EmptyBag, banneds = db.banned_users, acl = db.banned_users,
         banned_words = db.banned_words,
         {"users", "banned_users", "banned_words"} \subseteq DOMAIN db,
         db.banned_users \subseteq DOMAIN db.users, missed = {}
  PROVE  AdminInv
<1>1. Pending = {} /\ IsABag(transactions)
  BY DEF Pending, BagToSet, EmptyBag, SetToBag, IsABag
<1> QED BY <1>1 DEF AdminInv, ChangesInv, MemoryInv, StoredInv

LEMMA ReloadedBans ==
  ASSUME AdminInv, Restart(db), LoadAcl(db)
  PROVE  AdminInv'
<1>1. /\ transactions' = EmptyBag /\ db' = db /\ banneds' = db.banned_users
      /\ banned_words' = db.banned_words /\ acl' = db.banned_users
      /\ {"users", "banned_users", "banned_words"} \subseteq DOMAIN db
      /\ db.banned_users \subseteq DOMAIN db.users /\ missed' = {}
  BY DEF Restart, LoadAcl, AdminInv, StoredInv
<1>2. Pending' = {} /\ IsABag(transactions')
  BY <1>1 DEF Pending, BagToSet, EmptyBag, SetToBag, IsABag
<1> QED BY <1>1, <1>2 DEF AdminInv, ChangesInv, MemoryInv, StoredInv

LEMMA AdminInvStep ==
  ASSUME AdminInv, [AdminNext]_<<module_vars, admin_vars>>
  PROVE  AdminInv'
<1>1. ASSUME NEW u \in Jid, NEW name \in Target, handleBan(u, name) \/ handleUnban(u, name)
      PROVE  AdminInv'
  BY <1>1, AskingKeeps
<1>2. ASSUME NEW u \in Jid, NEW word \in Word, handleBanWord(u, word) \/ handleUnbanWord(u, word)
      PROVE  AdminInv'
  BY <1>2, AskingKeeps
<1>3. ASSUME NEW u \in Jid, NEW is_available \in BOOLEAN,
             \/ NextStatus(u, is_available) /\ UNCHANGED <<transactions, admin_vars>>
             \/ HandlePresence(u, is_available) /\ UNCHANGED admin_vars
      PROVE  AdminInv'
  BY <1>3, BansUntouched DEF NextStatus, HandlePresence
<1>4. ASSUME NEW t \in Changes,
             \/ banStep(t) \/ unbanStep(t)
             \/ banWordStep(t) \/ banWordFailure(t) \/ unbanWordStep(t)
      PROVE  AdminInv'
  BY <1>4, CommitsKeep, FailureKeeps
<1>5. ASSUME Restart(db), LoadAcl(db) PROVE AdminInv'
  BY <1>5, ReloadedBans
<1>6. ASSUME Kill, UNCHANGED admin_vars PROVE AdminInv'
  BY <1>6, BansUntouched DEF Kill
<1>7. ASSUME UNCHANGED <<module_vars, admin_vars>> PROVE AdminInv'
  BY <1>7, BansUntouched DEF module_vars
<1>8. ASSUME NEW name \in Target, OthersAddUser(name) PROVE AdminInv'
  BY <1>8, AddedUserKeeps
<1> QED BY <1>1, <1>2, <1>3, <1>4, <1>5, <1>6, <1>7, <1>8 DEF AdminNext

(* What admins ban and release at times of their own choosing, while       *)
(* transactions overtake each other, other modules add users and processes *)
(* end and start: a key for which no two were under way at once is stored  *)
(* as it is in memory, except that the ban of a user who had no row is in  *)
(* memory only; no insert of such a word fails, and the jabber server was  *)
(* told what is in memory (AdminComponent.cc).                             *)
THEOREM AdminBansStored ==
  ASSUME NEW users, NEW ratings
  PROVE  AdminSpec(NewTables(users, ratings)) => []BansStored
<1> DEFINE tables == NewTables(users, ratings)
<1>1. /\ {"users", "banned_users", "banned_words"} \subseteq DOMAIN tables
      /\ tables.banned_users \subseteq DOMAIN tables.users
  BY DEF NewTables
<1> HIDE DEF tables
<1>2. ServerModuleInit(tables) /\ AdminInit => AdminInv
  BY <1>1, LoadedBans DEF ServerModuleInit, AdminInit
<1>3. AdminInv /\ [AdminNext]_<<module_vars, admin_vars>> => AdminInv'
  BY AdminInvStep
<1>4. AdminInv => BansStored
  <2> SUFFICES ASSUME AdminInv PROVE BansStored
    OBVIOUS
  <2>1. Changes = Pending
    BY DEF AdminInv, ChangesInv, Changes, BanOps, WordOps
  <2>2. UnderWay(BanOps) \subseteq Keys /\ UnderWay(WordOps) \subseteq Keys
    BY <2>1 DEF UnderWay, Keys
  <2> QED BY <2>1, <2>2 DEF AdminInv, ChangesInv, StoredInv, BansStored
<1>5. AdminSpec(tables) => []BansStored
  BY <1>2, <1>3, <1>4, PTL DEF AdminSpec
<1> QED BY <1>5 DEF tables

-----------------------------------------------------------------------------

(* How often a transaction is queued, where B is the bag of those queued.   *)
Copies(t, B) == IF t \in DOMAIN B THEN B[t] ELSE 0

LEMMA AddedCopies ==
  ASSUME NEW B, IsABag(B), NEW S, NEW C, C = B (+) SetToBag(S)
  PROVE  /\ IsABag(C) /\ BagToSet(C) = BagToSet(B) \cup S
         /\ \A t : Copies(t, C) = Copies(t, B) + (IF t \in S THEN 1 ELSE 0)
<1>1. IsABag(C) /\ DOMAIN C = DOMAIN B \cup S
  BY DEF IsABag, SetToBag, (+)
<1>2. ASSUME NEW t PROVE Copies(t, C) = Copies(t, B) + (IF t \in S THEN 1 ELSE 0)
  <2>1. CASE t \in S
    BY <1>1, <2>1 DEF IsABag, SetToBag, (+), Copies, BagToSet
  <2>2. CASE t \in DOMAIN B \ S
    BY <1>1, <2>2 DEF IsABag, SetToBag, (+), Copies, BagToSet
  <2>3. CASE t \notin DOMAIN B \cup S
    BY <1>1, <2>3 DEF Copies, BagToSet
  <2> QED BY <2>1, <2>2, <2>3
<1> QED BY <1>1, <1>2 DEF BagToSet

LEMMA RemovedCopies ==
  ASSUME NEW B, IsABag(B), NEW t \in BagToSet(B), NEW C, C = B (-) SetToBag({t})
  PROVE  /\ IsABag(C) /\ BagToSet(C) \subseteq BagToSet(B)
         /\ Copies(t, B) \in Nat \ {0} /\ Copies(t, C) = Copies(t, B) - 1
         /\ \A s : s # t => Copies(s, C) = Copies(s, B)
<1>1. IsABag(C) /\ DOMAIN C \subseteq DOMAIN B
  BY DEF IsABag, SetToBag, (-), BagToSet
<1>2. Copies(t, B) \in Nat \ {0} /\ Copies(t, C) = Copies(t, B) - 1
  <2>1. t \in DOMAIN B /\ B[t] \in Nat \ {0}
    BY DEF IsABag, BagToSet
  <2>2. DOMAIN C = {e \in DOMAIN B : B[e] - (IF e = t THEN 1 ELSE 0) > 0}
    BY DEF IsABag, SetToBag, (-), BagToSet
  <2>3. t \in DOMAIN C => C[t] = B[t] - 1
    BY <2>1 DEF IsABag, SetToBag, (-), BagToSet
  <2> QED BY <2>1, <2>2, <2>3 DEF Copies, BagToSet
<1>3. ASSUME NEW s, s # t PROVE Copies(s, C) = Copies(s, B)
  <2>1. DOMAIN B \ {t} \subseteq DOMAIN C /\ \A e \in DOMAIN B \ {t} : C[e] = B[e]
    BY DEF IsABag, SetToBag, (-), BagToSet
  <2> QED BY <1>1, <1>3, <2>1 DEF Copies, BagToSet
<1> QED BY <1>1, <1>2, <1>3 DEF BagToSet

-----------------------------------------------------------------------------

(* Who is online, and who is in last_logons.                               *)
LogonInv ==
  /\ IsABag(transactions)
  /\ \A t \in Pending : t.op \in {"online", "profile"} => t.name \in UserNames
  /\ \A t \in Pending : t.op = "online" => t.seconds \in Nat
  /\ now \in Nat /\ restarts \in Nat /\ online \in [UserNames -> Nat] /\ users_status \subseteq Jid
  /\ DOMAIN last_logons \subseteq UserNames
  /\ \A n \in DOMAIN last_logons : last_logons[n] \in 0..now
  /\ process = "up" =>
       /\ \A n \in DOMAIN last_logons : \E u \in users_status : PartialOf[u] = n
       /\ \A u \in users_status : OneResource(PartialOf[u]) => PartialOf[u] \in DOMAIN last_logons

RowsInv ==
  /\ {"users", "games"} \subseteq DOMAIN db
  /\ \A n \in DOMAIN db.users : /\ "online_time" \in DOMAIN db.users[n]
                                /\ db.users[n].online_time \in Nat

CreditInv == OnlineTimeCredited /\ \A n \in UserNames : IsFiniteSet(SecondsQueued(n))

ShownInv ==
  /\ profile.step \in {"none", "locked", "read", "answered"}
  /\ profile.step = "none" => profile = NoProfile
  /\ \A s, t \in Pending : s.op = "profile" /\ t.op = "profile" => s.name = t.name
  /\ profile.step # "none" =>
       LET n == profile.name
           told == restarts = 0 /\ profile.settled /\ OneResource(n)
       IN /\ profile = [step |-> profile.step, name |-> n, type |-> profile.type,
                        ratings |-> profile.ratings, online_time |-> profile.online_time,
                        uptime |-> profile.uptime, asked |-> profile.asked,
                        settled |-> profile.settled]
          /\ n \in UserNames /\ profile.online_time \in Nat /\ profile.uptime \in Nat
          /\ profile.asked \in Nat
          /\ LogonsLocked =>
               /\ \A t \in Pending : t.op = "profile" => t.name = n
               /\ profile.settled => Updates(n) = {}
          /\ profile.step = "locked" /\ told =>
               getOnlineTime(db, n) + Uptime(n) >= profile.asked
          /\ profile.step = "read" => profile.online_time <= getOnlineTime(db, n)
          /\ profile.step = "read" /\ told => profile.online_time + Uptime(n) >= profile.asked
          /\ ProfileShown

-----------------------------------------------------------------------------
(* The seconds that are queued.                                            *)

LEMMA QueuedPending ==
  ASSUME IsABag(transactions), NEW S, QueueTransactions(S)
  PROVE  /\ IsABag(transactions') /\ Pending' = Pending \cup S
         /\ \A t : Copies(t, transactions') = Copies(t, transactions) + (IF t \in S THEN 1 ELSE 0)
<1>1. transactions' = transactions (+) SetToBag(S)
  BY DEF QueueTransactions
<1> QED BY <1>1, AddedCopies DEF Pending

LEMMA SecondsSame ==
  ASSUME NEW n, Updates(n)' = Updates(n),
         \A t \in Updates(n) : Copies(t, transactions') = Copies(t, transactions)
  PROVE  SecondsQueued(n)' = SecondsQueued(n)
<1>1. \A t \in Updates(n) : transactions'[t] = transactions[t]
  BY DEF Copies, Updates, Pending, BagToSet
<1> QED BY <1>1 DEF SecondsQueued

(* Transactions that are no updates of the user are queued.                *)
LEMMA OthersQueued ==
  ASSUME IsABag(transactions), NEW S, QueueTransactions(S), NEW n,
         \A s \in S : ~(s.op = "online" /\ s.name = n)
  PROVE  Updates(n)' = Updates(n) /\ SecondsQueued(n)' = SecondsQueued(n)
<1>1. Updates(n)' = Updates(n)
  BY QueuedPending DEF Updates
<1>2. ASSUME NEW t \in Updates(n) PROVE Copies(t, transactions') = Copies(t, transactions)
  <2>1. t \notin S /\ Copies(t, transactions) \in Nat
    BY DEF Updates, Pending, BagToSet, IsABag, Copies
  <2>2. Copies(t, transactions') = Copies(t, transactions) + (IF t \in S THEN 1 ELSE 0)
    BY QueuedPending
  <2> QED BY <2>1, <2>2
<1> QED BY <1>1, <1>2, SecondsSame

(* The seconds of the k-th copy.                                           *)
CopyOf(t, k) == {t} \X ({k} \X (1..t.seconds))

LEMMA CopyCounts ==
  ASSUME NEW t, NEW k, t.seconds \in Nat
  PROVE  IsFiniteSet(CopyOf(t, k)) /\ Cardinality(CopyOf(t, k)) = t.seconds
<1> DEFINE seconds == 1..t.seconds
<1>1. IsFiniteSet(seconds) /\ Cardinality(seconds) = t.seconds
  BY FS_Interval
<1>2. IsFiniteSet({k}) /\ Cardinality({k}) = 1 /\ IsFiniteSet({t}) /\ Cardinality({t}) = 1
  BY FS_Singleton
<1> HIDE DEF seconds
<1>3. IsFiniteSet({k} \X seconds) /\ Cardinality({k} \X seconds) = 1 * t.seconds
  BY <1>1, <1>2, FS_Product
<1>4. /\ IsFiniteSet({t} \X ({k} \X seconds))
      /\ Cardinality({t} \X ({k} \X seconds)) = 1 * (1 * t.seconds)
  BY <1>2, <1>3, FS_Product
<1> QED BY <1>4 DEF CopyOf, seconds

(* The seconds of the copies of some transactions of a bag.                *)
SecondsIn(U, B) == UNION {{s} \X ((1..B[s]) \X (1..s.seconds)) : s \in U}

(* One copy more or less.                                                  *)
LEMMA OneCopyMore ==
  ASSUME NEW n, NEW t, NEW U, NEW V, NEW B, NEW C, IsABag(B), IsABag(C),
         U \subseteq DOMAIN B, V \subseteq DOMAIN C, V = U \cup {t},
         Copies(t, C) = Copies(t, B) + 1, t \notin U => t \notin DOMAIN B,
         \A s \in U : s # t => Copies(s, C) = Copies(s, B),
         t.seconds \in Nat
  PROVE  /\ SecondsIn(V, C) = SecondsIn(U, B) \cup CopyOf(t, C[t])
         /\ SecondsIn(U, B) \cap CopyOf(t, C[t]) = {}
<1> DEFINE X == SecondsIn(U, B)  Y == SecondsIn(V, C)
<1>0. /\ X = UNION {{s} \X ((1..B[s]) \X (1..s.seconds)) : s \in U}
      /\ Y = UNION {{s} \X ((1..C[s]) \X (1..s.seconds)) : s \in V}
  BY DEF SecondsIn
<1> HIDE DEF X, Y
<1>1. C[t] \in Nat \ {0} /\ t \in DOMAIN C
  BY DEF IsABag
<1>2. t \in U => B[t] \in Nat \ {0} /\ C[t] = B[t] + 1
  BY <1>1 DEF Copies, IsABag
<1>3. t \notin U => C[t] = 1
  BY <1>1 DEF Copies
<1>4. \A s \in U : s # t => C[s] = B[s]
  BY DEF Copies
<1>5. {t} \X ((1..C[t]) \X (1..t.seconds)) =
        (IF t \in U THEN {t} \X ((1..B[t]) \X (1..t.seconds)) ELSE {}) \cup CopyOf(t, C[t])
  <2>1. CASE t \in U
    <3>1. 1..C[t] = (1..B[t]) \cup {C[t]}
      BY <1>2, <2>1
    <3> QED BY <2>1, <3>1 DEF CopyOf
  <2>2. CASE t \notin U
    <3>1. 1..C[t] = {C[t]}
      BY <1>3, <2>2
    <3> QED BY <2>2, <3>1 DEF CopyOf
  <2> QED BY <2>1, <2>2
<1>6. Y = X \cup CopyOf(t, C[t])
  <2>1. ASSUME NEW x \in Y PROVE x \in X \cup CopyOf(t, C[t])
    <3>1. PICK s \in V : x \in {s} \X ((1..C[s]) \X (1..s.seconds))
      BY <1>0, <2>1
    <3>2. CASE s = t
      BY <1>0, <1>5, <3>1, <3>2
    <3>3. CASE s # t
      <4>1. s \in U /\ C[s] = B[s]
        BY <1>4, <3>3
      <4> QED BY <1>0, <3>1, <4>1
    <3> QED BY <3>2, <3>3
  <2>2. ASSUME NEW x \in X PROVE x \in Y
    <3>1. PICK s \in U : x \in {s} \X ((1..B[s]) \X (1..s.seconds))
      BY <1>0, <2>2
    <3>2. s \in V
      OBVIOUS
    <3>3. CASE s = t
      BY <1>0, <1>5, <3>1, <3>2, <3>3
    <3>4. CASE s # t
      BY <1>0, <1>4, <3>1, <3>2, <3>4
    <3> QED BY <3>3, <3>4
  <2>3. ASSUME NEW x \in CopyOf(t, C[t]) PROVE x \in Y
    BY <1>0, <1>5, <2>3
  <2> QED BY <2>1, <2>2, <2>3
<1>7. X \cap CopyOf(t, C[t]) = {}
  <2> SUFFICES ASSUME NEW x \in X, x \in CopyOf(t, C[t]) PROVE FALSE
    OBVIOUS
  <2>1. PICK s \in U : x \in {s} \X ((1..B[s]) \X (1..s.seconds))
    BY <1>0
  <2>2. s = t
    BY <2>1 DEF CopyOf
  <2>3. x[2][1] = C[t] /\ x[2][1] \in 1..B[t]
    BY <2>1, <2>2 DEF CopyOf
  <2> QED BY <1>2, <2>2, <2>3
<1> QED BY <1>6, <1>7 DEF X, Y

LEMMA CopyMoreCounts ==
  ASSUME NEW X, NEW t, NEW k, t.seconds \in Nat,
         X \cap CopyOf(t, k) = {}, IsFiniteSet(X)
  PROVE  /\ IsFiniteSet(X \cup CopyOf(t, k)) /\ Cardinality(X) \in Nat
         /\ Cardinality(X \cup CopyOf(t, k)) = Cardinality(X) + t.seconds
<1> DEFINE Z == CopyOf(t, k)
<1>1. IsFiniteSet(Z) /\ Cardinality(Z) = t.seconds
  BY CopyCounts
<1>2. X \cap Z = {}
  OBVIOUS
<1> HIDE DEF Z
<1>3. IsFiniteSet(X \cup Z) /\ Cardinality(X \cup Z) = Cardinality(X) + Cardinality(Z) - Cardinality({})
  BY <1>1, <1>2, FS_Union
<1>4. Cardinality({}) = 0 /\ Cardinality(X) \in Nat
  BY FS_EmptySet, FS_CardinalityType
<1>5. /\ IsFiniteSet(X \cup Z) /\ Cardinality(X) \in Nat
      /\ Cardinality(X \cup Z) = Cardinality(X) + t.seconds
  BY <1>1, <1>3, <1>4
<1> QED BY <1>5 DEF Z

(* An update of the user is queued.                                        *)
LEMMA UpdateQueued ==
  ASSUME IsABag(transactions), NEW S, QueueTransactions(S), NEW n, NEW t \in S,
         t.op = "online", t.name = n, t.seconds \in Nat,
         \A s \in S : s.op = "online" /\ s.name = n => s = t,
         IsFiniteSet(SecondsQueued(n))
  PROVE  /\ IsFiniteSet(SecondsQueued(n)')
         /\ Cardinality(SecondsQueued(n)') = Cardinality(SecondsQueued(n)) + t.seconds
         /\ Cardinality(SecondsQueued(n)) \in Nat
<1> DEFINE U == Updates(n)  V == Updates(n)'  B == transactions  C == transactions'
           X == SecondsQueued(n)  Y == SecondsQueued(n)'
<1>1. /\ IsABag(C) /\ Pending' = Pending \cup S
      /\ \A s : Copies(s, C) = Copies(s, B) + (IF s \in S THEN 1 ELSE 0)
  BY QueuedPending
<1>2. V = U \cup {t}
  BY <1>1 DEF Updates
<1>3. U \subseteq DOMAIN B /\ V \subseteq DOMAIN C /\ (t \notin U => t \notin DOMAIN B)
  BY DEF Updates, Pending, BagToSet
<1>4. Copies(t, C) = Copies(t, B) + 1
  BY <1>1
<1>5. \A s \in U : s # t => Copies(s, C) = Copies(s, B)
  <2> SUFFICES ASSUME NEW s \in U, s # t PROVE Copies(s, C) = Copies(s, B)
    OBVIOUS
  <2>1. s \notin S /\ Copies(s, B) \in Nat
    BY DEF Updates, Pending, BagToSet, IsABag, Copies
  <2> QED BY <1>1, <2>1
<1>6. X = SecondsIn(U, B) /\ Y = SecondsIn(V, C)
  BY DEF SecondsQueued, SecondsIn
<1> HIDE DEF U, V, B, C, X, Y
<1>7. Y = X \cup CopyOf(t, C[t]) /\ X \cap CopyOf(t, C[t]) = {}
  <2>1. IsABag(B)
    BY DEF B
  <2> QED BY ONLY <1>1, <1>2, <1>3, <1>4, <1>5, <1>6, <2>1, t.seconds \in Nat, OneCopyMore
<1>8. IsFiniteSet(X)
  BY DEF X
<1>9. IsFiniteSet(Y) /\ Cardinality(X) \in Nat /\ Cardinality(Y) = Cardinality(X) + t.seconds
  <2> DEFINE k == C[t]
  <2>1. Y = X \cup CopyOf(t, k) /\ X \cap CopyOf(t, k) = {}
    BY <1>7
  <2> HIDE DEF k
  <2> QED BY <1>8, <2>1, CopyMoreCounts
<1> QED BY <1>9 DEF X, Y

LEMMA DonePending ==
  ASSUME IsABag(transactions), NEW t, NEW tables, Commit(t, tables)
  PROVE  /\ IsABag(transactions') /\ t \in Pending /\ Pending' \subseteq Pending
         /\ db' = tables /\ process # "down"
         /\ Copies(t, transactions) \in Nat \ {0}
         /\ Copies(t, transactions') = Copies(t, transactions) - 1
         /\ \A s : s # t => Copies(s, transactions') = Copies(s, transactions)
<1>1. /\ transactions' = transactions (-) SetToBag({t}) /\ t \in BagToSet(transactions)
      /\ db' = tables /\ process # "down"
  BY DEF Commit, Pending
<1>2. /\ IsABag(transactions') /\ BagToSet(transactions') \subseteq BagToSet(transactions)
      /\ Copies(t, transactions) \in Nat \ {0}
      /\ Copies(t, transactions') = Copies(t, transactions) - 1
      /\ \A s : s # t => Copies(s, transactions') = Copies(s, transactions)
  <2> DEFINE B == transactions  C == transactions'
  <2>1. IsABag(B) /\ t \in BagToSet(B) /\ C = B (-) SetToBag({t})
    BY <1>1
  <2> HIDE DEF B, C
  <2>2. /\ IsABag(C) /\ BagToSet(C) \subseteq BagToSet(B)
        /\ Copies(t, B) \in Nat \ {0} /\ Copies(t, C) = Copies(t, B) - 1
        /\ \A s : s # t => Copies(s, C) = Copies(s, B)
    BY <2>1, RemovedCopies
  <2> QED BY <2>2 DEF B, C
<1> QED BY <1>1, <1>2 DEF Pending

LEMMA SamePending ==
  ASSUME NEW t \in Pending, Copies(t, transactions') = Copies(t, transactions),
         IsABag(transactions)
  PROVE  t \in Pending'
BY DEF Copies, Pending, BagToSet, IsABag

(* A transaction that is no update of the user ends.                       *)
LEMMA OtherDone ==
  ASSUME IsABag(transactions), NEW t, NEW tables, Commit(t, tables), NEW n,
         ~(t.op = "online" /\ t.name = n)
  PROVE  Updates(n)' = Updates(n) /\ SecondsQueued(n)' = SecondsQueued(n)
<1>1. /\ Pending' \subseteq Pending
      /\ \A s : s # t => Copies(s, transactions') = Copies(s, transactions)
  BY DonePending
<1>2. Updates(n)' = Updates(n)
  BY <1>1, SamePending DEF Updates
<1>3. \A s \in Updates(n) : Copies(s, transactions') = Copies(s, transactions)
  BY <1>1 DEF Updates
<1> QED BY <1>2, <1>3, SecondsSame

(* An update of the user is done.                                          *)
LEMMA UpdateDone ==
  ASSUME IsABag(transactions), NEW t, NEW tables, Commit(t, tables), NEW n,
         t.op = "online", t.name = n, t.seconds \in Nat, IsFiniteSet(SecondsQueued(n))
  PROVE  /\ IsFiniteSet(SecondsQueued(n)') /\ Cardinality(SecondsQueued(n)') \in Nat
         /\ Cardinality(SecondsQueued(n)) = Cardinality(SecondsQueued(n)') + t.seconds
         /\ Updates(n)' \subseteq Updates(n)
<1> DEFINE V == Updates(n)  U == Updates(n)'  C == transactions  B == transactions'
           Y == SecondsQueued(n)  X == SecondsQueued(n)'
<1>1. /\ IsABag(B) /\ t \in Pending /\ Pending' \subseteq Pending
      /\ Copies(t, C) \in Nat \ {0} /\ Copies(t, B) = Copies(t, C) - 1
      /\ \A s : s # t => Copies(s, B) = Copies(s, C)
  BY DonePending
<1>2. U \subseteq V /\ V = U \cup {t}
  BY <1>1, SamePending DEF Updates
<1>3. U \subseteq DOMAIN B /\ V \subseteq DOMAIN C /\ (t \notin U => t \notin DOMAIN B)
  BY DEF Updates, Pending, BagToSet
<1>4. Copies(t, C) = Copies(t, B) + 1 /\ \A s \in U : s # t => Copies(s, C) = Copies(s, B)
  BY <1>1
<1>6. X = SecondsIn(U, B) /\ Y = SecondsIn(V, C)
  BY DEF SecondsQueued, SecondsIn
<1>7. IsABag(C) /\ IsFiniteSet(Y)
  OBVIOUS
<1> HIDE DEF U, V, B, C, X, Y
<1>8. Y = X \cup CopyOf(t, C[t]) /\ X \cap CopyOf(t, C[t]) = {}
  <2>1. /\ IsABag(B) /\ IsABag(C) /\ U \subseteq DOMAIN B /\ V \subseteq DOMAIN C
        /\ V = U \cup {t} /\ Copies(t, C) = Copies(t, B) + 1
        /\ (t \notin U => t \notin DOMAIN B)
        /\ \A s \in U : s # t => Copies(s, C) = Copies(s, B)
    BY <1>1, <1>2, <1>3, <1>4, <1>7
  <2> QED BY ONLY <1>6, <2>1, t.seconds \in Nat, OneCopyMore
<1>9. IsFiniteSet(X) /\ Cardinality(X) \in Nat /\ Cardinality(Y) = Cardinality(X) + t.seconds
  <2> DEFINE k == C[t]
  <2>1. Y = X \cup CopyOf(t, k) /\ X \cap CopyOf(t, k) = {}
    BY <1>8
  <2>2. X \subseteq Y
    BY <2>1
  <2>3. IsFiniteSet(X)
    BY <1>7, <2>2, FS_Subset
  <2> HIDE DEF k
  <2> QED BY <2>1, <2>3, CopyMoreCounts
<1> QED BY <1>2, <1>9 DEF X, Y, U, V

(* A transaction that throws is queued again.                              *)
LEMMA RatingThrown ==
  ASSUME IsABag(transactions), NEW t, Throw(t), t.op = "rating"
  PROVE  /\ IsABag(transactions')
         /\ \A s \in Pending' : s \in Pending \/ s.op = "rating"
         /\ \A s : s.op # "rating" => Copies(s, transactions') = Copies(s, transactions)
         /\ \A n : Updates(n)' = Updates(n) /\ SecondsQueued(n)' = SecondsQueued(n)
<1>0. PICK new : new = [t EXCEPT !.attempt = @ + 1]
  OBVIOUS
<1>1. CASE transactions' = transactions
  <2>1. Pending' = Pending /\ \A n : Updates(n)' = Updates(n)
    BY <1>1 DEF Pending, Updates
  <2> QED BY <1>1, <2>1 DEF SecondsQueued
<1>2. CASE transactions' = transactions (-) SetToBag({t}) (+) SetToBag({new}) /\ t \in Pending
  <2> DEFINE A == transactions  B == A (-) SetToBag({t})  C == transactions'
  <2>1. new.op = "rating"
    BY <1>0, <1>2
  <2>2. IsABag(A) /\ t \in BagToSet(A)
    BY <1>2 DEF Pending
  <2>3. C = B (+) SetToBag({new})
    BY <1>2
  <2> HIDE DEF A
  <2>4. /\ IsABag(B) /\ BagToSet(B) \subseteq BagToSet(A)
        /\ \A s : s # t => Copies(s, B) = Copies(s, A)
    BY <2>2, RemovedCopies
  <2> HIDE DEF B, C
  <2>5. /\ IsABag(C) /\ BagToSet(C) = BagToSet(B) \cup {new}
        /\ \A s : Copies(s, C) = Copies(s, B) + (IF s \in {new} THEN 1 ELSE 0)
    BY <2>3, <2>4, AddedCopies
  <2>6. ASSUME NEW s, s # new PROVE Copies(s, C) = Copies(s, B)
    <3>1. Copies(s, B) \in Nat
      BY <2>4 DEF Copies, IsABag
    <3> QED BY <2>5, <2>6, <3>1
  <2>7. \A s \in BagToSet(C) : s \in BagToSet(A) \/ s = new
    BY <2>4, <2>5
  <2>8. ASSUME NEW s \in BagToSet(A), s.op = "online"
        PROVE  s \in BagToSet(C) /\ Copies(s, C) = Copies(s, A)
    <3>1. s # t /\ s # new
      BY <1>2, <2>1, <2>8, t.op = "rating"
    <3>2. Copies(s, B) = Copies(s, A) /\ Copies(s, A) \in Nat \ {0}
      BY <2>2, <2>4, <2>8, <3>1 DEF Copies, IsABag, BagToSet
    <3>3. s \in BagToSet(B)
      BY <3>2 DEF Copies, BagToSet
    <3> QED BY <2>5, <2>6, <3>1, <3>2, <3>3
  <2>9. \A s \in Pending' : s \in Pending \/ s.op = "rating"
    BY <2>1, <2>7 DEF A, C, Pending
  <2>10. ASSUME NEW n PROVE Updates(n)' = Updates(n)
    BY <2>1, <2>7, <2>8 DEF A, C, Pending, Updates
  <2>11. ASSUME NEW n PROVE SecondsQueued(n)' = SecondsQueued(n)
    <3>1. \A s \in Updates(n) : Copies(s, transactions') = Copies(s, transactions)
      BY <2>8 DEF A, C, Pending, Updates
    <3> QED BY <2>10, <3>1, SecondsSame
  <2>12. ASSUME NEW s, s.op # "rating"
         PROVE  Copies(s, transactions') = Copies(s, transactions)
    <3>1. s # t /\ s # new
      BY <2>1, <2>12, t.op = "rating"
    <3>2. Copies(s, C) = Copies(s, B) /\ Copies(s, B) = Copies(s, A)
      BY <2>4, <2>6, <3>1
    <3> QED BY <3>2 DEF A, C
  <2> QED BY <2>5, <2>9, <2>10, <2>11, <2>12 DEF C
<1> QED BY <1>0, <1>1, <1>2 DEF Throw

-----------------------------------------------------------------------------
(* What most steps have in common.                                         *)

OnlineInv == LogonInv /\ RowsInv /\ CreditInv /\ ShownInv

LEMMA TimesAreNaturals ==
  ASSUME LogonInv, RowsInv, NEW n
  PROVE  getOnlineTime(db, n) \in Nat /\ Uptime(n) \in Nat
BY DEF LogonInv, RowsInv, getOnlineTime, HasUser, Uptime

(* The seconds of a user move from memory to the queue, and to the table.  *)
LEMMA CreditMoves ==
  ASSUME OnlineInv, LogonInv', RowsInv',
         UNCHANGED <<online, restarts>>,
         process' = process \/ (process # "down" /\ process' # "up"),
         \A n \in UserNames :
           /\ IsFiniteSet(SecondsQueued(n)') /\ (process = "down" => Uptime(n)' = Uptime(n))
           /\ getOnlineTime(db, n)' + Cardinality(SecondsQueued(n)') + Uptime(n)' =
                getOnlineTime(db, n) + Cardinality(SecondsQueued(n)) + Uptime(n)
  PROVE  CreditInv'
<1> SUFFICES ASSUME NEW n \in UserNames
             PROVE  /\ (Credited(n) <= online[n])'
                    /\ (restarts = 0 /\ process # "down" /\ OneResource(n)
                          => Credited(n) = online[n])'
  BY DEF CreditInv, OnlineTimeCredited
<1>1. /\ Cardinality(SecondsQueued(n)) \in Nat /\ Cardinality(SecondsQueued(n)') \in Nat
  BY FS_CardinalityType DEF OnlineInv, CreditInv
<1>2. /\ getOnlineTime(db, n) \in Nat /\ Uptime(n) \in Nat
      /\ getOnlineTime(db, n)' \in Nat /\ Uptime(n)' \in Nat
  <2>1. getOnlineTime(db, n) \in Nat /\ Uptime(n) \in Nat
    BY TimesAreNaturals DEF OnlineInv
  <2>2. getOnlineTime(db, n)' \in Nat /\ Uptime(n)' \in Nat
    BY DEF LogonInv, RowsInv, getOnlineTime, HasUser, Uptime
  <2> QED BY <2>1, <2>2
<1>3. /\ Credited(n) <= online[n] /\ online[n] \in Nat
      /\ restarts = 0 /\ process # "down" /\ OneResource(n) => Credited(n) = online[n]
  BY DEF OnlineInv, CreditInv, OnlineTimeCredited, LogonInv
<1>4. OneResource(n)' <=> OneResource(n)
  BY DEF OneResource
<1>5. Credited(n) = getOnlineTime(db, n) + Cardinality(SecondsQueued(n))
                      + (IF process # "down" THEN Uptime(n) ELSE 0)
  BY DEF Credited
<1>6. Credited(n)' = getOnlineTime(db, n)' + Cardinality(SecondsQueued(n)')
                      + (IF process' # "down" THEN Uptime(n)' ELSE 0)
  BY DEF Credited
<1>7. /\ IsFiniteSet(SecondsQueued(n)') /\ (process = "down" => Uptime(n)' = Uptime(n))
      /\ getOnlineTime(db, n)' + Cardinality(SecondsQueued(n)') + Uptime(n)' =
           getOnlineTime(db, n) + Cardinality(SecondsQueued(n)) + Uptime(n)
  OBVIOUS
<1> DEFINE stored == getOnlineTime(db, n)  queued == Cardinality(SecondsQueued(n))  up == Uptime(n)
           stored1 == getOnlineTime(db, n)'  queued1 == Cardinality(SecondsQueued(n)')
           up1 == Uptime(n)'  credit == Credited(n)  credit1 == Credited(n)'
<1>8. /\ stored \in Nat /\ queued \in Nat /\ up \in Nat
      /\ stored1 \in Nat /\ queued1 \in Nat /\ up1 \in Nat
      /\ stored1 + queued1 + up1 = stored + queued + up /\ (process = "down" => up1 = up)
      /\ credit = stored + queued + (IF process # "down" THEN up ELSE 0)
      /\ credit1 = stored1 + queued1 + (IF process' # "down" THEN up1 ELSE 0)
      /\ credit <= online[n] /\ online[n] \in Nat
      /\ restarts = 0 /\ process # "down" /\ OneResource(n) => credit = online[n]
  BY <1>1, <1>2, <1>3, <1>5, <1>6, <1>7
<1> HIDE DEF stored, queued, up, stored1, queued1, up1, credit, credit1
<1>9. credit1 <= online[n]
  BY <1>8
<1>10. restarts = 0 /\ process' # "down" /\ OneResource(n) => credit1 = online[n]
  BY <1>8
<1> QED BY <1>4, <1>9, <1>10 DEF credit1

(* No step but its own changes the profile under way: while the lock is    *)
(* held nobody comes or goes, and the time in the table only grows.        *)
LEMMA ShownStays ==
  ASSUME OnlineInv, LogonInv', RowsInv', UNCHANGED <<profile, restarts>>,
         \A n \in UserNames : online'[n] >= online[n],
         \A t \in Pending' : t.op = "profile" => t \in Pending,
         LogonsLocked => \A n \in UserNames : /\ Updates(n)' \subseteq Updates(n)
                                              /\ getOnlineTime(db, n)' >= getOnlineTime(db, n)
                                              /\ Uptime(n)' >= Uptime(n)
  PROVE  ShownInv'
<1>1. \A s, t \in Pending' : s.op = "profile" /\ t.op = "profile" => s.name = t.name
  BY DEF OnlineInv, ShownInv
<1>2. /\ profile.step \in {"none", "locked", "read", "answered"}
      /\ profile.step = "none" => profile = NoProfile
  BY DEF OnlineInv, ShownInv
<1>3. CASE profile.step = "none"
  BY <1>1, <1>2, <1>3 DEF ShownInv
<1>4. CASE profile.step # "none"
  <2> DEFINE n == profile.name
             told == restarts = 0 /\ profile.settled /\ OneResource(n)
  <2>1. /\ profile = [step |-> profile.step, name |-> n, type |-> profile.type,
                      ratings |-> profile.ratings, online_time |-> profile.online_time,
                      uptime |-> profile.uptime, asked |-> profile.asked,
                      settled |-> profile.settled]
        /\ n \in UserNames /\ profile.online_time \in Nat /\ profile.uptime \in Nat
        /\ profile.asked \in Nat
        /\ LogonsLocked =>
             /\ \A t \in Pending : t.op = "profile" => t.name = n
             /\ profile.settled => Updates(n) = {}
        /\ profile.step = "locked" /\ told =>
             getOnlineTime(db, n) + Uptime(n) >= profile.asked
        /\ profile.step = "read" => profile.online_time <= getOnlineTime(db, n)
        /\ profile.step = "read" /\ told => profile.online_time + Uptime(n) >= profile.asked
        /\ ProfileShown
    BY <1>4 DEF OnlineInv, ShownInv
  <2>2. getOnlineTime(db, n) \in Nat /\ Uptime(n) \in Nat
    BY TimesAreNaturals DEF OnlineInv
  <2>3. getOnlineTime(db, n)' \in Nat /\ Uptime(n)' \in Nat
    BY DEF LogonInv, RowsInv, getOnlineTime, HasUser, Uptime
  <2>4. /\ n' = n /\ told' = told /\ LogonsLocked' = LogonsLocked
        /\ online[n] \in Nat /\ online'[n] \in Nat /\ online'[n] >= online[n]
    BY <2>1 DEF OneResource, LogonsLocked, OnlineInv, LogonInv
  <2>5. LogonsLocked <=> profile.step \in {"locked", "read"}
    BY DEF LogonsLocked
  <2>6. ProfileShown'
    <3>1. profile.step = "answered" =>
            /\ profile.online_time + profile.uptime <= online[n]
            /\ profile.settled /\ restarts = 0 /\ OneResource(n)
                 => profile.online_time + profile.uptime >= profile.asked
      BY <2>1 DEF ProfileShown
    <3>2. OneResource(n)' <=> OneResource(n)
      BY DEF OneResource
    <3>3. profile.step = "answered" => profile.online_time + profile.uptime <= online'[n]
      BY <2>1, <2>4, <3>1
    <3> QED BY <3>1, <3>2, <3>3 DEF ProfileShown
  <2>7. LogonsLocked =>
          /\ \A t \in Pending' : t.op = "profile" => t.name = n
          /\ profile.settled => Updates(n)' = {}
    BY <2>1
  <2> HIDE DEF told
  <2>8. /\ profile.step = "locked" /\ told => getOnlineTime(db, n)' + Uptime(n)' >= profile.asked
        /\ profile.step = "read" => profile.online_time <= getOnlineTime(db, n)'
        /\ profile.step = "read" /\ told => profile.online_time + Uptime(n)' >= profile.asked
    BY <2>1, <2>2, <2>3, <2>5
  <2> QED BY <1>1, <1>2, <2>1, <2>4, <2>6, <2>7, <2>8 DEF ShownInv, told
<1> QED BY <1>3, <1>4

(* Steps that leave the users, the time and the updates alone.             *)
LEMMA OnlineUntouched ==
  ASSUME OnlineInv, UNCHANGED <<now, restarts, online, users_status, last_logons, profile>>,
         process' = process \/ (process # "down" /\ process' # "up"),
         RowsInv', \A n \in UserNames : getOnlineTime(db, n)' = getOnlineTime(db, n),
         IsABag(transactions'),
         \A t \in Pending' : t \in Pending \/ t.op \notin {"online", "profile"},
         \A n : Updates(n)' = Updates(n) /\ SecondsQueued(n)' = SecondsQueued(n)
  PROVE  OnlineInv'
<1>1. LogonInv'
  BY DEF OnlineInv, LogonInv, UserNames, OneResource
<1>2. \A n : Uptime(n)' = Uptime(n)
  BY DEF Uptime
<1>3. \A n \in UserNames : getOnlineTime(db, n) \in Nat /\ Uptime(n) \in Nat /\ online[n] \in Nat
  BY TimesAreNaturals DEF OnlineInv, LogonInv
<1>4. CreditInv'
  BY <1>1, <1>2, CreditMoves DEF OnlineInv, CreditInv
<1>5. ShownInv'
  BY <1>1, <1>2, <1>3, ShownStays
<1> QED BY <1>1, <1>4, <1>5 DEF OnlineInv

-----------------------------------------------------------------------------
(* The steps that move seconds.                                            *)

(* A resource that comes, or the first one of a user that leaves.          *)
LEMMA StatusKeepsOnline ==
  ASSUME OnlineInv, NEW u \in Jid, NEW is_available \in BOOLEAN,
         profileHandleUserStatus(u, is_available)
  PROVE  OnlineInv'
<1> DEFINE name == PartialOf[u]
           counted == ~is_available /\ name \in DOMAIN last_logons
           S == IF counted THEN {Increment(name)} ELSE {}
<1>1. /\ ~LogonsLocked /\ process = "up" /\ QueueTransactions(S)
      /\ users_status' = IF is_available THEN users_status \cup {u} ELSE users_status \ {u}
      /\ last_logons' = IF is_available /\ name \notin DOMAIN last_logons
                        THEN Put(last_logons, name, now)
                        ELSE [n \in DOMAIN last_logons \ (IF counted THEN {name} ELSE {})
                                |-> last_logons[n]]
      /\ UNCHANGED <<db, process, restarts, now, online, profile>>
  BY DEF profileHandleUserStatus, NextStatus
<1>2. name \in UserNames
  BY JidAssumption DEF UserNames, Range
<1>3. /\ DOMAIN last_logons' = IF is_available THEN DOMAIN last_logons \cup {name}
                               ELSE DOMAIN last_logons \ {name}
      /\ \A n \in DOMAIN last_logons' :
           last_logons'[n] = IF n \in DOMAIN last_logons THEN last_logons[n] ELSE now
  <2>1. CASE is_available /\ name \notin DOMAIN last_logons
    BY <1>1, <2>1 DEF Put
  <2>2. CASE ~(is_available /\ name \notin DOMAIN last_logons)
    BY <1>1, <2>2
  <2> QED BY <2>1, <2>2
<1>4. /\ now \in Nat /\ \A n \in DOMAIN last_logons : last_logons[n] \in 0..now
      /\ IsABag(transactions)
  BY DEF OnlineInv, LogonInv
<1>5. \A n : Uptime(n) \in Nat /\ Uptime(n)' = IF counted /\ n = name THEN 0 ELSE Uptime(n)
  <2> SUFFICES ASSUME NEW n
               PROVE  Uptime(n) \in Nat /\ Uptime(n)' = IF counted /\ n = name THEN 0 ELSE Uptime(n)
    OBVIOUS
  <2>1. /\ Uptime(n) = IF n \in DOMAIN last_logons THEN now - last_logons[n] ELSE 0
        /\ Uptime(n)' = IF n \in DOMAIN last_logons' THEN now - last_logons'[n] ELSE 0
    BY <1>1 DEF Uptime
  <2>2. n \in DOMAIN last_logons => last_logons[n] \in 0..now
    BY <1>4
  <2>3. CASE counted /\ n = name
    BY <1>3, <1>4, <2>1, <2>2, <2>3
  <2>4. CASE ~(counted /\ n = name) /\ n \in DOMAIN last_logons
    <3>1. n \in DOMAIN last_logons' /\ last_logons'[n] = last_logons[n]
      BY <1>3, <2>4
    <3> QED BY <1>4, <2>1, <2>2, <2>4, <3>1
  <2>5. CASE n \notin DOMAIN last_logons
    <3>1. n \in DOMAIN last_logons' => last_logons'[n] = now
      BY <1>3, <2>5
    <3> QED BY <1>4, <2>1, <2>5, <3>1
  <2> QED BY <2>3, <2>4, <2>5
<1>6. /\ IsABag(transactions') /\ Pending' = Pending \cup S
      /\ \A s \in S : s = Increment(name) /\ counted /\ s.op = "online" /\ s.name = name
                      /\ s.seconds = Uptime(name)
  BY <1>1, <1>4, QueuedPending DEF Increment, Uptime
<1>7. LogonInv'
  <2>1. \A t \in Pending' : /\ t.op \in {"online", "profile"} => t.name \in UserNames
                            /\ t.op = "online" => t.seconds \in Nat
    BY <1>2, <1>5, <1>6 DEF OnlineInv, LogonInv
  <2>2. /\ DOMAIN last_logons' \subseteq UserNames
        /\ \A n \in DOMAIN last_logons' : last_logons'[n] \in 0..now
    BY <1>2, <1>3, <1>4 DEF OnlineInv, LogonInv
  <2>3. ASSUME NEW n \in DOMAIN last_logons' PROVE \E v \in users_status' : PartialOf[v] = n
    <3>1. CASE is_available
      BY <1>1, <1>3, <2>3, <3>1 DEF OnlineInv, LogonInv
    <3>2. CASE ~is_available
      <4>1. n # name /\ n \in DOMAIN last_logons
        BY <1>3, <2>3, <3>2
      <4>2. PICK v \in users_status : PartialOf[v] = n
        BY <1>1, <4>1 DEF OnlineInv, LogonInv
      <4> QED BY <1>1, <3>2, <4>1, <4>2
    <3> QED BY <3>1, <3>2
  <2>4. ASSUME NEW v \in users_status', OneResource(PartialOf[v])
        PROVE  PartialOf[v] \in DOMAIN last_logons'
    <3>1. v \in users_status \/ (is_available /\ v = u)
      BY <1>1
    <3>2. CASE is_available
      BY <1>1, <1>3, <2>4, <3>1, <3>2 DEF OnlineInv, LogonInv
    <3>3. CASE ~is_available
      <4>1. v \in users_status /\ v # u /\ v \in Jid
        BY <1>1, <3>3 DEF OnlineInv, LogonInv
      <4>2. PartialOf[v] # name
        BY <2>4, <4>1 DEF OneResource
      <4> QED BY <1>1, <1>3, <2>4, <3>3, <4>1, <4>2 DEF OnlineInv, LogonInv
    <3> QED BY <3>2, <3>3
  <2>5. \A n : OneResource(n)' <=> OneResource(n)
    BY DEF OneResource
  <2> QED BY <1>1, <1>6, <2>1, <2>2, <2>3, <2>4, <2>5 DEF OnlineInv, LogonInv, UserNames
<1>8. RowsInv'
  BY <1>1 DEF OnlineInv, RowsInv
<1>9. CreditInv'
  <2>1. ASSUME NEW n \in UserNames
        PROVE  /\ IsFiniteSet(SecondsQueued(n)')
               /\ getOnlineTime(db, n)' + Cardinality(SecondsQueued(n)') + Uptime(n)' =
                    getOnlineTime(db, n) + Cardinality(SecondsQueued(n)) + Uptime(n)
    <3>0. /\ IsFiniteSet(SecondsQueued(n)) /\ Cardinality(SecondsQueued(n)) \in Nat
          /\ getOnlineTime(db, n)' = getOnlineTime(db, n) /\ getOnlineTime(db, n) \in Nat
      BY <1>1, FS_CardinalityType, TimesAreNaturals DEF OnlineInv, CreditInv, getOnlineTime, HasUser
    <3>1. CASE counted /\ n = name
      <4> DEFINE t == Increment(name)
      <4>1. /\ t \in S /\ t.op = "online" /\ t.name = n /\ t.seconds = Uptime(n)
            /\ t.seconds \in Nat /\ \A s \in S : s = t
        BY <1>5, <1>6, <3>1
      <4> HIDE DEF t, S
      <4>2. /\ IsFiniteSet(SecondsQueued(n)')
            /\ Cardinality(SecondsQueued(n)') = Cardinality(SecondsQueued(n)) + t.seconds
        BY <1>1, <1>4, <3>0, <4>1, UpdateQueued
      <4>3. Uptime(n)' = 0
        BY <1>5, <3>1
      <4> QED BY <3>0, <4>1, <4>2, <4>3
    <3>2. CASE ~(counted /\ n = name)
      <4>1. \A s \in S : ~(s.op = "online" /\ s.name = n)
        BY <1>6, <3>2
      <4> HIDE DEF S
      <4>2. SecondsQueued(n)' = SecondsQueued(n)
        BY <1>1, <1>4, <4>1, OthersQueued
      <4>3. Uptime(n)' = Uptime(n)
        BY <1>5, <3>2
      <4> QED BY <3>0, <4>2, <4>3
    <3> QED BY <3>1, <3>2
  <2> QED BY <1>1, <1>7, <1>8, <2>1, CreditMoves
<1>10. ShownInv'
  <2>1. \A t \in Pending' : t.op = "profile" => t \in Pending
    BY <1>6
  <2>2. \A n \in UserNames : online'[n] >= online[n]
    BY <1>1 DEF OnlineInv, LogonInv
  <2> QED BY <1>1, <1>7, <1>8, <2>1, <2>2, ShownStays
<1> QED BY <1>7, <1>8, <1>9, <1>10 DEF OnlineInv

(* A second goes by.                                                       *)
LEMMA TickKeeps ==
  ASSUME OnlineInv, Tick
  PROVE  OnlineInv'
<1>1. /\ process = "up" /\ now' = now + 1
      /\ online' = [n \in UserNames |->
                      online[n] + IF \E u \in users_status : PartialOf[u] = n THEN 1 ELSE 0]
      /\ UNCHANGED <<users_status, db, transactions, process, restarts, last_logons, profile>>
  BY DEF Tick, module_vars
<1>2. /\ LogonInv /\ RowsInv /\ CreditInv
  BY DEF OnlineInv
<1>3. LogonInv'
  <2>1. now' \in Nat /\ online' \in [UserNames -> Nat]
    BY <1>1, <1>2 DEF LogonInv
  <2>2. \A n \in DOMAIN last_logons : last_logons[n] \in 0..now'
    BY <1>1, <1>2 DEF LogonInv
  <2> QED BY <1>1, <1>2, <2>1, <2>2 DEF LogonInv, Pending, UserNames, OneResource
<1>4. RowsInv'
  BY <1>1, <1>2 DEF RowsInv
<1>5. ASSUME NEW n
      PROVE  /\ Updates(n)' = Updates(n) /\ SecondsQueued(n)' = SecondsQueued(n)
             /\ getOnlineTime(db, n)' = getOnlineTime(db, n)
             /\ Uptime(n) \in Nat
             /\ Uptime(n)' = IF n \in DOMAIN last_logons THEN Uptime(n) + 1 ELSE Uptime(n)
  <2>1. Updates(n)' = Updates(n)
    BY <1>1 DEF Updates, Pending
  <2>2. SecondsQueued(n)' = SecondsQueued(n)
    BY <1>1, <2>1 DEF SecondsQueued
  <2>3. /\ Uptime(n) \in Nat
        /\ Uptime(n)' = IF n \in DOMAIN last_logons THEN Uptime(n) + 1 ELSE Uptime(n)
    BY <1>1, <1>2 DEF LogonInv, Uptime
  <2> QED BY <1>1, <2>1, <2>2, <2>3
<1>6. CreditInv'
  <2> SUFFICES ASSUME NEW n \in UserNames
               PROVE  /\ (Credited(n) <= online[n])'
                      /\ (restarts = 0 /\ process # "down" /\ OneResource(n)
                            => Credited(n) = online[n])'
                      /\ IsFiniteSet(SecondsQueued(n)')
    BY DEF CreditInv, OnlineTimeCredited
  <2>1. /\ Credited(n) <= online[n] /\ online[n] \in Nat /\ IsFiniteSet(SecondsQueued(n))
        /\ restarts = 0 /\ process # "down" /\ OneResource(n) => Credited(n) = online[n]
    BY <1>2 DEF CreditInv, OnlineTimeCredited, LogonInv
  <2>2. /\ Cardinality(SecondsQueued(n)) \in Nat /\ getOnlineTime(db, n) \in Nat
    BY <1>2, <2>1, FS_CardinalityType, TimesAreNaturals
  <2>3. /\ Credited(n) \in Nat
        /\ Credited(n)' = IF n \in DOMAIN last_logons THEN Credited(n) + 1 ELSE Credited(n)
    <3>1. Credited(n) = getOnlineTime(db, n) + Cardinality(SecondsQueued(n)) + Uptime(n)
      BY <1>1 DEF Credited
    <3>2. Credited(n)' = getOnlineTime(db, n) + Cardinality(SecondsQueued(n)) + Uptime(n)'
      BY <1>1, <1>5 DEF Credited
    <3> QED BY <1>5, <2>2, <3>1, <3>2
  <2>4. n \in DOMAIN last_logons => online'[n] = online[n] + 1
    BY <1>1, <1>2 DEF LogonInv
  <2>5. online'[n] >= online[n] /\ online'[n] \in Nat
    BY <1>1, <2>1
  <2>6. OneResource(n) /\ n \notin DOMAIN last_logons => online'[n] = online[n]
    <3>1. OneResource(n) /\ n \notin DOMAIN last_logons =>
            ~ \E u \in users_status : PartialOf[u] = n
      BY <1>1, <1>2 DEF LogonInv
    <3> QED BY <1>1, <2>1, <3>1
  <2>7. OneResource(n)' <=> OneResource(n)
    BY DEF OneResource
  <2>8. (Credited(n) <= online[n])'
    BY <2>1, <2>3, <2>4, <2>5
  <2>9. (restarts = 0 /\ process # "down" /\ OneResource(n) => Credited(n) = online[n])'
    BY <1>1, <2>1, <2>3, <2>4, <2>6, <2>7
  <2> QED BY <1>5, <2>1, <2>8, <2>9
<1>7. ShownInv'
  <2>1. \A t \in Pending' : t.op = "profile" => t \in Pending
    BY <1>1 DEF Pending
  <2>2. ASSUME NEW n \in UserNames
        PROVE  /\ online'[n] >= online[n] /\ Updates(n)' \subseteq Updates(n)
               /\ getOnlineTime(db, n)' >= getOnlineTime(db, n) /\ Uptime(n)' >= Uptime(n)
    <3>1. online[n] \in Nat /\ getOnlineTime(db, n) \in Nat
      BY <1>2, TimesAreNaturals DEF LogonInv
    <3> QED BY <1>1, <1>5, <3>1
  <2> QED BY <1>1, <1>3, <1>4, <2>1, <2>2, ShownStays
<1> QED BY <1>3, <1>4, <1>6, <1>7 DEF OnlineInv

(* An update is committed.                                                 *)
LEMMA UpdatedRows ==
  ASSUME RowsInv, NEW name, NEW seconds \in Nat, db' = updateOnlineTime(db, name, seconds)
  PROVE  /\ RowsInv'
         /\ getOnlineTime(db, name)' = getOnlineTime(db, name) + seconds
         /\ \A n : n # name => getOnlineTime(db, n)' = getOnlineTime(db, n)
<1> DEFINE tables == WithUser(db, name)
<1>1. /\ {"users", "games"} \subseteq DOMAIN tables
      /\ DOMAIN tables.users = DOMAIN db.users \cup {name}
      /\ \A n \in DOMAIN tables.users : /\ "online_time" \in DOMAIN tables.users[n]
                                        /\ tables.users[n].online_time = getOnlineTime(db, n)
                                        /\ tables.users[n].online_time \in Nat
  BY DEF WithUser, HasUser, RowsInv, getOnlineTime, Put, NewUser
<1>2. db' = [tables EXCEPT !.users[name].online_time = @ + seconds]
  BY DEF updateOnlineTime
<1> HIDE DEF tables
<1>3. /\ {"users", "games"} \subseteq DOMAIN db' /\ DOMAIN db'.users = DOMAIN tables.users
      /\ \A n \in DOMAIN db'.users : /\ "online_time" \in DOMAIN db'.users[n]
                                     /\ db'.users[n].online_time =
                                          IF n = name THEN tables.users[n].online_time + seconds
                                          ELSE tables.users[n].online_time
  BY <1>1, <1>2
<1>4. \A n : n \notin DOMAIN db.users => getOnlineTime(db, n) = 0
  BY DEF getOnlineTime, HasUser
<1>5. \A n : getOnlineTime(db, n)' = IF n \in DOMAIN db'.users THEN db'.users[n].online_time ELSE 0
  BY DEF getOnlineTime, HasUser
<1> QED BY <1>1, <1>3, <1>4, <1>5 DEF RowsInv

LEMMA UpdateKeeps ==
  ASSUME OnlineInv, NEW t \in Pending, updateOnlineTimeStep(t)
  PROVE  OnlineInv'
<1> DEFINE tables == updateOnlineTime(db, t.name, t.seconds)
<1>1. /\ t.op = "online" /\ Commit(t, tables) /\ db' = tables
      /\ UNCHANGED <<users_status, process, restarts, last_logons, now, online, profile>>
  BY DEF updateOnlineTimeStep, Commit, profile_vars, logon_vars
<1>2. t.name \in UserNames /\ t.seconds \in Nat /\ IsABag(transactions)
  BY <1>1 DEF OnlineInv, LogonInv
<1>3. /\ RowsInv' /\ getOnlineTime(db, t.name)' = getOnlineTime(db, t.name) + t.seconds
      /\ \A n : n # t.name => getOnlineTime(db, n)' = getOnlineTime(db, n)
  BY <1>1, <1>2, UpdatedRows DEF OnlineInv
<1> HIDE DEF tables
<1>4. IsABag(transactions') /\ Pending' \subseteq Pending /\ process # "down"
  BY <1>1, <1>2, DonePending
<1>5. LogonInv'
  BY <1>1, <1>4 DEF OnlineInv, LogonInv, UserNames, OneResource
<1>6. \A n : Uptime(n)' = Uptime(n)
  BY <1>1 DEF Uptime
<1>7. ASSUME NEW n \in UserNames
      PROVE  /\ IsFiniteSet(SecondsQueued(n)') /\ Updates(n)' \subseteq Updates(n)
             /\ getOnlineTime(db, n)' >= getOnlineTime(db, n)
             /\ getOnlineTime(db, n)' + Cardinality(SecondsQueued(n)') + Uptime(n)' =
                  getOnlineTime(db, n) + Cardinality(SecondsQueued(n)) + Uptime(n)
             /\ Uptime(n)' >= Uptime(n) /\ online'[n] >= online[n]
  <2>1. IsFiniteSet(SecondsQueued(n)) /\ getOnlineTime(db, n) \in Nat /\ Uptime(n) \in Nat
        /\ Cardinality(SecondsQueued(n)) \in Nat /\ online[n] \in Nat
    BY TimesAreNaturals, FS_CardinalityType DEF OnlineInv, CreditInv, LogonInv
  <2>2. CASE n = t.name
    <3>1. /\ IsFiniteSet(SecondsQueued(n)') /\ Cardinality(SecondsQueued(n)') \in Nat
          /\ Cardinality(SecondsQueued(n)) = Cardinality(SecondsQueued(n)') + t.seconds
          /\ Updates(n)' \subseteq Updates(n)
      BY <1>1, <1>2, <2>1, <2>2, UpdateDone
    <3>2. getOnlineTime(db, n)' = getOnlineTime(db, n) + t.seconds
      BY <1>3, <2>2
    <3> QED BY <1>1, <1>2, <1>6, <2>1, <3>1, <3>2
  <2>3. CASE n # t.name
    <3>1. Updates(n)' = Updates(n) /\ SecondsQueued(n)' = SecondsQueued(n)
      BY <1>1, <1>2, <2>3, OtherDone
    <3>2. getOnlineTime(db, n)' = getOnlineTime(db, n)
      BY <1>3, <2>3
    <3> QED BY <1>1, <1>6, <2>1, <3>1, <3>2
  <2> QED BY <2>2, <2>3
<1>8. CreditInv'
  BY <1>1, <1>3, <1>4, <1>5, <1>7, CreditMoves
<1>9. ShownInv'
  BY <1>1, <1>3, <1>4, <1>5, <1>7, ShownStays
<1> QED BY <1>3, <1>5, <1>8, <1>9 DEF OnlineInv

(* The server is stopped.                                                  *)
LEMMA StopKeeps ==
  ASSUME OnlineInv, onStop
  PROVE  OnlineInv'
<1> DEFINE S == {Increment(n) : n \in DOMAIN last_logons}
<1>1. /\ process = "up" /\ process' = "stopping" /\ ~LogonsLocked /\ QueueTransactions(S)
      /\ last_logons' = <<>>
      /\ UNCHANGED <<users_status, db, restarts, now, online, profile>>
  BY DEF onStop
<1>2. IsABag(transactions) /\ DOMAIN last_logons' = {}
  BY <1>1 DEF OnlineInv, LogonInv
<1>3. \A n : Uptime(n) \in Nat /\ Uptime(n)' = 0 /\ (n \notin DOMAIN last_logons => Uptime(n) = 0)
  BY <1>2 DEF OnlineInv, LogonInv, Uptime
<1>4. \A s \in S : \E n \in DOMAIN last_logons :
        s = Increment(n) /\ s.op = "online" /\ s.name = n /\ s.seconds = Uptime(n)
  BY DEF Increment, Uptime
<1>5. \A n \in DOMAIN last_logons : Increment(n) \in S
  OBVIOUS
<1> HIDE DEF S
<1>6. IsABag(transactions') /\ Pending' = Pending \cup S
  BY <1>1, <1>2, QueuedPending
<1>7. LogonInv'
  <2>1. \A t \in Pending' : /\ t.op \in {"online", "profile"} => t.name \in UserNames
                            /\ t.op = "online" => t.seconds \in Nat
    BY <1>3, <1>4, <1>6 DEF OnlineInv, LogonInv
  <2> QED BY <1>1, <1>2, <1>6, <2>1 DEF OnlineInv, LogonInv, UserNames
<1>8. RowsInv' /\ \A n : getOnlineTime(db, n)' = getOnlineTime(db, n)
  BY <1>1 DEF OnlineInv, RowsInv
<1>9. ASSUME NEW n \in UserNames
      PROVE  /\ IsFiniteSet(SecondsQueued(n)')
             /\ getOnlineTime(db, n)' + Cardinality(SecondsQueued(n)') + Uptime(n)' =
                  getOnlineTime(db, n) + Cardinality(SecondsQueued(n)) + Uptime(n)
  <2>1. IsFiniteSet(SecondsQueued(n)) /\ getOnlineTime(db, n) \in Nat
        /\ Cardinality(SecondsQueued(n)) \in Nat
    BY TimesAreNaturals, FS_CardinalityType DEF OnlineInv, CreditInv
  <2>2. CASE n \in DOMAIN last_logons
    <3> DEFINE t == Increment(n)
    <3>1. t \in S /\ t.op = "online" /\ t.name = n /\ t.seconds = Uptime(n)
      BY <1>5, <2>2 DEF Increment, Uptime
    <3>2. \A s \in S : s.op = "online" /\ s.name = n => s = t
      BY <1>4
    <3>3. t.seconds \in Nat
      BY <1>3, <3>1
    <3> HIDE DEF t
    <3>4. /\ IsFiniteSet(SecondsQueued(n)')
          /\ Cardinality(SecondsQueued(n)') = Cardinality(SecondsQueued(n)) + t.seconds
      BY <1>1, <1>2, <2>1, <3>1, <3>2, <3>3, UpdateQueued
    <3> QED BY <1>3, <1>8, <2>1, <3>1, <3>3, <3>4
  <2>3. CASE n \notin DOMAIN last_logons
    <3>1. \A s \in S : ~(s.op = "online" /\ s.name = n)
      BY <1>4, <2>3
    <3>2. SecondsQueued(n)' = SecondsQueued(n)
      BY <1>1, <1>2, <3>1, OthersQueued
    <3> QED BY <1>3, <1>8, <2>1, <2>3, <3>2
  <2> QED BY <2>2, <2>3
<1>10. CreditInv'
  BY <1>1, <1>7, <1>8, <1>9, CreditMoves
<1>11. ShownInv'
  <2>1. \A t \in Pending' : t.op = "profile" => t \in Pending
    BY <1>4, <1>6
  <2>2. \A n \in UserNames : online'[n] >= online[n]
    BY <1>1 DEF OnlineInv, LogonInv
  <2> QED BY <1>1, <1>7, <1>8, <2>1, <2>2, ShownStays
<1> QED BY <1>7, <1>8, <1>10, <1>11 DEF OnlineInv

(* A new process knows nobody and has nothing under way.                   *)
LEMMA RestartKeepsOnline ==
  ASSUME OnlineInv, Restart(db), last_logons' = <<>>, profile' = NoProfile,
         UNCHANGED <<now, online>>
  PROVE  OnlineInv'
<1>1. /\ process' = "up" /\ restarts' = restarts + 1 /\ users_status' = {}
      /\ transactions' = EmptyBag /\ db' = db /\ restarts \in Nat
  BY DEF Restart, OnlineInv, LogonInv
<1>2. Pending' = {} /\ IsABag(transactions') /\ DOMAIN last_logons' = {}
  BY <1>1 DEF Pending, BagToSet, EmptyBag, SetToBag, IsABag
<1>3. LogonInv'
  BY <1>1, <1>2 DEF OnlineInv, LogonInv, UserNames
<1>4. RowsInv'
  BY <1>1 DEF OnlineInv, RowsInv
<1>5. CreditInv'
  <2> SUFFICES ASSUME NEW n \in UserNames
               PROVE  (Credited(n) <= online[n])' /\ IsFiniteSet(SecondsQueued(n)')
    BY <1>1 DEF CreditInv, OnlineTimeCredited
  <2>1. SecondsQueued(n)' = {}
    BY <1>2 DEF SecondsQueued, Updates
  <2>2. IsFiniteSet({}) /\ Cardinality({}) = 0
    BY FS_EmptySet
  <2>3. /\ getOnlineTime(db, n) \in Nat /\ Uptime(n) \in Nat
        /\ Cardinality(SecondsQueued(n)) \in Nat
        /\ Credited(n) <= online[n] /\ online[n] \in Nat
    BY TimesAreNaturals, FS_CardinalityType
       DEF OnlineInv, CreditInv, OnlineTimeCredited, LogonInv
  <2>4. Credited(n)' = getOnlineTime(db, n)
    <3>1. Uptime(n)' = 0 /\ getOnlineTime(db, n)' = getOnlineTime(db, n)
      BY <1>1, <1>2 DEF Uptime
    <3> QED BY <1>1, <2>1, <2>2, <2>3, <3>1 DEF Credited
  <2>5. getOnlineTime(db, n) <= Credited(n) /\ Credited(n) \in Nat
    BY <2>3 DEF Credited
  <2> QED BY <2>1, <2>2, <2>3, <2>4, <2>5
<1>6. ShownInv'
  BY <1>2 DEF ShownInv, NoProfile
<1> QED BY <1>3, <1>4, <1>5, <1>6 DEF OnlineInv

-----------------------------------------------------------------------------
(* The steps of a profile.                                                 *)

LEMMA ProfileAsked ==
  ASSUME OnlineInv, NEW u, NEW name \in UserNames, handleProfile(u, name)
  PROVE  OnlineInv'
<1> DEFINE t == [op |-> "profile", name |-> name, attempt |-> 1]
           S == {t}
<1>1. /\ QueueTransactions(S) /\ profile' = NoProfile /\ \A s \in Pending : s.op # "profile"
      /\ UNCHANGED <<users_status, db, process, restarts, last_logons, now, online>>
  BY DEF handleProfile
<1>2. t.op = "profile" /\ t.name = name /\ IsABag(transactions)
  BY DEF OnlineInv, LogonInv
<1> HIDE DEF t
<1>3. /\ IsABag(transactions') /\ Pending' = Pending \cup {t}
      /\ \A n : Updates(n)' = Updates(n) /\ SecondsQueued(n)' = SecondsQueued(n)
  <2>1. \A n : \A s \in S : ~(s.op = "online" /\ s.name = n)
    BY <1>2
  <2> HIDE DEF S
  <2>2. IsABag(transactions') /\ Pending' = Pending \cup S
    BY <1>1, <1>2, QueuedPending
  <2>3. \A n : Updates(n)' = Updates(n) /\ SecondsQueued(n)' = SecondsQueued(n)
    BY <1>1, <1>2, <2>1, OthersQueued
  <2> QED BY <2>2, <2>3 DEF S
<1>4. LogonInv'
  BY <1>1, <1>2, <1>3 DEF OnlineInv, LogonInv, UserNames, OneResource
<1>5. RowsInv' /\ \A n : getOnlineTime(db, n)' = getOnlineTime(db, n) /\ Uptime(n)' = Uptime(n)
  BY <1>1 DEF OnlineInv, RowsInv, Uptime
<1>6. CreditInv'
  BY <1>1, <1>3, <1>4, <1>5, CreditMoves DEF OnlineInv, CreditInv
<1>7. ShownInv'
  BY <1>1, <1>2, <1>3 DEF ShownInv, NoProfile
<1> QED BY <1>4, <1>5, <1>6, <1>7 DEF OnlineInv

(* The three reads of a profile change nothing but it.                     *)
LEMMA ProfileStepUntouched ==
  ASSUME OnlineInv, UNCHANGED <<users_status, db, process, restarts, last_logons, now, online>>,
         \/ UNCHANGED transactions
         \/ \E t : t.op = "profile" /\ Commit(t, db)
  PROVE  /\ LogonInv' /\ RowsInv' /\ CreditInv' /\ Pending' \subseteq Pending
         /\ \A n : /\ Updates(n)' = Updates(n)
                   /\ getOnlineTime(db, n)' = getOnlineTime(db, n) /\ Uptime(n)' = Uptime(n)
<1>1. IsABag(transactions)
  BY DEF OnlineInv, LogonInv
<1>2. /\ IsABag(transactions') /\ Pending' \subseteq Pending
      /\ \A n : Updates(n)' = Updates(n) /\ SecondsQueued(n)' = SecondsQueued(n)
  <2>1. CASE UNCHANGED transactions
    <3>1. Pending' = Pending /\ \A n : Updates(n)' = Updates(n)
      BY <2>1 DEF Pending, Updates
    <3> QED BY <1>1, <2>1, <3>1 DEF SecondsQueued
  <2>2. CASE \E t : t.op = "profile" /\ Commit(t, db)
    <3>1. PICK t : t.op = "profile" /\ Commit(t, db)
      BY <2>2
    <3>2. IsABag(transactions') /\ Pending' \subseteq Pending
      BY <1>1, <3>1, DonePending
    <3>3. \A n : Updates(n)' = Updates(n) /\ SecondsQueued(n)' = SecondsQueued(n)
      BY <1>1, <3>1, OtherDone
    <3> QED BY <3>2, <3>3
  <2> QED BY <2>1, <2>2
<1>3. LogonInv'
  BY <1>2 DEF OnlineInv, LogonInv, UserNames, OneResource
<1>4. RowsInv' /\ \A n : getOnlineTime(db, n)' = getOnlineTime(db, n) /\ Uptime(n)' = Uptime(n)
  BY DEF OnlineInv, RowsInv, Uptime
<1>5. CreditInv'
  BY <1>2, <1>3, <1>4, CreditMoves DEF OnlineInv, CreditInv
<1> QED BY <1>2, <1>3, <1>4, <1>5

LEMMA ProfileLocked ==
  ASSUME OnlineInv, NEW t \in Pending, fetchProfileLock(t)
  PROVE  OnlineInv'
<1> DEFINE n == t.name
           told == restarts = 0 /\ Updates(n) = {} /\ OneResource(n)
<1>1. /\ t.op = "profile" /\ process # "down"
      /\ profile' = [step |-> "locked", name |-> n, type |-> getUserType(db, n),
                     ratings |-> getRatings(db, n), online_time |-> 0, uptime |-> 0,
                     asked |-> online[n], settled |-> Updates(n) = {}]
      /\ UNCHANGED <<users_status, db, transactions, process, restarts, last_logons, now, online>>
  BY DEF fetchProfileLock, module_vars
<1>2. /\ LogonInv' /\ RowsInv' /\ CreditInv' /\ Pending' \subseteq Pending
      /\ Updates(n)' = Updates(n)
      /\ getOnlineTime(db, n)' = getOnlineTime(db, n) /\ Uptime(n)' = Uptime(n)
  BY <1>1, ProfileStepUntouched
<1>3. n \in UserNames /\ online[n] \in Nat
  BY <1>1 DEF OnlineInv, LogonInv
<1>4. told => getOnlineTime(db, n) + Uptime(n) >= online[n]
  <2> SUFFICES ASSUME told PROVE getOnlineTime(db, n) + Uptime(n) >= online[n]
    OBVIOUS
  <2>1. SecondsQueued(n) = {}
    BY DEF SecondsQueued
  <2>2. Cardinality(SecondsQueued(n)) = 0
    BY <2>1, FS_EmptySet
  <2>3. Credited(n) = online[n]
    BY <1>1, <1>3 DEF OnlineInv, CreditInv, OnlineTimeCredited
  <2>4. getOnlineTime(db, n) \in Nat /\ Uptime(n) \in Nat
    BY TimesAreNaturals DEF OnlineInv
  <2> QED BY <1>1, <1>3, <2>2, <2>3, <2>4 DEF Credited
<1>5. \A s, r \in Pending' : s.op = "profile" /\ r.op = "profile" => s.name = r.name
  BY <1>2 DEF OnlineInv, ShownInv
<1>6. \A s \in Pending' : s.op = "profile" => s.name = n
  BY <1>1, <1>2 DEF OnlineInv, ShownInv
<1>7. ShownInv'
  <2>1. OneResource(n)' <=> OneResource(n)
    BY DEF OneResource
  <2>2. /\ profile'.step = "locked" /\ profile'.name = n
        /\ profile'.settled = (Updates(n) = {}) /\ profile'.asked = online[n]
        /\ profile'.online_time = 0 /\ profile'.uptime = 0
        /\ profile' = [step |-> profile'.step, name |-> n, type |-> profile'.type,
                       ratings |-> profile'.ratings, online_time |-> profile'.online_time,
                       uptime |-> profile'.uptime, asked |-> profile'.asked,
                       settled |-> profile'.settled]
    BY <1>1
  <2> HIDE DEF n
  <2>3. ProfileShown'
    BY <2>2 DEF ProfileShown
  <2>4. profile'.settled => Updates(n)' = {}
    BY <1>2, <2>2
  <2>5. restarts' = 0 /\ profile'.settled /\ OneResource(n)' =>
          getOnlineTime(db, n)' + Uptime(n)' >= profile'.asked
    BY <1>1, <1>2, <1>4, <2>1, <2>2
  <2> QED BY <1>3, <1>5, <1>6, <2>2, <2>3, <2>4, <2>5 DEF ShownInv
<1> QED BY <1>2, <1>7 DEF OnlineInv

LEMMA ProfileRead ==
  ASSUME OnlineInv, NEW t \in Pending, fetchProfileRead(t)
  PROVE  OnlineInv'
<1>0. PICK n : n = profile.name
  OBVIOUS
<1> DEFINE told == restarts = 0 /\ profile.settled /\ OneResource(n)
<1>1. /\ t.op = "profile" /\ profile.step = "locked"
      /\ profile' = [profile EXCEPT !.step = "read", !.online_time = getOnlineTime(db, t.name)]
      /\ UNCHANGED <<users_status, db, transactions, process, restarts, last_logons, now, online>>
  BY DEF fetchProfileRead, module_vars
<1>2. /\ LogonInv' /\ RowsInv' /\ CreditInv' /\ Pending' \subseteq Pending
      /\ Updates(n)' = Updates(n)
      /\ getOnlineTime(db, n)' = getOnlineTime(db, n) /\ Uptime(n)' = Uptime(n)
  BY <1>0, <1>1, ProfileStepUntouched
<1>3. /\ profile = [step |-> profile.step, name |-> n, type |-> profile.type,
                    ratings |-> profile.ratings, online_time |-> profile.online_time,
                    uptime |-> profile.uptime, asked |-> profile.asked,
                    settled |-> profile.settled]
      /\ n \in UserNames /\ profile.uptime \in Nat /\ profile.asked \in Nat
      /\ \A s \in Pending : s.op = "profile" => s.name = n
      /\ profile.settled => Updates(n) = {}
      /\ told => getOnlineTime(db, n) + Uptime(n) >= profile.asked
  BY <1>0, <1>1 DEF OnlineInv, ShownInv, LogonsLocked
<1>4. \A s, r \in Pending' : s.op = "profile" /\ r.op = "profile" => s.name = r.name
  BY <1>2 DEF OnlineInv, ShownInv
<1>5. t.name = n /\ getOnlineTime(db, n) \in Nat
  BY <1>1, <1>3, TimesAreNaturals DEF OnlineInv
<1>6. ShownInv'
  <2>1. OneResource(n)' <=> OneResource(n)
    BY DEF OneResource
  <2>2. /\ profile'.step = "read" /\ profile'.name = n
        /\ profile'.settled = profile.settled /\ profile'.asked = profile.asked
        /\ profile'.online_time = getOnlineTime(db, n) /\ profile'.uptime = profile.uptime
        /\ profile' = [step |-> profile'.step, name |-> n, type |-> profile'.type,
                       ratings |-> profile'.ratings, online_time |-> profile'.online_time,
                       uptime |-> profile'.uptime, asked |-> profile'.asked,
                       settled |-> profile'.settled]
    BY <1>0, <1>1, <1>3, <1>5
  <2>3. ProfileShown'
    BY <2>2 DEF ProfileShown
  <2>4. /\ \A s \in Pending' : s.op = "profile" => s.name = n
        /\ profile'.settled => Updates(n)' = {}
    BY <1>2, <1>3, <2>2
  <2>5. /\ profile'.online_time <= getOnlineTime(db, n)'
        /\ restarts' = 0 /\ profile'.settled /\ OneResource(n)' =>
             profile'.online_time + Uptime(n)' >= profile'.asked
    BY <1>1, <1>2, <1>3, <1>5, <2>1, <2>2
  <2> QED BY <1>3, <1>4, <1>5, <2>2, <2>3, <2>4, <2>5 DEF ShownInv
<1> QED BY <1>2, <1>6 DEF OnlineInv

LEMMA ProfileAnswered ==
  ASSUME OnlineInv, NEW t \in Pending, fetchProfileAnswer(t)
  PROVE  OnlineInv'
<1>0. PICK n : n = profile.name
  OBVIOUS
<1> DEFINE told == restarts = 0 /\ profile.settled /\ OneResource(n)
<1>1. /\ t.op = "profile" /\ profile.step = "read" /\ Commit(t, db) /\ process # "down"
      /\ profile' = [profile EXCEPT !.step = "answered", !.uptime = Uptime(t.name)]
      /\ UNCHANGED <<users_status, db, process, restarts, last_logons, now, online>>
  BY DEF fetchProfileAnswer, Commit
<1>2. /\ LogonInv' /\ RowsInv' /\ CreditInv' /\ Pending' \subseteq Pending
  BY <1>0, <1>1, ProfileStepUntouched
<1>3. /\ profile = [step |-> profile.step, name |-> n, type |-> profile.type,
                    ratings |-> profile.ratings, online_time |-> profile.online_time,
                    uptime |-> profile.uptime, asked |-> profile.asked,
                    settled |-> profile.settled]
      /\ n \in UserNames /\ profile.online_time \in Nat /\ profile.asked \in Nat
      /\ \A s \in Pending : s.op = "profile" => s.name = n
      /\ profile.online_time <= getOnlineTime(db, n)
      /\ told => profile.online_time + Uptime(n) >= profile.asked
  BY <1>0, <1>1 DEF OnlineInv, ShownInv, LogonsLocked
<1>4. \A s, r \in Pending' : s.op = "profile" /\ r.op = "profile" => s.name = r.name
  BY <1>2 DEF OnlineInv, ShownInv
<1>5. t.name = n /\ getOnlineTime(db, n) \in Nat /\ Uptime(n) \in Nat
  BY <1>1, <1>3, TimesAreNaturals DEF OnlineInv
<1>6. profile.online_time + Uptime(n) <= online[n]
  <2>1. Cardinality(SecondsQueued(n)) \in Nat
    BY <1>3, FS_CardinalityType DEF OnlineInv, CreditInv
  <2>2. /\ Credited(n) = getOnlineTime(db, n) + Cardinality(SecondsQueued(n)) + Uptime(n)
        /\ Credited(n) <= online[n] /\ online[n] \in Nat
    BY <1>1, <1>3 DEF OnlineInv, CreditInv, OnlineTimeCredited, Credited, LogonInv
  <2> QED BY <1>3, <1>5, <2>1, <2>2
<1>7. ShownInv'
  <2>1. OneResource(n)' <=> OneResource(n)
    BY DEF OneResource
  <2>2. /\ profile'.step = "answered" /\ profile'.name = n
        /\ profile'.settled = profile.settled /\ profile'.asked = profile.asked
        /\ profile'.online_time = profile.online_time /\ profile'.uptime = Uptime(n)
        /\ profile' = [step |-> profile'.step, name |-> n, type |-> profile'.type,
                       ratings |-> profile'.ratings, online_time |-> profile'.online_time,
                       uptime |-> profile'.uptime, asked |-> profile'.asked,
                       settled |-> profile'.settled]
    BY <1>0, <1>1, <1>3, <1>5
  <2>3. ProfileShown'
    BY <1>1, <1>3, <1>6, <2>1, <2>2 DEF ProfileShown
  <2>4. ~LogonsLocked'
    BY <2>2 DEF LogonsLocked
  <2> QED BY <1>3, <1>4, <1>5, <2>2, <2>3, <2>4 DEF ShownInv
<1> QED BY <1>2, <1>7 DEF OnlineInv

-----------------------------------------------------------------------------
(* The other steps.                                                        *)

LEMMA InsertedRows ==
  ASSUME RowsInv, NEW players, db' = insertGame(db, players)
  PROVE  RowsInv' /\ \A n : getOnlineTime(db, n)' = getOnlineTime(db, n)
<1> DEFINE names == {q[1] : q \in players}  tables == WithUsers(db, names)
<1>1. /\ {"users", "games"} \subseteq DOMAIN tables
      /\ tables.users = [n \in DOMAIN db.users \cup names |->
                           IF n \in DOMAIN db.users THEN db.users[n] ELSE NewUser]
  BY DEF WithUsers, RowsInv
<1>2. db' = [tables EXCEPT !.games = Append(@, players)]
  BY DEF insertGame
<1> HIDE DEF tables, names
<1>3. /\ {"users", "games"} \subseteq DOMAIN db' /\ DOMAIN db'.users = DOMAIN db.users \cup names
      /\ \A n \in DOMAIN db'.users :
           db'.users[n] = IF n \in DOMAIN db.users THEN db.users[n] ELSE NewUser
  BY <1>1, <1>2
<1>4. NewUser.online_time = 0 /\ "online_time" \in DOMAIN NewUser
  BY DEF NewUser
<1> QED BY <1>3, <1>4 DEF RowsInv, getOnlineTime, HasUser

(* A transaction that is neither an update nor a profile is queued.        *)
LEMMA AskedUntouched ==
  ASSUME OnlineInv, NEW t, t.op \notin {"online", "profile"}, QueueTransactions({t}),
         UNCHANGED <<users_status, db, process, restarts, last_logons, now, online, profile>>
  PROVE  OnlineInv'
<1> DEFINE S == {t}
<1>1. IsABag(transactions) /\ QueueTransactions(S)
  BY DEF OnlineInv, LogonInv
<1>2. \A s \in S : s = t
  OBVIOUS
<1> HIDE DEF S
<1>3. IsABag(transactions') /\ Pending' = Pending \cup S
  BY <1>1, QueuedPending
<1>4. \A n : Updates(n)' = Updates(n) /\ SecondsQueued(n)' = SecondsQueued(n)
  BY <1>1, <1>2, OthersQueued
<1>5. RowsInv'
  BY DEF OnlineInv, RowsInv
<1> QED BY <1>2, <1>3, <1>4, <1>5, OnlineUntouched

(* It is done.                                                             *)
LEMMA DoneUntouched ==
  ASSUME OnlineInv, NEW t, t.op \notin {"online", "profile"}, Commit(t, db),
         UNCHANGED <<users_status, process, restarts, last_logons, now, online, profile>>
  PROVE  OnlineInv'
<1>1. IsABag(transactions)
  BY DEF OnlineInv, LogonInv
<1>2. IsABag(transactions') /\ Pending' \subseteq Pending /\ db' = db
  BY <1>1, DonePending
<1>3. \A n : Updates(n)' = Updates(n) /\ SecondsQueued(n)' = SecondsQueued(n)
  BY <1>1, OtherDone
<1>4. RowsInv'
  BY <1>2 DEF OnlineInv, RowsInv
<1> QED BY <1>2, <1>3, <1>4, OnlineUntouched

LEMMA IdleUntouched ==
  ASSUME OnlineInv,
         UNCHANGED <<users_status, transactions, restarts, last_logons, now, online, profile>>,
         process' = process \/ (process # "down" /\ process' # "up"),
         db' = db \/ \E players : db' = insertGame(db, players)
  PROVE  OnlineInv'
<1>1. RowsInv' /\ \A n : getOnlineTime(db, n)' = getOnlineTime(db, n)
  BY InsertedRows DEF OnlineInv, RowsInv
<1>2. Pending' = Pending /\ \A n : Updates(n)' = Updates(n)
  BY DEF Pending, Updates
<1>3. \A n : SecondsQueued(n)' = SecondsQueued(n)
  BY <1>2 DEF SecondsQueued
<1>4. IsABag(transactions')
  BY DEF OnlineInv, LogonInv
<1> QED BY <1>1, <1>2, <1>3, <1>4, OnlineUntouched

LEMMA RatingKeeps ==
  ASSUME OnlineInv, NEW t, fetchRatingStep(t)
  PROVE  OnlineInv'
<1>1. t.op = "rating" /\ UNCHANGED <<last_logons, now, online, profile>>
  BY DEF fetchRatingStep, profile_vars, logon_vars
<1>2. CASE Throw(t)
  <2>1. /\ UNCHANGED <<users_status, db, restarts>>
        /\ process' = process \/ (process # "down" /\ process' # "up")
    BY <1>2 DEF Throw
  <2>2. /\ IsABag(transactions')
        /\ \A s \in Pending' : s \in Pending \/ s.op = "rating"
        /\ \A n : Updates(n)' = Updates(n) /\ SecondsQueued(n)' = SecondsQueued(n)
    BY <1>1, <1>2, RatingThrown DEF OnlineInv, LogonInv
  <2>3. RowsInv' /\ \A n : getOnlineTime(db, n)' = getOnlineTime(db, n)
    BY <2>1 DEF OnlineInv, RowsInv
  <2> QED BY <1>1, <2>1, <2>2, <2>3, OnlineUntouched
<1>3. CASE Commit(t, db) /\ UNCHANGED <<core_vars, users_status, inbox, process, restarts>>
  BY <1>1, <1>3, DoneUntouched
<1> QED BY <1>2, <1>3 DEF fetchRatingStep

LEMMA OnlineStep ==
  ASSUME OnlineInv, [OnlineNext \/ ProfileNext \/ SearchNext]_<<module_vars, profile_vars>>
  PROVE  OnlineInv'
<1>1. ASSUME NEW u \in Jid, NEW is_available \in BOOLEAN,
             \/ profileHandleUserStatus(u, is_available)
             \/ HandlePresence(u, is_available) /\ UNCHANGED profile_vars
      PROVE  OnlineInv'
  <2>1. CASE HandlePresence(u, is_available) /\ UNCHANGED profile_vars
    BY <2>1, IdleUntouched DEF HandlePresence, profile_vars, logon_vars
  <2> QED BY <1>1, <2>1, StatusKeepsOnline
<1>2. ASSUME NEW t \in Pending, updateOnlineTimeStep(t) PROVE OnlineInv'
  BY <1>2, UpdateKeeps
<1>3. CASE Tick
  BY <1>3, TickKeeps
<1>4. CASE onStop
  BY <1>4, StopKeeps
<1>5. CASE Stopped
  BY <1>5, IdleUntouched DEF Stopped, profile_vars, logon_vars
<1>6. ASSUME Restart(db), last_logons' = <<>>, profile' = NoProfile, UNCHANGED <<now, online>>
      PROVE  OnlineInv'
  BY <1>6, RestartKeepsOnline
<1>7. CASE Kill /\ UNCHANGED profile_vars
  BY <1>7, IdleUntouched DEF Kill, profile_vars, logon_vars
<1>8. ASSUME NEW u \in Jid, NEW name \in UserNames, handleProfile(u, name) PROVE OnlineInv'
  BY <1>8, ProfileAsked
<1>9. ASSUME NEW u \in Jid, NEW category, handleRating(u, category) PROVE OnlineInv'
  <2> DEFINE t == [op |-> "rating", category |-> category, attempt |-> 1]
  <2>1. /\ QueueTransactions({t}) /\ t.op = "rating"
        /\ UNCHANGED <<users_status, db, process, restarts, last_logons, now, online, profile>>
    BY <1>9 DEF handleRating, profile_vars, logon_vars
  <2> HIDE DEF t
  <2> QED BY <2>1, AskedUntouched
<1>10. ASSUME NEW t \in Pending, \/ fetchProfileLock(t) \/ fetchProfileRead(t)
                                 \/ fetchProfileAnswer(t) \/ fetchRatingStep(t)
       PROVE  OnlineInv'
  BY <1>10, ProfileLocked, ProfileRead, ProfileAnswered, RatingKeeps
<1>11. ASSUME NEW u, NEW player, NEW max_results, handleSearchGame(u, player, max_results)
       PROVE  OnlineInv'
  <2> DEFINE offset == IF reader.page = "none" THEN 0 ELSE reader.offset
             t == [op |-> "searchGame", player |-> player, offset |-> offset,
                   max_results |-> max_results, attempt |-> 1]
  <2>1. /\ QueueTransactions({t}) /\ t.op = "searchGame"
        /\ UNCHANGED <<users_status, db, process, restarts, last_logons, now, online, profile>>
    BY <1>11 DEF handleSearchGame, logon_vars
  <2> HIDE DEF t
  <2> QED BY <2>1, AskedUntouched
<1>12. ASSUME NEW players, StoreGame(players) PROVE OnlineInv'
  BY <1>12, IdleUntouched DEF StoreGame, profile_vars, logon_vars
<1>13. ASSUME NEW t, searchGameStep(t) PROVE OnlineInv'
  BY <1>13, DoneUntouched DEF searchGameStep, logon_vars
<1>14. CASE ReaderLeaves
  BY <1>14, IdleUntouched DEF ReaderLeaves, module_vars, logon_vars
<1>15. CASE UNCHANGED <<module_vars, profile_vars>>
  BY <1>15, IdleUntouched DEF module_vars, profile_vars, logon_vars
<1> QED
  BY <1>1, <1>2, <1>3, <1>4, <1>5, <1>6, <1>7, <1>8, <1>9, <1>10, <1>11, <1>12, <1>13, <1>14,
     <1>15 DEF OnlineNext, ProfileNext, SearchNext

LEMMA OnlineStart ==
  ASSUME NEW tables, {"users", "games"} \subseteq DOMAIN tables,
         \A n \in DOMAIN tables.users : /\ "online_time" \in DOMAIN tables.users[n]
                                        /\ tables.users[n].online_time \in Nat,
         ServerModuleInit(tables), ProfileInit
  PROVE  OnlineInv
<1>1. /\ db = tables /\ transactions = EmptyBag /\ process = "up" /\ restarts = 0
      /\ users_status = {} /\ last_logons = <<>> /\ now = 0 /\ profile = NoProfile
      /\ online = [n \in UserNames |-> getOnlineTime(db, n)]
  BY DEF ServerModuleInit, ProfileInit
<1>2. IsABag(transactions) /\ Pending = {} /\ DOMAIN last_logons = {}
  BY <1>1 DEF EmptyBag, SetToBag, IsABag, Pending, BagToSet
<1>3. RowsInv
  BY <1>1 DEF RowsInv
<1>4. \A n : getOnlineTime(db, n) \in Nat
  BY <1>3 DEF RowsInv, getOnlineTime, HasUser
<1>5. LogonInv
  BY <1>1, <1>2, <1>4 DEF LogonInv
<1>6. ASSUME NEW n \in UserNames
      PROVE  IsFiniteSet(SecondsQueued(n)) /\ Credited(n) = online[n] /\ online[n] \in Nat
  <2>1. SecondsQueued(n) = {}
    BY <1>2 DEF SecondsQueued, Updates
  <2>2. IsFiniteSet(SecondsQueued(n)) /\ Cardinality(SecondsQueued(n)) = 0
    BY <2>1, FS_EmptySet
  <2>3. Uptime(n) = 0
    BY <1>2 DEF Uptime
  <2> QED BY <1>1, <1>4, <2>2, <2>3 DEF Credited
<1>7. CreditInv
  BY <1>6 DEF CreditInv, OnlineTimeCredited
<1>8. ShownInv
  BY <1>1, <1>2 DEF ShownInv, NoProfile
<1> QED BY <1>3, <1>5, <1>7, <1>8 DEF OnlineInv

(* However the users' resources come and go, the updates of their online   *)
(* time interleave with profiles that are fetched, and the server is       *)
(* stopped, killed and started again, no second is credited twice nor to   *)
(* one who is not there, in the table or in a profile; and none is lost of *)
(* a user with one resource (_notifyUserStatus, onStop, fetchProfile).     *)
THEOREM OnlineTimeTrue ==
  ASSUME NEW users, NEW ratings,
         \A n \in DOMAIN users : /\ "online_time" \in DOMAIN users[n]
                                 /\ users[n].online_time \in Nat
  PROVE  ProfileSpec(NewTables(users, ratings)) => []ProfileTrue
<1> DEFINE tables == NewTables(users, ratings)
<1>1. {"users", "games"} \subseteq DOMAIN tables /\ tables.users = users
  BY DEF NewTables
<1> HIDE DEF tables
<1>2. ServerModuleInit(tables) /\ ProfileInit => OnlineInv
  BY <1>1, OnlineStart
<1>3. OnlineInv /\ [OnlineNext \/ ProfileNext \/ SearchNext]_<<module_vars, profile_vars>>
        => OnlineInv'
  BY OnlineStep
<1>4. OnlineInv => ProfileTrue
  <2> SUFFICES ASSUME OnlineInv PROVE ProfileTrue
    OBVIOUS
  <2>1. profile.step = "answered" => ProfileShown
    BY DEF OnlineInv, ShownInv
  <2> QED BY <2>1 DEF OnlineInv, CreditInv, ProfileTrue, ProfileShown
<1>5. ProfileSpec(tables) => []ProfileTrue
  BY <1>2, <1>3, <1>4, PTL DEF ProfileSpec
<1> QED BY <1>5 DEF tables

-----------------------------------------------------------------------------
(* Pages of the games of a player, latest first.                           *)

LEMMA RankBounds ==
  ASSUME NEW n \in Nat, NEW ids, ids \subseteq 1..n, NEW id \in ids
  PROVE  /\ IsFiniteSet(ids) /\ Cardinality(ids) \in Nat
         /\ Rank(ids, id) \in 0..Cardinality(ids) - 1
         /\ \A jd \in ids : Rank(ids, jd) = Rank(ids, id) => jd = id
<1>0. \A j \in ids : j \in 1..n /\ j \in Int
  OBVIOUS
<1>1. \A T : T \subseteq 1..n => IsFiniteSet(T) /\ Cardinality(T) \in Nat
  <2>1. IsFiniteSet(1..n)
    BY FS_Interval
  <2> QED BY <2>1, FS_Subset, FS_CardinalityType
<1>2. ASSUME NEW S, S \subseteq 1..n, NEW T, T \subseteq S, S # T
      PROVE  Cardinality(T) < Cardinality(S)
  <2>1. IsFiniteSet(S) /\ Cardinality(S) \in Nat /\ Cardinality(T) \in Nat
    BY <1>1, <1>2
  <2>2. Cardinality(T) <= Cardinality(S) /\ Cardinality(T) # Cardinality(S)
    BY <1>2, <2>1, FS_Subset
  <2> QED BY <2>1, <2>2
<1>3. Rank(ids, id) \in Nat /\ Rank(ids, id) < Cardinality(ids)
  <2> DEFINE T == {j \in ids : j > id}
  <2>1. id \notin T
    BY <1>0
  <2>2. T \subseteq ids
    OBVIOUS
  <2> HIDE DEF T
  <2>3. Cardinality(T) \in Nat /\ Cardinality(T) < Cardinality(ids)
    <3>1. T \subseteq 1..n /\ T # ids
      BY <2>1, <2>2
    <3> QED BY <1>1, <1>2, <2>2, <3>1
  <2> QED BY <2>3 DEF Rank, T
<1>4. ASSUME NEW i \in ids, NEW j \in ids, i < j PROVE Rank(ids, j) < Rank(ids, i)
  <2> DEFINE S == {h \in ids : h > i}  T == {h \in ids : h > j}
  <2>1. j \in S /\ j \notin T
    BY <1>0, <1>4
  <2>2. ASSUME NEW h \in T PROVE h \in S
    <3>1. h \in ids /\ h > j /\ h \in Int /\ i \in Int /\ j \in Int
      BY <1>0
    <3> QED BY <1>4, <3>1
  <2>3. S \subseteq ids
    OBVIOUS
  <2> HIDE DEF S, T
  <2>4. Cardinality(T) < Cardinality(S)
    BY <1>2, <2>1, <2>2, <2>3
  <2> QED BY <2>4 DEF Rank, S, T
<1>5. ASSUME NEW jd \in ids, Rank(ids, jd) = Rank(ids, id) PROVE jd = id
  <2>1. Rank(ids, id) \in Nat
    BY <1>3
  <2>2. ~(jd < id) /\ ~(id < jd)
    BY <1>4, <1>5, <2>1
  <2> QED BY <1>0, <2>2
<1>6. IsFiniteSet(ids) /\ Cardinality(ids) \in Nat
  BY <1>1
<1>7. Rank(ids, id) \in 0..Cardinality(ids) - 1
  BY <1>3, <1>6
<1> QED BY <1>5, <1>6, <1>7

LEMMA DescendingAt ==
  ASSUME NEW n \in Nat, NEW ids, ids \subseteq 1..n, NEW id \in ids
  PROVE  Descending(ids)[Rank(ids, id) + 1] = id
<1> DEFINE r == Rank(ids, id)  k == Cardinality(ids)
<1>1. k \in Nat /\ r \in 0..k - 1 /\ \A jd \in ids : Rank(ids, jd) = r => jd = id
  BY RankBounds
<1>2. id = CHOOSE jd \in ids : Rank(ids, jd) = r
  BY <1>1
<1>3. r + 1 \in 1..k /\ (r + 1) - 1 = r
  <2> HIDE DEF r, k
  <2> QED BY <1>1
<1>4. \A i \in 1..k : Descending(ids)[i] = CHOOSE jd \in ids : Rank(ids, jd) = i - 1
  BY DEF Descending
<1>5. Descending(ids)[r + 1] = CHOOSE jd \in ids : Rank(ids, jd) = r
  BY <1>3, <1>4
<1> QED BY <1>2, <1>5

(* What a page has, of k rows that are sorted.                             *)
IsPage(page, sorted, k, offset, max) ==
  /\ Len(page) \in Nat /\ DOMAIN page = 1..Len(page) /\ Len(page) <= max
  /\ Len(page) < max => k <= offset + Len(page)
  /\ \A i \in 1..Len(page) : page[i] = sorted[offset + i]
  /\ page \in Seq(Range(sorted))

(* A page has the rows from its offset on, as many as there are.           *)
LEMMA PageRows ==
  ASSUME NEW sorted, NEW k \in Nat, DOMAIN sorted = 1..k, Len(sorted) = k,
         NEW offset \in Nat, NEW max \in Nat, NEW page, page = Page(sorted, offset, max)
  PROVE  IsPage(page, sorted, k, offset, max)
<1> DEFINE last == IF offset + max < k THEN offset + max ELSE k
<1>1. last \in Nat /\ page = SubSeq(sorted, offset + 1, last)
  BY DEF Page
<1>2. \A i \in offset + 1..last : sorted[i] \in Range(sorted)
  BY DEF Range
<1>3. /\ page \in Seq(Range(sorted))
      /\ Len(page) = IF offset + 1 <= last THEN last - (offset + 1) + 1 ELSE 0
      /\ \A i \in 1..last - (offset + 1) + 1 : page[i] = sorted[offset + 1 + i - 1]
  <2> HIDE DEF last
  <2>1. offset + 1 \in Int /\ last \in Int
    BY <1>1
  <2> HIDE <1>1
  <2> QED BY <1>1, <1>2, <2>1, SubSeqProperties
<1>4. DOMAIN page = 1..Len(page)
  BY <1>3, LenProperties
<1>5. Len(page) \in Nat /\ Len(page) <= max /\ (Len(page) < max => k <= offset + Len(page))
  BY <1>1, <1>3
<1>6. \A i \in 1..Len(page) : page[i] = sorted[offset + i]
  <2> SUFFICES ASSUME NEW i \in 1..Len(page) PROVE page[i] = sorted[offset + i]
    OBVIOUS
  <2>1. i \in 1..last - (offset + 1) + 1 /\ offset + 1 + i - 1 = offset + i
    BY <1>1, <1>3, <1>5
  <2> QED BY <1>3, <2>1
<1> QED BY <1>3, <1>4, <1>5, <1>6 DEF IsPage

(* What the answer to a search covers.                                     *)
LEMMA PageCovers ==
  ASSUME NEW n \in Nat, NEW ids, ids \subseteq 1..n, NEW offset \in Nat, NEW max \in Nat,
         NEW found, found = Page(Descending(ids), offset, Asked(max)),
         NEW answer, answer = IF Len(found) > max THEN Front(found) ELSE found
  PROVE  /\ Len(answer) \in Nat
         /\ \A id \in ids : Rank(ids, id) >= offset /\ Rank(ids, id) < offset + Len(answer)
              => id \in Range(answer)
         /\ Len(found) <= max => \A id \in ids : Rank(ids, id) < offset + Len(answer)
<1> DEFINE sorted == Descending(ids)  k == Cardinality(ids)  total == max + 1
<1>1. k \in Nat
  <2>1. IsFiniteSet(1..n)
    BY FS_Interval
  <2> QED BY <2>1, FS_Subset, FS_CardinalityType
<1>2. DOMAIN sorted = 1..k
  BY DEF Descending
<1>3. \A id \in ids : Rank(ids, id) \in 0..k - 1 /\ sorted[Rank(ids, id) + 1] = id
  BY RankBounds, DescendingAt
<1> HIDE DEF sorted, k
<1>4. Len(sorted) = k
  BY <1>1, <1>2
<1>5. total \in Nat /\ found = Page(sorted, offset, total)
  BY DEF sorted, Asked
<1> HIDE DEF total
<1>6. /\ Len(found) \in Nat /\ DOMAIN found = 1..Len(found) /\ Len(found) <= total
      /\ Len(found) < total => k <= offset + Len(found)
      /\ \A i \in 1..Len(found) : found[i] = sorted[offset + i]
      /\ found \in Seq(Range(sorted))
  <2>1. IsPage(found, sorted, k, offset, total)
    BY ONLY <1>1, <1>2, <1>4, <1>5, offset \in Nat, PageRows
  <2> QED BY ONLY <2>1, Zenon DEF IsPage
<1>7. /\ Len(answer) = IF Len(found) > max THEN max ELSE Len(found)
      /\ DOMAIN answer = 1..Len(answer)
      /\ \A i \in 1..Len(answer) : answer[i] = sorted[offset + i]
  <2>1. CASE Len(found) > max
    <3> DEFINE last == Len(found) - 1
    <3>0. Len(found) \in Nat /\ Len(found) <= max + 1
      BY <1>6 DEF total
    <3>1. Len(found) = max + 1 /\ last = max
      BY ONLY <3>0, <2>1, max \in Nat
    <3>2. answer = SubSeq(found, 1, last)
      BY <2>1 DEF Front
    <3> HIDE DEF last
    <3>3. \A i \in 1..last : found[i] \in Range(sorted) /\ found[i] = sorted[offset + i]
      BY <1>6, <3>1, ElementOfSeq
    <3>4. /\ answer \in Seq(Range(sorted))
          /\ Len(answer) = IF 1 <= last THEN last - 1 + 1 ELSE 0
          /\ \A i \in 1..last - 1 + 1 : answer[i] = found[1 + i - 1]
      <4>1. 1 \in Int /\ last \in Int
        BY <3>1
      <4> QED BY <3>2, <3>3, <4>1, SubSeqProperties
    <3>5. Len(answer) = max
      BY <3>1, <3>4
    <3>6. DOMAIN answer = 1..Len(answer)
      BY <3>4, LenProperties
    <3>7. ASSUME NEW i \in 1..Len(answer) PROVE answer[i] = sorted[offset + i]
      <4>1. i \in 1..last /\ i \in 1..last - 1 + 1 /\ 1 + i - 1 = i
        BY <3>1, <3>5
      <4> QED BY <3>3, <3>4, <4>1
    <3> QED BY <2>1, <3>5, <3>6, <3>7
  <2>2. CASE ~(Len(found) > max)
    BY <1>6, <2>2
  <2> QED BY <2>1, <2>2
<1>8. Len(answer) \in Nat /\ (Len(found) <= max => k <= offset + Len(answer))
  BY <1>1, <1>6, <1>7 DEF total
<1>9. ASSUME NEW id \in ids, Rank(ids, id) >= offset, Rank(ids, id) < offset + Len(answer)
      PROVE  id \in Range(answer)
  <2> DEFINE r == Rank(ids, id)  i == r + 1 - offset
  <2>1. r \in Nat /\ sorted[r + 1] = id
    BY <1>1, <1>3
  <2>2. r >= offset /\ r < offset + Len(answer)
    BY <1>9
  <2> HIDE DEF r
  <2>3. i \in 1..Len(answer) /\ offset + i = r + 1
    BY <1>8, <2>1, <2>2
  <2> HIDE DEF i
  <2>4. answer[i] = id
    BY <1>7, <2>1, <2>3
  <2> QED BY <1>7, <2>3, <2>4 DEF Range
<1>10. ASSUME Len(found) <= max, NEW id \in ids PROVE Rank(ids, id) < offset + Len(answer)
  <2>1. Rank(ids, id) \in 0..k - 1
    BY <1>3
  <2> QED BY <1>1, <1>8, <1>10, <2>1
<1> QED BY <1>8, <1>9, <1>10

-----------------------------------------------------------------------------
(* The client who reads pages.                                             *)

SearchOf(reader1) ==
  [op |-> "searchGame", player |-> reader1.player, offset |-> reader1.offset,
   max_results |-> reader1.max_results, attempt |-> 1]

AskedInv ==
  /\ IsABag(transactions)
  /\ \A t \in Pending : t.op = "searchGame" =>
       reader.page = "asked" /\ t = SearchOf(reader) /\ Copies(t, transactions) = 1

GamesInv ==
  /\ {"users", "games"} \subseteq DOMAIN db
  /\ db.games \in Seq(GamePlayers)
  /\ \A id \in DOMAIN db.games : \A q \in db.games[id] : q[1] \in DOMAIN db.users

SeenInv ==
  /\ reader.page \in {"none", "asked", "more", "last"}
  /\ reader.page # "none" =>
       LET ids == GameIds(db, reader.player) IN
       /\ reader = [page |-> reader.page, player |-> reader.player, offset |-> reader.offset,
                    max_results |-> reader.max_results, seen |-> reader.seen,
                    stored |-> reader.stored]
       /\ reader.offset \in Nat /\ reader.max_results \in Nat
       /\ reader.stored \subseteq DOMAIN db.games
       /\ reader.page # "last" =>
            \A id \in reader.stored \cap ids : Rank(ids, id) < reader.offset => id \in reader.seen
       /\ PagesComplete

PagesInv == AskedInv /\ GamesInv /\ SeenInv

LEMMA GameIdsFinite ==
  ASSUME GamesInv, NEW p
  PROVE  Len(db.games) \in Nat /\ GameIds(db, p) \subseteq 1..Len(db.games)
BY LenProperties DEF GamesInv, GameIds

(* A search finds a page of all the games of the player.                   *)
LEMMA SearchFinds ==
  ASSUME GamesInv, NEW p, NEW offset \in Nat, NEW max \in Nat,
         NEW found, found = searchGames(db, {p}, offset, max)
  PROVE  \/ found = Page(Descending(GameIds(db, p)), offset, max)
         \/ found = <<>> /\ GameIds(db, p) = {}
<1>1. {id \in DOMAIN db.games : \A q \in {p} : Played(q, db.games[id])} = GameIds(db, p)
  BY DEF GameIds
<1>2. CASE HasUser(db, p[1])
  BY <1>1, <1>2 DEF searchGames
<1>3. CASE ~HasUser(db, p[1])
  <2>1. found = <<>>
    BY <1>3 DEF searchGames
  <2>2. GameIds(db, p) = {}
    BY <1>3 DEF GamesInv, GameIds, Played, HasUser
  <2> QED BY <2>1, <2>2
<1> QED BY <1>2, <1>3

LEMMA ReaderUntouched ==
  ASSUME PagesInv, reader' = reader, IsABag(transactions'),
         \A s \in Pending' : s.op = "searchGame" =>
           s \in Pending /\ Copies(s, transactions') = Copies(s, transactions),
         {"users", "games"} \subseteq DOMAIN db', db'.games = db.games,
         DOMAIN db.users \subseteq DOMAIN db'.users
  PROVE  PagesInv'
<1>1. AskedInv'
  BY DEF PagesInv, AskedInv, SearchOf
<1>2. GamesInv'
  BY DEF PagesInv, GamesInv
<1>3. \A p : GameIds(db, p)' = GameIds(db, p)
  BY DEF GameIds
<1>4. SeenInv'
  <2>1. PICK r : r = reader
    OBVIOUS
  <2>2. reader' = r
    BY <2>1
  <2> QED BY <1>3, <2>1, <2>2 DEF PagesInv, SeenInv, PagesComplete
<1> QED BY <1>1, <1>2, <1>4 DEF PagesInv

(* Transactions that are no searches are queued, or one is done.           *)
LEMMA OthersAsked ==
  ASSUME PagesInv, NEW S, QueueTransactions(S), \A s \in S : s.op # "searchGame",
         UNCHANGED <<db, reader>>
  PROVE  PagesInv'
<1>1. IsABag(transactions)
  BY DEF PagesInv, AskedInv
<1>2. /\ IsABag(transactions') /\ Pending' = Pending \cup S
      /\ \A t : Copies(t, transactions') = Copies(t, transactions) + (IF t \in S THEN 1 ELSE 0)
  BY <1>1, QueuedPending
<1>3. ASSUME NEW s \in Pending', s.op = "searchGame"
      PROVE  s \in Pending /\ Copies(s, transactions') = Copies(s, transactions)
  <2>1. s \notin S /\ s \in Pending
    BY <1>2, <1>3
  <2>2. Copies(s, transactions) \in Nat
    BY <1>1 DEF Copies, IsABag
  <2> QED BY <1>2, <2>1, <2>2
<1>4. {"users", "games"} \subseteq DOMAIN db'
  BY DEF PagesInv, GamesInv
<1> QED BY <1>2, <1>3, <1>4, ReaderUntouched

LEMMA OthersDone ==
  ASSUME PagesInv, NEW t, t.op # "searchGame", NEW tables, Commit(t, tables),
         {"users", "games"} \subseteq DOMAIN tables, tables.games = db.games,
         DOMAIN db.users \subseteq DOMAIN tables.users, reader' = reader
  PROVE  PagesInv'
<1>1. IsABag(transactions)
  BY DEF PagesInv, AskedInv
<1>2. /\ IsABag(transactions') /\ Pending' \subseteq Pending /\ db' = tables
      /\ \A s : s # t => Copies(s, transactions') = Copies(s, transactions)
  BY <1>1, DonePending
<1>3. \A s \in Pending' : s.op = "searchGame" =>
        s \in Pending /\ Copies(s, transactions') = Copies(s, transactions)
  BY <1>2
<1> QED BY <1>2, <1>3, ReaderUntouched

LEMMA ReaderIdle ==
  ASSUME PagesInv, UNCHANGED <<db, transactions, reader>>
  PROVE  PagesInv'
<1>1. Pending' = Pending /\ IsABag(transactions') /\ {"users", "games"} \subseteq DOMAIN db'
  BY DEF Pending, PagesInv, AskedInv, GamesInv
<1> QED BY <1>1, ReaderUntouched

LEMMA UpdatedGames ==
  ASSUME GamesInv, NEW name, NEW seconds, NEW tables,
         tables = updateOnlineTime(db, name, seconds)
  PROVE  /\ {"users", "games"} \subseteq DOMAIN tables /\ tables.games = db.games
         /\ DOMAIN db.users \subseteq DOMAIN tables.users
<1> DEFINE with == WithUser(db, name)
<1>1. /\ {"users", "games"} \subseteq DOMAIN with /\ with.games = db.games
      /\ DOMAIN db.users \subseteq DOMAIN with.users
  BY DEF WithUser, HasUser, Put, GamesInv
<1>2. tables = [with EXCEPT !.users[name].online_time = @ + seconds]
  BY DEF updateOnlineTime
<1> HIDE DEF with
<1> QED BY <1>1, <1>2

(* A game ends while the client reads: the ids grow, and so do the ranks.  *)
LEMMA GameStored ==
  ASSUME PagesInv, NEW players \in GamePlayers, StoreGame(players)
  PROVE  PagesInv'
<1> DEFINE names == {q[1] : q \in players}  tables == WithUsers(db, names)  n == Len(db.games)
<1>1. db' = insertGame(db, players) /\ UNCHANGED <<transactions, reader>>
  BY DEF StoreGame, profile_vars
<1>2. GamesInv /\ AskedInv /\ SeenInv
  BY DEF PagesInv
<1>3. /\ {"users", "games"} \subseteq DOMAIN tables /\ tables.games = db.games
      /\ DOMAIN tables.users = DOMAIN db.users \cup names
  BY <1>2 DEF WithUsers, GamesInv
<1>4. db' = [tables EXCEPT !.games = Append(@, players)]
  BY <1>1 DEF insertGame
<1> HIDE DEF tables
<1>5. /\ {"users", "games"} \subseteq DOMAIN db' /\ db'.games = Append(db.games, players)
      /\ db'.users = tables.users
  BY <1>3, <1>4
<1>6. /\ n \in Nat /\ DOMAIN db.games = 1..n /\ db'.games \in Seq(GamePlayers)
      /\ DOMAIN db'.games = DOMAIN db.games \cup {n + 1} /\ db'.games[n + 1] = players
      /\ \A id \in DOMAIN db.games : db'.games[id] = db.games[id]
  BY <1>2, <1>5 DEF GamesInv
<1> HIDE DEF n
<1>7. GamesInv'
  BY <1>2, <1>3, <1>5, <1>6 DEF GamesInv
<1>8. AskedInv'
  BY <1>1, <1>2 DEF AskedInv, SearchOf, Pending
<1>9. SeenInv'
  <2>1. PICK r : r = reader
    OBVIOUS
  <2>2. r' = r /\ reader' = r
    BY <1>1, <2>1
  <2>3. PICK old : old = GameIds(db, r.player)
    OBVIOUS
  <2>4. PICK new : new = GameIds(db, r.player)'
    OBVIOUS
  <2>5. old \subseteq new /\ new \cap DOMAIN db.games = old
    BY <1>6, <2>3, <2>4, n + 1 \notin 1..n DEF GameIds
  <2>6. new \subseteq 1..n + 1
    BY <1>6, <2>4 DEF GameIds
  <2>7. ASSUME NEW id \in old PROVE Rank(old, id) <= Rank(new, id)
                                    /\ Rank(old, id) \in Nat /\ Rank(new, id) \in Nat
    <3> DEFINE S == {j \in new : j > id}  T == {j \in old : j > id}
    <3>1. IsFiniteSet(1..n + 1)
      BY <1>6, FS_Interval
    <3>2. T \subseteq S /\ S \subseteq 1..n + 1
      BY <2>5, <2>6
    <3> HIDE DEF S, T
    <3>3. IsFiniteSet(S) /\ IsFiniteSet(T)
      BY <3>1, <3>2, FS_Subset
    <3>4. Cardinality(T) <= Cardinality(S) /\ Cardinality(T) \in Nat /\ Cardinality(S) \in Nat
      BY <3>2, <3>3, FS_Subset, FS_CardinalityType
    <3> QED BY <3>4 DEF Rank, S, T
  <2>8. CASE r.page = "none"
    BY <2>2, <2>8 DEF SeenInv, PagesComplete
  <2>9. CASE r.page # "none"
    <3>1. /\ r = [page |-> r.page, player |-> r.player, offset |-> r.offset,
                   max_results |-> r.max_results, seen |-> r.seen, stored |-> r.stored]
          /\ r.page \in {"asked", "more", "last"} /\ r.offset \in Nat /\ r.max_results \in Nat
          /\ r.stored \subseteq DOMAIN db.games
          /\ r.page # "last" => \A id \in r.stored \cap old : Rank(old, id) < r.offset => id \in r.seen
          /\ r.page = "last" => r.stored \cap old \subseteq r.seen
      BY <1>2, <2>1, <2>3, <2>9 DEF SeenInv, PagesComplete
    <3>2. r.stored \cap new = r.stored \cap old
      BY <2>5, <3>1
    <3>3. r.page # "last" => \A id \in r.stored \cap new : Rank(new, id) < r.offset => id \in r.seen
      BY <2>7, <3>1, <3>2
    <3>4. r.page = "last" => r.stored \cap new \subseteq r.seen
      BY <3>1, <3>2
    <3>5. r.stored \subseteq DOMAIN db'.games
      BY <1>6, <3>1
    <3> QED BY <2>2, <2>4, <3>1, <3>3, <3>4, <3>5 DEF SeenInv, PagesComplete
  <2> QED BY <2>8, <2>9
<1> QED BY <1>7, <1>8, <1>9 DEF PagesInv

(* The first page, or the one behind those the client has, is asked for.   *)
LEMMA SearchAsked ==
  ASSUME PagesInv, NEW u, NEW player, NEW max_results \in Results,
         handleSearchGame(u, player, max_results)
  PROVE  PagesInv'
<1> DEFINE first == reader.page = "none"
           offset == IF first THEN 0 ELSE reader.offset
           asked == [page |-> "asked", player |-> player, offset |-> offset,
                     max_results |-> max_results,
                     seen |-> IF first THEN {} ELSE reader.seen,
                     stored |-> IF first THEN DOMAIN db.games ELSE reader.stored]
           t == [op |-> "searchGame", player |-> player, offset |-> offset,
                 max_results |-> max_results, attempt |-> 1]
<1>1. /\ reader.page \in {"none", "more"} /\ QueueTransactions({t}) /\ reader' = asked
      /\ ~first => reader.player = player /\ reader.max_results = max_results
      /\ db' = db
  BY DEF handleSearchGame
<1>2. GamesInv /\ AskedInv /\ SeenInv /\ GamesInv'
  BY <1>1 DEF PagesInv, GamesInv
<1>3. offset \in Nat /\ max_results \in Nat
  BY <1>2, ResultsAssumption DEF SeenInv
<1>4. AskedInv'
  <2> DEFINE S == {t}
  <2>1. IsABag(transactions) /\ QueueTransactions(S)
    BY <1>1, <1>2 DEF AskedInv
  <2>2. \A s \in S : s = t
    OBVIOUS
  <2>3. SearchOf(asked) = t /\ asked.page = "asked"
    BY DEF SearchOf
  <2>4. \A s \in Pending : s.op # "searchGame"
    BY <1>1, <1>2 DEF AskedInv
  <2>5. t \in S
    OBVIOUS
  <2> HIDE DEF S, t, asked
  <2>6. /\ IsABag(transactions') /\ Pending' = Pending \cup S
        /\ Copies(t, transactions') = Copies(t, transactions) + (IF t \in S THEN 1 ELSE 0)
    BY <2>1, QueuedPending
  <2>7. t.op = "searchGame"
    BY DEF t
  <2>8. Copies(t, transactions) = 0
    BY <2>1, <2>4, <2>7 DEF Pending, BagToSet, Copies
  <2>9. reader' = asked
    BY <1>1
  <2> QED BY <2>2, <2>3, <2>4, <2>5, <2>6, <2>8, <2>9 DEF AskedInv
<1>5. SeenInv'
  <2>1. PICK ids : ids = GameIds(db, player)
    OBVIOUS
  <2>2. GameIds(db, player)' = ids
    BY <1>1, <2>1 DEF GameIds
  <2>3. ASSUME NEW id \in asked.stored \cap ids, Rank(ids, id) < asked.offset
        PROVE  id \in asked.seen
    <3>1. CASE first
      <4>1. Rank(ids, id) \in Nat
        <5>1. Len(db.games) \in Nat /\ ids \subseteq 1..Len(db.games)
          BY <1>2, <2>1, GameIdsFinite
        <5>2. Rank(ids, id) \in 0..Cardinality(ids) - 1
          BY <5>1, RankBounds
        <5> QED BY <5>2
      <4> QED BY <2>3, <3>1, <4>1
    <3>2. CASE ~first
      BY <1>1, <1>2, <2>1, <2>3, <3>2 DEF SeenInv
    <3> QED BY <3>1, <3>2
  <2>4. asked.stored \subseteq DOMAIN db'.games
    BY <1>1, <1>2 DEF SeenInv
  <2>5. /\ asked = [page |-> asked.page, player |-> asked.player, offset |-> asked.offset,
                    max_results |-> asked.max_results, seen |-> asked.seen,
                    stored |-> asked.stored]
        /\ asked.page = "asked" /\ asked.player = player
        /\ asked.offset \in Nat /\ asked.max_results \in Nat
    BY <1>3
  <2>6. reader' = asked
    BY <1>1
  <2> HIDE DEF asked
  <2> QED BY <2>2, <2>3, <2>4, <2>5, <2>6 DEF SeenInv, PagesComplete
<1> QED BY <1>2, <1>4, <1>5 DEF PagesInv

LEMMA SearchAnswered ==
  ASSUME PagesInv, NEW t \in Pending, searchGameStep(t)
  PROVE  PagesInv'
<1>0. PICK r : r = reader
  OBVIOUS
<1>1. PICK ids : ids = GameIds(db, r.player)
  OBVIOUS
<1>2. GamesInv /\ AskedInv /\ SeenInv
  BY DEF PagesInv
<1>3. /\ t.op = "searchGame" /\ Commit(t, db) /\ db' = db
      /\ t = SearchOf(r) /\ r.page = "asked" /\ Copies(t, transactions) = 1
  BY <1>0, <1>2 DEF searchGameStep, Commit, AskedInv
<1>4. t.player = r.player /\ t.offset = r.offset /\ t.max_results = r.max_results
  BY <1>3 DEF SearchOf
<1>5. /\ r = [page |-> r.page, player |-> r.player, offset |-> r.offset,
              max_results |-> r.max_results, seen |-> r.seen, stored |-> r.stored]
      /\ r.offset \in Nat /\ r.max_results \in Nat /\ r.stored \subseteq DOMAIN db.games
      /\ \A id \in r.stored \cap ids : Rank(ids, id) < r.offset => id \in r.seen
  BY <1>0, <1>1, <1>2, <1>3 DEF SeenInv
<1>6. PICK found : found = searchGames(db, {t.player}, t.offset, Asked(t.max_results))
  OBVIOUS
<1>7. PICK answer : answer = IF Len(found) > t.max_results THEN Front(found) ELSE found
  OBVIOUS
<1>8. reader' = [r EXCEPT !.page = IF Len(found) > t.max_results THEN "more" ELSE "last",
                          !.offset = @ + Len(answer), !.seen = @ \cup Range(answer)]
  BY <1>0, <1>6, <1>7 DEF searchGameStep
<1>9. /\ Len(answer) \in Nat
      /\ \A id \in ids : Rank(ids, id) >= r.offset /\ Rank(ids, id) < r.offset + Len(answer)
           => id \in Range(answer)
      /\ Len(found) <= r.max_results =>
           \A id \in ids : Rank(ids, id) < r.offset + Len(answer)
      /\ Len(found) \in Nat
  <2>1. Len(db.games) \in Nat /\ ids \subseteq 1..Len(db.games)
    BY <1>1, <1>2, GameIdsFinite
  <2>2. CASE found = Page(Descending(ids), r.offset, Asked(r.max_results))
    <3>1. answer = IF Len(found) > r.max_results THEN Front(found) ELSE found
      BY <1>4, <1>7
    <3>2. Len(found) \in Nat
      <4> DEFINE sorted == Descending(ids)  k == Cardinality(ids)  total == Asked(r.max_results)
      <4>1. k \in Nat
        <5>1. IsFiniteSet(1..Len(db.games))
          BY <2>1, FS_Interval
        <5> QED BY <2>1, <5>1, FS_Subset, FS_CardinalityType
      <4>2. DOMAIN sorted = 1..k
        BY DEF Descending
      <4>3. total \in Nat
        BY <1>5 DEF Asked
      <4> HIDE DEF sorted, k, total
      <4>4. Len(sorted) = k
        BY <4>1, <4>2
      <4>5. found = Page(sorted, r.offset, total)
        BY <2>2 DEF sorted, total
      <4> QED BY ONLY <1>5, <4>1, <4>2, <4>3, <4>4, <4>5, PageRows
    <3> DEFINE n == Len(db.games)  offset == r.offset  max == r.max_results
    <3>3. /\ n \in Nat /\ ids \subseteq 1..n /\ offset \in Nat /\ max \in Nat
          /\ found = Page(Descending(ids), offset, Asked(max))
          /\ answer = IF Len(found) > max THEN Front(found) ELSE found
      BY <1>5, <2>1, <2>2, <3>1
    <3> HIDE DEF n, offset, max
    <3>4. /\ Len(answer) \in Nat
          /\ \A id \in ids : Rank(ids, id) >= offset /\ Rank(ids, id) < offset + Len(answer)
               => id \in Range(answer)
          /\ Len(found) <= max => \A id \in ids : Rank(ids, id) < offset + Len(answer)
      BY ONLY <3>3, PageCovers
    <3> QED BY <3>2, <3>4 DEF offset, max
  <2>3. CASE found = <<>> /\ ids = {}
    BY <1>4, <1>5, <1>7, <2>3
  <2>4. Asked(r.max_results) \in Nat
    BY <1>5 DEF Asked
  <2> QED BY <1>1, <1>2, <1>4, <1>5, <1>6, <2>2, <2>3, <2>4, SearchFinds
<1>10. /\ IsABag(transactions') /\ Pending' \subseteq Pending /\ t \notin Pending'
  <2>1. /\ IsABag(transactions') /\ Pending' \subseteq Pending
        /\ Copies(t, transactions') = Copies(t, transactions) - 1
    BY <1>2, <1>3, DonePending DEF AskedInv
  <2>2. Copies(t, transactions') = 0
    BY <1>3, <2>1
  <2> QED BY <2>1, <2>2 DEF Copies, IsABag, Pending, BagToSet
<1>11. AskedInv'
  <2>1. \A s \in Pending' : s.op # "searchGame"
    BY <1>0, <1>2, <1>3, <1>10 DEF AskedInv
  <2> QED BY <1>10, <2>1 DEF AskedInv
<1>12. GamesInv'
  BY <1>2, <1>3 DEF GamesInv
<1>13. SeenInv'
  <2>1. PICK q : q = reader'
    OBVIOUS
  <2>2. /\ q = [page |-> q.page, player |-> q.player, offset |-> q.offset,
                max_results |-> q.max_results, seen |-> q.seen, stored |-> q.stored]
        /\ q.page = (IF Len(found) > r.max_results THEN "more" ELSE "last")
        /\ q.player = r.player /\ q.offset = r.offset + Len(answer)
        /\ q.max_results = r.max_results /\ q.seen = r.seen \cup Range(answer)
        /\ q.stored = r.stored
    BY <1>4, <1>5, <1>8, <2>1
  <2>3. \A id \in ids : Rank(ids, id) \in Nat
    <3>1. Len(db.games) \in Nat /\ ids \subseteq 1..Len(db.games)
      BY <1>1, <1>2, GameIdsFinite
    <3>2. \A id \in ids : Rank(ids, id) \in 0..Cardinality(ids) - 1
      BY <3>1, RankBounds
    <3> QED BY <3>2
  <2>4. \A id \in r.stored \cap ids : Rank(ids, id) < q.offset => id \in q.seen
    BY <1>5, <1>9, <2>2, <2>3
  <2>5. q.page = "last" => r.stored \cap ids \subseteq q.seen
    BY <1>5, <1>9, <2>2, <2>4
  <2>6. GameIds(db, q.player)' = ids
    BY <1>1, <1>3, <2>2 DEF GameIds
  <2>7. q.offset \in Nat
    BY <1>5, <1>9, <2>2
  <2>8. reader' = q /\ db' = db
    BY <1>3, <2>1
  <2> HIDE <2>1
  <2> QED BY <1>5, <2>2, <2>4, <2>5, <2>6, <2>7, <2>8 DEF SeenInv, PagesComplete
<1> QED BY <1>11, <1>12, <1>13 DEF PagesInv

LEMMA PagesStep ==
  ASSUME PagesInv, [OnlineNext \/ ProfileNext \/ SearchNext]_<<module_vars, profile_vars>>
  PROVE  PagesInv'
<1>0. GamesInv /\ AskedInv
  BY DEF PagesInv
<1>1. ASSUME NEW u \in Jid, NEW is_available \in BOOLEAN,
             \/ profileHandleUserStatus(u, is_available)
             \/ HandlePresence(u, is_available) /\ UNCHANGED profile_vars
      PROVE  PagesInv'
  <2>1. CASE HandlePresence(u, is_available) /\ UNCHANGED profile_vars
    BY <2>1, ReaderIdle DEF HandlePresence, profile_vars
  <2>2. CASE profileHandleUserStatus(u, is_available)
    <3> DEFINE name == PartialOf[u]
               S == IF ~is_available /\ name \in DOMAIN last_logons THEN {Increment(name)} ELSE {}
    <3>1. QueueTransactions(S) /\ UNCHANGED <<db, reader>>
      BY <2>2 DEF profileHandleUserStatus, NextStatus
    <3>2. \A s \in S : s.op # "searchGame"
      BY DEF Increment
    <3> HIDE DEF S
    <3> QED BY <3>1, <3>2, OthersAsked
  <2> QED BY <1>1, <2>1, <2>2
<1>2. ASSUME NEW t \in Pending, updateOnlineTimeStep(t) PROVE PagesInv'
  <2> DEFINE tables == updateOnlineTime(db, t.name, t.seconds)
  <2>1. t.op = "online" /\ Commit(t, tables) /\ reader' = reader
    BY <1>2 DEF updateOnlineTimeStep, profile_vars
  <2> HIDE DEF tables
  <2>2. /\ {"users", "games"} \subseteq DOMAIN tables /\ tables.games = db.games
        /\ DOMAIN db.users \subseteq DOMAIN tables.users
    BY <1>0, UpdatedGames DEF tables
  <2>3. t.op # "searchGame"
    BY <2>1
  <2> QED BY <2>1, <2>2, <2>3, OthersDone
<1>3. CASE Tick
  BY <1>3, ReaderIdle DEF Tick, module_vars
<1>4. CASE onStop
  <2> DEFINE S == {Increment(n) : n \in DOMAIN last_logons}
  <2>1. QueueTransactions(S) /\ UNCHANGED <<db, reader>>
    BY <1>4 DEF onStop
  <2>2. \A s \in S : s.op # "searchGame"
    BY DEF Increment
  <2> HIDE DEF S
  <2> QED BY <2>1, <2>2, OthersAsked
<1>5. CASE Stopped
  BY <1>5, ReaderIdle DEF Stopped, profile_vars
<1>6. ASSUME Restart(db), reader' = NoReader PROVE PagesInv'
  <2>1. transactions' = EmptyBag /\ db' = db
    BY <1>6 DEF Restart
  <2>2. IsABag(transactions') /\ Pending' = {}
    BY <2>1 DEF EmptyBag, SetToBag, IsABag, Pending, BagToSet
  <2>3. AskedInv' /\ GamesInv'
    BY <1>0, <2>1, <2>2 DEF AskedInv, GamesInv
  <2>4. SeenInv'
    BY <1>6 DEF SeenInv, NoReader
  <2> QED BY <2>3, <2>4 DEF PagesInv
<1>7. CASE Kill /\ UNCHANGED profile_vars
  BY <1>7, ReaderIdle DEF Kill, profile_vars
<1>8. ASSUME NEW u \in Jid, NEW name \in UserNames, handleProfile(u, name) PROVE PagesInv'
  <2> DEFINE S == {[op |-> "profile", name |-> name, attempt |-> 1]}
  <2>1. QueueTransactions(S) /\ UNCHANGED <<db, reader>>
    BY <1>8 DEF handleProfile
  <2>2. \A s \in S : s.op # "searchGame"
    OBVIOUS
  <2> HIDE DEF S
  <2> QED BY <2>1, <2>2, OthersAsked
<1>9. ASSUME NEW u \in Jid, NEW category, handleRating(u, category) PROVE PagesInv'
  <2> DEFINE S == {[op |-> "rating", category |-> category, attempt |-> 1]}
  <2>1. QueueTransactions(S) /\ UNCHANGED <<db, reader>>
    BY <1>9 DEF handleRating, profile_vars
  <2>2. \A s \in S : s.op # "searchGame"
    OBVIOUS
  <2> HIDE DEF S
  <2> QED BY <2>1, <2>2, OthersAsked
<1>10. ASSUME NEW t \in Pending, \/ fetchProfileLock(t) \/ fetchProfileRead(t)
                                 \/ fetchProfileAnswer(t) \/ fetchRatingStep(t)
       PROVE  PagesInv'
  <2>1. CASE fetchProfileLock(t) \/ fetchProfileRead(t)
    BY <2>1, ReaderIdle DEF fetchProfileLock, fetchProfileRead, module_vars
  <2>2. CASE fetchProfileAnswer(t)
    <3>1. t.op # "searchGame" /\ Commit(t, db) /\ reader' = reader
      BY <2>2 DEF fetchProfileAnswer
    <3> QED BY <1>0, <3>1, OthersDone DEF GamesInv
  <2>3. CASE fetchRatingStep(t)
    <3>1. t.op = "rating" /\ reader' = reader
      BY <2>3 DEF fetchRatingStep, profile_vars
    <3>2. CASE Throw(t)
      <4>1. /\ IsABag(transactions') /\ db' = db
            /\ \A s \in Pending' : s \in Pending \/ s.op = "rating"
            /\ \A s : s.op # "rating" => Copies(s, transactions') = Copies(s, transactions)
        BY <1>0, <3>1, <3>2, RatingThrown DEF AskedInv, Throw
      <4>2. \A s \in Pending' : s.op = "searchGame" =>
              s \in Pending /\ Copies(s, transactions') = Copies(s, transactions)
        BY <4>1
      <4> QED BY <1>0, <3>1, <4>1, <4>2, ReaderUntouched DEF GamesInv
    <3>3. CASE Commit(t, db)
      BY <1>0, <3>1, <3>3, OthersDone DEF GamesInv
    <3> QED BY <2>3, <3>2, <3>3 DEF fetchRatingStep
  <2> QED BY <1>10, <2>1, <2>2, <2>3
<1>11. ASSUME NEW u, NEW player, NEW max_results \in Results,
              handleSearchGame(u, player, max_results)
       PROVE  PagesInv'
  BY <1>11, SearchAsked
<1>12. ASSUME NEW players \in GamePlayers, StoreGame(players) PROVE PagesInv'
  BY <1>12, GameStored
<1>13. ASSUME NEW t \in Pending, searchGameStep(t) PROVE PagesInv'
  BY <1>13, SearchAnswered
<1>14. CASE ReaderLeaves
  <2>1. /\ reader' = NoReader /\ db' = db /\ transactions' = transactions
        /\ reader.page = "last"
    BY <1>14 DEF ReaderLeaves, module_vars
  <2>2. Pending' = {t \in Pending : t.op # "searchGame"}
    BY <1>0, <2>1 DEF Pending, AskedInv
  <2>3. AskedInv' /\ GamesInv'
    BY <1>0, <2>1, <2>2 DEF AskedInv, GamesInv
  <2>4. SeenInv'
    BY <2>1 DEF SeenInv, NoReader
  <2> QED BY <2>3, <2>4 DEF PagesInv
<1>15. CASE UNCHANGED <<module_vars, profile_vars>>
  BY <1>15, ReaderIdle DEF module_vars, profile_vars
<1> QED
  BY <1>1, <1>2, <1>3, <1>4, <1>5, <1>6, <1>7, <1>8, <1>9, <1>10, <1>11, <1>12, <1>13, <1>14,
     <1>15 DEF OnlineNext, ProfileNext, SearchNext

(* Games that end are stored between the pages of a search and move what   *)
(* was not read to higher offsets, and a page is read by a transaction of  *)
(* its own: still the last page leaves out no game that the player had     *)
(* when the first was asked for (handleSearchGame, searchGame).            *)
THEOREM PagesLeaveNothingOut ==
  ASSUME NEW users, NEW ratings
  PROVE  ProfileSpec(NewTables(users, ratings)) => []PagesComplete
<1> DEFINE tables == NewTables(users, ratings)
<1>1. {"users", "games"} \subseteq DOMAIN tables /\ tables.games = <<>>
  BY DEF NewTables
<1> HIDE DEF tables
<1>2. ServerModuleInit(tables) /\ ProfileInit => PagesInv
  <2> SUFFICES ASSUME ServerModuleInit(tables), ProfileInit PROVE PagesInv
    OBVIOUS
  <2>1. db = tables /\ transactions = EmptyBag /\ reader = NoReader
    BY DEF ServerModuleInit, ProfileInit
  <2>2. IsABag(transactions) /\ Pending = {}
    BY <2>1 DEF EmptyBag, SetToBag, IsABag, Pending, BagToSet
  <2>3. GamesInv
    <3>1. db.games = <<>> /\ DOMAIN db.games = {} /\ <<>> \in Seq(GamePlayers)
      BY <1>1, <2>1
    <3>2. {"users", "games"} \subseteq DOMAIN db
      BY <1>1, <2>1
    <3> QED BY <3>1, <3>2 DEF GamesInv
  <2>4. SeenInv
    BY <2>1 DEF SeenInv, NoReader
  <2> QED BY <2>2, <2>3, <2>4 DEF PagesInv, AskedInv
<1>3. PagesInv /\ [OnlineNext \/ ProfileNext \/ SearchNext]_<<module_vars, profile_vars>>
        => PagesInv'
  BY PagesStep
<1>4. PagesInv => PagesComplete
  BY DEF PagesInv, SeenInv, PagesComplete
<1>5. ProfileSpec(tables) => []PagesComplete
  BY <1>2, <1>3, <1>4, PTL DEF ProfileSpec
<1> QED BY <1>5 DEF tables

-----------------------------------------------------------------------------
(* The results of rated games.  What a transaction that is not over has    *)
(* read of a rated player is what is stored, since it holds the row.       *)

Selected(t, i) == PlayersOf[t][i]

Updated(t, i) == Ordered(PlayersOf[t])[i]

Players(t) == {Selected(t, 1), Selected(t, 2)}

ResultTypes ==
  /\ rows \in [Player -> Nat \cup {NoRow}]
  /\ \A p \in Rated : rows[p] # NoRow
  /\ holder \in [Player -> RatedResult \cup {Nobody}]
  /\ at \in [RatedResult -> 0..6]
  /\ DOMAIN read = RatedResult /\ DOMAIN written = RatedResult

ReadOk(t) ==
  /\ DOMAIN read[t] \subseteq Players(t)
  /\ at[t] > 1 => Selected(t, 1) \in DOMAIN read[t]
  /\ at[t] > 2 => Selected(t, 2) \in DOMAIN read[t]
  /\ at[t] \in 0..1 => DOMAIN read[t] = {}
  /\ \A p \in DOMAIN read[t] : read[t][p] \in Nat /\ read[t][p] <= Cardinality(Stored(p))

WrittenOk(t) ==
  /\ DOMAIN written[t] \subseteq Players(t)
  /\ \A p \in DOMAIN written[t] : written[t][p] \in {NoRow, read[t][p] + 1}
  /\ at[t] \in 0..2 => DOMAIN written[t] = {}
  /\ at[t] > 3 => Updated(t, 1) \in DOMAIN written[t] /\ written[t][Updated(t, 1)] # NoRow
  /\ at[t] > 4 => Updated(t, 2) \in DOMAIN written[t] /\ written[t][Updated(t, 2)] # NoRow

OwnInv == \A t \in RatedResult : ReadOk(t) /\ WrittenOk(t)

LockedInv ==
  \A t \in RatedResult, p \in Rated :
    at[t] <= 5 /\ p \in DOMAIN read[t] => holder[p] = t /\ read[t][p] = rows[p]

ResultInv == ResultTypes /\ OwnInv /\ LockedInv /\ GamesCounted

LEMMA PlayersUpdated ==
  ASSUME NEW t \in RatedResult
  PROVE  /\ Players(t) = {Updated(t, 1), Updated(t, 2)} /\ Players(t) \subseteq Player
         /\ Range(PlayersOf[t]) = Players(t)
<1>1. PICK a \in Player, b \in Player : PlayersOf[t] = <<a, b>>
  BY ResultAssumption
<1>2. Selected(t, 1) = a /\ Selected(t, 2) = b
  BY <1>1 DEF Selected
<1>3. Ordered(PlayersOf[t]) = <<a, b>> \/ Ordered(PlayersOf[t]) = <<b, a>>
  BY <1>1 DEF Ordered
<1>4. {Updated(t, 1), Updated(t, 2)} = {a, b}
  BY <1>3 DEF Updated
<1>5. Range(PlayersOf[t]) = {a, b}
  BY <1>1 DEF Range
<1> QED BY <1>2, <1>4, <1>5 DEF Players

LEMMA StatementOf ==
  ASSUME NEW t \in RatedResult, NEW p, ResultTypes
  PROVE  /\ Statement(t, "select", p) => at[t] \in 1..2 /\ p = Selected(t, at[t])
         /\ Statement(t, "update", p) => at[t] \in 3..4 /\ p = Updated(t, at[t] - 2)
<1>1. Statements(t) = <<<<"select", Selected(t, 1)>>, <<"select", Selected(t, 2)>>,
                        <<"update", Updated(t, 1)>>, <<"update", Updated(t, 2)>>>>
  BY DEF Statements, Selected, Updated
<1>2. PICK i : i = at[t]
  OBVIOUS
<1> SUFFICES ASSUME i \in 1..4
             PROVE  /\ Statements(t)[i] = <<"select", p>> => i \in 1..2 /\ p = Selected(t, i)
                    /\ Statements(t)[i] = <<"update", p>> => i \in 3..4 /\ p = Updated(t, i - 2)
  BY <1>2 DEF Statement
<1>3. CASE i = 1
  BY <1>1, <1>3
<1>4. CASE i = 2
  BY <1>1, <1>4
<1>5. CASE i = 3
  BY <1>1, <1>5
<1>6. CASE i = 4
  BY <1>1, <1>6
<1> QED BY <1>3, <1>4, <1>5, <1>6

LEMMA StoredCounts ==
  ASSUME NEW p
  PROVE  /\ IsFiniteSet(Stored(p)) /\ Cardinality(Stored(p)) \in Nat
         /\ IsFiniteSet(Stored(p))' /\ Cardinality(Stored(p))' \in Nat
<1>1. Stored(p) \subseteq RatedResult /\ Stored(p)' \subseteq RatedResult
  BY DEF Stored
<1> QED BY <1>1, ResultAssumption, FS_Subset, FS_CardinalityType

(* A step of a transaction that does not end it.                           *)
LEMMA StoredSame ==
  ASSUME ResultTypes, NEW t \in RatedResult, at[t] # 6, NEW i \in 0..5,
         at' = [at EXCEPT ![t] = i]
  PROVE  \A p : Stored(p)' = Stored(p)
BY DEF ResultTypes, Stored

(* A transaction ends, and its rows go to others.                          *)
LEMMA Released ==
  ASSUME ResultTypes, NEW t \in RatedResult, Release(t)
  PROVE  /\ holder' \in [Player -> RatedResult \cup {Nobody}]
         /\ \A p \in Player : holder[p] # t => holder'[p] = holder[p]
BY DEF Release

LEMMA OthersOwn ==
  ASSUME NEW u \in RatedResult, ReadOk(u) /\ WrittenOk(u),
         at'[u] = at[u], read'[u] = read[u], written'[u] = written[u],
         \A p : Cardinality(Stored(p)) <= Cardinality(Stored(p))'
  PROVE  ReadOk(u)' /\ WrittenOk(u)'
<1>1. ReadOk(u)'
  <2>1. ASSUME NEW p \in DOMAIN read[u] PROVE read[u][p] <= Cardinality(Stored(p))'
    <3>1. read[u][p] \in Nat /\ read[u][p] <= Cardinality(Stored(p))
      BY DEF ReadOk
    <3>2. Cardinality(Stored(p)) \in Nat /\ Cardinality(Stored(p))' \in Nat
      BY StoredCounts
    <3> QED BY <3>1, <3>2
  <2> QED BY <2>1 DEF ReadOk, Players, Selected
<1>2. WrittenOk(u)'
  BY DEF WrittenOk, Players, Selected, Updated
<1> QED BY <1>1, <1>2

LEMMA BeginKeeps ==
  ASSUME ResultInv, NEW t \in RatedResult, begin(t)
  PROVE  ResultInv'
<1>1. /\ at[t] = 0 /\ at' = [at EXCEPT ![t] = 1]
      /\ UNCHANGED <<rows, holder, read, written>>
  BY DEF begin, Continue, ResultInv, ResultTypes
<1>2. ResultTypes /\ OwnInv /\ LockedInv /\ GamesCounted
  BY DEF ResultInv
<1>3. \A p : Stored(p)' = Stored(p)
  <2>1. at[t] # 6 /\ 1 \in 0..5
    BY <1>1
  <2> QED BY <1>1, <1>2, <2>1, StoredSame
<1>4. ResultTypes'
  BY <1>1, <1>2 DEF ResultTypes
<1>5. /\ at'[t] = 1 /\ \A u \in RatedResult : u # t => at'[u] = at[u]
      /\ \A u \in RatedResult : at[u] \in 0..6
  BY <1>1, <1>2 DEF ResultTypes
<1>6. ASSUME NEW u \in RatedResult PROVE ReadOk(u)' /\ WrittenOk(u)'
  <2>1. \A p : Cardinality(Stored(p)) <= Cardinality(Stored(p))'
    BY <1>3, StoredCounts
  <2>2. CASE u # t
    BY <1>1, <1>2, <1>5, <2>1, <2>2, OthersOwn DEF OwnInv
  <2>3. CASE u = t
    <3>1. DOMAIN read'[t] = {} /\ DOMAIN written'[t] = {}
      BY <1>1, <1>2 DEF OwnInv, ReadOk, WrittenOk
    <3> QED BY <1>5, <2>3, <3>1 DEF ReadOk, WrittenOk
  <2> QED BY <2>2, <2>3
<1>7. LockedInv'
  BY <1>1, <1>2, <1>5 DEF LockedInv
<1>8. GamesCounted'
  BY <1>1, <1>2, <1>3 DEF GamesCounted
<1> QED BY <1>4, <1>6, <1>7, <1>8 DEF ResultInv, OwnInv

LEMMA SelectKeeps ==
  ASSUME ResultInv, NEW t \in RatedResult, NEW p \in Player, getRatingForUpdate(t, p)
  PROVE  ResultInv'
<1>0. PICK i : i = at[t]
  OBVIOUS
<1>a. PICK value : value = IF rows[p] = NoRow THEN 0 ELSE rows[p]
  OBVIOUS
<1>1. i \in 1..2 /\ p = Selected(t, i)
  BY <1>0, StatementOf DEF getRatingForUpdate, ResultInv
<1>2. /\ at' = [at EXCEPT ![t] = i + 1] /\ UNCHANGED <<rows, written>>
      /\ read' = [read EXCEPT ![t] = Put(@, p, value)]
      /\ \/ rows[p] = NoRow /\ UNCHANGED holder
         \/ rows[p] # NoRow /\ holder[p] \in {Nobody, t} /\ holder' = [holder EXCEPT ![p] = t]
  BY <1>0, <1>a DEF getRatingForUpdate, Reads, Continue, ResultInv, ResultTypes
<1>3. ResultTypes /\ OwnInv /\ LockedInv /\ GamesCounted
  BY DEF ResultInv
<1>4. /\ at'[t] = i + 1 /\ \A u \in RatedResult : u # t => at'[u] = at[u]
      /\ \A u \in RatedResult : at[u] \in 0..6
  BY <1>1, <1>2, <1>3 DEF ResultTypes
<1>5. /\ DOMAIN read'[t] = DOMAIN read[t] \cup {p} /\ read'[t][p] = value
      /\ \A q \in DOMAIN read[t] : q # p => read'[t][q] = read[t][q]
      /\ \A u \in RatedResult : u # t => read'[u] = read[u]
  BY <1>2, <1>3 DEF Put, ResultTypes
<1>6. \A q : Stored(q)' = Stored(q)
  <2>1. i + 1 \in 0..5 /\ at[t] # 6
    BY <1>0, <1>1
  <2> QED BY <1>2, <1>3, <2>1, StoredSame
<1>7. ResultTypes'
  <2>1. i + 1 \in 0..6
    BY <1>1
  <2> QED BY <1>2, <1>3, <2>1 DEF ResultTypes
<1>8. value \in Nat /\ value <= Cardinality(Stored(p))
  <2>1. Cardinality(Stored(p)) \in Nat
    BY StoredCounts
  <2> QED BY <1>a, <1>3, <2>1 DEF ResultTypes, GamesCounted, NoRow
<1>9. ASSUME NEW u \in RatedResult PROVE ReadOk(u)' /\ WrittenOk(u)'
  <2>1. \A q : Cardinality(Stored(q)) <= Cardinality(Stored(q))'
    BY <1>6, StoredCounts
  <2>2. CASE u # t
    BY <1>2, <1>3, <1>4, <1>5, <2>1, <2>2, OthersOwn DEF OwnInv
  <2>3. CASE u = t
    <3>1. p \in Players(t) /\ (i = 1 => p = Selected(t, 1)) /\ (i = 2 => p = Selected(t, 2))
      BY <1>1 DEF Players
    <3>2. /\ DOMAIN read[t] \subseteq Players(t) /\ (i > 1 => Selected(t, 1) \in DOMAIN read[t])
          /\ \A q \in DOMAIN read[t] : read[t][q] \in Nat /\ read[t][q] <= Cardinality(Stored(q))
          /\ DOMAIN written[t] = {}
      BY <1>0, <1>1, <1>3 DEF OwnInv, ReadOk, WrittenOk
    <3>3. Players(t)' = Players(t) /\ Selected(t, 1)' = Selected(t, 1)
          /\ Selected(t, 2)' = Selected(t, 2)
      BY DEF Players, Selected
    <3>4. ReadOk(t)'
      <4>1. DOMAIN read'[t] \subseteq Players(t)
        BY <1>5, <3>1, <3>2
      <4>2. ASSUME NEW q \in DOMAIN read'[t]
            PROVE  read'[t][q] \in Nat /\ read'[t][q] <= Cardinality(Stored(q))'
        BY <1>5, <1>6, <1>8, <3>2
      <4>3. /\ i + 1 > 1 => Selected(t, 1) \in DOMAIN read'[t]
            /\ i + 1 > 2 => Selected(t, 2) \in DOMAIN read'[t]
            /\ i + 1 \notin 0..1
        BY <1>1, <1>5, <3>1, <3>2
      <4> QED BY <1>4, <3>3, <4>1, <4>2, <4>3 DEF ReadOk
    <3>5. WrittenOk(t)'
      <4>1. DOMAIN written'[t] = {} /\ at'[t] \in 2..3
        BY <1>1, <1>2, <1>4, <3>2
      <4> QED BY <4>1 DEF WrittenOk
    <3> QED BY <2>3, <3>4, <3>5
  <2> QED BY <2>2, <2>3
<1>10. LockedInv'
  <2> SUFFICES ASSUME NEW u \in RatedResult, NEW q \in Rated, at'[u] <= 5, q \in DOMAIN read'[u]
               PROVE  holder'[q] = u /\ read'[u][q] = rows'[q]
    BY DEF LockedInv
  <2>1. q \in Player /\ rows[q] # NoRow
    BY <1>3, ResultAssumption DEF ResultTypes
  <2>2. CASE u = t /\ q = p
    BY <1>a, <1>2, <1>3, <1>5, <2>1, <2>2 DEF ResultTypes
  <2>3. CASE u # t \/ q # p
    <3>1. q \in DOMAIN read[u] /\ read'[u][q] = read[u][q] /\ at[u] <= 5
      BY <1>0, <1>1, <1>4, <1>5, <2>3
    <3>2. holder[q] = u /\ read[u][q] = rows[q]
      BY <1>3, <3>1 DEF LockedInv
    <3>3. u # Nobody
      BY ResultAssumption
    <3>4. holder'[q] = holder[q]
      BY <1>2, <1>3, <2>1, <2>3, <3>2, <3>3 DEF ResultTypes
    <3> QED BY <1>2, <3>1, <3>2, <3>4
  <2> QED BY <2>2, <2>3
<1>11. GamesCounted'
  BY <1>2, <1>3, <1>6 DEF GamesCounted
<1> QED BY <1>7, <1>9, <1>10, <1>11 DEF ResultInv, OwnInv

(* An UPDATE or INSERT, which holds the row until the transaction's end.   *)
LEMMA WriteKeeps ==
  ASSUME ResultInv, NEW t \in RatedResult, NEW p \in Player,
         Statement(t, "update", p), Write(t, p)
  PROVE  ResultInv'
<1>0. PICK i : i = at[t]
  OBVIOUS
<1>a. PICK value : value = read[t][p] + 1
  OBVIOUS
<1>1. i \in 3..4 /\ p = Updated(t, i - 2)
  BY <1>0, StatementOf DEF ResultInv
<1>2. /\ at' = [at EXCEPT ![t] = i + 1] /\ UNCHANGED <<rows, read>>
      /\ written' = [written EXCEPT ![t] = Put(@, p, value)]
      /\ holder[p] \in {Nobody, t} /\ holder' = [holder EXCEPT ![p] = t]
  BY <1>0, <1>a DEF Write, Continue, ResultInv, ResultTypes
<1>3. ResultTypes /\ OwnInv /\ LockedInv /\ GamesCounted
  BY DEF ResultInv
<1>4. /\ at'[t] = i + 1 /\ \A u \in RatedResult : u # t => at'[u] = at[u]
      /\ \A u \in RatedResult : at[u] \in 0..6
  BY <1>1, <1>2, <1>3 DEF ResultTypes
<1>5. /\ DOMAIN written'[t] = DOMAIN written[t] \cup {p} /\ written'[t][p] = value
      /\ \A q \in DOMAIN written[t] : q # p => written'[t][q] = written[t][q]
      /\ \A u \in RatedResult : u # t => written'[u] = written[u]
  BY <1>2, <1>3 DEF Put, ResultTypes
<1>6. \A q : Stored(q)' = Stored(q)
  <2>1. i + 1 \in 0..5 /\ at[t] # 6
    BY <1>0, <1>1
  <2> QED BY <1>2, <1>3, <2>1, StoredSame
<1>7. ResultTypes'
  <2>1. i + 1 \in 0..6
    BY <1>1
  <2> QED BY <1>2, <1>3, <2>1 DEF ResultTypes
<1>8. /\ p \in Players(t) /\ (i = 3 => p = Updated(t, 1)) /\ (i = 4 => p = Updated(t, 2))
  BY <1>1, PlayersUpdated
<1>9. p \in DOMAIN read[t] /\ read[t][p] \in Nat /\ value # NoRow
  <2>1. Players(t) \subseteq DOMAIN read[t]
    BY <1>0, <1>1, <1>3 DEF OwnInv, ReadOk, Players
  <2>2. p \in DOMAIN read[t] /\ read[t][p] \in Nat
    BY <1>3, <1>8, <2>1 DEF OwnInv, ReadOk
  <2> QED BY <1>a, <2>2 DEF NoRow
<1>10. ASSUME NEW u \in RatedResult PROVE ReadOk(u)' /\ WrittenOk(u)'
  <2>1. \A q : Cardinality(Stored(q)) <= Cardinality(Stored(q))'
    BY <1>6, StoredCounts
  <2>2. CASE u # t
    BY <1>2, <1>3, <1>4, <1>5, <2>1, <2>2, OthersOwn DEF OwnInv
  <2>3. CASE u = t
    <3>1. Players(t)' = Players(t) /\ Selected(t, 1)' = Selected(t, 1)
          /\ Selected(t, 2)' = Selected(t, 2) /\ Updated(t, 1)' = Updated(t, 1)
          /\ Updated(t, 2)' = Updated(t, 2)
      BY DEF Players, Selected, Updated
    <3>2. ReadOk(t)'
      <4>1. /\ DOMAIN read[t] \subseteq Players(t)
            /\ Selected(t, 1) \in DOMAIN read[t] /\ Selected(t, 2) \in DOMAIN read[t]
            /\ \A q \in DOMAIN read[t] : read[t][q] \in Nat /\ read[t][q] <= Cardinality(Stored(q))
        BY <1>0, <1>1, <1>3 DEF OwnInv, ReadOk
      <4>2. i + 1 \notin 0..1
        BY <1>1
      <4> QED BY <1>2, <1>4, <1>6, <3>1, <4>1, <4>2 DEF ReadOk
    <3>3. WrittenOk(t)'
      <4>1. /\ DOMAIN written[t] \subseteq Players(t)
            /\ \A q \in DOMAIN written[t] : written[t][q] \in {NoRow, read[t][q] + 1}
            /\ i > 3 => Updated(t, 1) \in DOMAIN written[t] /\ written[t][Updated(t, 1)] # NoRow
        BY <1>0, <1>1, <1>3 DEF OwnInv, WrittenOk
      <4>2. DOMAIN written'[t] \subseteq Players(t)
        BY <1>5, <1>8, <4>1
      <4>3. \A q \in DOMAIN written'[t] : written'[t][q] \in {NoRow, read'[t][q] + 1}
        BY <1>a, <1>2, <1>5, <4>1
      <4>4. Updated(t, 1) \in DOMAIN written'[t] /\ written'[t][Updated(t, 1)] # NoRow
        BY <1>1, <1>5, <1>8, <1>9, <4>1
      <4>5. i + 1 > 4 => Updated(t, 2) \in DOMAIN written'[t] /\ written'[t][Updated(t, 2)] # NoRow
        BY <1>1, <1>5, <1>8, <1>9
      <4>6. i + 1 \notin 0..2
        BY <1>1
      <4> QED BY <1>4, <3>1, <4>2, <4>3, <4>4, <4>5, <4>6 DEF WrittenOk
    <3> QED BY <2>3, <3>2, <3>3
  <2> QED BY <2>2, <2>3
<1>11. LockedInv'
  <2> SUFFICES ASSUME NEW u \in RatedResult, NEW q \in Rated, at'[u] <= 5, q \in DOMAIN read'[u]
               PROVE  holder'[q] = u /\ read'[u][q] = rows'[q]
    BY DEF LockedInv
  <2>1. q \in Player /\ u # Nobody
    BY ResultAssumption
  <2>2. q \in DOMAIN read[u] /\ at[u] <= 5
    BY <1>0, <1>1, <1>2, <1>4
  <2>3. holder[q] = u /\ read[u][q] = rows[q]
    BY <1>3, <2>2 DEF LockedInv
  <2>4. holder'[q] = u
    BY <1>2, <1>3, <2>1, <2>3 DEF ResultTypes
  <2> QED BY <1>2, <2>3, <2>4
<1>12. GamesCounted'
  BY <1>2, <1>3, <1>6 DEF GamesCounted
<1> QED BY <1>7, <1>10, <1>11, <1>12 DEF ResultInv, OwnInv

(* The UPDATE found no row.                                                *)
LEMMA NothingKeeps ==
  ASSUME ResultInv, NEW t \in RatedResult, NEW p \in Player, updateNothing(t, p)
  PROVE  ResultInv'
<1>0. PICK i : i = at[t]
  OBVIOUS
<1>1. /\ i \in 3..4 /\ p = Updated(t, i - 2) /\ p \notin DOMAIN written[t]
  BY <1>0, StatementOf DEF updateNothing, ResultInv
<1>2. /\ written' = [written EXCEPT ![t] = Put(@, p, NoRow)]
      /\ UNCHANGED <<rows, holder, at, read>>
  BY DEF updateNothing
<1>3. ResultTypes /\ OwnInv /\ LockedInv /\ GamesCounted
  BY DEF ResultInv
<1>4. /\ DOMAIN written'[t] = DOMAIN written[t] \cup {p} /\ written'[t][p] = NoRow
      /\ \A q \in DOMAIN written[t] : written'[t][q] = written[t][q]
      /\ \A u \in RatedResult : u # t => written'[u] = written[u]
  BY <1>1, <1>2, <1>3 DEF Put, ResultTypes
<1>5. \A q : Stored(q)' = Stored(q)
  BY <1>2 DEF Stored
<1>6. ResultTypes'
  BY <1>2, <1>3 DEF ResultTypes
<1>7. ASSUME NEW u \in RatedResult PROVE ReadOk(u)' /\ WrittenOk(u)'
  <2>1. \A q : Cardinality(Stored(q)) <= Cardinality(Stored(q))'
    BY <1>5, StoredCounts
  <2>2. CASE u # t
    BY <1>2, <1>3, <1>4, <2>1, <2>2, OthersOwn DEF OwnInv
  <2>3. CASE u = t
    <3>1. ReadOk(t)'
      BY <1>2, <1>3, <1>5 DEF OwnInv, ReadOk, Players, Selected
    <3>2. p \in Players(t) /\ i \notin 0..2
      BY <1>1, PlayersUpdated
    <3>3. WrittenOk(t)'
      <4>1. Players(t)' = Players(t) /\ Updated(t, 1)' = Updated(t, 1)
            /\ Updated(t, 2)' = Updated(t, 2)
        BY DEF Players, Selected, Updated
      <4>2. at'[t] = i /\ read'[t] = read[t]
        BY <1>0, <1>2
      <4>3. /\ DOMAIN written[t] \subseteq Players(t)
            /\ \A q \in DOMAIN written[t] : written[t][q] \in {NoRow, read[t][q] + 1}
            /\ i > 3 => Updated(t, 1) \in DOMAIN written[t] /\ written[t][Updated(t, 1)] # NoRow
            /\ ~(i > 4)
        BY <1>0, <1>1, <1>3 DEF OwnInv, WrittenOk
      <4> QED BY <1>4, <3>2, <4>1, <4>2, <4>3 DEF WrittenOk
    <3> QED BY <2>3, <3>1, <3>3
  <2> QED BY <2>2, <2>3
<1>8. LockedInv'
  BY <1>2, <1>3 DEF LockedInv
<1>9. GamesCounted'
  BY <1>2, <1>3, <1>5 DEF GamesCounted
<1> QED BY <1>6, <1>7, <1>8, <1>9 DEF ResultInv, OwnInv

LEMMA CommitKeeps ==
  ASSUME ResultInv, NEW t \in RatedResult, commit(t)
  PROVE  ResultInv'
<1>1. /\ at[t] = 5 /\ at' = [at EXCEPT ![t] = 6] /\ Release(t) /\ UNCHANGED <<read, written>>
      /\ rows' = [p \in Player |-> IF p \in DOMAIN written[t] THEN written[t][p] ELSE rows[p]]
  BY DEF commit
<1>2. ResultTypes /\ OwnInv /\ LockedInv /\ GamesCounted
  BY DEF ResultInv
<1>3. /\ at'[t] = 6 /\ \A u \in RatedResult : u # t => at'[u] = at[u]
      /\ \A u \in RatedResult : at[u] \in 0..6
  BY <1>1, <1>2 DEF ResultTypes
<1>4. /\ holder' \in [Player -> RatedResult \cup {Nobody}]
      /\ \A p \in Player : holder[p] # t => holder'[p] = holder[p]
  BY <1>1, <1>2, Released
<1>5. DOMAIN written[t] = Players(t) /\ Players(t) \subseteq DOMAIN read[t]
  BY <1>1, <1>2, PlayersUpdated DEF OwnInv, ReadOk, WrittenOk, Players
<1>6. ASSUME NEW p \in Players(t)
      PROVE  /\ p \in Player /\ read[t][p] \in Nat /\ read[t][p] <= Cardinality(Stored(p))
             /\ rows'[p] = read[t][p] + 1
  <2>1. p \in Player
    BY PlayersUpdated
  <2>2. read[t][p] \in Nat /\ read[t][p] <= Cardinality(Stored(p))
    BY <1>2, <1>5 DEF OwnInv, ReadOk
  <2>3. written[t][p] # NoRow
    BY <1>1, <1>2, PlayersUpdated DEF OwnInv, WrittenOk
  <2>4. written[t][p] = read[t][p] + 1
    BY <1>2, <1>5, <2>3 DEF OwnInv, WrittenOk
  <2> QED BY <1>1, <1>5, <2>1, <2>2, <2>4
<1>7. \A p \in Player : p \notin Players(t) => rows'[p] = rows[p]
  BY <1>1, <1>5
<1>8. ASSUME NEW p
      PROVE  /\ p \in Players(t) => Cardinality(Stored(p))' = Cardinality(Stored(p)) + 1
             /\ p \notin Players(t) => Cardinality(Stored(p))' = Cardinality(Stored(p))
  <2> DEFINE S == Stored(p)  T == Stored(p)'
  <2>1. t \notin S /\ T = S \cup (IF p \in Players(t) THEN {t} ELSE {})
    <3>1. Range(PlayersOf[t]) = Players(t)
      BY PlayersUpdated
    <3> QED BY <1>1, <1>3, <3>1 DEF Stored
  <2>2. IsFiniteSet(S)
    BY StoredCounts
  <2> HIDE DEF S, T
  <2>3. p \in Players(t) => Cardinality(T) = Cardinality(S) + 1
    <3>1. t \notin S /\ (p \in Players(t) => T = S \cup {t})
      BY <2>1
    <3> QED BY <2>2, <3>1, FS_AddElement
  <2>4. p \notin Players(t) => T = S
    BY <2>1
  <2> QED BY <2>3, <2>4 DEF S, T
<1>9. ResultTypes'
  <2>1. \A p \in Player : rows'[p] \in Nat \cup {NoRow}
    BY <1>2, <1>6, <1>7 DEF ResultTypes
  <2>2. \A p \in Rated : rows'[p] # NoRow
    BY <1>2, <1>6, <1>7, ResultAssumption DEF ResultTypes, NoRow
  <2>3. at' \in [RatedResult -> 0..6]
    BY <1>1, <1>2 DEF ResultTypes
  <2> QED BY <1>1, <1>2, <1>4, <2>1, <2>2, <2>3 DEF ResultTypes
<1>10. ASSUME NEW u \in RatedResult PROVE ReadOk(u)' /\ WrittenOk(u)'
  <2>1. \A q : Cardinality(Stored(q)) <= Cardinality(Stored(q))'
    <3> SUFFICES ASSUME NEW q PROVE Cardinality(Stored(q)) <= Cardinality(Stored(q))'
      OBVIOUS
    <3>1. Cardinality(Stored(q)) \in Nat
      BY StoredCounts
    <3> QED BY <1>8, <3>1
  <2>2. CASE u # t
    BY <1>1, <1>2, <1>3, <2>1, <2>2, OthersOwn DEF OwnInv
  <2>3. CASE u = t
    <3>1. Players(t)' = Players(t) /\ Selected(t, 1)' = Selected(t, 1)
          /\ Selected(t, 2)' = Selected(t, 2) /\ Updated(t, 1)' = Updated(t, 1)
          /\ Updated(t, 2)' = Updated(t, 2)
      BY DEF Players, Selected, Updated
    <3>2. ReadOk(t)'
      <4>1. \A q \in DOMAIN read[t] : read[t][q] \in Nat /\ read[t][q] <= Cardinality(Stored(q))'
        <5> SUFFICES ASSUME NEW q \in DOMAIN read[t]
                     PROVE  read[t][q] \in Nat /\ read[t][q] <= Cardinality(Stored(q))'
          OBVIOUS
        <5>1. Cardinality(Stored(q)) \in Nat /\ Cardinality(Stored(q))' \in Nat
          BY StoredCounts
        <5>2. read[t][q] \in Nat /\ read[t][q] <= Cardinality(Stored(q))
          BY <1>2 DEF OwnInv, ReadOk
        <5>3. Cardinality(Stored(q)) <= Cardinality(Stored(q))'
          BY <2>1
        <5> QED BY <5>1, <5>2, <5>3
      <4>2. /\ DOMAIN read[t] \subseteq Players(t)
            /\ Selected(t, 1) \in DOMAIN read[t] /\ Selected(t, 2) \in DOMAIN read[t]
        BY <1>1, <1>2 DEF OwnInv, ReadOk
      <4> QED BY <1>1, <1>3, <3>1, <4>1, <4>2 DEF ReadOk
    <3>3. WrittenOk(t)'
      BY <1>1, <1>2, <1>3, <3>1 DEF OwnInv, WrittenOk
    <3> QED BY <2>3, <3>2, <3>3
  <2> QED BY <2>2, <2>3
<1>11. LockedInv'
  <2> SUFFICES ASSUME NEW u \in RatedResult, NEW q \in Rated, at'[u] <= 5, q \in DOMAIN read'[u]
               PROVE  holder'[q] = u /\ read'[u][q] = rows'[q]
    BY DEF LockedInv
  <2>1. q \in Player /\ u # t
    BY <1>3, ResultAssumption
  <2>2. holder[q] = u /\ read[u][q] = rows[q]
    BY <1>1, <1>2, <1>3, <2>1 DEF LockedInv
  <2>3. q \notin Players(t)
    <3> SUFFICES ASSUME q \in Players(t) PROVE FALSE
      OBVIOUS
    <3>1. q \in DOMAIN read[t] /\ at[t] <= 5
      BY <1>1, <1>5
    <3>2. holder[q] = t
      BY <1>2, <3>1 DEF LockedInv
    <3> QED BY <2>1, <2>2, <3>2
  <2> QED BY <1>1, <1>4, <1>7, <2>1, <2>2, <2>3
<1>12. GamesCounted'
  <2> SUFFICES ASSUME NEW p \in Player
               PROVE  LET counted == IF rows'[p] = NoRow THEN 0 ELSE rows'[p]
                          stored == Cardinality(Stored(p))'
                      IN /\ p \in Rated => counted = stored
                         /\ counted <= stored /\ (stored > 0 => counted > 0)
    BY DEF GamesCounted
  <2>1. Cardinality(Stored(p)) \in Nat
    BY StoredCounts
  <2>2. CASE p \in Players(t)
    <3>1. p \in Rated => read[t][p] = rows[p] /\ rows[p] # NoRow
      BY <1>1, <1>2, <1>5, <2>2 DEF LockedInv, ResultTypes
    <3>2. p \in Rated => rows[p] = Cardinality(Stored(p))
      BY <1>2, <3>1 DEF GamesCounted
    <3>3. /\ rows'[p] = read[t][p] + 1 /\ read[t][p] \in Nat
          /\ read[t][p] <= Cardinality(Stored(p))
          /\ Cardinality(Stored(p))' = Cardinality(Stored(p)) + 1
      BY <1>6, <1>8, <2>2
    <3> QED BY <2>1, <3>1, <3>2, <3>3 DEF NoRow
  <2>3. CASE p \notin Players(t)
    <3>1. rows'[p] = rows[p] /\ Cardinality(Stored(p))' = Cardinality(Stored(p))
      BY <1>7, <1>8, <2>3
    <3> QED BY <1>2, <3>1 DEF GamesCounted
  <2> QED BY <2>2, <2>3
<1> QED BY <1>9, <1>10, <1>11, <1>12 DEF ResultInv, OwnInv

LEMMA RollbackKeeps ==
  ASSUME ResultInv, NEW t \in RatedResult, rollback(t)
  PROVE  ResultInv'
<1>1. /\ at' = [at EXCEPT ![t] = 1] /\ Release(t) /\ UNCHANGED rows
      /\ read' = [read EXCEPT ![t] = <<>>] /\ written' = [written EXCEPT ![t] = <<>>]
  BY DEF rollback
<1>2. ResultTypes /\ OwnInv /\ LockedInv /\ GamesCounted
  BY DEF ResultInv
<1>3. at[t] \in 1..4
  <2>1. CASE Deadlocked(t)
    BY <2>1 DEF Deadlocked, Waits
  <2>2. CASE \E p \in Player : Inserts(t, p)
    BY <2>2 DEF Inserts, Statement
  <2> QED BY <2>1, <2>2 DEF rollback
<1>4. /\ at'[t] = 1 /\ \A u \in RatedResult : u # t => at'[u] = at[u]
      /\ \A u \in RatedResult : at[u] \in 0..6
  BY <1>1, <1>2 DEF ResultTypes
<1>5. /\ DOMAIN read'[t] = {} /\ DOMAIN written'[t] = {}
      /\ \A u \in RatedResult : u # t => read'[u] = read[u] /\ written'[u] = written[u]
  BY <1>1, <1>2 DEF ResultTypes
<1>6. \A p : Stored(p)' = Stored(p)
  <2>1. at[t] # 6 /\ 1 \in 0..5
    BY <1>3
  <2> QED BY <1>1, <1>2, <2>1, StoredSame
<1>7. ResultTypes'
  <2>1. holder' \in [Player -> RatedResult \cup {Nobody}]
    BY <1>1, <1>2, Released
  <2> QED BY <1>1, <1>2, <2>1 DEF ResultTypes
<1>8. ASSUME NEW u \in RatedResult PROVE ReadOk(u)' /\ WrittenOk(u)'
  <2>1. \A q : Cardinality(Stored(q)) <= Cardinality(Stored(q))'
    BY <1>6, StoredCounts
  <2>2. CASE u # t
    BY <1>2, <1>4, <1>5, <2>1, <2>2, OthersOwn DEF OwnInv
  <2>3. CASE u = t
    BY <1>4, <1>5, <2>3 DEF ReadOk, WrittenOk
  <2> QED BY <2>2, <2>3
<1>9. LockedInv'
  <2> SUFFICES ASSUME NEW u \in RatedResult, NEW q \in Rated, at'[u] <= 5, q \in DOMAIN read'[u]
               PROVE  holder'[q] = u /\ read'[u][q] = rows'[q]
    BY DEF LockedInv
  <2>1. u # t /\ q \in Player
    BY <1>5, ResultAssumption
  <2>2. q \in DOMAIN read[u] /\ at[u] <= 5 /\ read'[u] = read[u]
    BY <1>4, <1>5, <2>1
  <2>3. holder[q] = u /\ read[u][q] = rows[q]
    BY <1>2, <2>2 DEF LockedInv
  <2>4. holder'[q] = holder[q]
    BY <1>1, <1>2, <2>1, <2>3, Released
  <2> QED BY <1>1, <2>2, <2>3, <2>4
<1>10. GamesCounted'
  BY <1>1, <1>2, <1>6 DEF GamesCounted
<1> QED BY <1>7, <1>8, <1>9, <1>10 DEF ResultInv, OwnInv

LEMMA ResultStep ==
  ASSUME ResultInv, [ResultNext]_result_vars
  PROVE  ResultInv'
<1>1. ASSUME NEW t \in RatedResult, NEW p \in Player,
             updateRating(t, p) \/ insertRating(t, p)
      PROVE  ResultInv'
  BY <1>1, WriteKeeps DEF updateRating, insertRating, Inserts
<1>2. CASE UNCHANGED result_vars
  <2>1. \A p : Stored(p)' = Stored(p)
    BY <1>2 DEF result_vars, Stored
  <2>2. \A q : Cardinality(Stored(q)) <= Cardinality(Stored(q))'
    BY <2>1, StoredCounts
  <2>3. OwnInv'
    BY <1>2, <2>2, OthersOwn DEF result_vars, ResultInv, OwnInv
  <2> QED BY <1>2, <2>1, <2>3 DEF result_vars, ResultInv, ResultTypes, LockedInv, GamesCounted
<1> QED
  BY <1>1, <1>2, BeginKeeps, SelectKeeps, NothingKeeps, CommitKeeps, RollbackKeeps DEF ResultNext

(* Whatever results are stored at the same time, in whatever order their   *)
(* transactions read, write, wait for each other and are rolled back, the  *)
(* rating of a player who had a row counts each of the player's games      *)
(* once, and no rating counts a game that is not stored; what is more than *)
(* that in RatedGamesCounted, that none of the transactions is given up,   *)
(* is a matter of how many there are (DatabaseInterface.cc:316).           *)
THEOREM ResultsCounted ==
  ResultSpec => []GamesCounted /\ [](NoneGivenUp => RatedGamesCounted)
<1>1. ResultInit => ResultInv
  <2> SUFFICES ASSUME ResultInit PROVE ResultInv
    OBVIOUS
  <2>1. ResultTypes
    BY ResultAssumption DEF ResultInit, ResultTypes, NoRow
  <2>2. \A t \in RatedResult : at[t] = 0 /\ DOMAIN read[t] = {} /\ DOMAIN written[t] = {}
    BY DEF ResultInit
  <2>3. OwnInv /\ LockedInv
    BY <2>2 DEF OwnInv, ReadOk, WrittenOk, LockedInv
  <2>4. ASSUME NEW p PROVE Cardinality(Stored(p)) = 0
    <3>1. Stored(p) = {}
      BY <2>2 DEF Stored
    <3> QED BY <3>1, FS_EmptySet
  <2>5. GamesCounted
    BY <2>4 DEF ResultInit, GamesCounted
  <2> QED BY <2>1, <2>3, <2>5 DEF ResultInv
<1>2. ResultInv /\ [ResultNext]_result_vars => ResultInv'
  BY ResultStep
<1>3. ResultInv => GamesCounted /\ (NoneGivenUp => RatedGamesCounted)
  BY DEF ResultInv, RatedGamesCounted
<1> QED BY <1>1, <1>2, <1>3, PTL DEF ResultSpec
=============================================================================
