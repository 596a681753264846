------------------------------- MODULE GameResults -----------------------------
(***************************************************************************)
(* Results of rated games, stored by transactions that run at the same     *)
(* time: DatabaseInterface::insertGameResult, statement by statement.      *)
(*                                                                         *)
(* The tables are PostgreSQL's in READ COMMITTED, which is not under src/: *)
(* a statement reads what is committed; SELECT FOR UPDATE and UPDATE wait  *)
(* for a row another transaction holds, in a queue, and then read it again;*)
(* an INSERT waits for one with the same key that is not committed yet,    *)
(* and fails when it is; in a circle of waiting transactions one is rolled *)
(* back.                                                                   *)
(* pqxx runs a transaction that failed again, three times in all.  A       *)
(* rating is abstracted to the number of games it counts.                  *)
(***************************************************************************)
EXTENDS DatabaseInterface

CONSTANTS Player,
          RatedResult,     \* the results that are stored
          PlayersOf,       \* its players, in the order of the game's list
          JidOrder,        \* all players in the order of std::map<Jid>
          Nobody,          \* holds the rows that nobody holds
          Rated            \* players who have a row in player_rating at first

ASSUME ResultAssumption ==
  /\ IsFiniteSet(RatedResult) /\ Nobody \notin RatedResult /\ Rated \subseteq Player
  /\ \A t \in RatedResult : PlayersOf[t] \in Player \X Player

VARIABLES rows,            \* Player -> games counted, or -1 without a row
          holder,          \* Player -> the transaction that holds the row
          at,              \* where the transaction of a result is
          read,            \* what it read
          written,         \* what it wrote
          attempt

result_vars == <<rows, holder, at, read, written, attempt>>

NoRow == -1

Before(p, q) ==
  \E i, j \in DOMAIN JidOrder : i < j /\ JidOrder[i] = p /\ JidOrder[j] = q

\* those of a result in the order of std::map<Jid>
Ordered(players) ==
  IF Before(players[1], players[2]) THEN players ELSE <<players[2], players[1]>>

\* the statements: two SELECTs in list order, then UPDATE or INSERT in Jid order
Statements(t) ==
  LET selected == PlayersOf[t]
      updated == Ordered(PlayersOf[t])
  IN <<<<"select", selected[1]>>, <<"select", selected[2]>>,
       <<"update", updated[1]>>, <<"update", updated[2]>>>>

ResultInit ==
  /\ rows = [p \in Player |-> IF p \in Rated THEN 0 ELSE NoRow]
  /\ holder = [p \in Player |-> Nobody]
  /\ at = [t \in RatedResult |-> 0] /\ attempt = [t \in RatedResult |-> 1]
  /\ read = [t \in RatedResult |-> <<>>] /\ written = [t \in RatedResult |-> <<>>]

Statement(t, kind, p) == at[t] \in 1..4 /\ Statements(t)[at[t]] = <<kind, p>>

Continue(t) == at' = [at EXCEPT ![t] = @ + 1]

\* ServerCore::_endGame queues the transaction
begin(t) ==
  at[t] = 0 /\ Continue(t) /\ UNCHANGED <<rows, holder, read, written, attempt>>

Reads(t, p) ==
  read' = [read EXCEPT ![t] = Put(@, p, IF rows[p] = NoRow THEN 0 ELSE rows[p])]

Inserts(t, p) ==
  Statement(t, "update", p) /\ p \in DOMAIN written[t] /\ written[t][p] = NoRow

(* The row a transaction waits for: to lock it, or to insert one that is   *)
(* not committed yet.                                                      *)
Waits(t, p) ==
  /\ at[t] \in 1..4 /\ Statements(t)[at[t]][2] = p
  /\ rows[p] # NoRow \/ Inserts(t, p)
  /\ holder[p] \notin {Nobody, t}

(* The rows of a transaction that ends go to one of those who wait.        *)
Release(t) ==
  \E next \in [Player -> RatedResult \cup {Nobody}] :
    /\ \A p \in Player :
         LET waiting == {w \in RatedResult : Waits(w, p)} IN
         IF holder[p] # t THEN next[p] = holder[p]
         ELSE IF waiting = {} THEN next[p] = Nobody ELSE next[p] \in waiting
    /\ holder' = next

(* Mutant: the rating is read without FOR UPDATE. *)
getRating(t, p) ==
  /\ Statement(t, "select", p)
  /\ Reads(t, p) /\ Continue(t)
  /\ UNCHANGED <<rows, holder, written, attempt>>

(* getRatingForUpdate: a row is locked until the end; where there is none, *)
(* there is nothing to lock.                                               *)
getRatingForUpdate(t, p) ==
  /\ Statement(t, "select", p)
  /\ \/ rows[p] = NoRow /\ UNCHANGED holder
     \/ rows[p] # NoRow /\ holder[p] \in {Nobody, t}
        /\ holder' = [holder EXCEPT ![p] = t]
  /\ Reads(t, p) /\ Continue(t)
  /\ UNCHANGED <<rows, written, attempt>>

Write(t, p) ==
  /\ holder[p] \in {Nobody, t} /\ holder' = [holder EXCEPT ![p] = t]
  /\ written' = [written EXCEPT ![t] = Put(@, p, read[t][p] + 1)]
  /\ Continue(t)
  /\ UNCHANGED <<rows, read, attempt>>

(* setRating: the UPDATE found no row, and the INSERT comes in another     *)
(* statement, before which a row may be committed.                         *)
updateNothing(t, p) ==
  /\ Statement(t, "update", p) /\ rows[p] = NoRow /\ p \notin DOMAIN written[t]
  /\ written' = [written EXCEPT ![t] = Put(@, p, NoRow)]
  /\ UNCHANGED <<rows, holder, at, read, attempt>>

(* setRating: the UPDATE of a row.                                         *)
updateRating(t, p) ==
  Statement(t, "update", p) /\ ~Inserts(t, p) /\ rows[p] # NoRow /\ Write(t, p)

insertRating(t, p) == Inserts(t, p) /\ rows[p] = NoRow /\ Write(t, p)

\* insertGame, and the end of the transaction
commit(t) ==
  /\ at[t] = 5 /\ at' = [at EXCEPT ![t] = 6]
  /\ rows' = [p \in Player |-> IF p \in DOMAIN written[t] THEN written[t][p] ELSE rows[p]]
  /\ Release(t)
  /\ UNCHANGED <<read, written, attempt>>

-----------------------------------------------------------------------------

(* A circle: each of the set waits for one of them, and is waited for.     *)
Deadlocked(t) ==
  \E ts \in SUBSET RatedResult :
    /\ t \in ts /\ \A w \in ts : \E p \in Player : Waits(w, p)
    /\ {holder[p] : p \in {q \in Player : \E w \in ts : Waits(w, q)}} = ts

(* Rolled back by a deadlock, or since the row to insert is there by now.  *)
rollback(t) ==
  /\ \/ Deadlocked(t)
     \/ \E p \in Player : Inserts(t, p) /\ rows[p] # NoRow /\ ~Waits(t, p)
  /\ attempt' = [attempt EXCEPT ![t] = @ + 1]
  /\ at' = [at EXCEPT ![t] = 1]
  /\ Release(t)
  /\ read' = [read EXCEPT ![t] = <<>>] /\ written' = [written EXCEPT ![t] = <<>>]
  /\ UNCHANGED rows

ResultNext ==
  \E t \in RatedResult :
    \/ begin(t) \/ commit(t) \/ rollback(t)
    \/ \E p \in Player : \/ getRatingForUpdate(t, p) \/ updateRating(t, p)
                         \/ updateNothing(t, p) \/ insertRating(t, p)

ResultSpec == ResultInit /\ [][ResultNext]_result_vars

-----------------------------------------------------------------------------
(* Properties.                                                             *)

Stored(p) == {t \in RatedResult : at[t] = 6 /\ p \in Range(PlayersOf[t])}

(* Each stored game is counted once in the rating of a player who had a    *)
(* row when the first of them ended, whatever locks and rollbacks come in  *)
(* between.  A player without a row has nothing to lock: games that end at *)
(* the same time may overwrite each other, but one is counted, and no game *)
(* is counted that is not stored.                                          *)
GamesCounted ==
  \A p \in Player :
    LET counted == IF rows[p] = NoRow THEN 0 ELSE rows[p]
        stored == Cardinality(Stored(p))
    IN /\ p \in Rated => counted = stored
       /\ counted <= stored /\ (stored > 0 => counted > 0)

\* no transaction was rolled back for the third time, and its result lost
NoneGivenUp == \A t \in RatedResult : attempt[t] <= 3

(* The games are counted, and those that are stored at the same time roll  *)
(* none of them back three times.                                          *)
RatedGamesCounted == GamesCounted /\ NoneGivenUp
=============================================================================
