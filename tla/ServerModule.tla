------------------------------- MODULE ServerModule ---------------------------
(***************************************************************************)
(* What the modules of the server share: the notifications of the core, a  *)
(* dispatcher that handles them and the clients' iqs one at a time, and    *)
(* transactions that threads of the database run later, in any order       *)
(* (src/src/ServerModule.cc, ServerCore.cc, DatabaseManager.cc).  One      *)
(* module works in a behaviour: of the tables they share that of the users *)
(* only, and AdminComponent has a step for the rows that the others add.   *)
(***************************************************************************)
EXTENDS DatabaseInterface

CONSTANTS Jid,
          PartialOf,        \* Jid -> the name of the user
          MaxInbox,         \* notifications that wait for the dispatcher
          MaxTransactions,  \* transactions under way
          MaxRestarts

ASSUME JidAssumption == Jid \subseteq DOMAIN PartialOf

VARIABLES available,        \* users_status of the core: who is available
          games,            \* the live games, as the sets of their players
          users_status,     \* users_status of the module
          inbox,            \* notifications queued on its dispatcher
          db,
          transactions,     \* those under way, a bag
          process,          \* "up", "stopping" after onStop, or "down"
          restarts

core_vars == <<available, games>>

module_vars == <<available, games, users_status, inbox, db, transactions, process, restarts>>

ServerModuleInit(tables) ==
  /\ available = {} /\ games = {}
  /\ users_status = {} /\ inbox = <<>>
  /\ db = tables /\ transactions = EmptyBag
  /\ process = "up" /\ restarts = 0

-----------------------------------------------------------------------------
(* The core.                                                               *)

(* notifyUserStatus, for the players in the order of the game's list.      *)
Notify(players) ==
  /\ Len(inbox) + Cardinality(players) <= MaxInbox
  /\ \E order \in SetToSeqs(players) :
       inbox' = inbox \o [i \in DOMAIN order |-> <<order[i], order[i] \in available'>>]

HandlePresence(u, is_available) ==
  /\ process = "up"
  /\ available' = IF is_available THEN available \cup {u} ELSE available \ {u}
  /\ Notify({u})
  /\ UNCHANGED <<games, users_status, db, transactions, process, restarts>>

CanPlay(u) == u \in available /\ \A players \in games : u \notin players

\* createGame; it throws create_game_error unless CanPlay holds of all players
CreateGame(players) ==
  /\ \A u \in players : CanPlay(u)
  /\ games' = games \cup {players} /\ UNCHANGED available
  /\ Notify(players)

EndGame(players) ==
  /\ process = "up" /\ players \in games
  /\ games' = games \ {players} /\ UNCHANGED available
  /\ Notify(players)
  /\ UNCHANGED <<users_status, db, transactions, process, restarts>>

-----------------------------------------------------------------------------
(* The dispatcher of the module.                                           *)

(* _handleStanza: the iqs of a user who is not available are refused.      *)
Handles(u) == process = "up" /\ u \in users_status

(* _notifyUserStatus, before handleUserStatus.                             *)
NextStatus(u, is_available) ==
  /\ process = "up" /\ inbox # <<>>
  /\ Head(inbox) = <<u, is_available>> /\ inbox' = Tail(inbox)
  /\ users_status' = IF is_available THEN users_status \cup {u} ELSE users_status \ {u}
  /\ UNCHANGED <<available, games, db, process, restarts>>

-----------------------------------------------------------------------------
(* Transactions.                                                           *)

Pending == BagToSet(transactions)

(* queueTransaction for each one of a set.                                 *)
QueueTransactions(new) ==
  /\ BagCardinality(transactions) + Cardinality(new) <= MaxTransactions
  /\ transactions' = transactions (+) SetToBag(new)

Commit(t, tables) ==
  /\ process # "down" /\ t \in Pending
  /\ transactions' = transactions (-) SetToBag({t})
  /\ db' = tables

(* A transaction that throws is run again; when it throws for the third    *)
(* time nobody catches the exception, which ends the process.              *)
Throw(t) ==
  /\ process # "down" /\ t \in Pending
  /\ IF t.attempt = 3
     THEN process' = "down" /\ UNCHANGED transactions
     ELSE /\ transactions' = transactions (-) SetToBag({t})
                                (+) SetToBag({[t EXCEPT !.attempt = @ + 1]})
          /\ UNCHANGED process
  /\ UNCHANGED <<core_vars, users_status, inbox, db, restarts>>

-----------------------------------------------------------------------------
(* The end of the process, and a new one.                                  *)

Kill ==
  /\ process # "down" /\ process' = "down"
  /\ restarts < MaxRestarts
  /\ UNCHANGED <<core_vars, users_status, inbox, db, transactions, restarts>>

(* The transactions of the process are rolled back and its memory is gone. *)
Restart(tables) ==
  /\ process = "down" /\ restarts < MaxRestarts
  /\ process' = "up" /\ restarts' = restarts + 1
  /\ available' = {} /\ games' = {} /\ users_status' = {} /\ inbox' = <<>>
  /\ transactions' = EmptyBag /\ db' = tables
=============================================================================
