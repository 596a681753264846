----------------------------- MODULE DatabaseManager --------------------------
(***************************************************************************)
(* Transactions and their connections (src/src/DatabaseManager.cc).        *)
(* queueTransaction runs each transaction as a task of the pool, a task    *)
(* takes a connection, runs and gives it back, the collector joins and     *)
(* deletes the tasks.  The collector is a task of the pool itself.         *)
(*                                                                         *)
(* pqxx is not under src/: connection::perform runs a transaction that     *)
(* throws again on the same connection and is one step here.  After the    *)
(* third failure it lets the exception through, which ends the process     *)
(* since nobody catches it: the model stops short of that.                 *)
(***************************************************************************)
EXTENDS Pool

CONSTANTS Transaction,       \* the tasks queueTransaction creates
          Colector,          \* colector_task
          MaxConnections     \* max_connections of the configuration

ASSUME DatabaseAssumption ==
  /\ MaxConnections \in Nat \ {0} /\ IsFiniteSet(Transaction)
  /\ Transaction \cup {Colector} \subseteq Task /\ Colector \notin Transaction

VARIABLES free_connections,  \* how many connections are in the queue
          connections_left,
          opened,            \* connections created so far
          at,                \* where each transaction's task is
          running_tasks      \* queue of the collector

db_vars == <<free_connections, connections_left, opened, at, running_tasks>>

connection_vars == <<free_connections, connections_left, opened>>

Place == {"new", "started", "left", "take", "wait", "perform", "done"}

(* The connection the constructor opened is used by the transactions that  *)
(* are under way.                                                          *)
DatabaseInit(underway) ==
  /\ opened = 1 /\ connections_left = MaxConnections - 1
  /\ free_connections = IF underway = <<>> THEN 1 ELSE 0
  /\ at = [t \in Transaction |-> IF t \in Range(underway) THEN "perform" ELSE "new"]
  /\ running_tasks = underway

InTask(t) == \E w \in Thread : Runs(w, t)

-----------------------------------------------------------------------------

(* queueTransaction starts the task; it is handed to the collector when    *)
(* that has returned.                                                      *)
queueTransaction(t) ==
  /\ at[t] = "new" /\ status[t] = "ready"
  /\ Start(t)
  /\ at' = [at EXCEPT ![t] = "started"]
  /\ UNCHANGED <<connection_vars, running_tasks>>

(* getConnection: a free connection if there is one.                       *)
tryPop(t) ==
  /\ InTask(t) /\ at[t] = "started"
  /\ IF free_connections > 0
     THEN /\ free_connections' = free_connections - 1
          /\ at' = [at EXCEPT ![t] = "perform"]
     ELSE /\ at' = [at EXCEPT ![t] = "left"]
          /\ UNCHANGED free_connections
  /\ UNCHANGED <<pool_vars, running_tasks, connections_left, opened>>

(* connections_left > 0, read without a lock.                              *)
readConnectionsLeft(t) ==
  /\ InTask(t) /\ at[t] = "left"
  /\ at' = [at EXCEPT ![t] = IF connections_left > 0 THEN "take" ELSE "wait"]
  /\ UNCHANGED <<pool_vars, running_tasks, connection_vars>>

(* Mutant: the counter is decremented without looking at it again. *)
takeUnchecked(t) ==
  /\ InTask(t) /\ at[t] = "take"
  /\ connections_left' = connections_left - 1
  /\ opened' = opened + 1 /\ at' = [at EXCEPT ![t] = "perform"]
  /\ UNCHANGED <<pool_vars, running_tasks, free_connections>>

(* __sync_fetch_and_sub: the old value decides.                            *)
takeConnectionLeft(t) ==
  /\ InTask(t) /\ at[t] = "take"
  /\ connections_left' = connections_left - 1
  /\ IF connections_left > 0
     THEN opened' = opened + 1 /\ at' = [at EXCEPT ![t] = "perform"]
     ELSE at' = [at EXCEPT ![t] = "wait"] /\ UNCHANGED opened
  /\ UNCHANGED <<pool_vars, running_tasks, free_connections>>

popConnection(t) ==
  /\ InTask(t) /\ at[t] = "wait"
  /\ free_connections > 0
  /\ free_connections' = free_connections - 1
  /\ at' = [at EXCEPT ![t] = "perform"]
  /\ UNCHANGED <<pool_vars, running_tasks, connections_left, opened>>

(* Mutant: the connection is not given back. *)
commitKeepsConnection(t) ==
  /\ at[t] = "perform" /\ \E w \in Thread : Runs(w, t) /\ EndTask(w)
  /\ at' = [at EXCEPT ![t] = "done"]
  /\ UNCHANGED <<running_tasks, connection_vars>>

(* perform commits, execTransaction returns the connection and the task    *)
(* ends.                                                                   *)
commit(t) ==
  /\ at[t] = "perform" /\ \E w \in Thread : Runs(w, t) /\ EndTask(w)
  /\ at' = [at EXCEPT ![t] = "done"]
  /\ free_connections' = free_connections + 1
  /\ UNCHANGED <<running_tasks, connections_left, opened>>

-----------------------------------------------------------------------------

(* colector: the next task is popped, joined and deleted.  While it is     *)
(* joined it stands at the head of the queue.                              *)

collect ==
  /\ InTask(Colector) /\ running_tasks # <<>>
  /\ Joinable(Head(running_tasks))
  /\ status' = [status EXCEPT ![Head(running_tasks)] = "deleted"]
  /\ running_tasks' = Tail(running_tasks)
  /\ UNCHANGED <<tasks, idle_count, thread, job, connection_vars, at>>

DatabaseNext ==
  \/ \E t \in Transaction :
       \/ tryPop(t) \/ readConnectionsLeft(t) \/ takeConnectionLeft(t)
       \/ popConnection(t) \/ commit(t)
  \/ collect
=============================================================================
