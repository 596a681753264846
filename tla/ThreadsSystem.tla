------------------------------ MODULE ThreadsSystem ---------------------------
(***************************************************************************)
(* The pool, a dispatcher and the database's manager together, as in every *)
(* module of the server: the dispatcher and the collector are tasks that   *)
(* keep a thread, a message of a client queues a transaction, and          *)
(* transactions are tasks that share what threads and connections there    *)
(* are.                                                                    *)
(***************************************************************************)
EXTENDS Dispatcher, DatabaseManager

CONSTANTS Effect,    \* from <<client, number>> to the transactions it queues
          UnderWay   \* the transaction that runs at first

vars == <<pool_vars, dispatcher_vars, db_vars>>

(* The collector, the dispatcher and one transaction have their threads.   *)
Started == {Colector, DispatcherTask, UnderWay}

StartedJobs ==
  {f \in [Thread -> Started \cup {NoTask}] :
     \A t \in Started : \E w \in Thread : {x \in Thread : f[x] = t} = {w}}

ASSUME ThreadsAssumption ==
  /\ UnderWay \in Transaction /\ DispatcherTask \notin Transaction \cup {Colector}
  /\ \A x \in DOMAIN Effect : Effect[x] \in Transaction
  /\ StartedJobs # {}

Init ==
  /\ DispatcherInit /\ DatabaseInit(<<UnderWay>>)
  /\ tasks = <<>> /\ idle_count = 0
  /\ job = CHOOSE f \in StartedJobs : TRUE
  /\ thread = [w \in Thread |-> IF job[w] = NoTask THEN "none" ELSE "running"]
  /\ status = [t \in Task |-> IF t \in Started THEN "running" ELSE "ready"]

(* The transactions a message queues when it is run: one or none.          *)
EffectOf(message) ==
  IF /\ Len(message) = 3 /\ message[3] # "schedule"
     /\ <<message[1], message[2]>> \in DOMAIN Effect
  THEN <<Effect[<<message[1], message[2]>>]>> ELSE <<>>

CallStarts(t) ==
  /\ dpc \in {"call", "draincall"} /\ t \in Range(EffectOf(calling))
  /\ queueTransaction(t)
  /\ UNCHANGED dispatcher_vars

(* A call returns when its transaction is started and handed over.         *)
DispatcherStep(step) ==
  LET returns == dpc \in {"call", "draincall"} /\ dpc' # dpc
      queued == IF returns THEN EffectOf(calling) ELSE <<>>
  IN /\ step
     /\ \A t \in Range(queued) : at[t] # "new"
     /\ running_tasks' = running_tasks \o queued
     /\ UNCHANGED <<connection_vars, at>>

DatabaseStep(step) == step /\ UNCHANGED dispatcher_vars

PoolStep(step) == step /\ UNCHANGED <<dispatcher_vars, db_vars>>

Next ==
  \/ DispatcherStep(DispatcherNext)
  \/ DatabaseStep(DatabaseNext)
  \/ \E w \in Thread : PoolStep(TakeTask(w))
  \/ \E t \in Transaction : CallStarts(t)

(* Threads are scheduled and time passes.  Nobody has to send a message or *)
(* to stop the dispatcher.                                                 *)
Fairness ==
  /\ WF_vars(DispatcherStep(Run)) /\ WF_vars(DispatcherStep(Tick))
  /\ WF_vars(DispatcherStep(StopPush)) /\ WF_vars(DispatcherStep(StopJoin))
  /\ \A w \in Thread : WF_vars(PoolStep(TakeTask(w)))
  /\ \A t \in Transaction :
       /\ WF_vars(CallStarts(t))
       /\ WF_vars(DatabaseStep(tryPop(t) \/ readConnectionsLeft(t) \/ takeConnectionLeft(t)))
       /\ WF_vars(DatabaseStep(popConnection(t)))
       /\ WF_vars(DatabaseStep(commit(t)))
  /\ WF_vars(DatabaseStep(collect))

Spec == Init /\ [][Next]_vars

FairSpec == Spec /\ Fairness

-----------------------------------------------------------------------------
(* Properties.                                                             *)

(* However transactions and the collector interleave, every connection     *)
(* that was opened is in the queue or with one transaction, and no more    *)
(* than max_connections are opened, although the counter of those left is  *)
(* read and decremented by several threads (DatabaseManager.cc:179).       *)
ConnectionsAccounted ==
  /\ opened <= MaxConnections
  /\ opened = free_connections + Cardinality({t \in Transaction : at[t] = "perform"})

(* The pool and its tasks: for every task that was launched there is a     *)
(* thread about to look at the queue, no two threads run one task, and the *)
(* collector deletes a task only when its transaction is over.             *)
TasksHaveThreads ==
  /\ Len(tasks) <= Cardinality({w \in Thread : thread[w] \in {"free", "awake"}})
  /\ \A w, x \in Thread : job[w] = job[x] => w = x \/ job[w] = NoTask
  /\ \A t \in Transaction : status[t] = "deleted" =>
       at[t] = "done" /\ \A w \in Thread : job[w] # t

(* The messages of a client are run in the order it sent them, those of    *)
(* the agenda not before their time; an exec returns when its message was  *)
(* run; and stop returns when all messages queued before it were run.      *)
MessagesInOrder ==
  /\ \A c \in Client :
       LET ran == {m[2] : m \in {x \in done \cup {calling} :
                                  Len(x) = 3 /\ x[1] = c /\ x[3] # "timed"}}
       IN ran = 1..Cardinality(ran)
  /\ \A d \in due : d[1] \in done \cup {calling} => d[2] <= now
  /\ \A c \in Client : \A n \in 1..sent[c] :
       <<c, n, "exec">> \in done => sent[c] > n \/ c \notin waiting
  /\ stopping = "joined" => before \subseteq done

(* Nothing is left to do: the transactions that were queued have ended and *)
(* are collected; and, unless stop was called, every message sent was run, *)
(* and every scheduled one but those that another one scheduled for the    *)
(* same instant kept out of the agenda.                                    *)
AllDone ==
  /\ \A t \in Transaction : at[t] # "new" => status[t] = "deleted"
  /\ stopping = "no" =>
       /\ queue = <<>> /\ calling = NoMessage /\ waiting = {}
       /\ \A x \in due : x[1] \in done \/ \E y \in due : y # x /\ y[2] = x[2]

(* Clients send finitely many messages: in the end all of the work is done,*)
(* however few connections there are.                                      *)
WorkGetsDone == <>[]AllDone
=============================================================================
