----------------------------- MODULE ThreadsProofs ----------------------------
(***************************************************************************)
(* Proofs about ThreadsSystem, for any number of threads, transactions,    *)
(* connections and clients: no connection is lost or opened beyond the     *)
(* maximum, every task that was launched has its thread, and the messages  *)
(* of a client are run in their order.  And about Connection, for any      *)
(* number of stanzas and users: the connection is closed once, however     *)
(* errors, signals and the two closes of main meet, and what was promised  *)
(* is delivered.                                                           *)
(***************************************************************************)
EXTENDS ThreadsSystem, Connection, FiniteSetTheorems, SequenceTheorems, WellFoundedInduction, TLAPS

(* The threads in one of the states of K.                                  *)
Those(K) == {w \in Thread : thread[w] \in K}

Performing == {t \in Transaction : at[t] = "perform"}

UnderWayPlaces == {"started", "left", "take", "wait", "perform"}

(* Types, of the variables the proofs are about.                           *)
TypeInv ==
  /\ tasks \in Seq(Task)
  /\ idle_count \in Nat
  /\ thread \in [Thread -> ThreadState]
  /\ job \in [Thread -> Task \cup {NoTask}]
  /\ status \in [Task -> TaskStatus]
  /\ at \in [Transaction -> Place]
  /\ running_tasks \in Seq(Transaction)
  /\ free_connections \in Nat /\ opened \in Nat /\ connections_left \in Int

(* A connection that may still be opened is counted by connections_left;   *)
(* the counter may go below zero, by threads that read it before.          *)
ConnectionInv ==
  /\ opened + connections_left <= MaxConnections
  /\ opened <= MaxConnections
  /\ opened = free_connections + Cardinality(Performing)

(* The pool: idle_count is the number of threads that wait for a signal,   *)
(* a task is in the queue once, until a thread runs it.                    *)
PoolInv ==
  /\ idle_count = Cardinality(Those({"waiting"}))
  /\ Len(tasks) <= Cardinality(Those({"free", "awake"}))
  /\ \A i, j \in 1..Len(tasks) : tasks[i] = tasks[j] => i = j
  /\ \A i \in 1..Len(tasks) : status[tasks[i]] = "waiting"
  /\ \A w \in Thread : IF thread[w] = "running"
                       THEN job[w] \in Task /\ status[job[w]] = "running"
                       ELSE job[w] = NoTask
  /\ \A w, x \in Thread : job[w] = job[x] => w = x \/ job[w] = NoTask

(* The status of a transaction's task follows where the transaction is.    *)
TransactionInv ==
  /\ \A t \in Transaction :
       /\ at[t] = "new" => status[t] = "ready"
       /\ at[t] \in UnderWayPlaces => status[t] \in {"waiting", "running"}
       /\ at[t] = "done" => status[t] \in {"ready", "deleted"}
  /\ \A i \in 1..Len(running_tasks) : at[running_tasks[i]] # "new"

IInv == TypeInv /\ ConnectionInv /\ PoolInv /\ TransactionInv

-----------------------------------------------------------------------------

(* How many are in one of some states, when one of them changes state.     *)
LEMMA CountChange ==
  ASSUME NEW before_, NEW after, IsFiniteSet(before_), NEW x,
         after \ {x} = before_ \ {x}
  PROVE  /\ IsFiniteSet(after)
         /\ Cardinality(before_) \in Nat /\ Cardinality(after) \in Nat
         /\ (x \in before_ <=> x \in after) => Cardinality(after) = Cardinality(before_)
         /\ x \in before_ /\ x \notin after => Cardinality(after) = Cardinality(before_) - 1
         /\ x \notin before_ /\ x \in after => Cardinality(after) = Cardinality(before_) + 1
<1>1. CASE x \in before_ <=> x \in after
  <2>1. after = before_
    BY <1>1
  <2> QED BY <1>1, <2>1, FS_CardinalityType
<1>2. CASE x \in before_ /\ x \notin after
  <2>1. after = before_ \ {x}
    BY <1>2
  <2>2. IsFiniteSet(after) /\ Cardinality(after) = Cardinality(before_) - 1
    BY <1>2, <2>1, FS_RemoveElement
  <2> QED BY <1>2, <2>2, FS_CardinalityType
<1>3. CASE x \notin before_ /\ x \in after
  <2>1. after = before_ \cup {x}
    BY <1>3
  <2>2. IsFiniteSet(after) /\ Cardinality(after) = Cardinality(before_) + 1
    BY <1>3, <2>1, FS_AddElement
  <2> QED BY <1>3, <2>2, FS_CardinalityType
<1> QED BY <1>1, <1>2, <1>3

(* What a thread's change of state does to the counts of the pool.         *)
LEMMA ThreadCounts ==
  ASSUME TypeInv, NEW w \in Thread, NEW v \in ThreadState, NEW K,
         thread' = [thread EXCEPT ![w] = v]
  PROVE  /\ Cardinality(Those(K)) \in Nat
         /\ thread[w] \in K /\ v \in K => Cardinality(Those(K)') = Cardinality(Those(K))
         /\ thread[w] \notin K /\ v \notin K => Cardinality(Those(K)') = Cardinality(Those(K))
         /\ thread[w] \in K /\ v \notin K => Cardinality(Those(K)') = Cardinality(Those(K)) - 1
         /\ thread[w] \notin K /\ v \in K => Cardinality(Those(K)') = Cardinality(Those(K)) + 1
<1>1. thread'[w] = v /\ \A y \in Thread \ {w} : thread'[y] = thread[y]
  BY DEF TypeInv
<1>2. IsFiniteSet(Those(K))
  BY FS_Subset, PoolAssumption DEF Those
<1>3. Those(K)' \ {w} = Those(K) \ {w}
  BY <1>1 DEF Those
<1>4. (w \in Those(K) <=> thread[w] \in K) /\ (w \in Those(K)' <=> v \in K)
  BY <1>1 DEF Those
<1> QED BY <1>2, <1>3, <1>4, CountChange

(* The variables of the pool have their types and satisfy PoolInv.         *)
PoolOK == TypeInv /\ PoolInv

(* A thread that finds a task runs it, and waits when there is none.       *)
LEMMA TakeTaskPool ==
  ASSUME PoolOK, NEW w \in Thread, TakeTask(w), UNCHANGED db_vars
  PROVE  PoolOK'
<1> USE DEF PoolOK
<1>1. thread[w] \in {"free", "awake"} /\ w \in Thread /\ job[w] = NoTask
  BY DEF TakeTask, PoolInv
<1>2. UNCHANGED <<free_connections, connections_left, opened, at, running_tasks>>
  BY DEF db_vars
<1>3. CASE tasks = <<>>
  <2>1. /\ idle_count' = idle_count + 1
        /\ thread' = [thread EXCEPT ![w] = "waiting"]
        /\ UNCHANGED <<tasks, job, status>>
    BY <1>3 DEF TakeTask
  <2>2. TypeInv'
    BY <1>2, <2>1 DEF TypeInv, ThreadState
  <2>3. "waiting" \in ThreadState
    BY DEF ThreadState
  <2>4. Cardinality(Those({"waiting"})') = Cardinality(Those({"waiting"})) + 1
    BY <1>1, <2>1, <2>3, ThreadCounts
  <2>5. /\ Cardinality(Those({"free", "awake"})') = Cardinality(Those({"free", "awake"})) - 1
        /\ Cardinality(Those({"free", "awake"})) \in Nat
    BY <1>1, <2>1, <2>3, ThreadCounts
  <2>6. Cardinality(Those({"free", "awake"})') \in Nat
    BY <2>1, FS_Subset, FS_CardinalityType, PoolAssumption DEF Those
  <2>7. Len(tasks') = 0
    BY <1>3, <2>1
  <2>8. \A x \in Thread : thread'[x] = (IF x = w THEN "waiting" ELSE thread[x])
    BY <2>1 DEF TypeInv
  <2>9. PoolInv'
    BY <1>1, <2>1, <2>4, <2>6, <2>7, <2>8 DEF PoolInv
  <2> QED BY <2>2, <2>9
<1>4. CASE tasks # <<>>
  <2>1. /\ tasks' = Tail(tasks)
        /\ thread' = [thread EXCEPT ![w] = "running"]
        /\ job' = [job EXCEPT ![w] = Head(tasks)]
        /\ status' = [status EXCEPT ![Head(tasks)] = "running"]
        /\ idle_count' = idle_count
    BY <1>4 DEF TakeTask
  <2>2. /\ Head(tasks) = tasks[1] /\ Head(tasks) \in Task
        /\ tasks' \in Seq(Task) /\ Len(tasks) \in Nat /\ Len(tasks) > 0
        /\ Len(tasks') = Len(tasks) - 1
        /\ \A i \in 1..Len(tasks') : tasks'[i] = tasks[i + 1]
    BY <1>4, <2>1 DEF TypeInv
  <2>3. TypeInv'
    BY <1>2, <2>1, <2>2 DEF TypeInv, ThreadState, TaskStatus
  <2>4. "running" \in ThreadState
    BY DEF ThreadState
  <2>5. Cardinality(Those({"waiting"})') = Cardinality(Those({"waiting"}))
    BY <1>1, <2>1, <2>4, ThreadCounts
  <2>6. /\ Cardinality(Those({"free", "awake"})') = Cardinality(Those({"free", "awake"})) - 1
        /\ Cardinality(Those({"free", "awake"})) \in Nat
    BY <1>1, <2>1, <2>4, ThreadCounts
  <2>7. /\ \A x \in Thread : thread'[x] = (IF x = w THEN "running" ELSE thread[x])
        /\ \A x \in Thread : job'[x] = (IF x = w THEN Head(tasks) ELSE job[x])
        /\ \A t \in Task : status'[t] = (IF t = Head(tasks) THEN "running" ELSE status[t])
    BY <2>1 DEF TypeInv
  <2>8. status[Head(tasks)] = "waiting"
    BY <2>2 DEF PoolInv
  <2>9. /\ \A i, j \in 1..Len(tasks') : tasks'[i] = tasks'[j] => i = j
        /\ \A i \in 1..Len(tasks') : tasks'[i] # Head(tasks) /\ status[tasks'[i]] = "waiting"
                                      /\ tasks'[i] \in Task
    <3>1. \A i \in 1..Len(tasks') : i + 1 \in 1..Len(tasks) /\ i + 1 # 1
      BY <2>2
    <3>2. 1 \in 1..Len(tasks)
      BY <2>2
    <3>3. \A i, j \in 1..Len(tasks) : tasks[i] = tasks[j] => i = j
      BY DEF PoolInv
    <3>4. \A i \in 1..Len(tasks) : status[tasks[i]] = "waiting" /\ tasks[i] \in Task
      BY DEF PoolInv, TypeInv
    <3>5. \A i, j \in 1..Len(tasks') : i + 1 = j + 1 => i = j
      OBVIOUS
    <3> QED BY <2>2, <3>1, <3>2, <3>3, <3>4, <3>5
  <2>10. \A i \in 1..Len(tasks') : status'[tasks'[i]] = "waiting"
    BY <2>7, <2>9
  <2>11. \A x \in Thread : job[x] # Head(tasks)
    BY <2>2, <2>8, PoolAssumption DEF PoolInv
  <2>12. \A x \in Thread : IF thread'[x] = "running"
                            THEN job'[x] \in Task /\ status'[job'[x]] = "running"
                            ELSE job'[x] = NoTask
    BY <2>2, <2>7 DEF PoolInv
  <2>13. \A x, y \in Thread : job'[x] = job'[y] => x = y \/ job'[x] = NoTask
    BY <2>7, <2>11 DEF PoolInv
  <2>14. Len(tasks') <= Cardinality(Those({"free", "awake"})')
    BY <2>2, <2>6 DEF PoolInv
  <2>15. idle_count' = Cardinality(Those({"waiting"})')
    BY <2>1, <2>5 DEF PoolInv
  <2>16. PoolInv'
    BY <2>9, <2>10, <2>12, <2>13, <2>14, <2>15 DEF PoolInv
  <2> QED BY <2>3, <2>16
<1> QED BY <1>3, <1>4

(* Task::start puts a ready task in the queue, and a thread is there for it. *)
LEMMA StartPool ==
  ASSUME PoolOK, NEW t \in Task, Start(t),
         UNCHANGED <<free_connections, connections_left, opened, running_tasks>>,
         at' \in [Transaction -> Place]
  PROVE  PoolOK' /\ status' = [status EXCEPT ![t] = "waiting"]
<1> USE DEF PoolOK
<1>1. /\ status[t] = "ready" /\ status' = [status EXCEPT ![t] = "waiting"]
      /\ tasks' = Append(tasks, t) /\ job' = job
  BY DEF Start, launchTask
<1>2. /\ tasks' \in Seq(Task) /\ Len(tasks) \in Nat /\ Len(tasks') = Len(tasks) + 1
      /\ \A i \in 1..Len(tasks') : tasks'[i] = (IF i = Len(tasks) + 1 THEN t ELSE tasks[i])
  BY <1>1 DEF TypeInv
<1>3. PICK w \in Thread : \/ /\ idle_count > 0 /\ idle_count' = idle_count - 1
                              /\ Signalled(w)
                           \/ /\ ~(idle_count > 0) /\ idle_count' = idle_count
                              /\ thread[w] = "none"
                              /\ thread' = [thread EXCEPT ![w] = "free"]
  BY DEF Start, launchTask
<1>4. /\ \A u \in Task : status'[u] = (IF u = t THEN "waiting" ELSE status[u])
      /\ status' \in [Task -> TaskStatus]
  BY <1>1 DEF TypeInv, TaskStatus
<1>5. /\ \A i, j \in 1..Len(tasks') : tasks'[i] = tasks'[j] => i = j
      /\ \A i \in 1..Len(tasks') : status'[tasks'[i]] = "waiting"
  <2>1. \A i \in 1..Len(tasks) : tasks[i] # t /\ tasks[i] \in Task
    BY <1>1 DEF PoolInv, TypeInv
  <2>2. \A i \in 1..Len(tasks') : i = Len(tasks) + 1 \/ i \in 1..Len(tasks)
    BY <1>2
  <2> QED BY <1>2, <1>4, <2>1, <2>2 DEF PoolInv
<1>6. PICK v \in {"awake", "free"}, old \in {"waiting", "none"} :
        /\ thread[w] = old /\ thread' = [thread EXCEPT ![w] = v]
        /\ idle_count' = IF old = "waiting" THEN idle_count - 1 ELSE idle_count
        /\ idle_count' \in Nat
  <2>1. CASE idle_count > 0 /\ idle_count' = idle_count - 1 /\ Signalled(w)
    <3>1. \E x \in Thread : thread[x] = "waiting"
      <4>1. SUFFICES ASSUME \A x \in Thread : thread[x] # "waiting" PROVE FALSE
        OBVIOUS
      <4>2. Those({"waiting"}) = {}
        BY <4>1 DEF Those
      <4>3. idle_count = Cardinality({})
        BY <4>2 DEF PoolInv
      <4> QED BY <2>1, <4>3, FS_EmptySet
    <3> QED BY <2>1, <3>1 DEF Signalled, TypeInv
  <2>2. CASE /\ ~(idle_count > 0) /\ idle_count' = idle_count /\ thread[w] = "none"
             /\ thread' = [thread EXCEPT ![w] = "free"]
    BY <2>2 DEF TypeInv
  <2> QED BY <1>3, <2>1, <2>2
<1>7. v \in ThreadState /\ old \notin {"free", "awake"} /\ v # "waiting"
  BY DEF ThreadState
<1>8. /\ Cardinality(Those({"waiting"})) \in Nat
      /\ Cardinality(Those({"waiting"})') =
           IF old = "waiting" THEN Cardinality(Those({"waiting"})) - 1
                              ELSE Cardinality(Those({"waiting"}))
  <2>1. thread[w] \in {"waiting"} <=> old = "waiting"
    BY <1>6
  <2> QED BY <1>6, <1>7, <2>1, ThreadCounts
<1>9. /\ Cardinality(Those({"free", "awake"})) \in Nat
      /\ Cardinality(Those({"free", "awake"})') = Cardinality(Those({"free", "awake"})) + 1
  <2>1. thread[w] \notin {"free", "awake"} /\ v \in {"free", "awake"}
    BY <1>6, <1>7
  <2> QED BY <1>6, <1>7, <2>1, ThreadCounts
<1>10. \A x \in Thread : thread'[x] = (IF x = w THEN v ELSE thread[x])
  BY <1>6 DEF TypeInv
<1>11. \A x \in Thread : IF thread'[x] = "running"
                          THEN job'[x] \in Task /\ status'[job'[x]] = "running"
                          ELSE job'[x] = NoTask
  BY <1>1, <1>4, <1>6, <1>10 DEF PoolInv
<1>12. idle_count' = Cardinality(Those({"waiting"})')
  BY <1>6, <1>8 DEF PoolInv
<1>13. Len(tasks') <= Cardinality(Those({"free", "awake"})')
  BY <1>2, <1>9 DEF PoolInv
<1>14. PoolInv'
  BY <1>1, <1>5, <1>11, <1>12, <1>13 DEF PoolInv
<1>15. TypeInv'
  BY <1>1, <1>2, <1>4, <1>6, <1>7 DEF TypeInv
<1> QED BY <1>1, <1>14, <1>15

(* A task that ends makes its thread free and is ready again.              *)
LEMMA EndTaskPool ==
  ASSUME PoolOK, NEW w \in Thread, EndTask(w),
         at' \in [Transaction -> Place], running_tasks' \in Seq(Transaction),
         free_connections' \in Nat, UNCHANGED <<connections_left, opened>>
  PROVE  PoolOK' /\ job[w] \in Task /\ status' = [status EXCEPT ![job[w]] = "ready"]
<1> USE DEF PoolOK
<1>1. /\ thread[w] = "running" /\ thread' = [thread EXCEPT ![w] = "free"]
      /\ job' = [job EXCEPT ![w] = NoTask]
      /\ status' = [status EXCEPT ![job[w]] = "ready"]
      /\ UNCHANGED <<tasks, idle_count>>
  BY DEF EndTask
<1>2. job[w] \in Task /\ status[job[w]] = "running"
  BY <1>1 DEF PoolInv
<1>3. TypeInv'
  BY <1>1, <1>2 DEF TypeInv, ThreadState, TaskStatus
<1>4. "free" \in ThreadState
  BY DEF ThreadState
<1>5. Cardinality(Those({"waiting"})') = Cardinality(Those({"waiting"}))
  BY <1>1, <1>4, ThreadCounts
<1>6. /\ Cardinality(Those({"free", "awake"})') = Cardinality(Those({"free", "awake"})) + 1
      /\ Cardinality(Those({"free", "awake"})) \in Nat
  BY <1>1, <1>4, ThreadCounts
<1>7. /\ \A x \in Thread : thread'[x] = (IF x = w THEN "free" ELSE thread[x])
      /\ \A x \in Thread : job'[x] = (IF x = w THEN NoTask ELSE job[x])
      /\ \A t \in Task : status'[t] = (IF t = job[w] THEN "ready" ELSE status[t])
  BY <1>1, <1>2 DEF TypeInv
<1>8. \A i \in 1..Len(tasks) : tasks[i] # job[w] /\ tasks[i] \in Task
  BY <1>2 DEF PoolInv, TypeInv
<1>9. \A i \in 1..Len(tasks') : status'[tasks'[i]] = "waiting"
  BY <1>1, <1>7, <1>8 DEF PoolInv
<1>10. \A x \in Thread : IF thread'[x] = "running"
                          THEN job'[x] \in Task /\ status'[job'[x]] = "running"
                          ELSE job'[x] = NoTask
  BY <1>2, <1>7, PoolAssumption DEF PoolInv
<1>11. \A x, y \in Thread : job'[x] = job'[y] => x = y \/ job'[x] = NoTask
  BY <1>7 DEF PoolInv
<1>12. Len(tasks') <= Cardinality(Those({"free", "awake"})')
  <2>1. Len(tasks) \in Nat
    BY DEF TypeInv
  <2> QED BY <1>1, <1>6, <2>1 DEF PoolInv
<1>13. PoolInv'
  BY <1>1, <1>5, <1>9, <1>10, <1>11, <1>12 DEF PoolInv
<1> QED BY <1>1, <1>2, <1>3, <1>13

-----------------------------------------------------------------------------

(* How many transactions have a connection when one of them goes on.       *)
LEMMA PlaceCounts ==
  ASSUME TypeInv, NEW t \in Transaction, NEW p, at' = [at EXCEPT ![t] = p]
  PROVE  /\ Cardinality(Performing) \in Nat
         /\ at[t] # "perform" /\ p # "perform" =>
              Cardinality(Performing') = Cardinality(Performing)
         /\ at[t] # "perform" /\ p = "perform" =>
              Cardinality(Performing') = Cardinality(Performing) + 1
         /\ at[t] = "perform" /\ p # "perform" =>
              Cardinality(Performing') = Cardinality(Performing) - 1
<1>1. at'[t] = p /\ \A u \in Transaction \ {t} : at'[u] = at[u]
  BY DEF TypeInv
<1>2. IsFiniteSet(Performing)
  BY FS_Subset, DatabaseAssumption DEF Performing
<1>3. Performing' \ {t} = Performing \ {t}
  BY <1>1 DEF Performing
<1>4. (t \in Performing <=> at[t] = "perform") /\ (t \in Performing' <=> p = "perform")
  BY <1>1 DEF Performing
<1> QED BY <1>2, <1>3, <1>4, CountChange

(* The dispatcher's steps leave the pool alone, but for the end of its     *)
(* task.                                                                   *)
LEMMA DispatcherPool ==
  ASSUME DispatcherNext
  PROVE  \/ UNCHANGED pool_vars
         \/ \E w \in Thread : Runs(w, DispatcherTask) /\ EndTask(w)
BY DEF DispatcherNext, Exec, Schedule, StopFlag, StopPush, StopJoin, Tick, Run, Pop,
       TimedWait, Timeout, Call, Drain, rest

LEMMA InitIInv == Init => IInv
<1> SUFFICES ASSUME Init PROVE IInv
  OBVIOUS
<1> USE DEF Init, DatabaseInit
<1>1. job \in StartedJobs
  BY ThreadsAssumption
<1>2. /\ job \in [Thread -> Started \cup {NoTask}]
      /\ \A t \in Started : \E w \in Thread : {x \in Thread : job[x] = t} = {w}
  BY <1>1 DEF StartedJobs
<1>3. Started \subseteq Task /\ NoTask \notin Started
  BY ThreadsAssumption, DispatcherAssumption, DatabaseAssumption, PoolAssumption DEF Started
<1>4. at = [t \in Transaction |-> IF t = UnderWay THEN "perform" ELSE "new"]
  BY DEF Range
<1>5. running_tasks \in Seq(Transaction) /\ running_tasks = <<UnderWay>>
  BY ThreadsAssumption
<1>6. free_connections = 0 /\ opened = 1 /\ connections_left = MaxConnections - 1
  OBVIOUS
<1>7. TypeInv
  BY <1>2, <1>3, <1>4, <1>5, <1>6, DatabaseAssumption
     DEF TypeInv, ThreadState, TaskStatus, Place
<1>8. Performing = {UnderWay}
  BY <1>4, ThreadsAssumption DEF Performing
<1>9. ConnectionInv
  <2>1. Cardinality(Performing) = 1
    BY <1>8, FS_Singleton
  <2> QED BY <1>6, <2>1, DatabaseAssumption DEF ConnectionInv
<1>10. Those({"waiting"}) = {} /\ Those({"free", "awake"}) = {}
  BY DEF Those
<1>11. /\ idle_count = Cardinality(Those({"waiting"}))
       /\ Len(tasks) <= Cardinality(Those({"free", "awake"}))
  <2>1. Cardinality(Those({"waiting"})) = 0 /\ Cardinality(Those({"free", "awake"})) = 0
    BY <1>10, FS_EmptySet
  <2>2. tasks = <<>> /\ idle_count = 0
    OBVIOUS
  <2> QED BY <2>1, <2>2
<1>12. \A w \in Thread : IF thread[w] = "running"
                         THEN job[w] \in Task /\ status[job[w]] = "running"
                         ELSE job[w] = NoTask
  BY <1>2, <1>3
<1>13. \A w, x \in Thread : job[w] = job[x] => w = x \/ job[w] = NoTask
  <2>1. SUFFICES ASSUME NEW w \in Thread, NEW x \in Thread, job[w] = job[x],
                        job[w] # NoTask
                 PROVE  w = x
    OBVIOUS
  <2>2. job[w] \in Started
    BY <1>2, <2>1
  <2>3. PICK y \in Thread : {z \in Thread : job[z] = job[w]} = {y}
    BY <1>2, <2>2
  <2> QED BY <2>1, <2>3
<1>14. PoolInv
  BY <1>11, <1>12, <1>13 DEF PoolInv
<1>15. \A t \in Transaction : IF t = UnderWay THEN status[t] = "running"
                                             ELSE status[t] = "ready"
  BY ThreadsAssumption, DatabaseAssumption DEF Started
<1>16. TransactionInv
  BY <1>4, <1>5, <1>15, ThreadsAssumption DEF TransactionInv, UnderWayPlaces
<1> QED BY <1>7, <1>9, <1>14, <1>16 DEF IInv

(* A transaction that goes on inside of its task.                          *)
LEMMA GoOnTransaction ==
  ASSUME IInv, NEW t \in Transaction, NEW p \in UnderWayPlaces,
         at[t] \in UnderWayPlaces, at' = [at EXCEPT ![t] = p],
         UNCHANGED <<pool_vars, running_tasks>>
  PROVE  /\ PoolOK' <=> TypeInv'
         /\ TransactionInv'
<1>1. \A u \in Transaction : at'[u] = (IF u = t THEN p ELSE at[u])
  BY DEF IInv, TypeInv
<1>2. UNCHANGED <<tasks, idle_count, thread, job, status, running_tasks>>
  BY DEF pool_vars
<1>3. TransactionInv'
  <2>1. \A i \in 1..Len(running_tasks) : running_tasks[i] \in Transaction
    BY DEF IInv, TypeInv
  <2> QED BY <1>1, <1>2, <2>1 DEF IInv, TransactionInv, UnderWayPlaces
<1>4. PoolInv'
  BY <1>2 DEF IInv, PoolInv, Those
<1> QED BY <1>3, <1>4 DEF PoolOK

LEMMA NextIInv == IInv /\ [Next]_vars => IInv'
<1> SUFFICES ASSUME IInv, [Next]_vars PROVE IInv'
  OBVIOUS
<1>1. TypeInv /\ ConnectionInv /\ PoolInv /\ TransactionInv /\ PoolOK
  BY DEF IInv, PoolOK
<1>2. ASSUME DispatcherStep(DispatcherNext) PROVE IInv'
  <2>1. UNCHANGED <<free_connections, connections_left, opened, at>>
    BY <1>2 DEF DispatcherStep, connection_vars
  <2>2. PICK queued : /\ queued = <<>> \/ queued = EffectOf(calling)
                      /\ \A t \in Range(queued) : at[t] # "new"
                      /\ running_tasks' = running_tasks \o queued
    BY <1>2 DEF DispatcherStep
  <2>3. queued = <<>> \/ \E t \in Transaction : queued = <<t>>
    BY <2>2, ThreadsAssumption DEF EffectOf
  <2>4. /\ running_tasks' \in Seq(Transaction)
        /\ \A i \in 1..Len(running_tasks') : at[running_tasks'[i]] # "new"
    <3>1. CASE queued = <<>>
      <4>1. running_tasks' = running_tasks
        BY <2>2, <3>1, <1>1 DEF TypeInv
      <4> QED BY <1>1, <4>1 DEF TypeInv, TransactionInv
    <3>2. CASE \E t \in Transaction : queued = <<t>>
      <4>1. PICK t \in Transaction : queued = <<t>>
        BY <3>2
      <4>2. at[t] # "new"
        BY <2>2, <4>1 DEF Range
      <4>3. /\ running_tasks' \in Seq(Transaction) /\ Len(running_tasks) \in Nat
            /\ Len(running_tasks') = Len(running_tasks) + 1
            /\ \A i \in 1..Len(running_tasks') :
                 running_tasks'[i] = IF i <= Len(running_tasks) THEN running_tasks[i] ELSE t
        BY <1>1, <2>2, <4>1 DEF TypeInv
      <4> QED BY <1>1, <4>2, <4>3 DEF TransactionInv
    <3> QED BY <2>3, <3>1, <3>2
  <2>5. ConnectionInv'
    BY <1>1, <2>1 DEF ConnectionInv, Performing
  <2>6. CASE UNCHANGED pool_vars
    <3>1. UNCHANGED <<tasks, idle_count, thread, job, status>>
      BY <2>6 DEF pool_vars
    <3>2. TypeInv'
      BY <1>1, <2>1, <2>4, <3>1 DEF TypeInv
    <3>3. PoolInv'
      BY <1>1, <3>1 DEF PoolInv, Those
    <3>4. TransactionInv'
      BY <1>1, <2>1, <2>4, <3>1 DEF TransactionInv
    <3> QED BY <2>5, <3>2, <3>3, <3>4 DEF IInv
  <2>7. CASE \E w \in Thread : Runs(w, DispatcherTask) /\ EndTask(w)
    <3>1. PICK w \in Thread : Runs(w, DispatcherTask) /\ EndTask(w)
      BY <2>7
    <3>2. PoolOK' /\ status' = [status EXCEPT ![DispatcherTask] = "ready"]
      BY <1>1, <2>1, <2>4, <3>1, EndTaskPool DEF Runs, TypeInv
    <3>3. \A t \in Transaction : status'[t] = status[t]
      BY <1>1, <3>2, ThreadsAssumption, DatabaseAssumption DEF TypeInv
    <3>4. TransactionInv'
      BY <1>1, <2>1, <2>4, <3>3 DEF TransactionInv
    <3> QED BY <2>5, <3>2, <3>4 DEF IInv, PoolOK
  <2>8. DispatcherNext
    BY <1>2 DEF DispatcherStep
  <2> QED BY <2>6, <2>7, <2>8, DispatcherPool
<1>3. ASSUME NEW t \in Transaction, tryPop(t) PROVE IInv'
  <2>1. /\ at[t] = "started" /\ UNCHANGED <<pool_vars, running_tasks, connections_left, opened>>
        /\ \/ /\ free_connections > 0 /\ free_connections' = free_connections - 1
              /\ at' = [at EXCEPT ![t] = "perform"]
           \/ /\ at' = [at EXCEPT ![t] = "left"] /\ free_connections' = free_connections
    BY <1>3 DEF tryPop
  <2>2. TypeInv'
    BY <1>1, <2>1 DEF TypeInv, pool_vars, Place
  <2>3. ConnectionInv'
    BY <1>1, <2>1, PlaceCounts DEF ConnectionInv, TypeInv
  <2>4. PoolOK' /\ TransactionInv'
    BY <2>1, <2>2, GoOnTransaction DEF UnderWayPlaces
  <2> QED BY <2>2, <2>3, <2>4 DEF IInv, PoolOK
<1>4. ASSUME NEW t \in Transaction, readConnectionsLeft(t) PROVE IInv'
  <2>1. /\ at[t] = "left" /\ UNCHANGED <<pool_vars, running_tasks, connection_vars>>
        /\ at' = [at EXCEPT ![t] = "take"] \/ at' = [at EXCEPT ![t] = "wait"]
    BY <1>4 DEF readConnectionsLeft
  <2>2. TypeInv'
    BY <1>1, <2>1 DEF TypeInv, pool_vars, connection_vars, Place
  <2>3. ConnectionInv'
    BY <1>1, <2>1, PlaceCounts DEF ConnectionInv, connection_vars, TypeInv
  <2>4. PoolOK' /\ TransactionInv'
    BY <2>1, <2>2, GoOnTransaction DEF UnderWayPlaces
  <2> QED BY <2>2, <2>3, <2>4 DEF IInv, PoolOK
<1>5. ASSUME NEW t \in Transaction, takeConnectionLeft(t) PROVE IInv'
  <2>1. /\ at[t] = "take" /\ UNCHANGED <<pool_vars, running_tasks, free_connections>>
        /\ connections_left' = connections_left - 1
        /\ \/ /\ connections_left > 0 /\ opened' = opened + 1
              /\ at' = [at EXCEPT ![t] = "perform"]
           \/ /\ at' = [at EXCEPT ![t] = "wait"] /\ opened' = opened
    BY <1>5 DEF takeConnectionLeft
  <2>2. TypeInv'
    BY <1>1, <2>1 DEF TypeInv, pool_vars, Place
  <2>3. ConnectionInv'
    <3>1. CASE /\ connections_left > 0 /\ opened' = opened + 1
               /\ at' = [at EXCEPT ![t] = "perform"]
      <4>1. /\ Cardinality(Performing') = Cardinality(Performing) + 1
            /\ Cardinality(Performing) \in Nat
        BY <1>1, <2>1, <3>1, PlaceCounts
      <4>2. /\ opened \in Nat /\ connections_left \in Int /\ free_connections \in Nat
            /\ opened + connections_left <= MaxConnections
            /\ opened = free_connections + Cardinality(Performing)
        BY <1>1 DEF ConnectionInv, TypeInv
      <4>3. /\ opened' = opened + 1 /\ connections_left' = connections_left - 1
            /\ connections_left > 0 /\ free_connections' = free_connections
        BY <2>1, <3>1
      <4>4. MaxConnections \in Nat
        BY DatabaseAssumption
      <4> QED BY <4>1, <4>2, <4>3, <4>4 DEF ConnectionInv
    <3>2. CASE at' = [at EXCEPT ![t] = "wait"] /\ opened' = opened
      <4>1. /\ Cardinality(Performing') = Cardinality(Performing)
            /\ Cardinality(Performing) \in Nat
        BY <1>1, <2>1, <3>2, PlaceCounts
      <4> QED BY <1>1, <2>1, <3>2, <4>1, DatabaseAssumption DEF ConnectionInv, TypeInv
    <3> QED BY <2>1, <3>1, <3>2
  <2>4. PoolOK' /\ TransactionInv'
    BY <2>1, <2>2, GoOnTransaction DEF UnderWayPlaces
  <2> QED BY <2>2, <2>3, <2>4 DEF IInv, PoolOK
<1>6. ASSUME NEW t \in Transaction, popConnection(t) PROVE IInv'
  <2>1. /\ at[t] = "wait" /\ UNCHANGED <<pool_vars, running_tasks, connections_left, opened>>
        /\ free_connections > 0 /\ free_connections' = free_connections - 1
        /\ at' = [at EXCEPT ![t] = "perform"]
    BY <1>6 DEF popConnection
  <2>2. TypeInv'
    BY <1>1, <2>1 DEF TypeInv, pool_vars, Place
  <2>3. ConnectionInv'
    <3>1. /\ Cardinality(Performing') = Cardinality(Performing) + 1
          /\ Cardinality(Performing) \in Nat
      BY <1>1, <2>1, PlaceCounts
    <3> QED BY <1>1, <2>1, <3>1 DEF ConnectionInv, TypeInv
  <2>4. PoolOK' /\ TransactionInv'
    BY <2>1, <2>2, GoOnTransaction DEF UnderWayPlaces
  <2> QED BY <2>2, <2>3, <2>4 DEF IInv, PoolOK
<1>7. ASSUME NEW t \in Transaction, commit(t) PROVE IInv'
  <2>1. PICK w \in Thread : Runs(w, t) /\ EndTask(w)
    BY <1>7 DEF commit
  <2>2. /\ at[t] = "perform" /\ at' = [at EXCEPT ![t] = "done"]
        /\ free_connections' = free_connections + 1
        /\ UNCHANGED <<running_tasks, connections_left, opened>>
    BY <1>7 DEF commit
  <2>3. at' \in [Transaction -> Place] /\ free_connections' \in Nat
    BY <1>1, <2>2 DEF TypeInv, Place
  <2>4. PoolOK' /\ status' = [status EXCEPT ![t] = "ready"]
    BY <1>1, <2>1, <2>2, <2>3, EndTaskPool DEF Runs, TypeInv
  <2>5. ConnectionInv'
    <3>1. /\ Cardinality(Performing') = Cardinality(Performing) - 1
          /\ Cardinality(Performing) \in Nat
      <4>1. TypeInv /\ at[t] = "perform" /\ at' = [at EXCEPT ![t] = "done"]
        BY <1>1, <2>2
      <4>2. "done" # "perform"
        OBVIOUS
      <4> QED BY <4>1, <4>2, PlaceCounts
    <3>2. /\ opened \in Nat /\ free_connections \in Nat /\ connections_left \in Int
          /\ MaxConnections \in Nat
          /\ opened + connections_left <= MaxConnections /\ opened <= MaxConnections
          /\ opened = free_connections + Cardinality(Performing)
      BY <1>1, DatabaseAssumption DEF ConnectionInv, TypeInv
    <3>3. /\ opened' = opened /\ connections_left' = connections_left
          /\ free_connections' = free_connections + 1
      BY <2>2
    <3> QED BY <3>1, <3>2, <3>3 DEF ConnectionInv
  <2>6. /\ \A u \in Transaction : status'[u] = (IF u = t THEN "ready" ELSE status[u])
        /\ \A u \in Transaction : at'[u] = (IF u = t THEN "done" ELSE at[u])
    BY <1>1, <2>2, <2>4, DatabaseAssumption DEF TypeInv
  <2>7. TransactionInv'
    <3>1. \A i \in 1..Len(running_tasks) : running_tasks[i] \in Transaction
      BY <1>1 DEF TypeInv
    <3> QED BY <1>1, <2>2, <2>6, <3>1 DEF TransactionInv, UnderWayPlaces
  <2> QED BY <2>4, <2>5, <2>7 DEF IInv, PoolOK
<1>8. ASSUME collect PROVE IInv'
  <2> DEFINE h == Head(running_tasks)
  <2>1. /\ running_tasks # <<>> /\ status[h] = "ready"
        /\ status' = [status EXCEPT ![h] = "deleted"]
        /\ running_tasks' = Tail(running_tasks)
        /\ UNCHANGED <<tasks, idle_count, thread, job, at, free_connections,
                       connections_left, opened>>
    BY <1>8 DEF collect, Joinable, connection_vars
  <2>2. /\ h \in Transaction /\ h = running_tasks[1] /\ Len(running_tasks) \in Nat
        /\ Len(running_tasks) > 0
        /\ running_tasks' \in Seq(Transaction)
        /\ Len(running_tasks') = Len(running_tasks) - 1
        /\ \A i \in 1..Len(running_tasks') : running_tasks'[i] = running_tasks[i + 1]
    BY <1>1, <2>1 DEF TypeInv
  <2> HIDE DEF h
  <2>3. h \in Task
    BY <2>2, DatabaseAssumption
  <2>4. TypeInv'
    BY <1>1, <2>1, <2>2, <2>3 DEF TypeInv, TaskStatus
  <2>5. ConnectionInv'
    BY <1>1, <2>1 DEF ConnectionInv, Performing
  <2>6. \A u \in Task : status'[u] = (IF u = h THEN "deleted" ELSE status[u])
    BY <1>1, <2>1 DEF TypeInv
  <2>7. at[h] = "done"
    <3>1. at[h] # "new"
      BY <1>1, <2>2 DEF TransactionInv
    <3>2. at[h] \in Place
      BY <1>1, <2>2 DEF TypeInv
    <3> QED BY <1>1, <2>1, <2>2, <3>1, <3>2 DEF TransactionInv, UnderWayPlaces, Place
  <2>8. TransactionInv'
    <3>1. \A i \in 1..Len(running_tasks') : at[running_tasks'[i]] # "new"
      BY <1>1, <2>2 DEF TransactionInv
    <3>2. \A u \in Transaction : status'[u] = (IF u = h THEN "deleted" ELSE status[u])
      BY <2>6, DatabaseAssumption
    <3> QED BY <1>1, <2>1, <2>7, <3>1, <3>2 DEF TransactionInv, UnderWayPlaces
  <2>9. PoolInv'
    <3>1. \A i \in 1..Len(tasks) : tasks[i] \in Task /\ tasks[i] # h
      BY <1>1, <2>1 DEF TypeInv, PoolInv
    <3>2. \A w \in Thread : thread[w] = "running" => job[w] # h
      BY <1>1, <2>1 DEF PoolInv
    <3> QED BY <1>1, <2>1, <2>6, <3>1, <3>2 DEF PoolInv, Those
  <2> QED BY <2>4, <2>5, <2>8, <2>9 DEF IInv
<1>9. ASSUME NEW w \in Thread, PoolStep(TakeTask(w)) PROVE IInv'
  <2>1. TakeTask(w) /\ UNCHANGED db_vars
    BY <1>9 DEF PoolStep
  <2>2. PoolOK'
    BY <1>1, <2>1, TakeTaskPool
  <2>3. ConnectionInv'
    BY <1>1, <2>1 DEF ConnectionInv, Performing, db_vars
  <2>4. \A u \in Task : \/ status'[u] = status[u]
                        \/ status[u] = "waiting" /\ status'[u] = "running"
    <3>1. CASE tasks = <<>>
      BY <2>1, <3>1 DEF TakeTask
    <3>2. CASE tasks # <<>>
      <4>1. Head(tasks) \in Task /\ status[Head(tasks)] = "waiting"
        BY <1>1, <3>2 DEF TypeInv, PoolInv
      <4>2. status' = [status EXCEPT ![Head(tasks)] = "running"]
        BY <2>1, <3>2 DEF TakeTask
      <4> QED BY <1>1, <4>1, <4>2 DEF TypeInv
    <3> QED BY <3>1, <3>2
  <2>5. TransactionInv'
    <3>1. UNCHANGED <<at, running_tasks>>
      BY <2>1 DEF db_vars
    <3> QED BY <1>1, <2>4, <3>1, DatabaseAssumption DEF TransactionInv
  <2> QED BY <2>2, <2>3, <2>5 DEF IInv, PoolOK
<1>10. ASSUME NEW t \in Transaction, CallStarts(t) PROVE IInv'
  <2>1. /\ Start(t) /\ at[t] = "new" /\ at' = [at EXCEPT ![t] = "started"]
        /\ UNCHANGED <<free_connections, connections_left, opened, running_tasks>>
    BY <1>10 DEF CallStarts, queueTransaction, connection_vars
  <2>2. at' \in [Transaction -> Place] /\ t \in Task
    BY <1>1, <2>1, DatabaseAssumption DEF TypeInv, Place
  <2>3. PoolOK' /\ status' = [status EXCEPT ![t] = "waiting"]
    BY <1>1, <2>1, <2>2, StartPool
  <2>4. ConnectionInv'
    <3>1. /\ Cardinality(Performing') = Cardinality(Performing)
          /\ Cardinality(Performing) \in Nat
      <4>1. TypeInv /\ at[t] = "new" /\ at' = [at EXCEPT ![t] = "started"]
        BY <1>1, <2>1
      <4>2. "started" # "perform" /\ "new" # "perform"
        OBVIOUS
      <4> QED BY <4>1, <4>2, PlaceCounts
    <3>2. /\ opened' = opened /\ connections_left' = connections_left
          /\ free_connections' = free_connections
      BY <2>1
    <3>3. /\ opened \in Nat /\ free_connections \in Nat /\ connections_left \in Int
          /\ MaxConnections \in Nat
          /\ opened + connections_left <= MaxConnections /\ opened <= MaxConnections
          /\ opened = free_connections + Cardinality(Performing)
      BY <1>1, DatabaseAssumption DEF ConnectionInv, TypeInv
    <3> QED BY <3>1, <3>2, <3>3 DEF ConnectionInv
  <2>5. /\ \A u \in Transaction : status'[u] = (IF u = t THEN "waiting" ELSE status[u])
        /\ \A u \in Transaction : at'[u] = (IF u = t THEN "started" ELSE at[u])
    BY <1>1, <2>1, <2>3, DatabaseAssumption DEF TypeInv
  <2>6. TransactionInv'
    <3>1. \A i \in 1..Len(running_tasks) : running_tasks[i] \in Transaction
      BY <1>1 DEF TypeInv
    <3> QED BY <1>1, <2>1, <2>5, <3>1 DEF TransactionInv, UnderWayPlaces
  <2> QED BY <2>3, <2>4, <2>6 DEF IInv, PoolOK
<1>11. CASE UNCHANGED vars
  BY <1>1, <1>11 DEF vars, pool_vars, db_vars, IInv, TypeInv, ConnectionInv, PoolInv,
                     TransactionInv, Those, Performing
<1>12. CASE DatabaseStep(DatabaseNext)
  <2>1. DatabaseNext
    BY <1>12 DEF DatabaseStep
  <2> QED BY <1>3, <1>4, <1>5, <1>6, <1>7, <1>8, <2>1 DEF DatabaseNext
<1> QED BY <1>2, <1>9, <1>10, <1>11, <1>12 DEF Next

LEMMA Invariance == Spec => []IInv
BY InitIInv, NextIInv, PTL DEF Spec

-----------------------------------------------------------------------------

(* However many threads, transactions and connections there are, every     *)
(* connection that was opened is in the queue or with one transaction, and *)
(* no more than max_connections are opened.                                *)
THEOREM ThreadsConnectionsAccounted == Spec => []ConnectionsAccounted
<1>1. IInv => ConnectionsAccounted
  BY DEF IInv, ConnectionInv, ConnectionsAccounted, Performing
<1> QED BY <1>1, Invariance, PTL

(* No task that was launched is left without a thread that will look for   *)
(* it, no two threads run one task, and a task is deleted after its        *)
(* transaction is over.                                                    *)
THEOREM ThreadsTasksHaveThreads == Spec => []TasksHaveThreads
<1>1. IInv => TasksHaveThreads
  <2> SUFFICES ASSUME IInv PROVE TasksHaveThreads
    OBVIOUS
  <2>1. Len(tasks) <= Cardinality({w \in Thread : thread[w] \in {"free", "awake"}})
    BY DEF IInv, PoolInv, Those
  <2>2. \A w, x \in Thread : job[w] = job[x] => w = x \/ job[w] = NoTask
    BY DEF IInv, PoolInv
  <2>3. ASSUME NEW t \in Transaction, status[t] = "deleted"
        PROVE  at[t] = "done" /\ \A w \in Thread : job[w] # t
    <3>1. at[t] \in Place
      BY DEF IInv, TypeInv
    <3>2. at[t] = "done"
      BY <2>3, <3>1 DEF IInv, TransactionInv, Place, UnderWayPlaces
    <3>3. \A w \in Thread : job[w] # t
      BY <2>3, PoolAssumption, DatabaseAssumption DEF IInv, PoolInv
    <3> QED BY <3>2, <3>3
  <2> QED BY <2>1, <2>2, <2>3 DEF TasksHaveThreads
<1> QED BY <1>1, Invariance, PTL

-----------------------------------------------------------------------------
(* The order of messages.  The message number n of c, and what the         *)
(* messages of c in a queue q, those in seen and the last number say of    *)
(* each other: 1..k were seen, the others stand in the queue in order.     *)
Says(m, c, n) == m \in {<<c, n, "exec">>, <<c, n, "schedule">>}

Ordered(q, seen, last, c) ==
  \E k \in 0..last :
    /\ \A n \in Nat : (\E m \in seen : Says(m, c, n)) <=> n \in 1..k
    /\ \A i \in 1..Len(q), n \in Nat : Says(q[i], c, n) => n \in k+1..last
    /\ \A n \in k+1..last : \E i \in 1..Len(q) : Says(q[i], c, n)
    /\ \A i, j \in 1..Len(q), n, p \in Nat :
         i < j /\ Says(q[i], c, n) /\ Says(q[j], c, p) => n < p

Seen == done \cup {calling}

Sent == Client \X Nat \X {"exec", "schedule"}

Timed == Client \X Nat \X {"timed"}

MessageTypes ==
  /\ queue \in Seq(Sent \cup {StopMessage})
  /\ calling \in Sent \cup Timed \cup {StopMessage, NoMessage}
  /\ done \subseteq Sent \cup Timed \cup {StopMessage}
  /\ sent \in [Client -> Nat] /\ now \in Nat
  /\ due \subseteq Timed \X Nat
  /\ dpc \in {"pop", "timedwait", "call", "drain", "draincall", "ended"}
  /\ stopping \in {"no", "push", "join", "joined"}
  /\ calling = NoMessage <=> dpc \notin {"call", "draincall"}

OrderInv == \A c \in Client : Ordered(queue, Seen, sent[c], c)

(* A timed message is in the agenda or was taken from it at its one time;  *)
(* a message that schedules one knows its time.                            *)
DueInv ==
  /\ \A d \in due : d[1][2] <= sent[d[1][1]]
  /\ \A d, e \in due : d[1] = e[1] => d = e
  /\ \A m \in Seen \cap Timed : \E time \in 0..now : <<m, time>> \in due
  /\ \A c \in Client, n \in Nat :
       <<c, n, "schedule">> \in Range(queue) \cup {calling} =>
         \E time \in Nat : <<<<c, n, "timed">>, time>> \in due
  /\ \A time \in DOMAIN agenda : time \in Nat /\ <<agenda[time], time>> \in due
  /\ agenda = [time \in DOMAIN agenda |-> agenda[time]]
  /\ dpc = "timedwait" => DOMAIN agenda # {}

(* Who waits has sent what it waits for last.                              *)
WaitInv ==
  \A c \in waiting : <<c, sent[c], "exec">> \notin done

(* What was queued before stop is not lost until run has ended.            *)
StopInv ==
  /\ running <=> stopping = "no"
  /\ stopping = "no" => dpc \notin {"drain", "draincall", "ended"}
  /\ stopping # "no" => before \subseteq Seen \cup Range(queue) /\ NoMessage \notin before
  /\ dpc = "ended" => before \subseteq done
  /\ stopping = "joined" => dpc = "ended"
  /\ dpc # "ended" => status[DispatcherTask] = "running"

MessageInv == MessageTypes /\ OrderInv /\ DueInv /\ WaitInv /\ StopInv

(* A new message of the client.                                            *)
LEMMA SentOrder ==
  ASSUME NEW S, NEW q \in Seq(S), NEW seen, NEW last \in Nat, NEW c, NEW m \in S,
         Says(m, c, last + 1), Ordered(q, seen, last, c)
  PROVE  Ordered(Append(q, m), seen, last + 1, c)
<1> DEFINE r == Append(q, m)
<1>1. /\ Len(q) \in Nat /\ Len(r) = Len(q) + 1
      /\ \A i \in 1..Len(q) : r[i] = q[i]
      /\ r[Len(r)] = m
  OBVIOUS
<1>2. \A n \in Nat : Says(m, c, n) => n = last + 1
  BY DEF Says
<1>3. PICK k \in 0..last :
        /\ \A n \in Nat : (\E x \in seen : Says(x, c, n)) <=> n \in 1..k
        /\ \A i \in 1..Len(q), n \in Nat : Says(q[i], c, n) => n \in k+1..last
        /\ \A n \in k+1..last : \E i \in 1..Len(q) : Says(q[i], c, n)
        /\ \A i, j \in 1..Len(q), n, p \in Nat :
             i < j /\ Says(q[i], c, n) /\ Says(q[j], c, p) => n < p
  BY DEF Ordered
<1> HIDE DEF r
<1>4. \A i \in 1..Len(r), n \in Nat : Says(r[i], c, n) => n \in k+1..last+1
  <2> SUFFICES ASSUME NEW i \in 1..Len(r), NEW n \in Nat, Says(r[i], c, n)
               PROVE  n \in k+1..last+1
    OBVIOUS
  <2>1. CASE i = Len(r)
    <3>1. n = last + 1
      BY <1>1, <1>2, <2>1
    <3> QED BY <3>1
  <2>2. CASE i # Len(r)
    <3>1. i \in 1..Len(q) /\ r[i] = q[i]
      BY <1>1, <2>2
    <3>2. n \in k+1..last
      BY <1>3, <3>1
    <3> QED BY <3>2
  <2> QED BY <2>1, <2>2
<1>5. \A n \in k+1..last+1 : \E i \in 1..Len(r) : Says(r[i], c, n)
  <2> SUFFICES ASSUME NEW n \in k+1..last+1 PROVE \E i \in 1..Len(r) : Says(r[i], c, n)
    OBVIOUS
  <2>1. CASE n = last + 1
    <3>1. Len(r) \in 1..Len(r) /\ Says(r[Len(r)], c, n)
      BY <1>1, <2>1
    <3> QED BY <3>1
  <2>2. CASE n # last + 1
    <3>1. n \in k+1..last
      BY <2>2
    <3>2. PICK i \in 1..Len(q) : Says(q[i], c, n)
      BY <1>3, <3>1
    <3>3. i \in 1..Len(r) /\ r[i] = q[i]
      BY <1>1
    <3> QED BY <3>2, <3>3
  <2> QED BY <2>1, <2>2
<1>6. \A i, j \in 1..Len(r), n, p \in Nat :
         i < j /\ Says(r[i], c, n) /\ Says(r[j], c, p) => n < p
  BY <1>1, <1>2, <1>3
<1>7. k \in 0..last+1
  OBVIOUS
<1>8. Ordered(r, seen, last + 1, c)
  BY <1>3, <1>4, <1>5, <1>6, <1>7 DEF Ordered
<1> QED BY <1>8 DEF r

(* A message of somebody else.                                             *)
LEMMA OtherOrder ==
  ASSUME NEW S, NEW q \in Seq(S), NEW seen, NEW last \in Nat, NEW c, NEW m \in S,
         \A n \in Nat : ~Says(m, c, n), Ordered(q, seen, last, c)
  PROVE  Ordered(Append(q, m), seen, last, c)
<1> DEFINE r == Append(q, m)
<1>1. /\ Len(q) \in Nat /\ Len(r) = Len(q) + 1
      /\ \A i \in 1..Len(q) : r[i] = q[i]
      /\ r[Len(r)] = m
  OBVIOUS
<1> HIDE DEF r
<1>2. \A i \in 1..Len(r), n \in Nat : Says(r[i], c, n) => i \in 1..Len(q) /\ Says(q[i], c, n)
  BY <1>1
<1>3. \A i \in 1..Len(q), n \in Nat : Says(q[i], c, n) => i \in 1..Len(r) /\ Says(r[i], c, n)
  BY <1>1
<1>4. PICK k \in 0..last :
        /\ \A n \in Nat : (\E x \in seen : Says(x, c, n)) <=> n \in 1..k
        /\ \A i \in 1..Len(q), n \in Nat : Says(q[i], c, n) => n \in k+1..last
        /\ \A n \in k+1..last : \E i \in 1..Len(q) : Says(q[i], c, n)
        /\ \A i, j \in 1..Len(q), n, p \in Nat :
             i < j /\ Says(q[i], c, n) /\ Says(q[j], c, p) => n < p
  BY DEF Ordered
<1>5. \A i \in 1..Len(r), n \in Nat : Says(r[i], c, n) => n \in k+1..last
  BY <1>2, <1>4
<1>6. \A n \in k+1..last : \E i \in 1..Len(r) : Says(r[i], c, n)
  BY <1>3, <1>4
<1>7. \A i, j \in 1..Len(r), n, p \in Nat :
        i < j /\ Says(r[i], c, n) /\ Says(r[j], c, p) => n < p
  BY <1>2, <1>4
<1>8. Ordered(r, seen, last, c)
  BY <1>4, <1>5, <1>6, <1>7 DEF Ordered
<1> QED BY <1>8 DEF r

(* What is seen of the client stays the same.                              *)
LEMMA SameSeenOrder ==
  ASSUME NEW q, NEW seen, NEW now_seen, NEW last, NEW c,
         Ordered(q, seen, last, c),
         \A n \in Nat : (\E m \in now_seen : Says(m, c, n)) <=> \E m \in seen : Says(m, c, n)
  PROVE  Ordered(q, now_seen, last, c)
BY DEF Ordered

(* The front of the queue is the next one of its client.                   *)
LEMMA FrontOrder ==
  ASSUME NEW S, NEW q \in Seq(S), q # <<>>, NEW seen, NEW last \in Nat, NEW c,
         Ordered(q, seen, last, c)
  PROVE  Ordered(Tail(q), seen \cup {Head(q)}, last, c)
<1> DEFINE r == Tail(q)  m == Head(q)
<1>1. /\ Len(q) \in Nat \ {0} /\ Len(r) = Len(q) - 1
      /\ \A i \in 1..Len(r) : r[i] = q[i + 1]
      /\ q[1] = m
  OBVIOUS
<1>2. PICK k \in 0..last :
        /\ \A n \in Nat : (\E x \in seen : Says(x, c, n)) <=> n \in 1..k
        /\ \A i \in 1..Len(q), n \in Nat : Says(q[i], c, n) => n \in k+1..last
        /\ \A n \in k+1..last : \E i \in 1..Len(q) : Says(q[i], c, n)
        /\ \A i, j \in 1..Len(q), n, p \in Nat :
             i < j /\ Says(q[i], c, n) /\ Says(q[j], c, p) => n < p
  BY DEF Ordered
<1> HIDE DEF r, m
<1>3. \A n \in Nat : (\E x \in seen \cup {m} : Says(x, c, n))
                        <=> n \in 1..k \/ Says(m, c, n)
  BY <1>2
<1>4. CASE \A n \in Nat : ~Says(m, c, n)
  <2>1. \A n \in Nat : (\E x \in seen \cup {m} : Says(x, c, n)) <=> n \in 1..k
    BY <1>3, <1>4
  <2>2. \A i \in 1..Len(r), n \in Nat : Says(r[i], c, n) => n \in k+1..last
    BY <1>1, <1>2
  <2>3. \A n \in k+1..last : \E i \in 1..Len(r) : Says(r[i], c, n)
    <3> SUFFICES ASSUME NEW n \in k+1..last PROVE \E i \in 1..Len(r) : Says(r[i], c, n)
      OBVIOUS
    <3>1. PICK i \in 1..Len(q) : Says(q[i], c, n)
      BY <1>2
    <3>2. i # 1
      BY <1>1, <1>4, <3>1
    <3>3. i - 1 \in 1..Len(r) /\ r[i - 1] = q[(i - 1) + 1] /\ (i - 1) + 1 = i
      BY <1>1, <3>2
    <3> QED BY <3>1, <3>3
  <2>4. \A i, j \in 1..Len(r), n, p \in Nat :
           i < j /\ Says(r[i], c, n) /\ Says(r[j], c, p) => n < p
    BY <1>1, <1>2
  <2>5. Ordered(r, seen \cup {m}, last, c)
    BY <2>1, <2>2, <2>3, <2>4 DEF Ordered
  <2> QED BY <2>5 DEF r, m
<1>5. CASE \E n \in Nat : Says(m, c, n)
  <2>1. PICK n \in Nat : Says(m, c, n)
    BY <1>5
  <2>2. \A p \in Nat : Says(m, c, p) => p = n
    BY <2>1 DEF Says
  <2>3. n \in k+1..last
    BY <1>1, <1>2, <2>1
  <2>4. n = k + 1
    <3>1. PICK i \in 1..Len(q) : Says(q[i], c, k + 1)
      BY <1>2, <2>3
    <3>2. i = 1 \/ n < k + 1
      BY <1>1, <1>2, <2>1, <3>1
    <3>3. i = 1 => k + 1 = n
      BY <1>1, <2>2, <3>1
    <3> QED BY <2>3, <3>2, <3>3
  <2>5. k + 1 \in 0..last
    BY <2>3, <2>4
  <2>6. \A p \in Nat : (\E x \in seen \cup {m} : Says(x, c, p)) <=> p \in 1..k+1
    BY <1>3, <2>1, <2>2, <2>4
  <2>7. \A i \in 1..Len(r), p \in Nat : Says(r[i], c, p) => p \in (k+1)+1..last
    <3> SUFFICES ASSUME NEW i \in 1..Len(r), NEW p \in Nat, Says(r[i], c, p)
                 PROVE  p \in (k+1)+1..last
      OBVIOUS
    <3>1. i + 1 \in 1..Len(q) /\ Says(q[i + 1], c, p) /\ 1 \in 1..Len(q) /\ Says(q[1], c, n)
      BY <1>1, <2>1
    <3>2. p \in k+1..last /\ n < p
      BY <1>2, <3>1
    <3> QED BY <2>4, <3>2
  <2>8. \A p \in (k+1)+1..last : \E i \in 1..Len(r) : Says(r[i], c, p)
    <3> SUFFICES ASSUME NEW p \in (k+1)+1..last PROVE \E i \in 1..Len(r) : Says(r[i], c, p)
      OBVIOUS
    <3>1. PICK i \in 1..Len(q) : Says(q[i], c, p)
      BY <1>2
    <3>2. i # 1
      BY <1>1, <2>2, <2>4, <3>1
    <3>3. i - 1 \in 1..Len(r) /\ r[i - 1] = q[(i - 1) + 1] /\ (i - 1) + 1 = i
      BY <1>1, <3>2
    <3> QED BY <3>1, <3>3
  <2>9. \A i, j \in 1..Len(r), p, u \in Nat :
           i < j /\ Says(r[i], c, p) /\ Says(r[j], c, u) => p < u
    BY <1>1, <1>2
  <2>10. Ordered(r, seen \cup {m}, last, c)
    BY <2>5, <2>6, <2>7, <2>8, <2>9 DEF Ordered
  <2> QED BY <2>10 DEF r, m
<1> QED BY <1>4, <1>5

(* The queue after a push and after a pop, by what is in it.               *)
LEMMA QueueContents ==
  ASSUME NEW S, NEW q \in Seq(S)
  PROVE  /\ \A m \in S : Append(q, m) \in Seq(S) /\ Range(Append(q, m)) = Range(q) \cup {m}
         /\ q # <<>> => /\ Head(q) \in S /\ Tail(q) \in Seq(S)
                        /\ Range(q) = Range(Tail(q)) \cup {Head(q)}
<1>1. ASSUME NEW m \in S
      PROVE  Append(q, m) \in Seq(S) /\ Range(Append(q, m)) = Range(q) \cup {m}
  <2> DEFINE r == Append(q, m)
  <2>1. /\ r \in Seq(S) /\ Len(q) \in Nat /\ Len(r) = Len(q) + 1
        /\ \A i \in 1..Len(q) : r[i] = q[i]
        /\ r[Len(q) + 1] = m
        /\ DOMAIN r = 1..Len(q) + 1 /\ DOMAIN q = 1..Len(q)
    OBVIOUS
  <2> HIDE DEF r
  <2>2. 1..Len(q) + 1 = 1..Len(q) \cup {Len(q) + 1}
    BY <2>1
  <2>3. Range(r) = Range(q) \cup {m}
    BY <2>1, <2>2 DEF Range
  <2> QED BY <2>1, <2>3 DEF r
<1>2. ASSUME q # <<>>
      PROVE  /\ Head(q) \in S /\ Tail(q) \in Seq(S)
             /\ Range(q) = Range(Tail(q)) \cup {Head(q)}
  <2> DEFINE r == Tail(q)  m == Head(q)
  <2>1. /\ m \in S /\ r \in Seq(S) /\ Len(q) \in Nat \ {0} /\ Len(r) = Len(q) - 1
        /\ \A i \in 1..Len(r) : r[i] = q[i + 1]
        /\ q[1] = m
        /\ DOMAIN r = 1..Len(q) - 1 /\ DOMAIN q = 1..Len(q)
    BY <1>2
  <2> HIDE DEF r, m
  <2>2. \A i \in 1..Len(q) : q[i] \in Range(r) \cup {m}
    <3> SUFFICES ASSUME NEW i \in 1..Len(q), i # 1 PROVE q[i] \in Range(r)
      BY <2>1
    <3>1. i - 1 \in 1..Len(q) - 1 /\ r[i - 1] = q[(i - 1) + 1] /\ (i - 1) + 1 = i
      BY <2>1
    <3> QED BY <2>1, <3>1 DEF Range
  <2>3. \A i \in 1..Len(q) - 1 : r[i] \in Range(q)
    BY <2>1 DEF Range
  <2>4. m \in Range(q)
    BY <2>1 DEF Range
  <2>5. Range(q) = Range(r) \cup {m}
    BY <2>1, <2>2, <2>3, <2>4 DEF Range
  <2> QED BY <2>1, <2>5 DEF r, m
<1> QED BY <1>1, <1>2

(* Kinds of messages are told apart, and the last entry is the kind.       *)
LEMMA MessageShapes ==
  /\ \A m \in Sent \cup Timed : Len(m) = 3 /\ m = <<m[1], m[2], m[3]>>
  /\ Len(StopMessage) = 1 /\ StopMessage[1] = "stop" /\ Len(NoMessage) = 0
  /\ StopMessage \notin Sent \cup Timed \cup {NoMessage}
  /\ NoMessage \notin Sent \cup Timed
  /\ Sent \cap Timed = {}
  /\ \A c, n : ~Says(StopMessage, c, n) /\ ~Says(NoMessage, c, n)
  /\ \A m \in Timed : \A c, n : ~Says(m, c, n)
<1>1. \A x, y, z : Len(<<x, y, z>>) = 3
  OBVIOUS
<1>2. \A m \in Sent \cup Timed : m = <<m[1], m[2], m[3]>>
  BY DEF Sent, Timed
<1>3. \A m \in Sent \cup Timed : Len(m) = 3
  <2> SUFFICES ASSUME NEW m \in Sent \cup Timed PROVE Len(m) = 3
    OBVIOUS
  <2>1. Len(<<m[1], m[2], m[3]>>) = 3
    BY <1>1
  <2> QED BY <1>2, <2>1
<1>4. Len(StopMessage) = 1 /\ StopMessage[1] = "stop" /\ Len(NoMessage) = 0
  BY DEF StopMessage, NoMessage
<1>5. \A m \in Sent \cup Timed : m # StopMessage /\ m # NoMessage
  BY <1>3, <1>4
<1>6. StopMessage # NoMessage
  BY <1>4
<1>7. Sent \cap Timed = {}
  BY DEF Sent, Timed
<1>8. \A c, n : ~Says(StopMessage, c, n) /\ ~Says(NoMessage, c, n)
  BY <1>1, <1>4 DEF Says
<1>9. \A m \in Timed : \A c, n : ~Says(m, c, n)
  BY DEF Timed, Says
<1> QED BY <1>2, <1>3, <1>4, <1>5, <1>6, <1>7, <1>8, <1>9

(* Exec and Schedule.                                                      *)
LEMMA SendKeeps ==
  ASSUME MessageInv, NEW c \in Client, NEW kind \in {"exec", "schedule"}, Send(c, kind),
         UNCHANGED <<agenda, running, dpc, calling, stopping, now, done, before, status>>,
         \/ kind = "exec" /\ waiting' = waiting \cup {c} /\ due' = due
         \/ /\ kind = "schedule" /\ waiting' = waiting
            /\ \E when \in Nat : due' = due \cup {<<<<c, sent[c] + 1, "timed">>, when>>}
  PROVE  MessageInv'
<1> DEFINE S == Sent \cup {StopMessage}  n == sent[c]  m == <<c, n + 1, kind>>
<1>1. /\ queue \in Seq(S) /\ n \in Nat /\ m \in S /\ m \in Sent
      /\ \A x \in Client : sent[x] \in Nat
  BY DEF MessageInv, MessageTypes, Sent
<1>2. /\ queue' = Append(queue, m) /\ sent' \in [Client -> Nat]
      /\ \A x \in Client : sent'[x] = IF x = c THEN n + 1 ELSE sent[x]
      /\ c \notin waiting
  BY <1>1 DEF MessageInv, MessageTypes, Send
<1>3. queue' \in Seq(S) /\ Range(queue') = Range(queue) \cup {m}
  <2> HIDE DEF S, m
  <2>1. Append(queue, m) \in Seq(S) /\ Range(Append(queue, m)) = Range(queue) \cup {m}
    BY <1>1, QueueContents
  <2> QED BY <1>2, <2>1
<1>4. due' \subseteq Timed \X Nat
  BY <1>1 DEF MessageInv, MessageTypes, Timed
<1>5. MessageTypes'
  BY <1>2, <1>3, <1>4 DEF MessageInv, MessageTypes
<1>6. Seen' = Seen
  BY DEF Seen
<1>7. OrderInv'
  <2> SUFFICES ASSUME NEW x \in Client PROVE Ordered(queue', Seen', sent'[x], x)
    BY DEF OrderInv
  <2>1. Ordered(queue, Seen, sent[x], x)
    BY DEF MessageInv, OrderInv
  <2>2. CASE x = c
    <3>1. Says(m, c, n + 1)
      BY DEF Says
    <3>2. Ordered(Append(queue, m), Seen, n + 1, c)
      BY <1>1, <2>1, <2>2, <3>1, SentOrder
    <3> QED BY <1>2, <1>6, <2>2, <3>2
  <2>3. CASE x # c
    <3>1. \A p \in Nat : ~Says(m, x, p)
      BY <2>3 DEF Says
    <3>2. Ordered(Append(queue, m), Seen, sent[x], x)
      BY <1>1, <2>1, <3>1, OtherOrder
    <3> QED BY <1>2, <1>6, <2>3, <3>2
  <2> QED BY <2>2, <2>3
<1>8. <<c, n + 1, "exec">> \notin done
  <2>1. PICK k \in 0..n : \A p \in Nat : (\E x \in Seen : Says(x, c, p)) <=> p \in 1..k
    BY DEF MessageInv, OrderInv, Ordered
  <2>2. n + 1 \notin 1..k
    BY <1>1
  <2> QED BY <1>1, <2>1, <2>2 DEF Says, Seen
<1>9. WaitInv'
  <2> SUFFICES ASSUME NEW x \in waiting' PROVE <<x, sent'[x], "exec">> \notin done'
    BY DEF WaitInv
  <2>1. CASE x = c
    BY <1>2, <1>8, <2>1
  <2>2. CASE x # c
    <3>1. x \in waiting
      BY <2>2
    <3>2. sent'[x] = sent[x]
      BY <2>2 DEF Send, MessageInv, MessageTypes
    <3> QED BY <3>1, <3>2 DEF MessageInv, WaitInv
  <2> QED BY <2>1, <2>2
<1>10. StopInv'
  BY <1>3, <1>6 DEF MessageInv, StopInv
<1>11. DueInv'
  <2>1. \A d \in due : /\ d = <<d[1], d[2]>> /\ d[1] \in Timed /\ d[2] \in Nat
                       /\ d[1] = <<d[1][1], d[1][2], "timed">>
                       /\ d[1][1] \in Client /\ d[1][2] \in Nat
    BY DEF MessageInv, MessageTypes, Timed
  <2>2. \A d \in due : d[1][2] <= sent[d[1][1]]
    BY DEF MessageInv, DueInv
  <2>3. CASE due' = due
    <3>1. \A d \in due : d[1][2] <= sent'[d[1][1]]
      BY <1>1, <1>2, <2>1, <2>2
    <3>2. kind = "exec"
      <4> SUFFICES ASSUME NEW when \in Nat, <<<<c, sent[c] + 1, "timed">>, when>> \in due
                   PROVE  FALSE
        BY <2>3
      <4> QED BY <1>1, <2>2
    <3>3. ASSUME NEW x \in Client, NEW p \in Nat,
                 <<x, p, "schedule">> \in Range(queue') \cup {calling'}
          PROVE  \E time \in Nat : <<<<x, p, "timed">>, time>> \in due'
      <4>1. <<x, p, "schedule">> # m
        BY <3>2
      <4>2. <<x, p, "schedule">> \in Range(queue) \cup {calling}
        BY <1>3, <3>3, <4>1
      <4> QED BY <2>3, <4>2 DEF MessageInv, DueInv
    <3>4. /\ \A d, e \in due' : d[1] = e[1] => d = e
          /\ \A x \in Seen' \cap Timed : \E time \in 0..now' : <<x, time>> \in due'
      BY <1>6, <2>3 DEF MessageInv, DueInv
    <3>5. /\ \A time \in DOMAIN agenda' : time \in Nat /\ <<agenda'[time], time>> \in due'
          /\ agenda' = [time \in DOMAIN agenda' |-> agenda'[time]]
          /\ dpc' = "timedwait" => DOMAIN agenda' # {}
      BY <2>3 DEF MessageInv, DueInv
    <3> QED BY <2>3, <3>1, <3>3, <3>4, <3>5 DEF DueInv
  <2>4. ASSUME NEW when \in Nat, kind = "schedule",
               due' = due \cup {<<<<c, n + 1, "timed">>, when>>}
        PROVE  DueInv'
    <3>1. ASSUME NEW d \in due' PROVE d[1][2] <= sent'[d[1][1]]
      <4>1. CASE d \in due
        <5>1. d[1][2] <= sent[d[1][1]] /\ d[1][1] \in Client /\ d[1][2] \in Nat
          BY <2>1, <2>2, <4>1
        <5> QED BY <1>1, <1>2, <5>1
      <4>2. CASE d = <<<<c, n + 1, "timed">>, when>>
        <5>1. d[1][1] = c /\ d[1][2] = n + 1
          BY <4>2
        <5>2. sent'[c] = n + 1
          BY <1>2
        <5> QED BY <1>1, <5>1, <5>2
      <4> QED BY <2>4, <4>1, <4>2
    <3>2. \A d \in due : d[1] # <<c, n + 1, "timed">>
      BY <1>1, <2>1, <2>2
    <3>3. \A d, e \in due' : d[1] = e[1] => d = e
      BY <2>4, <3>2 DEF MessageInv, DueInv
    <3>4. \A x \in Seen' \cap Timed : \E time \in 0..now' : <<x, time>> \in due'
      BY <1>6, <2>4 DEF MessageInv, DueInv
    <3>5. ASSUME NEW x \in Client, NEW p \in Nat,
                 <<x, p, "schedule">> \in Range(queue') \cup {calling'}
          PROVE  \E time \in Nat : <<<<x, p, "timed">>, time>> \in due'
      <4>1. CASE <<x, p, "schedule">> = m
        BY <2>4, <4>1
      <4>2. CASE <<x, p, "schedule">> \in Range(queue) \cup {calling}
        BY <2>4, <4>2 DEF MessageInv, DueInv
      <4> QED BY <1>3, <3>5, <4>1, <4>2
    <3>6. \A time \in DOMAIN agenda' : time \in Nat /\ <<agenda'[time], time>> \in due'
      BY <2>4 DEF MessageInv, DueInv
    <3>7. /\ agenda' = [time \in DOMAIN agenda' |-> agenda'[time]]
          /\ dpc' = "timedwait" => DOMAIN agenda' # {}
      BY DEF MessageInv, DueInv
    <3> QED BY <3>1, <3>3, <3>4, <3>5, <3>6, <3>7 DEF DueInv
  <2> QED BY <2>3, <2>4
<1> QED BY <1>5, <1>7, <1>9, <1>10, <1>11 DEF MessageInv

(* The three steps of stop, and time.                                      *)
LEMMA StopKeeps ==
  ASSUME MessageInv, StopFlag \/ StopPush \/ StopJoin \/ Tick
  PROVE  MessageInv'
<1>1. CASE StopFlag
  <2>1. UNCHANGED <<queue, agenda, dpc, calling, sent, waiting, now, done, due, status>>
    BY <1>1 DEF StopFlag, pool_vars
  <2>2. Seen' = Seen
    BY <2>1 DEF Seen
  <2>3. MessageTypes'
    BY <1>1, <2>1 DEF StopFlag, MessageInv, MessageTypes
  <2>4. OrderInv' /\ WaitInv'
    BY <2>1, <2>2 DEF MessageInv, OrderInv, WaitInv
  <2>5. DueInv'
    BY <2>1, <2>2 DEF MessageInv, DueInv
  <2>6. NoMessage \notin Range(queue)
    <3>1. NoMessage \notin Sent \cup {StopMessage}
      BY MessageShapes
    <3>2. \A i \in DOMAIN queue : queue[i] \in Sent \cup {StopMessage}
      BY DEF MessageInv, MessageTypes
    <3> QED BY <3>1, <3>2 DEF Range
  <2>7. StopInv'
    BY <1>1, <2>1, <2>2, <2>6 DEF StopFlag, MessageInv, StopInv, Seen
  <2> QED BY <2>3, <2>4, <2>5, <2>7 DEF MessageInv
<1>2. CASE StopPush
  <2> DEFINE S == Sent \cup {StopMessage}
  <2>1. UNCHANGED <<agenda, running, dpc, calling, sent, waiting, now, done, before, due,
                    status>>
    BY <1>2 DEF StopPush, pool_vars
  <2>2. Seen' = Seen
    BY <2>1 DEF Seen
  <2>3. queue \in Seq(S) /\ StopMessage \in S /\ queue' = Append(queue, StopMessage)
    BY <1>2 DEF StopPush, MessageInv, MessageTypes
  <2>4. queue' \in Seq(S) /\ Range(queue') = Range(queue) \cup {StopMessage}
    BY <2>3, QueueContents
  <2>5. MessageTypes'
    BY <1>2, <2>1, <2>4 DEF StopPush, MessageInv, MessageTypes
  <2>6. OrderInv'
    <3> SUFFICES ASSUME NEW x \in Client PROVE Ordered(queue', Seen', sent'[x], x)
      BY DEF OrderInv
    <3>1. Ordered(queue, Seen, sent[x], x) /\ sent[x] \in Nat
      BY DEF MessageInv, OrderInv, MessageTypes
    <3>2. Ordered(Append(queue, StopMessage), Seen, sent[x], x)
      BY <2>3, <3>1, MessageShapes, OtherOrder
    <3> QED BY <2>1, <2>2, <2>3, <3>2
  <2>7. DueInv'
    <3>1. StopMessage \notin Sent
      BY MessageShapes
    <3>2. \A c \in Client, n \in Nat : <<c, n, "schedule">> # StopMessage
      BY <3>1 DEF Sent
    <3> QED BY <2>1, <2>2, <2>4, <3>2 DEF MessageInv, DueInv
  <2>8. WaitInv' /\ StopInv'
    BY <1>2, <2>1, <2>2, <2>4 DEF StopPush, MessageInv, WaitInv, StopInv
  <2> QED BY <2>5, <2>6, <2>7, <2>8 DEF MessageInv
<1>3. CASE StopJoin
  <2>1. UNCHANGED <<queue, agenda, running, dpc, calling, sent, waiting, now, done, before,
                    due, status>>
    BY <1>3 DEF StopJoin, pool_vars
  <2>2. Seen' = Seen
    BY <2>1 DEF Seen
  <2>3. status[DispatcherTask] = "ready" /\ stopping = "join" /\ stopping' = "joined"
    BY <1>3 DEF StopJoin, Joinable
  <2>4. MessageTypes'
    BY <2>1, <2>3 DEF MessageInv, MessageTypes
  <2>5. OrderInv' /\ WaitInv'
    BY <2>1, <2>2 DEF MessageInv, OrderInv, WaitInv
  <2>6. DueInv'
    BY <2>1, <2>2 DEF MessageInv, DueInv
  <2>7. StopInv'
    BY <2>1, <2>2, <2>3 DEF MessageInv, StopInv
  <2> QED BY <2>4, <2>5, <2>6, <2>7 DEF MessageInv
<1>4. CASE Tick
  <2>1. /\ UNCHANGED <<queue, agenda, running, dpc, calling, sent, waiting, stopping, done,
                       before, due, status>>
        /\ now' = now + 1
    BY <1>4 DEF Tick, pool_vars
  <2>2. Seen' = Seen
    BY <2>1 DEF Seen
  <2>3. now \in Nat
    BY DEF MessageInv, MessageTypes
  <2>4. MessageTypes'
    BY <2>1, <2>3 DEF MessageInv, MessageTypes
  <2>5. OrderInv' /\ WaitInv' /\ StopInv'
    BY <2>1, <2>2 DEF MessageInv, OrderInv, WaitInv, StopInv
  <2>6. 0..now \subseteq 0..now'
    BY <2>1, <2>3
  <2>7. DueInv'
    BY <2>1, <2>2, <2>6 DEF MessageInv, DueInv
  <2> QED BY <2>4, <2>5, <2>7 DEF MessageInv
<1> QED BY <1>1, <1>2, <1>3, <1>4

(* Pop, and Drain as long as there is a message.                           *)
LEMMA FrontKeeps ==
  ASSUME MessageInv, TakeFront, calling = NoMessage,
         dpc \in {"pop", "timedwait", "drain"},
         dpc' = (IF dpc = "drain" THEN "draincall" ELSE "call"),
         UNCHANGED <<agenda, running, sent, waiting, stopping, now, done, before, due,
                     status>>
  PROVE  MessageInv'
<1> DEFINE S == Sent \cup {StopMessage}  m == Head(queue)
<1>1. queue \in Seq(S) /\ queue # <<>> /\ queue' = Tail(queue) /\ calling' = m
  BY DEF TakeFront, MessageInv, MessageTypes
<1>2. m \in S /\ queue' \in Seq(S) /\ Range(queue) = Range(queue') \cup {m}
  BY <1>1, QueueContents
<1>3. m # NoMessage /\ m \notin Timed
  BY <1>2, MessageShapes
<1>4. MessageTypes'
  BY <1>1, <1>2, <1>3 DEF MessageInv, MessageTypes
<1>5. Seen' = done \cup {m} /\ Seen = done \cup {NoMessage}
  BY <1>1 DEF Seen
<1>6. OrderInv'
  <2> SUFFICES ASSUME NEW x \in Client PROVE Ordered(queue', Seen', sent'[x], x)
    BY DEF OrderInv
  <2>1. Ordered(queue, Seen, sent[x], x) /\ sent[x] \in Nat
    BY DEF MessageInv, OrderInv, MessageTypes
  <2>2. Ordered(Tail(queue), Seen \cup {m}, sent[x], x)
    BY <1>1, <2>1, FrontOrder
  <2>3. \A n \in Nat : (\E y \in Seen' : Says(y, x, n)) <=> \E y \in Seen \cup {m} : Says(y, x, n)
    BY <1>5, MessageShapes
  <2>4. Ordered(Tail(queue), Seen', sent[x], x)
    BY <2>2, <2>3, SameSeenOrder
  <2> QED BY <1>1, <2>4
<1>7. DueInv'
  <2>1. Seen' \cap Timed \subseteq Seen \cap Timed
    BY <1>3, <1>5
  <2>2. \A x \in Seen' \cap Timed : \E time \in 0..now' : <<x, time>> \in due'
    BY <2>1 DEF MessageInv, DueInv
  <2>3. Range(queue') \cup {calling'} \subseteq Range(queue) \cup {calling}
    BY <1>1, <1>2
  <2>4. \A c \in Client, n \in Nat :
          <<c, n, "schedule">> \in Range(queue') \cup {calling'} =>
            \E time \in Nat : <<<<c, n, "timed">>, time>> \in due'
    BY <2>3 DEF MessageInv, DueInv
  <2>5. /\ \A d \in due' : d[1][2] <= sent'[d[1][1]]
        /\ \A d, e \in due' : d[1] = e[1] => d = e
    BY DEF MessageInv, DueInv
  <2>6. /\ \A time \in DOMAIN agenda' : time \in Nat /\ <<agenda'[time], time>> \in due'
        /\ agenda' = [time \in DOMAIN agenda' |-> agenda'[time]]
        /\ dpc' # "timedwait"
    BY DEF MessageInv, DueInv
  <2> QED BY <2>2, <2>4, <2>5, <2>6 DEF DueInv
<1>8. WaitInv'
  BY DEF MessageInv, WaitInv
<1>9. StopInv'
  <2>1. Seen' \cup Range(queue') = (Seen \cup Range(queue)) \ {NoMessage}
        \/ Seen' \cup Range(queue') = Seen \cup Range(queue)
    <3>1. Seen' \cup Range(queue') = done \cup Range(queue)
      BY <1>2, <1>5
    <3>2. NoMessage \notin S
      BY MessageShapes
    <3>3. NoMessage \notin Range(queue)
      BY <1>1, <3>2 DEF Range
    <3> QED BY <1>5, <3>1, <3>3
  <2> QED BY <2>1 DEF MessageInv, StopInv
<1> QED BY <1>4, <1>6, <1>7, <1>8, <1>9 DEF MessageInv

LEMMA TimedWaitKeeps ==
  ASSUME MessageInv, dpc = "pop", dpc' = "timedwait", agenda # <<>>,
         UNCHANGED <<queue, agenda, running, calling, sent, waiting, stopping, now, done,
                     before, due, status>>
  PROVE  MessageInv'
<1>1. Seen' = Seen
  BY DEF Seen
<1>2. MessageTypes'
  BY DEF MessageInv, MessageTypes
<1>3. OrderInv' /\ WaitInv' /\ StopInv'
  BY <1>1 DEF MessageInv, OrderInv, WaitInv, StopInv
<1>4. DOMAIN agenda # {}
  <2> SUFFICES ASSUME DOMAIN agenda = {} PROVE agenda = <<>>
    OBVIOUS
  <2>1. agenda = [time \in {} |-> agenda[time]]
    BY DEF MessageInv, DueInv
  <2>2. [time \in {} |-> agenda[time]] = <<>>
    OBVIOUS
  <2> QED BY <2>1, <2>2
<1>5. DueInv'
  BY <1>1, <1>4 DEF MessageInv, DueInv
<1> QED BY <1>2, <1>3, <1>5 DEF MessageInv

(* The agenda has a first time when somebody waits for it.                 *)
LEMMA FirstTimeIsFirst ==
  ASSUME NEW D, D \subseteq Nat, D # {}
  PROVE  \E time \in D : \A other \in D : time <= other
<1> DEFINE R == {ss \in Nat \X Nat : ss[1] < ss[2]}
<1>1. IsWellFoundedOn(R, Nat)
  BY NatLessThanWellFounded, Zenon DEF OpToRel
<1>2. \A x, y \in Nat : <<y, x>> \in R <=> y < x
  OBVIOUS
<1> HIDE DEF R
<1>3. PICK x \in D : \A y \in D : ~(<<y, x>> \in R)
  BY <1>1, WFMin
<1>4. \A y \in D : x <= y
  <2> SUFFICES ASSUME NEW y \in D PROVE x <= y
    OBVIOUS
  <2>1. ~(y < x) /\ x \in Nat /\ y \in Nat
    BY <1>2, <1>3
  <2> QED BY <2>1
<1> QED BY <1>4

(* The wait times out.                                                     *)
LEMMA TimeoutKeeps ==
  ASSUME MessageInv, Timeout, UNCHANGED status
  PROVE  MessageInv'
<1> DEFINE time == FirstTime  m == agenda[time]
<1>1. /\ dpc = "timedwait" /\ dpc' = "call" /\ now >= FirstTime
      /\ calling' = m
      /\ agenda' = [t \in DOMAIN agenda \ {time} |-> agenda[t]]
      /\ UNCHANGED <<queue, running, sent, waiting, stopping, now, done, before, due>>
  BY DEF Timeout, Step, rest
<1>2. DOMAIN agenda \subseteq Nat /\ DOMAIN agenda # {}
  BY <1>1 DEF MessageInv, DueInv
<1>3. time \in DOMAIN agenda
  BY <1>2, FirstTimeIsFirst DEF FirstTime
<1>4. time \in 0..now /\ <<m, time>> \in due
  BY <1>1, <1>2, <1>3 DEF MessageInv, DueInv, MessageTypes
<1>5. m \in Timed /\ calling = NoMessage
  BY <1>1, <1>4 DEF MessageInv, MessageTypes
<1> HIDE DEF time, m
<1>6. m # NoMessage /\ m \notin Sent
  BY <1>5, MessageShapes
<1>7. MessageTypes'
  BY <1>1, <1>5, <1>6 DEF MessageInv, MessageTypes
<1>8. Seen' = done \cup {m} /\ Seen = done \cup {NoMessage}
  BY <1>1, <1>5 DEF Seen
<1>9. OrderInv'
  <2> SUFFICES ASSUME NEW x \in Client PROVE Ordered(queue', Seen', sent'[x], x)
    BY DEF OrderInv
  <2>1. Ordered(queue, Seen, sent[x], x)
    BY DEF MessageInv, OrderInv
  <2>2. \A n \in Nat : (\E y \in Seen' : Says(y, x, n)) <=> \E y \in Seen : Says(y, x, n)
    BY <1>5, <1>8, MessageShapes
  <2>3. Ordered(queue, Seen', sent[x], x)
    BY <2>1, <2>2, SameSeenOrder
  <2> QED BY <1>1, <2>3
<1>10. DueInv'
  <2>1. \A x \in Seen' \cap Timed : \E t \in 0..now' : <<x, t>> \in due'
    BY <1>1, <1>4, <1>8 DEF MessageInv, DueInv, Seen
  <2>2. ASSUME NEW c \in Client, NEW n \in Nat,
               <<c, n, "schedule">> \in Range(queue') \cup {calling'}
        PROVE  \E t \in Nat : <<<<c, n, "timed">>, t>> \in due'
    <3>1. <<c, n, "schedule">> # m
      BY <1>6 DEF Sent
    <3> QED BY <1>1, <2>2, <3>1 DEF MessageInv, DueInv
  <2>3. /\ \A d \in due' : d[1][2] <= sent'[d[1][1]]
        /\ \A d, e \in due' : d[1] = e[1] => d = e
    BY <1>1 DEF MessageInv, DueInv
  <2>4. /\ \A t \in DOMAIN agenda' : t \in Nat /\ <<agenda'[t], t>> \in due'
        /\ agenda' = [t \in DOMAIN agenda' |-> agenda'[t]]
        /\ dpc' # "timedwait"
    BY <1>1 DEF MessageInv, DueInv
  <2> QED BY <2>1, <2>2, <2>3, <2>4 DEF DueInv
<1>11. WaitInv'
  BY <1>1 DEF MessageInv, WaitInv
<1>12. StopInv'
  <2>1. stopping = "no" \/ (before \subseteq Seen \cup Range(queue) /\ NoMessage \notin before)
    BY DEF MessageInv, StopInv
  <2>2. stopping # "no" => before \subseteq Seen' \cup Range(queue')
    BY <1>1, <1>8, <2>1
  <2> QED BY <1>1, <2>1, <2>2 DEF MessageInv, StopInv
<1> QED BY <1>7, <1>9, <1>10, <1>11, <1>12 DEF MessageInv

(* The message is called.                                                  *)
LEMMA CallKeeps ==
  ASSUME MessageInv, NEW from, NEW to, Call(from, to), UNCHANGED status,
         \/ from = "call" /\ to = IF running THEN "pop" ELSE "drain"
         \/ from = "draincall" /\ to = "drain"
  PROVE  MessageInv'
<1> DEFINE m == calling
<1>1. /\ dpc = from /\ dpc' = to /\ calling' = NoMessage /\ done' = done \cup {m}
      /\ agenda' = (IF m[Len(m)] = "schedule" THEN Inserted(m) ELSE agenda)
      /\ waiting' = (IF m[Len(m)] = "exec" THEN waiting \ {m[1]} ELSE waiting)
      /\ UNCHANGED <<queue, running, sent, stopping, now, before, due>>
  BY DEF Call, Step, rest
<1>2. m \in Sent \cup Timed \cup {StopMessage}
  BY <1>1 DEF MessageInv, MessageTypes
<1>3. MessageTypes'
  BY <1>1, <1>2 DEF MessageInv, MessageTypes
<1>4. Seen' = Seen \cup {NoMessage}
  BY <1>1 DEF Seen
<1>5. OrderInv'
  <2> SUFFICES ASSUME NEW x \in Client PROVE Ordered(queue', Seen', sent'[x], x)
    BY DEF OrderInv
  <2>1. Ordered(queue, Seen, sent[x], x)
    BY DEF MessageInv, OrderInv
  <2>2. \A n \in Nat : (\E y \in Seen' : Says(y, x, n)) <=> \E y \in Seen : Says(y, x, n)
    BY <1>4, MessageShapes
  <2>3. Ordered(queue, Seen', sent[x], x)
    BY <2>1, <2>2, SameSeenOrder
  <2> QED BY <1>1, <2>3
<1>6. WaitInv'
  <2> SUFFICES ASSUME NEW c \in waiting', <<c, sent[c], "exec">> \in done'
               PROVE  FALSE
    BY <1>1 DEF WaitInv
  <2>1. c \in waiting
    BY <1>1
  <2>2. <<c, sent[c], "exec">> = m
    BY <1>1, <2>1 DEF MessageInv, WaitInv
  <2>3. Len(m) = 3
    BY <2>2
  <2>4. m[3] = "exec" /\ m[1] = c
    BY <2>2
  <2>5. waiting' = waiting \ {c}
    BY <1>1, <2>3, <2>4
  <2> QED BY <2>5
<1>7. StopInv'
  <2>1. stopping # "no" => before \subseteq Seen' \cup Range(queue')
    BY <1>1, <1>4 DEF MessageInv, StopInv
  <2> QED BY <1>1, <2>1 DEF MessageInv, StopInv
<1>8. /\ \A t \in DOMAIN agenda' : t \in Nat /\ <<agenda'[t], t>> \in due
      /\ agenda' = [t \in DOMAIN agenda' |-> agenda'[t]]
  <2>1. CASE m[Len(m)] # "schedule"
    BY <1>1, <2>1 DEF MessageInv, DueInv
  <2>2. CASE m[Len(m)] = "schedule"
    <3>1. m # StopMessage
      <4>1. m = StopMessage => m[Len(m)] = "stop"
        BY MessageShapes
      <4> QED BY <2>2, <4>1
    <3>2. m = <<m[1], m[2], m[3]>> /\ Len(m) = 3
      BY <1>2, <3>1, MessageShapes
    <3>3. m[1] \in Client /\ m[2] \in Nat
      BY <1>2, <3>1 DEF Sent, Timed
    <3> DEFINE c == m[1]  n == m[2]
               when == (CHOOSE d \in due : d[1] = <<c, n, "timed">>)[2]
    <3>4. <<c, n, "schedule">> = calling
      BY <2>2, <3>2
    <3>5. \E t \in Nat : <<<<c, n, "timed">>, t>> \in due
      BY <3>3, <3>4 DEF MessageInv, DueInv
    <3>6. \E d \in due : d[1] = <<c, n, "timed">>
      BY <3>5
    <3>7. PICK d \in due : d = (CHOOSE e \in due : e[1] = <<c, n, "timed">>)
                            /\ d[1] = <<c, n, "timed">>
      BY <3>6
    <3>8. d = <<<<c, n, "timed">>, when>> /\ when \in Nat
      <4>1. d \in Timed \X Nat
        BY DEF MessageInv, MessageTypes
      <4>2. d = <<d[1], d[2]>> /\ d[2] \in Nat
        BY <4>1
      <4>3. when = d[2]
        BY <3>7
      <4> HIDE DEF when
      <4> QED BY <3>7, <4>2, <4>3
    <3>9. agenda' = IF when \in DOMAIN agenda THEN agenda
                    ELSE [t \in DOMAIN agenda \cup {when} |->
                            IF t = when THEN <<c, n, "timed">> ELSE agenda[t]]
      BY <1>1, <2>2 DEF Inserted
    <3>10. <<<<c, n, "timed">>, when>> \in due
      BY <3>7, <3>8
    <3> HIDE DEF when, m
    <3>11. CASE when \in DOMAIN agenda
      BY <3>9, <3>11 DEF MessageInv, DueInv
    <3>12. CASE when \notin DOMAIN agenda
      BY <3>8, <3>9, <3>10, <3>12 DEF MessageInv, DueInv
    <3> QED BY <3>11, <3>12
  <2> QED BY <2>1, <2>2
<1>9. DueInv'
  <2>1. Seen' \cap Timed = Seen \cap Timed
    BY <1>4, MessageShapes
  <2>2. \A x \in Seen' \cap Timed : \E t \in 0..now' : <<x, t>> \in due'
    BY <1>1, <2>1 DEF MessageInv, DueInv
  <2>3. ASSUME NEW c \in Client, NEW n \in Nat,
               <<c, n, "schedule">> \in Range(queue') \cup {calling'}
        PROVE  \E t \in Nat : <<<<c, n, "timed">>, t>> \in due'
    <3>1. <<c, n, "schedule">> # NoMessage
      BY MessageShapes DEF Sent
    <3> QED BY <1>1, <2>3, <3>1 DEF MessageInv, DueInv
  <2>4. /\ \A d \in due' : d[1][2] <= sent'[d[1][1]]
        /\ \A d, e \in due' : d[1] = e[1] => d = e
    BY <1>1 DEF MessageInv, DueInv
  <2>5. dpc' # "timedwait"
    BY <1>1
  <2> QED BY <1>1, <1>8, <2>2, <2>3, <2>4, <2>5 DEF DueInv
<1> QED BY <1>3, <1>5, <1>6, <1>7, <1>9 DEF MessageInv

(* run returns, and its task ends.                                         *)
LEMMA RunEnds ==
  ASSUME MessageInv, dpc = "drain", dpc' = "ended", queue = <<>>,
         UNCHANGED <<agenda, running, queue, calling, sent, waiting, stopping, now, done,
                     before, due>>
  PROVE  MessageInv'
<1>1. Seen' = Seen /\ Seen = done \cup {NoMessage}
  BY DEF Seen, MessageInv, MessageTypes
<1>2. MessageTypes'
  BY DEF MessageInv, MessageTypes
<1>3. OrderInv' /\ WaitInv'
  BY <1>1 DEF MessageInv, OrderInv, WaitInv
<1>4. DueInv'
  BY <1>1 DEF MessageInv, DueInv
<1>5. Range(queue) = {}
  BY DEF Range
<1>6. before \subseteq done
  BY <1>1, <1>5 DEF MessageInv, StopInv
<1>7. StopInv'
  BY <1>1, <1>6 DEF MessageInv, StopInv
<1> QED BY <1>2, <1>3, <1>4, <1>7 DEF MessageInv

(* The other actions leave the dispatcher alone, and its task.             *)
LEMMA OthersKeep ==
  ASSUME MessageInv, UNCHANGED dispatcher_vars,
         dpc # "ended" => status'[DispatcherTask] = status[DispatcherTask]
  PROVE  MessageInv'
<1>1. UNCHANGED <<queue, agenda, running, dpc, calling, sent, waiting, stopping, now, done,
                  before, due>>
  BY DEF dispatcher_vars
<1>2. Seen' = Seen
  BY <1>1 DEF Seen
<1>3. MessageTypes' /\ OrderInv' /\ WaitInv'
  BY <1>1, <1>2 DEF MessageInv, MessageTypes, OrderInv, WaitInv
<1>4. DueInv'
  BY <1>1, <1>2 DEF MessageInv, DueInv
<1>5. StopInv'
  BY <1>1, <1>2 DEF MessageInv, StopInv
<1> QED BY <1>3, <1>4, <1>5 DEF MessageInv

LEMMA DispatcherKeeps ==
  ASSUME MessageInv, DispatcherNext
  PROVE  MessageInv'
<1>1. ASSUME NEW c \in Client, Exec(c) PROVE MessageInv'
  BY <1>1, SendKeeps DEF Exec, Send, pool_vars
<1>2. ASSUME NEW c \in Client, NEW when \in (now + 1)..MaxTime, Schedule(c, when)
      PROVE  MessageInv'
  <2>1. when \in Nat
    BY DispatcherAssumption DEF MessageInv, MessageTypes
  <2> QED BY <1>2, <2>1, SendKeeps DEF Schedule, Send, pool_vars
<1>3. CASE Pop
  <2>1. calling = NoMessage
    BY <1>3 DEF Pop, Step, MessageInv, MessageTypes
  <2> QED BY <1>3, <2>1, FrontKeeps DEF Pop, Step, rest, pool_vars
<1>4. CASE TimedWait
  BY <1>4, TimedWaitKeeps DEF TimedWait, Step, rest, pool_vars
<1>5. CASE Timeout
  <2>1. UNCHANGED status
    BY <1>5 DEF Timeout, rest, pool_vars
  <2> QED BY <1>5, <2>1, TimeoutKeeps
<1>6. ASSUME Step("drain", "draincall"), TakeFront, UNCHANGED pool_vars,
             UNCHANGED <<running, sent, stopping, now, before, due, agenda, waiting, done>>
      PROVE  MessageInv'
  <2>1. calling = NoMessage
    BY <1>6 DEF Step, MessageInv, MessageTypes
  <2> QED BY <1>6, <2>1, FrontKeeps DEF Step, pool_vars
<1>7. ASSUME Step("drain", "ended"), queue = <<>>, UNCHANGED <<queue, calling>>,
             UNCHANGED <<running, sent, stopping, now, before, due, agenda, waiting, done>>
      PROVE  MessageInv'
  BY <1>7, RunEnds DEF Step
<1>8. CASE Drain
  BY <1>6, <1>7, <1>8 DEF Drain
<1>9. CASE Call("call", IF running THEN "pop" ELSE "drain")
  <2>1. UNCHANGED status
    BY <1>9 DEF Call, rest, pool_vars
  <2> QED BY <1>9, <2>1, CallKeeps
<1>10. CASE Call("draincall", "drain")
  <2>1. UNCHANGED status
    BY <1>10 DEF Call, rest, pool_vars
  <2> QED BY <1>10, <2>1, CallKeeps
<1> QED BY <1>1, <1>2, <1>3, <1>4, <1>5, <1>8, <1>9, <1>10, StopKeeps
        DEF DispatcherNext, Run

(* A task that runs keeps its status until its own function returns.       *)
LEMMA RunningTaskStays ==
  ASSUME IInv, MessageInv, dpc # "ended",
         \/ \E w \in Thread : PoolStep(TakeTask(w))
         \/ \E t \in Transaction : CallStarts(t)
         \/ DatabaseStep(DatabaseNext)
  PROVE  status'[DispatcherTask] = status[DispatcherTask]
<1> DEFINE d == DispatcherTask
<1>1. /\ d \in Task \ Transaction /\ status[d] = "running"
      /\ status \in [Task -> TaskStatus]
  BY ThreadsAssumption, DispatcherAssumption DEF MessageInv, StopInv, IInv, TypeInv
<1>2. ASSUME NEW w \in Thread, TakeTask(w) PROVE status'[d] = status[d]
  <2>1. CASE tasks = <<>>
    BY <1>2, <2>1 DEF TakeTask
  <2>2. CASE tasks # <<>>
    <3>1. Len(tasks) \in Nat \ {0} /\ Head(tasks) = tasks[1]
      BY <2>2 DEF IInv, TypeInv
    <3>2. status[Head(tasks)] = "waiting"
      BY <3>1 DEF IInv, PoolInv
    <3>3. status' = [status EXCEPT ![Head(tasks)] = "running"]
      BY <1>2, <2>2 DEF TakeTask
    <3> QED BY <1>1, <3>2, <3>3
  <2> QED BY <2>1, <2>2
<1>3. ASSUME NEW t \in Transaction, CallStarts(t) PROVE status'[d] = status[d]
  <2>1. status' = [status EXCEPT ![t] = "waiting"]
    BY <1>3 DEF CallStarts, queueTransaction, Start
  <2> QED BY <1>1, <2>1
<1>4. ASSUME NEW t \in Transaction, commit(t) PROVE status'[d] = status[d]
  <2>1. PICK w \in Thread : Runs(w, t) /\ EndTask(w)
    BY <1>4 DEF commit
  <2>2. status' = [status EXCEPT ![t] = "ready"]
    BY <2>1 DEF Runs, EndTask
  <2> QED BY <1>1, <2>2
<1>5. ASSUME collect PROVE status'[d] = status[d]
  <2>1. Head(running_tasks) \in Transaction
    BY <1>5 DEF collect, IInv, TypeInv
  <2>2. status' = [status EXCEPT ![Head(running_tasks)] = "deleted"]
    BY <1>5 DEF collect
  <2> QED BY <1>1, <2>1, <2>2
<1>6. ASSUME NEW t \in Transaction,
             tryPop(t) \/ readConnectionsLeft(t) \/ takeConnectionLeft(t) \/ popConnection(t)
      PROVE  status'[d] = status[d]
  BY <1>6 DEF tryPop, readConnectionsLeft, takeConnectionLeft, popConnection, pool_vars
<1> QED BY <1>2, <1>3, <1>4, <1>5, <1>6 DEF PoolStep, DatabaseStep, DatabaseNext

LEMMA InitMessageInv == Init => MessageInv
<1> SUFFICES ASSUME Init PROVE MessageInv
  OBVIOUS
<1>1. /\ queue = <<>> /\ agenda = <<>> /\ running = TRUE /\ dpc = "pop"
      /\ calling = NoMessage /\ sent = [c \in Client |-> 0] /\ waiting = {}
      /\ stopping = "no" /\ now = 0 /\ done = {} /\ before = {} /\ due = {}
  BY DEF Init, DispatcherInit
<1>2. MessageTypes
  BY <1>1 DEF MessageTypes
<1>3. Seen = {NoMessage}
  BY <1>1 DEF Seen
<1>4. OrderInv
  <2> SUFFICES ASSUME NEW c \in Client PROVE Ordered(queue, Seen, sent[c], c)
    BY DEF OrderInv
  <2>1. Len(queue) = 0 /\ sent[c] = 0
    BY <1>1
  <2>2. \A n \in Nat : (\E m \in Seen : Says(m, c, n)) <=> n \in 1..0
    BY <1>3, MessageShapes
  <2> QED BY <2>1, <2>2 DEF Ordered
<1>5. Seen \cap Timed = {}
  BY <1>3, MessageShapes
<1>6. Range(queue) = {}
  BY <1>1 DEF Range
<1>7. \A c \in Client, n \in Nat : <<c, n, "schedule">> # NoMessage
  BY MessageShapes DEF Sent
<1>8. DOMAIN agenda = {} /\ agenda = [time \in DOMAIN agenda |-> agenda[time]]
  BY <1>1
<1>9. DueInv
  BY <1>1, <1>5, <1>6, <1>7, <1>8 DEF DueInv
<1>10. WaitInv
  BY <1>1 DEF WaitInv
<1>11. status[DispatcherTask] = "running"
  BY DispatcherAssumption DEF Init, Started
<1>12. StopInv
  BY <1>1, <1>11 DEF StopInv
<1> QED BY <1>2, <1>4, <1>9, <1>10, <1>12 DEF MessageInv

LEMMA NextMessageInv == IInv /\ MessageInv /\ [Next]_vars => MessageInv'
<1> SUFFICES ASSUME IInv, MessageInv, [Next]_vars PROVE MessageInv'
  OBVIOUS
<1>1. CASE DispatcherStep(DispatcherNext)
  BY <1>1, DispatcherKeeps DEF DispatcherStep
<1>2. CASE UNCHANGED vars
  BY <1>2, OthersKeep DEF vars, pool_vars
<1>3. CASE \/ \E w \in Thread : PoolStep(TakeTask(w))
           \/ \E t \in Transaction : CallStarts(t)
           \/ DatabaseStep(DatabaseNext)
  <2>1. UNCHANGED dispatcher_vars
    BY <1>3 DEF PoolStep, CallStarts, DatabaseStep
  <2> QED BY <1>3, <2>1, RunningTaskStays, OthersKeep
<1> QED BY <1>1, <1>2, <1>3 DEF Next

(* The numbers of the messages of a client that were run are the first     *)
(* ones, for any number of clients, messages and times: none is lost,      *)
(* repeated or overtaken.  A message of the agenda is not run before its   *)
(* time, exec returns when its message was run, and stop returns when all  *)
(* that was queued before it was run.                                      *)
THEOREM ThreadsMessagesInOrder == Spec => []MessagesInOrder
<1>1. MessageInv => MessagesInOrder
  <2> SUFFICES ASSUME MessageInv PROVE MessagesInOrder
    OBVIOUS
  <2>1. ASSUME NEW c \in Client
        PROVE  LET ran == {m[2] : m \in {x \in done \cup {calling} :
                                           Len(x) = 3 /\ x[1] = c /\ x[3] # "timed"}}
               IN ran = 1..Cardinality(ran)
    <3> DEFINE ran == {m[2] : m \in {x \in done \cup {calling} :
                                       Len(x) = 3 /\ x[1] = c /\ x[3] # "timed"}}
    <3>1. PICK k \in 0..sent[c] :
            \A n \in Nat : (\E m \in Seen : Says(m, c, n)) <=> n \in 1..k
      BY DEF MessageInv, OrderInv, Ordered
    <3>2. k \in Nat
      BY DEF MessageInv, MessageTypes
    <3>3. ASSUME NEW x \in Seen, Len(x) = 3, x[1] = c, x[3] # "timed"
          PROVE  x[2] \in Nat /\ Says(x, c, x[2])
      <4>1. x \in Sent \cup Timed
        <5>1. x \in Sent \cup Timed \cup {StopMessage, NoMessage}
          BY DEF Seen, MessageInv, MessageTypes
        <5>2. x # StopMessage /\ x # NoMessage
          BY <3>3, MessageShapes
        <5> QED BY <5>1, <5>2
      <4>2. x \in Sent
        BY <3>3, <4>1 DEF Timed
      <4>3. x = <<c, x[2], x[3]>> /\ x[2] \in Nat /\ x[3] \in {"exec", "schedule"}
        BY <3>3, <4>2 DEF Sent
      <4> QED BY <4>3 DEF Says
    <3>4. ASSUME NEW n \in Nat, NEW m \in Seen, Says(m, c, n)
          PROVE  Len(m) = 3 /\ m[1] = c /\ m[2] = n /\ m[3] # "timed"
      BY <3>4 DEF Says
    <3>5. ran = 1..k
      <4>1. \A n \in ran : n \in 1..k
        BY <3>1, <3>3 DEF Seen
      <4>2. \A n \in 1..k : n \in ran
        BY <3>1, <3>2, <3>4 DEF Seen
      <4> QED BY <4>1, <4>2
    <3> HIDE DEF ran
    <3>6. Cardinality(1..k) = k
      <4>1. Cardinality(1..k) = IF 1 > k THEN 0 ELSE k - 1 + 1
        BY <3>2, FS_Interval
      <4> QED BY <3>2, <4>1
    <3>7. ran = 1..Cardinality(ran)
      BY <3>5, <3>6
    <3> QED BY <3>7 DEF ran
  <2>2. ASSUME NEW d \in due, d[1] \in done \cup {calling} PROVE d[2] <= now
    <3>1. d = <<d[1], d[2]>> /\ d[1] \in Timed /\ d[2] \in Nat /\ now \in Nat
      BY DEF MessageInv, MessageTypes
    <3>2. PICK time \in 0..now : <<d[1], time>> \in due
      BY <2>2, <3>1 DEF MessageInv, DueInv, Seen
    <3>3. d = <<d[1], time>>
      BY <3>2 DEF MessageInv, DueInv
    <3>4. d[2] = time
      BY <3>1, <3>3
    <3> QED BY <3>1, <3>2, <3>4
  <2>3. ASSUME NEW c \in Client, NEW n \in 1..sent[c], <<c, n, "exec">> \in done
        PROVE  sent[c] > n \/ c \notin waiting
    <3>1. sent[c] \in Nat
      BY DEF MessageInv, MessageTypes
    <3> QED BY <2>3, <3>1 DEF MessageInv, WaitInv
  <2>4. stopping = "joined" => before \subseteq done
    BY DEF MessageInv, StopInv
  <2> QED BY <2>1, <2>2, <2>3, <2>4 DEF MessagesInOrder
<1>2. Init => MessageInv
  BY InitMessageInv
<1>3. IInv /\ MessageInv /\ [Next]_vars => MessageInv'
  BY NextMessageInv
<1> QED BY <1>1, <1>2, <1>3, Invariance, PTL DEF Spec

-----------------------------------------------------------------------------
(* Connection.                                                             *)


Stanzas == {"answer", "presence", "end"}

ConnectionTypes ==
  /\ core_queue \in Seq({"connect", "stanza", "close", "error"})
  /\ serving = Idle \/ serving \in {"close", "error"} \X {"joinrecv", "joinsend"}
  /\ stanza_queue \in Seq(Stanzas) /\ delivered \in Seq(Stanzas) /\ promised \in Seq(Stanzas)
  /\ recv \in {"ready", "check", "recv"} /\ send \in {"ready", "pop"}
  /\ connected \in BOOLEAN

(* Nothing happens before main starts the thread that receives.            *)
StartInv ==
  /\ main \in {"connect", "startrecv"} =>
       /\ recv = "ready" /\ send = "ready" /\ serving = Idle
       /\ core_queue = <<>> /\ stanza_queue = <<>> /\ delivered = <<>> /\ promised = <<>>
  /\ main = "connect" => ~connected /\ closes = 0 /\ socket = "none"
  /\ main = "startrecv" => connected

(* Whoever finds it connected closes it, in two steps.                     *)
CloseInv ==
  /\ closes \in {0, 1} /\ (modules = "deleted" <=> closes = 1)
  /\ connected => serving = Idle /\ closes = 0
  /\ serving # Idle => (serving[2] = "joinrecv" <=> closes = 0)
  /\ closes = 1 => recv = "ready"

(* The first k stanzas of the queue q are what was promised, p, and not    *)
(* delivered yet, d.                                                       *)
Owed(p, d, q, k) ==
  /\ k \in 0..Len(q) /\ Len(p) = Len(d) + k
  /\ \A i \in 1..Len(d) : p[i] = d[i]
  /\ \A i \in 1..k : q[i] = p[Len(d) + i] /\ q[i] # "end"

Ending == {"closing", "baseclosing"}

Over == {"destroy", "baseclose", "baseclosing", "stop", "join"}

(* Unless the connection broke, there is no error, and main waits for the  *)
(* one close it asked for.                                                 *)
StanzaOrderInv ==
  /\ \A i \in 1..Len(core_queue) : core_queue[i] # "error"
  /\ \A i \in 1..Len(core_queue) : core_queue[i] = "close" => main \in Ending /\ serving = Idle
  /\ \A i, j \in 1..Len(core_queue) : core_queue[i] = "close" /\ core_queue[j] = "close" => i = j
  /\ serving # Idle => serving[1] = "close" /\ main = "closing"

PhaseInv ==
  /\ main \in {"startrecv", "startsend", "notify", "sigwait", "close"} =>
       connected /\ socket = "open"
  /\ main = "startsend" => send = "ready" /\ closes = 0
  /\ main \in {"notify", "sigwait", "close"} => send = "pop"
  /\ main = "closing" =>
       /\ socket = "open" /\ (closes = 0 => send = "pop")
       /\ connected \/ serving # Idle
  /\ main \in Over =>
       /\ ~connected /\ serving = Idle /\ recv = "ready" /\ send = "ready"
       /\ delivered = promised
       /\ closes = 0 => \A i \in 1..Len(core_queue) : core_queue[i] # "stanza"

(* The end of the sending comes behind what was promised.                  *)
PromiseInv ==
  /\ closes = 0 => Owed(promised, delivered, stanza_queue, Len(stanza_queue))
  /\ closes = 1 /\ send = "pop" =>
       \E k \in 0..Len(stanza_queue) - 1 :
         Owed(promised, delivered, stanza_queue, k) /\ stanza_queue[k + 1] = "end"
  /\ closes = 1 /\ send = "ready" => delivered = promised

WholeInv == ~broke => StanzaOrderInv /\ PhaseInv /\ PromiseInv

EndInv == main \in {"connect", "startrecv", "startsend", "notify", "sigwait", "close", "closing"}
                     \cup Over
          /\ (process = "ended" => main = "join")

ClosingInv == ConnectionTypes /\ StartInv /\ CloseInv /\ WholeInv /\ EndInv

-----------------------------------------------------------------------------
(* What is owed, when the queue grows and when its front is sent.          *)

LEMMA OwedGrows ==
  ASSUME NEW p \in Seq(Stanzas), NEW d \in Seq(Stanzas), NEW q \in Seq(Stanzas),
         NEW a \in Seq(Stanzas), NEW k, Owed(p, d, q, k)
  PROVE  Owed(p, d, q \o a, k) /\ (k < Len(q) => (q \o a)[k + 1] = q[k + 1])
<1> DEFINE r == q \o a
<1>1. /\ Len(q) \in Nat /\ Len(r) \in Nat /\ Len(q) <= Len(r)
      /\ \A i \in 1..Len(q) : r[i] = q[i]
  <2>1. /\ Len(q) \in Nat /\ Len(a) \in Nat /\ Len(r) = Len(q) + Len(a)
        /\ \A i \in 1..Len(r) : r[i] = IF i <= Len(q) THEN q[i] ELSE a[i - Len(q)]
    BY ConcatProperties
  <2> HIDE DEF r
  <2> QED BY <2>1
<1> HIDE DEF r
<1>2. Owed(p, d, r, k)
  BY <1>1 DEF Owed
<1>3. k < Len(q) => r[k + 1] = q[k + 1]
  <2>1. k \in 0..Len(q)
    BY DEF Owed
  <2> QED BY <1>1, <2>1
<1> QED BY <1>2, <1>3 DEF r

(* What is queued before the end of the sending is promised.               *)
LEMMA OwedPromises ==
  ASSUME NEW p \in Seq(Stanzas), NEW d \in Seq(Stanzas), NEW q \in Seq(Stanzas),
         NEW a \in Seq(Stanzas \ {"end"}), Owed(p, d, q, Len(q))
  PROVE  Owed(p \o a, d, q \o a, Len(q) + Len(a)) /\ Len(q \o a) = Len(q) + Len(a)
<1> DEFINE r == q \o a  s == p \o a
<1>1. a \in Seq(Stanzas) /\ \A i \in 1..Len(a) : a[i] # "end"
  OBVIOUS
<1>2. /\ Len(q) \in Nat /\ Len(a) \in Nat /\ Len(r) = Len(q) + Len(a)
      /\ \A i \in 1..Len(q) : r[i] = q[i]
      /\ \A i \in 1..Len(r) : i > Len(q) => r[i] = a[i - Len(q)]
  BY <1>1, ConcatProperties
<1>3. /\ Len(p) \in Nat /\ Len(s) = Len(p) + Len(a)
      /\ \A i \in 1..Len(p) : s[i] = p[i]
      /\ \A i \in 1..Len(s) : i > Len(p) => s[i] = a[i - Len(p)]
  BY <1>1, ConcatProperties
<1>4. Len(d) \in Nat
  OBVIOUS
<1> HIDE DEF r, s
<1>5. Len(p) = Len(d) + Len(q) /\ Len(s) = Len(d) + (Len(q) + Len(a))
  BY <1>3, <1>2, <1>4 DEF Owed
<1>6. \A i \in 1..Len(d) : s[i] = d[i]
  BY <1>2, <1>3, <1>4, <1>5 DEF Owed
<1>7. ASSUME NEW i \in 1..Len(q) + Len(a)
      PROVE  r[i] = s[Len(d) + i] /\ r[i] # "end"
  <2>1. CASE i <= Len(q)
    <3>1. r[i] = q[i] /\ q[i] = p[Len(d) + i] /\ q[i] # "end"
      BY <1>2, <2>1 DEF Owed
    <3>2. Len(d) + i \in 1..Len(p)
      BY <1>2, <1>4, <1>5, <2>1
    <3> QED BY <1>3, <3>1, <3>2
  <2>2. CASE i > Len(q)
    <3>1. r[i] = a[i - Len(q)] /\ i - Len(q) \in 1..Len(a)
      BY <1>2, <2>2
    <3>2. Len(d) + i \in 1..Len(s) /\ Len(d) + i > Len(p) /\ Len(d) + i - Len(p) = i - Len(q)
      BY <1>2, <1>4, <1>5, <2>2
    <3>3. s[Len(d) + i] = a[i - Len(q)]
      BY <1>3, <3>2
    <3> QED BY <1>1, <3>1, <3>3
  <2> QED BY <1>2, <2>1, <2>2
<1>8. Owed(s, d, r, Len(q) + Len(a)) /\ Len(r) = Len(q) + Len(a)
  BY <1>2, <1>5, <1>6, <1>7 DEF Owed
<1> QED BY <1>8 DEF r, s

(* The front is sent.                                                      *)
LEMMA OwedSent ==
  ASSUME NEW p \in Seq(Stanzas), NEW d \in Seq(Stanzas), NEW q \in Seq(Stanzas), q # <<>>,
         NEW k, Owed(p, d, q, k), Head(q) # "end", k < Len(q) => q[k + 1] = "end"
  PROVE  /\ k > 0
         /\ Owed(p, Append(d, Head(q)), Tail(q), k - 1)
         /\ Len(Tail(q)) = Len(q) - 1
         /\ k < Len(q) => Tail(q)[k] = q[k + 1]
<1> DEFINE r == Tail(q)  h == Head(q)  e == Append(d, h)
<1>1. /\ Len(q) \in Nat \ {0} /\ h = q[1] /\ h \in Stanzas
      /\ Len(r) = Len(q) - 1 /\ \A i \in 1..Len(r) : r[i] = q[i + 1]
  OBVIOUS
<1>2. /\ Len(d) \in Nat /\ Len(e) = Len(d) + 1
      /\ \A i \in 1..Len(d) : e[i] = d[i]
      /\ e[Len(d) + 1] = h
  BY <1>1
<1> HIDE DEF r, h, e
<1>3. k \in 0..Len(q) /\ k > 0
  BY <1>1 DEF h, Owed
<1>4. ASSUME NEW i \in 1..Len(e) PROVE p[i] = e[i]
  <2>1. CASE i \in 1..Len(d)
    BY <1>2, <2>1 DEF Owed
  <2>2. CASE i = Len(d) + 1
    <3>1. q[1] = p[Len(d) + 1]
      BY <1>3 DEF Owed
    <3> QED BY <1>1, <1>2, <2>2, <3>1
  <2> QED BY <1>2, <2>1, <2>2
<1>5. ASSUME NEW i \in 1..k - 1 PROVE r[i] = p[Len(e) + i] /\ r[i] # "end"
  <2>1. r[i] = q[i + 1] /\ i + 1 \in 1..k
    BY <1>1, <1>3
  <2>2. q[i + 1] = p[Len(d) + (i + 1)] /\ q[i + 1] # "end"
    BY <2>1 DEF Owed
  <2>3. Len(d) + (i + 1) = Len(e) + i
    BY <1>2
  <2> QED BY <2>1, <2>2, <2>3
<1>6. Len(p) = Len(e) + (k - 1) /\ k - 1 \in 0..Len(r)
  BY <1>1, <1>2, <1>3 DEF Owed
<1>7. Owed(p, e, r, k - 1)
  BY <1>4, <1>5, <1>6 DEF Owed
<1>8. k < Len(q) => r[k] = q[k + 1]
  BY <1>1, <1>3
<1> QED BY <1>1, <1>3, <1>7, <1>8 DEF r, h, e

(* The end is next: nothing is owed.                                       *)
LEMMA NothingOwed ==
  ASSUME NEW p \in Seq(Stanzas), NEW d \in Seq(Stanzas), NEW q \in Seq(Stanzas), q # <<>>,
         NEW k, Owed(p, d, q, k), Head(q) = "end"
  PROVE  d = p
<1>1. Len(q) \in Nat \ {0} /\ Head(q) = q[1]
  OBVIOUS
<1>2. k = 0
  BY <1>1 DEF Owed
<1>3. Len(p) = Len(d) /\ Len(d) \in Nat /\ \A i \in 1..Len(d) : p[i] = d[i]
  BY <1>2 DEF Owed
<1> QED BY <1>3

(* An entry is added to a queue, or its front is taken.                    *)
LEMMA QueueChanges ==
  ASSUME NEW S, NEW q \in Seq(S)
  PROVE  /\ \A m \in S : /\ Append(q, m) \in Seq(S) /\ Len(Append(q, m)) = Len(q) + 1
                         /\ \A i \in 1..Len(q) : Append(q, m)[i] = q[i]
                         /\ Append(q, m)[Len(q) + 1] = m
         /\ Len(q) \in Nat
         /\ q # <<>> => /\ Len(q) > 0 /\ Head(q) = q[1]
                        /\ Tail(q) \in Seq(S) /\ Len(Tail(q)) = Len(q) - 1
                        /\ \A i \in 1..Len(Tail(q)) : Tail(q)[i] = q[i + 1]
OBVIOUS

-----------------------------------------------------------------------------
(* main.                                                                   *)

LEMMA ConnectKeeps == ClosingInv /\ Connect => ClosingInv'
<1> SUFFICES ASSUME ClosingInv, Connect PROVE ClosingInv'
  OBVIOUS
<1> USE DEF Connect, MainGoes, tasks_state, close_state
<1>1. /\ main = "connect" /\ process = "up" /\ process' = process
      /\ UNCHANGED <<recv, send, received, delivered, serving, modules, promised, closes,
                     broke, core_queue, stanza_queue>>
      /\ \/ main' = "destroy" /\ connected' = connected /\ socket' = socket
         \/ main' = "startrecv" /\ connected' = TRUE /\ socket' = "open"
  OBVIOUS
<1>2. /\ recv = "ready" /\ send = "ready" /\ serving = Idle /\ ~connected /\ closes = 0
      /\ core_queue = <<>> /\ stanza_queue = <<>> /\ delivered = <<>> /\ promised = <<>>
      /\ socket = "none"
  BY <1>1 DEF ClosingInv, StartInv
<1>3. ConnectionTypes' /\ StartInv' /\ CloseInv' /\ EndInv'
  BY <1>1, <1>2 DEF ClosingInv, ConnectionTypes, StartInv, CloseInv, EndInv, Over
<1>4. Len(core_queue) = 0 /\ Len(stanza_queue) = 0
  BY <1>2
<1>5. StanzaOrderInv' /\ PhaseInv'
  BY <1>1, <1>2, <1>4 DEF StanzaOrderInv, PhaseInv, Over
<1>6. ASSUME ~broke PROVE PromiseInv'
  BY <1>1, <1>2, <1>6 DEF ClosingInv, WholeInv, PromiseInv
<1> QED BY <1>1, <1>3, <1>5, <1>6 DEF ClosingInv, WholeInv

LEMMA StartsKeep == ClosingInv /\ (StartRecv \/ StartSend) => ClosingInv'
<1> SUFFICES ASSUME ClosingInv, StartRecv \/ StartSend PROVE ClosingInv'
  OBVIOUS
<1>1. CASE StartRecv
  <2>1. /\ main = "startrecv" /\ main' = "startsend" /\ recv' = "check"
        /\ UNCHANGED <<process, connected, socket, send, core_queue, stanza_queue, delivered,
                       serving, modules, promised, closes, broke>>
    BY <1>1 DEF StartRecv, MainGoes, close_state
  <2>2. connected /\ closes = 0 /\ serving = Idle /\ send = "ready"
    BY <2>1 DEF ClosingInv, StartInv, CloseInv
  <2>3. ConnectionTypes' /\ StartInv' /\ CloseInv' /\ EndInv'
    BY <2>1, <2>2 DEF ClosingInv, ConnectionTypes, StartInv, CloseInv, EndInv
  <2>4. ASSUME ~broke PROVE StanzaOrderInv' /\ PhaseInv' /\ PromiseInv'
    BY <2>1, <2>2, <2>4 DEF ClosingInv, WholeInv, StanzaOrderInv, PhaseInv, PromiseInv, Ending, Over
  <2> QED BY <2>1, <2>3, <2>4 DEF ClosingInv, WholeInv
<1>2. CASE StartSend
  <2>1. /\ main = "startsend" /\ main' = "notify" /\ send' = "pop"
        /\ UNCHANGED <<process, connected, socket, recv, core_queue, stanza_queue, delivered,
                       serving, modules, promised, closes, broke>>
    BY <1>2 DEF StartSend, MainGoes, close_state
  <2>2. ConnectionTypes' /\ StartInv' /\ CloseInv' /\ EndInv'
    BY <2>1 DEF ClosingInv, ConnectionTypes, StartInv, CloseInv, EndInv
  <2>3. ASSUME ~broke PROVE StanzaOrderInv' /\ PhaseInv' /\ PromiseInv'
    BY <2>1, <2>3 DEF ClosingInv, WholeInv, StanzaOrderInv, PhaseInv, PromiseInv, Ending, Over
  <2> QED BY <2>1, <2>2, <2>3 DEF ClosingInv, WholeInv
<1> QED BY <1>1, <1>2

LEMMA MainQueuesKeeps ==
  ASSUME ClosingInv, NEW from, NEW to, NEW message, MainQueues(from, to, message),
         <<from, to, message>> \in {<<"notify", "sigwait", "connect">>,
                                    <<"close", "closing", "close">>,
                                    <<"baseclose", "baseclosing", "close">>}
  PROVE  ClosingInv'
<1> DEFINE S == {"connect", "stanza", "close", "error"}
<1>1. /\ main = from /\ main' = to /\ process = "up" /\ core_queue' = Append(core_queue, message)
      /\ UNCHANGED <<process, connected, socket, recv, send, stanza_queue, delivered,
                     serving, modules, promised, closes, broke>>
  BY DEF MainQueues, MainGoes, tasks_state, close_state
<1>2. core_queue \in Seq(S) /\ message \in S /\ message # "stanza" /\ message # "error"
  BY DEF ClosingInv, ConnectionTypes
<1>3. /\ core_queue' \in Seq(S) /\ Len(core_queue) \in Nat
      /\ Len(core_queue') = Len(core_queue) + 1
      /\ \A i \in 1..Len(core_queue) : core_queue'[i] = core_queue[i]
      /\ core_queue'[Len(core_queue) + 1] = message
  BY <1>1, <1>2, QueueChanges
<1>4. ConnectionTypes' /\ StartInv' /\ CloseInv' /\ EndInv'
  BY <1>1, <1>3 DEF ClosingInv, ConnectionTypes, StartInv, CloseInv, EndInv, Over
<1>5. ASSUME ~broke PROVE StanzaOrderInv' /\ PhaseInv' /\ PromiseInv'
  <2>1. StanzaOrderInv /\ PhaseInv /\ PromiseInv
    BY <1>5 DEF ClosingInv, WholeInv
  <2>2. serving = Idle
    BY <1>1, <2>1 DEF ClosingInv, CloseInv, PhaseInv, Over
  <2>3. \A i \in 1..Len(core_queue) : core_queue[i] # "close"
    BY <1>1, <2>1 DEF StanzaOrderInv, Ending
  <2>4. StanzaOrderInv'
    <3>1. \A i \in 1..Len(core_queue') : core_queue'[i] # "error"
      BY <1>2, <1>3, <2>1 DEF StanzaOrderInv
    <3>2. \A i \in 1..Len(core_queue') : core_queue'[i] = "close" =>
             i = Len(core_queue) + 1 /\ message = "close"
      BY <1>3, <2>3
    <3>3. message = "close" => main' \in Ending
      BY <1>1 DEF Ending
    <3> QED BY <1>1, <2>2, <3>1, <3>2, <3>3 DEF StanzaOrderInv
  <2>5. PhaseInv'
    <3>1. (\A i \in 1..Len(core_queue) : core_queue[i] # "stanza") =>
            \A i \in 1..Len(core_queue') : core_queue'[i] # "stanza"
      BY <1>2, <1>3
    <3> QED BY <1>1, <2>1, <3>1 DEF PhaseInv, Over
  <2>6. PromiseInv'
    BY <1>1, <2>1 DEF PromiseInv
  <2> QED BY <2>4, <2>5, <2>6
<1> QED BY <1>1, <1>4, <1>5 DEF ClosingInv, WholeInv

LEMMA MainGoesOn == ClosingInv /\ (MainProceeds \/ Stop \/ Exit) => ClosingInv'
<1> SUFFICES ASSUME ClosingInv, MainProceeds \/ Stop \/ Exit PROVE ClosingInv'
  OBVIOUS
<1>1. /\ <<main, main'>> \in {<<"sigwait", "close">>, <<"destroy", "baseclose">>,
                              <<"stop", "join">>, <<"join", "join">>}
      /\ process' = "ended" => main = "join"
      /\ socket' = socket \/ main = "join"
      /\ UNCHANGED <<connected, recv, send, core_queue, stanza_queue, delivered,
                     serving, modules, promised, closes, broke>>
  BY DEF MainProceeds, Stop, Exit, MainGoes, tasks_state, close_state
<1>2. ConnectionTypes' /\ StartInv' /\ CloseInv' /\ EndInv'
  BY <1>1 DEF ClosingInv, ConnectionTypes, StartInv, CloseInv, EndInv, Over
<1>3. ASSUME ~broke PROVE StanzaOrderInv' /\ PhaseInv' /\ PromiseInv'
  <2>1. StanzaOrderInv'
    BY <1>1, <1>3 DEF ClosingInv, WholeInv, StanzaOrderInv, Ending
  <2>2. PhaseInv'
    BY <1>1, <1>3 DEF ClosingInv, WholeInv, PhaseInv, Over
  <2>3. PromiseInv'
    BY <1>1, <1>3 DEF ClosingInv, WholeInv, PromiseInv
  <2> QED BY <2>1, <2>2, <2>3
<1> QED BY <1>1, <1>2, <1>3 DEF ClosingInv, WholeInv

-----------------------------------------------------------------------------
(* The threads that receive and send.                                      *)

(* Unless it broke, the connection is open while they run.                 *)
LEMMA OpenWhileRunning ==
  ASSUME ClosingInv, ~broke, recv # "ready" \/ send # "ready"
  PROVE  socket = "open" /\ main \notin Over /\ main \notin {"connect", "startrecv"}
<1>1. main \notin Over /\ main \notin {"connect", "startrecv"}
  BY DEF ClosingInv, WholeInv, PhaseInv, StartInv
<1> QED BY <1>1 DEF ClosingInv, WholeInv, PhaseInv, EndInv

LEMMA RecvKeeps == ClosingInv /\ (RecvCheck \/ RecvStanza) => ClosingInv'
<1> SUFFICES ASSUME ClosingInv, RecvCheck \/ RecvStanza PROVE ClosingInv'
  OBVIOUS
<1> DEFINE S == {"connect", "stanza", "close", "error"}
<1>1. /\ process = "up" /\ recv # "ready" /\ recv' \in {"ready", "check", "recv"}
      /\ UNCHANGED <<main, process, connected, socket, stanza_queue, send, delivered,
                     serving, modules, promised, closes, broke>>
      /\ \/ core_queue' = core_queue
         \/ core_queue' = Append(core_queue, "stanza")
         \/ socket # "open" /\ core_queue' = Append(core_queue, "error")
  BY DEF RecvCheck, RecvStanza, main_state, close_state, Broken
<1>2. main \notin {"connect", "startrecv"} /\ closes = 0
  BY <1>1 DEF ClosingInv, StartInv, CloseInv
<1>3. core_queue \in Seq(S) /\ "stanza" \in S /\ "error" \in S
  BY DEF ClosingInv, ConnectionTypes
<1>4. core_queue' \in Seq(S)
  BY <1>1, <1>3, QueueChanges
<1>5. ConnectionTypes' /\ StartInv' /\ CloseInv' /\ EndInv'
  BY <1>1, <1>2, <1>4 DEF ClosingInv, ConnectionTypes, StartInv, CloseInv, EndInv
<1>6. ASSUME ~broke PROVE StanzaOrderInv' /\ PhaseInv' /\ PromiseInv'
  <2>1. socket = "open" /\ main \notin Over
    BY <1>1, <1>6, OpenWhileRunning
  <2>2. StanzaOrderInv /\ PhaseInv /\ PromiseInv
    BY <1>6 DEF ClosingInv, WholeInv
  <2>3. PhaseInv' /\ PromiseInv'
    BY <1>1, <2>1, <2>2 DEF PhaseInv, PromiseInv, Over
  <2>4. CASE core_queue' = core_queue
    BY <1>1, <2>2, <2>3, <2>4 DEF StanzaOrderInv
  <2>5. CASE core_queue' = Append(core_queue, "stanza")
    <3>1. /\ Len(core_queue) \in Nat /\ Len(core_queue') = Len(core_queue) + 1
          /\ \A i \in 1..Len(core_queue) : core_queue'[i] = core_queue[i]
          /\ core_queue'[Len(core_queue) + 1] = "stanza"
      BY <1>3, <2>5, QueueChanges
    <3>2. \A i \in 1..Len(core_queue') : core_queue'[i] \in {"close", "error"} =>
             i \in 1..Len(core_queue) /\ core_queue'[i] = core_queue[i]
      BY <3>1
    <3> QED BY <1>1, <2>2, <2>3, <3>2 DEF StanzaOrderInv
  <2> QED BY <1>1, <2>1, <2>4, <2>5
<1> QED BY <1>1, <1>5, <1>6 DEF ClosingInv, WholeInv

LEMMA SendThreadKeeps == ClosingInv /\ SendStanza => ClosingInv'
<1> SUFFICES ASSUME ClosingInv, SendStanza PROVE ClosingInv'
  OBVIOUS
<1> DEFINE S == {"connect", "stanza", "close", "error"}  h == Head(stanza_queue)
<1>1. /\ process = "up" /\ send = "pop" /\ stanza_queue # <<>>
      /\ stanza_queue' = Tail(stanza_queue)
      /\ UNCHANGED <<main, process, connected, recv, serving, modules, promised, closes, broke>>
  BY DEF SendStanza, main_state, close_state
<1>2. \/ /\ h = "end" /\ send' = "ready" /\ UNCHANGED <<delivered, core_queue, socket>>
      \/ /\ h # "end" /\ send' = send /\ UNCHANGED <<core_queue, socket>>
         /\ delivered' = IF Broken THEN delivered ELSE Append(delivered, h)
      \/ /\ Broken /\ send' = "ready" /\ core_queue' = Append(core_queue, "error")
         /\ UNCHANGED delivered
  BY DEF SendStanza
<1>3. /\ core_queue \in Seq(S) /\ "error" \in S /\ stanza_queue \in Seq(Stanzas)
      /\ delivered \in Seq(Stanzas) /\ promised \in Seq(Stanzas)
  BY DEF ClosingInv, ConnectionTypes
<1>4. h \in Stanzas /\ stanza_queue' \in Seq(Stanzas) /\ Len(stanza_queue) \in Nat
  BY <1>1, <1>3, QueueChanges
<1>5. core_queue' \in Seq(S)
  BY <1>2, <1>3, QueueChanges
<1>6. delivered' \in Seq(Stanzas)
  <2>1. Append(delivered, h) \in Seq(Stanzas)
    BY <1>3, <1>4, QueueChanges
  <2>2. delivered' = delivered \/ delivered' = Append(delivered, h)
    BY <1>2
  <2> QED BY <1>3, <2>1, <2>2
<1>7. main \notin {"connect", "startrecv"}
  BY <1>1 DEF ClosingInv, StartInv
<1>8. ConnectionTypes'
  BY <1>1, <1>2, <1>3, <1>4, <1>5, <1>6 DEF ClosingInv, ConnectionTypes
<1>9. StartInv' /\ CloseInv' /\ EndInv'
  BY <1>1, <1>7 DEF ClosingInv, StartInv, CloseInv, EndInv
<1>10. ASSUME ~broke PROVE StanzaOrderInv' /\ PhaseInv' /\ PromiseInv'
  <2>1. socket = "open" /\ ~Broken /\ main \notin Over
    BY <1>1, <1>10, OpenWhileRunning DEF Broken
  <2>2. StanzaOrderInv /\ PhaseInv /\ PromiseInv
    BY <1>10 DEF ClosingInv, WholeInv
  <2>3. StanzaOrderInv'
    BY <1>1, <1>2, <2>1, <2>2 DEF StanzaOrderInv
  <2>4. CASE h = "end"
    <3>1. closes # 0
      <4>1. Len(stanza_queue) > 0 /\ h = stanza_queue[1]
        BY <1>1, <1>3, QueueChanges
      <4> QED BY <1>4, <2>2, <2>4, <4>1 DEF PromiseInv, Owed
    <3>2. closes = 1
      BY <3>1 DEF ClosingInv, CloseInv
    <3>3. delivered = promised
      BY <1>1, <1>3, <2>2, <2>4, <3>2, NothingOwed DEF PromiseInv
    <3>4. main \notin {"startsend", "notify", "sigwait", "close"}
      BY <2>2, <3>2 DEF PhaseInv, ClosingInv, CloseInv
    <3>5. PhaseInv'
      BY <1>1, <1>2, <2>1, <2>2, <2>4, <3>2, <3>4 DEF PhaseInv, Over
    <3>6. PromiseInv'
      BY <1>1, <1>2, <2>4, <2>1, <3>2, <3>3 DEF PromiseInv
    <3> QED BY <2>3, <3>5, <3>6
  <2>5. CASE h # "end"
    <3>1. send' = "pop" /\ delivered' = Append(delivered, h) /\ UNCHANGED <<core_queue, socket>>
      BY <1>1, <1>2, <2>1, <2>5
    <3>2. PhaseInv'
      BY <1>1, <2>1, <2>2, <3>1 DEF PhaseInv, Over
    <3>3. ASSUME closes = 0 PROVE Owed(promised', delivered', stanza_queue', Len(stanza_queue'))
      <4>1. Owed(promised, delivered, stanza_queue, Len(stanza_queue))
        BY <2>2, <3>3 DEF PromiseInv
      <4>2. /\ Owed(promised, Append(delivered, h), Tail(stanza_queue), Len(stanza_queue) - 1)
            /\ Len(Tail(stanza_queue)) = Len(stanza_queue) - 1
        <5> DEFINE n == Len(stanza_queue)
        <5>1. n < Len(stanza_queue) => stanza_queue[n + 1] = "end"
          BY <1>4
        <5>2. Owed(promised, delivered, stanza_queue, n)
          BY <4>1
        <5> HIDE DEF n
        <5>3. /\ Owed(promised, Append(delivered, h), Tail(stanza_queue), n - 1)
              /\ Len(Tail(stanza_queue)) = Len(stanza_queue) - 1
          BY <1>1, <1>3, <2>5, <5>1, <5>2, OwedSent
        <5> QED BY <5>3 DEF n
      <4>3. Len(stanza_queue') = Len(stanza_queue) - 1
        BY <1>1, <4>2
      <4>4. Owed(promised', delivered', stanza_queue', Len(stanza_queue) - 1)
        BY <1>1, <3>1, <4>2
      <4> HIDE DEF h
      <4> QED BY <4>3, <4>4
    <3>4. ASSUME closes = 1
          PROVE  \E k \in 0..Len(stanza_queue') - 1 :
                   Owed(promised', delivered', stanza_queue', k) /\ stanza_queue'[k + 1] = "end"
      <4>1. PICK k \in 0..Len(stanza_queue) - 1 :
              Owed(promised, delivered, stanza_queue, k) /\ stanza_queue[k + 1] = "end"
        BY <1>1, <2>2, <3>4 DEF PromiseInv
      <4>2. k < Len(stanza_queue)
        BY <1>4, <4>1
      <4>3. /\ k > 0
            /\ Owed(promised, Append(delivered, h), Tail(stanza_queue), k - 1)
            /\ Len(Tail(stanza_queue)) = Len(stanza_queue) - 1
            /\ Tail(stanza_queue)[k] = stanza_queue[k + 1]
        BY <1>1, <1>3, <2>5, <4>1, <4>2, OwedSent
      <4>4. /\ k - 1 \in 0..Len(stanza_queue') - 1 /\ (k - 1) + 1 = k
            /\ Owed(promised', delivered', stanza_queue', k - 1)
            /\ stanza_queue'[k] = "end"
        BY <1>1, <1>4, <3>1, <4>1, <4>2, <4>3
      <4> QED BY <4>4
    <3>5. PromiseInv'
      BY <1>1, <3>1, <3>3, <3>4 DEF PromiseInv
    <3> QED BY <2>3, <3>2, <3>5
  <2> QED BY <2>4, <2>5
<1> QED BY <1>1, <1>8, <1>9, <1>10 DEF ClosingInv, WholeInv

(* The connection breaks, an operator ends the process.                    *)
LEMMA EnvironmentKeeps == ClosingInv /\ (Lose \/ Signal) => ClosingInv'
<1> SUFFICES ASSUME ClosingInv, Lose \/ Signal PROVE ClosingInv'
  OBVIOUS
<1>1. CASE Lose
  <2>1. /\ broke' = TRUE /\ socket = "open"
        /\ UNCHANGED <<main, process, connected, core_queue, stanza_queue, recv, send,
                       delivered, serving, modules, promised, closes>>
    BY <1>1 DEF Lose, main_state, tasks_state
  <2>2. main # "connect"
    BY <2>1 DEF ClosingInv, StartInv
  <2> QED BY <2>1, <2>2 DEF ClosingInv, ConnectionTypes, StartInv, CloseInv, EndInv, WholeInv
<1>2. CASE Signal
  <2>1. UNCHANGED <<main, process, connected, socket, core_queue, stanza_queue, recv, send,
                    delivered, serving, modules, promised, closes, broke>>
    BY <1>2 DEF Signal, tasks_state, close_state
  <2> QED BY <2>1 DEF ClosingInv, ConnectionTypes, StartInv, CloseInv, EndInv, WholeInv, StanzaOrderInv,
                      PhaseInv, PromiseInv
<1> QED BY <1>1, <1>2

-----------------------------------------------------------------------------
(* The dispatcher.                                                         *)

(* A message is taken.                                                     *)
LEMMA TakeFacts ==
  ASSUME ClosingInv, NEW message, Take(message)
  PROVE  /\ process = "up" /\ serving = Idle /\ main \notin {"connect", "startrecv"}
         /\ core_queue' \in Seq({"connect", "stanza", "close", "error"})
         /\ Len(core_queue) \in Nat \ {0} /\ Len(core_queue') = Len(core_queue) - 1
         /\ core_queue[1] = message
         /\ \A i \in 1..Len(core_queue') : core_queue'[i] = core_queue[i + 1]
         /\ ~broke => message # "error" /\ (message = "close" => main \in Ending)
<1> DEFINE S == {"connect", "stanza", "close", "error"}
<1>1. /\ process = "up" /\ serving = Idle /\ core_queue # <<>> /\ Head(core_queue) = message
      /\ core_queue' = Tail(core_queue)
  BY DEF Take
<1>2. core_queue \in Seq(S)
  BY DEF ClosingInv, ConnectionTypes
<1>3. /\ Len(core_queue) \in Nat /\ Len(core_queue) > 0 /\ Head(core_queue) = core_queue[1]
      /\ core_queue' \in Seq(S) /\ Len(core_queue') = Len(core_queue) - 1
      /\ \A i \in 1..Len(core_queue') : core_queue'[i] = core_queue[i + 1]
  BY <1>1, <1>2, QueueChanges
<1>4. main \notin {"connect", "startrecv"}
  BY <1>1 DEF ClosingInv, StartInv
<1>5. ~broke => message # "error" /\ (message = "close" => main \in Ending)
  BY <1>1, <1>3 DEF ClosingInv, WholeInv, StanzaOrderInv
<1> QED BY <1>1, <1>3, <1>4, <1>5

(* What is left in the queue is in order, and no close is left if one was  *)
(* taken.                                                                  *)
LEMMA TakeOrder ==
  ASSUME ClosingInv, ~broke, NEW message, Take(message)
  PROVE  /\ \A i \in 1..Len(core_queue') : core_queue'[i] # "error"
         /\ \A i \in 1..Len(core_queue') : core_queue'[i] = "close" =>
              main \in Ending /\ message # "close"
         /\ \A i, j \in 1..Len(core_queue') :
              core_queue'[i] = "close" /\ core_queue'[j] = "close" => i = j
         /\ (\A i \in 1..Len(core_queue) : core_queue[i] # "stanza") =>
              \A i \in 1..Len(core_queue') : core_queue'[i] # "stanza"
<1>1. /\ Len(core_queue) \in Nat \ {0} /\ Len(core_queue') = Len(core_queue) - 1
      /\ core_queue[1] = message
      /\ \A i \in 1..Len(core_queue') : core_queue'[i] = core_queue[i + 1]
  BY TakeFacts
<1>2. \A i \in 1..Len(core_queue') : i + 1 \in 1..Len(core_queue) /\ i + 1 # 1
  BY <1>1
<1>3. /\ \A i \in 1..Len(core_queue) : core_queue[i] # "error"
      /\ \A i \in 1..Len(core_queue) : core_queue[i] = "close" => main \in Ending
      /\ \A i, j \in 1..Len(core_queue) :
           core_queue[i] = "close" /\ core_queue[j] = "close" => i = j
  BY DEF ClosingInv, WholeInv, StanzaOrderInv
<1>4. \A i \in 1..Len(core_queue') : core_queue'[i] = "close" => message # "close"
  <2> SUFFICES ASSUME NEW i \in 1..Len(core_queue'), core_queue'[i] = "close",
                      message = "close"
               PROVE  FALSE
    OBVIOUS
  <2>1. core_queue[i + 1] = "close" /\ core_queue[1] = "close"
    BY <1>1
  <2>2. i + 1 \in 1..Len(core_queue) /\ 1 \in 1..Len(core_queue) /\ i + 1 # 1
    BY <1>1, <1>2
  <2> QED BY <1>3, <2>1, <2>2
<1>5. \A i, j \in 1..Len(core_queue') :
        core_queue'[i] = "close" /\ core_queue'[j] = "close" => i = j
  <2> SUFFICES ASSUME NEW i \in 1..Len(core_queue'), NEW j \in 1..Len(core_queue'),
                      core_queue'[i] = "close", core_queue'[j] = "close"
               PROVE  i = j
    OBVIOUS
  <2>1. i + 1 = j + 1
    BY <1>1, <1>2, <1>3
  <2> QED BY <2>1
<1> QED BY <1>1, <1>2, <1>3, <1>4, <1>5

LEMMA OnConnectKeeps == ClosingInv /\ OnConnect => ClosingInv'
<1> SUFFICES ASSUME ClosingInv, OnConnect PROVE ClosingInv'
  OBVIOUS
<1>1. /\ Take("connect") /\ (modules' = "deleted" <=> modules = "deleted")
      /\ UNCHANGED <<main, process, connected, socket, recv, send, stanza_queue, delivered,
                     serving, promised, closes, broke>>
  BY DEF OnConnect, core_state, tasks_state
<1>2. main \notin {"connect", "startrecv"} /\ process = "up" /\ serving = Idle
      /\ core_queue' \in Seq({"connect", "stanza", "close", "error"})
  BY <1>1, TakeFacts
<1>3. ConnectionTypes' /\ StartInv' /\ CloseInv' /\ EndInv'
  BY <1>1, <1>2 DEF ClosingInv, ConnectionTypes, StartInv, CloseInv, EndInv
<1>4. ASSUME ~broke PROVE StanzaOrderInv' /\ PhaseInv' /\ PromiseInv'
  <2>1. StanzaOrderInv /\ PhaseInv /\ PromiseInv
    BY <1>4 DEF ClosingInv, WholeInv
  <2>2. StanzaOrderInv'
    BY <1>1, <1>2, <1>4, TakeOrder DEF StanzaOrderInv
  <2>3. PhaseInv'
    BY <1>1, <1>4, <2>1, TakeOrder DEF PhaseInv, Over
  <2>4. PromiseInv'
    BY <1>1, <2>1 DEF PromiseInv
  <2> QED BY <2>2, <2>3, <2>4
<1> QED BY <1>1, <1>3, <1>4 DEF ClosingInv, WholeInv

LEMMA OnStanzaKeeps == ClosingInv /\ OnStanza => ClosingInv'
<1> SUFFICES ASSUME ClosingInv, OnStanza PROVE ClosingInv'
  OBVIOUS
<1>1. PICK answer \in {<<>>, <<"answer">>} :
        /\ stanza_queue' = stanza_queue \o answer
        /\ promised' = IF closes = 0 THEN promised \o answer ELSE promised
  BY DEF OnStanza
<1>2. /\ Take("stanza") /\ (process' = process \/ process' = "crashed")
      /\ UNCHANGED <<main, connected, socket, recv, send, delivered, serving, modules, closes,
                     broke>>
  BY DEF OnStanza, tasks_state
<1>3. /\ main \notin {"connect", "startrecv"} /\ process = "up" /\ serving = Idle
      /\ core_queue' \in Seq({"connect", "stanza", "close", "error"})
      /\ Len(core_queue) \in Nat \ {0} /\ core_queue[1] = "stanza"
  BY <1>2, TakeFacts
<1>4. /\ stanza_queue \in Seq(Stanzas) /\ delivered \in Seq(Stanzas)
      /\ promised \in Seq(Stanzas)
  BY DEF ClosingInv, ConnectionTypes
<1>5. answer \in Seq(Stanzas \ {"end"}) /\ answer \in Seq(Stanzas)
  <2>1. "answer" \in Stanzas \ {"end"} /\ "answer" \in Stanzas
    BY DEF Stanzas
  <2>2. CASE answer = <<>>
    BY <2>2
  <2>3. CASE answer = <<"answer">>
    BY <2>1, <2>3
  <2> QED BY <2>2, <2>3
<1>6. stanza_queue' \in Seq(Stanzas) /\ promised' \in Seq(Stanzas)
  <2>1. stanza_queue \o answer \in Seq(Stanzas) /\ promised \o answer \in Seq(Stanzas)
    BY <1>4, <1>5, ConcatProperties
  <2>2. promised' \in {promised, promised \o answer}
    BY <1>1
  <2> QED BY <1>1, <1>4, <2>1, <2>2
<1>7. ConnectionTypes' /\ StartInv' /\ CloseInv' /\ EndInv'
  BY <1>2, <1>3, <1>6 DEF ClosingInv, ConnectionTypes, StartInv, CloseInv, EndInv
<1>8. ASSUME ~broke PROVE StanzaOrderInv' /\ PhaseInv' /\ PromiseInv'
  <2>1. StanzaOrderInv /\ PhaseInv /\ PromiseInv
    BY <1>8 DEF ClosingInv, WholeInv
  <2>2. StanzaOrderInv'
    BY <1>2, <1>3, <1>8, TakeOrder DEF StanzaOrderInv
  <2>3. main \in Over => closes # 0
    <3>1. 1 \in 1..Len(core_queue)
      BY <1>3
    <3> QED BY <1>3, <2>1, <3>1 DEF PhaseInv
  <2>4. PhaseInv'
    BY <1>1, <1>2, <2>1, <2>3 DEF PhaseInv, Over
  <2>5. ASSUME closes = 0 PROVE PromiseInv'
    <3>1. Owed(promised, delivered, stanza_queue, Len(stanza_queue))
      BY <2>1, <2>5 DEF PromiseInv
    <3>2. /\ Owed(promised \o answer, delivered, stanza_queue \o answer,
                  Len(stanza_queue) + Len(answer))
          /\ Len(stanza_queue \o answer) = Len(stanza_queue) + Len(answer)
      BY <1>4, <1>5, <3>1, OwedPromises
    <3> QED BY <1>1, <1>2, <2>5, <3>2 DEF PromiseInv
  <2>6. ASSUME closes = 1, send = "pop" PROVE PromiseInv'
    <3>1. PICK k \in 0..Len(stanza_queue) - 1 :
            Owed(promised, delivered, stanza_queue, k) /\ stanza_queue[k + 1] = "end"
      BY <2>1, <2>6 DEF PromiseInv
    <3>2. Len(stanza_queue) \in Nat /\ k < Len(stanza_queue)
      BY <1>4, <3>1
    <3>3. /\ Owed(promised, delivered, stanza_queue \o answer, k)
          /\ (stanza_queue \o answer)[k + 1] = "end"
      BY <1>4, <1>5, <3>1, <3>2, OwedGrows
    <3>4. Len(stanza_queue \o answer) \in Nat /\ Len(stanza_queue) <= Len(stanza_queue \o answer)
      BY <1>4, <1>5
    <3>5. k \in 0..Len(stanza_queue \o answer) - 1
      BY <3>2, <3>4
    <3>6. promised' = promised /\ delivered' = delivered /\ closes' = 1 /\ send' = "pop"
      BY <1>1, <1>2, <2>6
    <3>7. /\ k \in 0..Len(stanza_queue') - 1
          /\ Owed(promised', delivered', stanza_queue', k) /\ stanza_queue'[k + 1] = "end"
      BY <1>1, <3>3, <3>5, <3>6
    <3> QED BY <3>6, <3>7 DEF PromiseInv
  <2>7. ASSUME closes = 1, send = "ready" PROVE PromiseInv'
    BY <1>1, <1>2, <2>1, <2>7 DEF PromiseInv
  <2>8. closes \in {0, 1} /\ send \in {"ready", "pop"}
    BY DEF ClosingInv, CloseInv, ConnectionTypes
  <2> QED BY <2>2, <2>4, <2>5, <2>6, <2>7, <2>8
<1> QED BY <1>2, <1>7, <1>8 DEF ClosingInv, WholeInv

(* _close, called by main's message or by an error.                        *)
LEMMA BeginCloseKeeps ==
  ASSUME ClosingInv, NEW message \in {"close", "error"}, Take(message), BeginClose(message),
         UNCHANGED <<socket, recv, send, stanza_queue, delivered, modules, promised, closes,
                     broke, process>>
  PROVE  ClosingInv'
<1>1. /\ main \notin {"connect", "startrecv"} /\ process = "up" /\ serving = Idle
      /\ core_queue' \in Seq({"connect", "stanza", "close", "error"})
      /\ ~broke => message = "close" /\ main \in Ending
  BY TakeFacts
<1>2. \/ connected /\ connected' = FALSE /\ serving' = <<message, "joinrecv">> /\ main' = main
      \/ /\ ~connected /\ connected' = connected /\ serving' = serving
         /\ \/ message # "close" /\ main' = main
            \/ message = "close" /\ main = "closing" /\ main' = "destroy"
            \/ message = "close" /\ main # "closing" /\ main' = "stop"
  BY DEF BeginClose, Returns, ClosingInv, ConnectionTypes
<1>3. ConnectionTypes' /\ StartInv' /\ CloseInv' /\ EndInv'
  <2>1. ConnectionTypes'
    <3>1. serving' = Idle \/ serving' \in {"close", "error"} \X {"joinrecv", "joinsend"}
      BY <1>1, <1>2
    <3>2. connected' \in BOOLEAN
      BY <1>2 DEF ClosingInv, ConnectionTypes
    <3> QED BY <1>1, <3>1, <3>2 DEF ClosingInv, ConnectionTypes
  <2>2. StartInv'
    BY <1>1, <1>2 DEF ClosingInv, StartInv
  <2>3. CloseInv'
    BY <1>1, <1>2 DEF ClosingInv, CloseInv, Idle
  <2>4. EndInv'
    BY <1>1, <1>2 DEF ClosingInv, EndInv, Over
  <2> QED BY <2>1, <2>2, <2>3, <2>4
<1>4. ASSUME ~broke PROVE StanzaOrderInv' /\ PhaseInv' /\ PromiseInv'
  <2>1. StanzaOrderInv /\ PhaseInv /\ PromiseInv
    BY <1>4 DEF ClosingInv, WholeInv
  <2>2. \A i \in 1..Len(core_queue') : core_queue'[i] \notin {"close", "error"}
    BY <1>1, <1>4, TakeOrder
  <2>3. (\A i \in 1..Len(core_queue) : core_queue[i] # "stanza") =>
          \A i \in 1..Len(core_queue') : core_queue'[i] # "stanza"
    BY <1>4, TakeOrder
  <2>4. PromiseInv'
    BY <2>1 DEF PromiseInv
  <2>5. CASE connected
    <3>1. main = "closing" /\ main' = main /\ serving' = <<"close", "joinrecv">>
      BY <1>1, <1>2, <1>4, <2>1, <2>5 DEF PhaseInv, Ending, Over
    <3>2. StanzaOrderInv'
      BY <2>2, <3>1 DEF StanzaOrderInv
    <3>3. PhaseInv'
      BY <2>1, <3>1 DEF PhaseInv, Over, Idle
    <3> QED BY <2>4, <3>2, <3>3
  <2>6. CASE ~connected
    <3>1. main = "baseclosing" /\ main' = "stop" /\ serving' = Idle /\ ~connected'
      BY <1>1, <1>2, <1>4, <2>1, <2>6 DEF PhaseInv, Ending
    <3>2. StanzaOrderInv'
      BY <2>2, <3>1 DEF StanzaOrderInv
    <3>3. PhaseInv'
      BY <2>1, <2>3, <3>1 DEF PhaseInv, Over
    <3> QED BY <2>4, <3>2, <3>3
  <2> QED BY <2>5, <2>6
<1> QED BY <1>3, <1>4 DEF ClosingInv, WholeInv

LEMMA OnErrorKeeps == ClosingInv /\ OnError => ClosingInv'
<1> SUFFICES ASSUME ClosingInv, OnError PROVE ClosingInv'
  OBVIOUS
<1>1. /\ Take("error")
      /\ UNCHANGED <<socket, recv, send, stanza_queue, delivered, modules, promised, closes,
                     broke>>
  BY DEF OnError, tasks_state
<1>2. CASE main \in {"baseclose", "baseclosing", "stop", "join"}
  <2>1. process' = "crashed" /\ UNCHANGED <<connected, serving, main>>
    BY <1>2 DEF OnError
  <2>2. /\ main \notin {"connect", "startrecv"} /\ broke
        /\ core_queue' \in Seq({"connect", "stanza", "close", "error"})
    BY <1>1, TakeFacts
  <2> QED BY <1>1, <2>1, <2>2 DEF ClosingInv, ConnectionTypes, StartInv, CloseInv, EndInv, WholeInv
<1>3. CASE main \notin {"baseclose", "baseclosing", "stop", "join"}
  <2>1. BeginClose("error") /\ process' = process
    BY <1>3 DEF OnError
  <2> QED BY <1>1, <2>1, BeginCloseKeeps
<1> QED BY <1>2, <1>3

LEMMA CloseRecvKeeps == ClosingInv /\ CloseRecv => ClosingInv'
<1> SUFFICES ASSUME ClosingInv, CloseRecv PROVE ClosingInv'
  OBVIOUS
<1> DEFINE farewell == [u \in 1..OnlineUsers |-> "presence"]
           q == stanza_queue \o farewell  r == stanza_queue \o Append(farewell, "end")
<1>1. /\ process = "up" /\ serving # Idle /\ serving[2] = "joinrecv" /\ recv = "ready"
      /\ serving' = <<serving[1], "joinsend">>
      /\ modules' = "deleted" /\ closes' = closes + 1
      /\ stanza_queue' = r
      /\ promised' = promised \o farewell
      /\ UNCHANGED <<main, process, connected, socket, recv, send, delivered, core_queue, broke>>
  BY DEF CloseRecv, tasks_state
<1>2. closes = 0 /\ ~connected /\ main \notin {"connect", "startrecv"}
      /\ serving[1] \in {"close", "error"} /\ serving' # Idle /\ serving'[2] = "joinsend"
      /\ serving'[1] = serving[1]
  BY <1>1 DEF ClosingInv, StartInv, CloseInv, ConnectionTypes, Idle
<1>3. farewell \in Seq(Stanzas \ {"end"}) /\ Len(farewell) = OnlineUsers /\ OnlineUsers \in Nat
  <2>1. farewell \in [1..OnlineUsers -> Stanzas \ {"end"}]
    BY DEF Stanzas
  <2> QED BY <2>1, ConnectionAssumption
<1>4. /\ stanza_queue \in Seq(Stanzas) /\ delivered \in Seq(Stanzas)
      /\ promised \in Seq(Stanzas)
  BY DEF ClosingInv, ConnectionTypes
<1> HIDE DEF farewell
<1>5. /\ farewell \in Seq(Stanzas) /\ Append(farewell, "end") \in Seq(Stanzas)
      /\ Len(Append(farewell, "end")) = Len(farewell) + 1
      /\ \A i \in 1..Len(farewell) : Append(farewell, "end")[i] = farewell[i]
      /\ Append(farewell, "end")[Len(farewell) + 1] = "end"
  BY <1>3 DEF Stanzas
<1>6. promised \o farewell \in Seq(Stanzas) /\ r \in Seq(Stanzas)
  BY <1>4, <1>5
<1>7. ConnectionTypes' /\ StartInv' /\ CloseInv' /\ EndInv'
  BY <1>1, <1>2, <1>6 DEF ClosingInv, ConnectionTypes, StartInv, CloseInv, EndInv
<1>8. ASSUME ~broke PROVE StanzaOrderInv' /\ PhaseInv' /\ PromiseInv'
  <2>1. StanzaOrderInv /\ PhaseInv /\ PromiseInv
    BY <1>8 DEF ClosingInv, WholeInv
  <2>2. main = "closing" /\ serving[1] = "close" /\ send = "pop"
    BY <1>1, <1>2, <2>1 DEF StanzaOrderInv, PhaseInv
  <2>3. StanzaOrderInv'
    BY <1>1, <1>2, <2>1, <2>2 DEF StanzaOrderInv
  <2>4. PhaseInv'
    BY <1>1, <1>2, <2>1, <2>2 DEF PhaseInv, Over
  <2>5. /\ Owed(promised \o farewell, delivered, q, Len(stanza_queue) + Len(farewell))
        /\ Len(q) = Len(stanza_queue) + Len(farewell)
    <3>1. Owed(promised, delivered, stanza_queue, Len(stanza_queue))
      BY <1>2, <2>1 DEF PromiseInv
    <3> QED BY <1>3, <1>4, <3>1, OwedPromises
  <2>6. /\ Len(q) \in Nat /\ Len(r) = Len(q) + 1
        /\ \A i \in 1..Len(q) : r[i] = q[i]
        /\ r[Len(q) + 1] = "end"
    <3>1. /\ Len(stanza_queue) \in Nat /\ Len(farewell) \in Nat
          /\ Len(r) = Len(stanza_queue) + (Len(farewell) + 1)
          /\ \A i \in 1..Len(stanza_queue) : q[i] = stanza_queue[i] /\ r[i] = stanza_queue[i]
          /\ \A i \in 1..Len(q) : i > Len(stanza_queue) =>
               q[i] = farewell[i - Len(stanza_queue)]
          /\ \A i \in 1..Len(r) : i > Len(stanza_queue) =>
               r[i] = Append(farewell, "end")[i - Len(stanza_queue)]
      <4> DEFINE e == Append(farewell, "end")
      <4>1. e \in Seq(Stanzas) /\ Len(e) = Len(farewell) + 1 /\ Len(farewell) \in Nat
        BY <1>5
      <4> HIDE DEF e
      <4>2. /\ Len(stanza_queue) \in Nat
            /\ Len(q) = Len(stanza_queue) + Len(farewell)
            /\ \A i \in 1..Len(q) : q[i] = IF i <= Len(stanza_queue) THEN stanza_queue[i]
                                         ELSE farewell[i - Len(stanza_queue)]
        BY <1>4, <1>5, ConcatProperties
      <4>3. /\ Len(stanza_queue \o e) = Len(stanza_queue) + Len(e)
            /\ \A i \in 1..Len(stanza_queue \o e) : (stanza_queue \o e)[i] =
                 IF i <= Len(stanza_queue) THEN stanza_queue[i] ELSE e[i - Len(stanza_queue)]
        BY <1>4, <4>1, ConcatProperties
      <4>4. r = stanza_queue \o e
        BY DEF e
      <4> HIDE DEF q, r
      <4>5. /\ Len(r) = Len(stanza_queue) + (Len(farewell) + 1)
            /\ \A i \in 1..Len(r) : r[i] = IF i <= Len(stanza_queue) THEN stanza_queue[i]
                                         ELSE e[i - Len(stanza_queue)]
        BY <4>1, <4>2, <4>3, <4>4
      <4>6. \A i \in 1..Len(stanza_queue) : q[i] = stanza_queue[i] /\ r[i] = stanza_queue[i]
        BY <4>1, <4>2, <4>5
      <4>7. /\ \A i \in 1..Len(q) : i > Len(stanza_queue) =>
                 q[i] = farewell[i - Len(stanza_queue)]
            /\ \A i \in 1..Len(r) : i > Len(stanza_queue) => r[i] = e[i - Len(stanza_queue)]
        BY <4>1, <4>2, <4>5
      <4> QED BY <4>1, <4>2, <4>5, <4>6, <4>7 DEF e
    <3> HIDE DEF q, r
    <3>2. Len(q) \in Nat /\ Len(r) = Len(q) + 1
      BY <2>5, <3>1
    <3>3. ASSUME NEW i \in 1..Len(q) PROVE r[i] = q[i]
      <4>1. CASE i <= Len(stanza_queue)
        BY <3>1, <4>1
      <4>2. CASE i > Len(stanza_queue)
        <5>1. i - Len(stanza_queue) \in 1..Len(farewell)
          BY <2>5, <3>1, <4>2
        <5> QED BY <1>5, <3>1, <3>2, <4>2, <5>1
      <4> QED BY <3>1, <4>1, <4>2
    <3>4. r[Len(q) + 1] = "end"
      <4>1. (Len(q) + 1) - Len(stanza_queue) = Len(farewell) + 1
        BY <2>5, <3>1
      <4> QED BY <1>5, <2>5, <3>1, <3>2, <4>1
    <3> QED BY <3>2, <3>3, <3>4
  <2> HIDE DEF q, r
  <2>7. Owed(promised \o farewell, delivered, r, Len(q)) /\ Len(q) \in 0..Len(r) - 1
    BY <2>5, <2>6 DEF Owed
  <2>8. /\ Len(q) \in 0..Len(stanza_queue') - 1
        /\ Owed(promised', delivered', stanza_queue', Len(q))
        /\ stanza_queue'[Len(q) + 1] = "end"
    BY <1>1, <2>6, <2>7
  <2>9. closes' = 1 /\ send' = "pop"
    BY <1>1, <1>2, <2>2
  <2>10. PromiseInv'
    BY <2>8, <2>9 DEF PromiseInv
  <2> QED BY <2>3, <2>4, <2>10
<1> QED BY <1>1, <1>7, <1>8 DEF ClosingInv, WholeInv

LEMMA CloseSendKeeps == ClosingInv /\ CloseSend => ClosingInv'
<1> SUFFICES ASSUME ClosingInv, CloseSend PROVE ClosingInv'
  OBVIOUS
<1>1. /\ process = "up" /\ serving # Idle /\ serving[2] = "joinsend" /\ send = "ready"
      /\ serving' = Idle /\ Returns(serving[1])
      /\ UNCHANGED <<process, connected, recv, send, core_queue, delivered, modules,
                     stanza_queue, promised, closes, broke>>
  BY DEF CloseSend, tasks_state
<1>2. closes = 1 /\ ~connected /\ recv = "ready" /\ main \notin {"connect", "startrecv"}
  BY <1>1 DEF ClosingInv, CloseInv, StartInv
<1>3. main' \in {main, "destroy", "stop"}
  BY <1>1 DEF Returns
<1>4. ConnectionTypes' /\ StartInv' /\ CloseInv' /\ EndInv'
  BY <1>1, <1>2, <1>3 DEF ClosingInv, ConnectionTypes, StartInv, CloseInv, EndInv, Over
<1>5. ASSUME ~broke PROVE StanzaOrderInv' /\ PhaseInv' /\ PromiseInv'
  <2>1. StanzaOrderInv /\ PhaseInv /\ PromiseInv
    BY <1>5 DEF ClosingInv, WholeInv
  <2>2. main = "closing" /\ serving[1] = "close" /\ main' = "destroy"
    BY <1>1, <2>1 DEF StanzaOrderInv, Returns
  <2>3. StanzaOrderInv'
    BY <1>1, <2>1, <2>2 DEF StanzaOrderInv
  <2>4. delivered = promised
    BY <1>1, <1>2, <2>1 DEF PromiseInv
  <2>5. PhaseInv'
    BY <1>1, <1>2, <2>2, <2>4 DEF PhaseInv, Over
  <2>6. PromiseInv'
    BY <1>1, <2>1 DEF PromiseInv
  <2> QED BY <2>3, <2>5, <2>6
<1> QED BY <1>1, <1>4, <1>5 DEF ClosingInv, WholeInv

-----------------------------------------------------------------------------

LEMMA InitClosingInv == ConnectionInit => ClosingInv
<1> SUFFICES ASSUME ConnectionInit PROVE ClosingInv
  OBVIOUS
<1> USE DEF ConnectionInit
<1>1. Len(core_queue) = 0 /\ Len(stanza_queue) = 0
  OBVIOUS
<1>2. ConnectionTypes
  <2>1. /\ core_queue \in Seq({"connect", "stanza", "close", "error"})
        /\ stanza_queue \in Seq(Stanzas) /\ delivered \in Seq(Stanzas)
        /\ promised \in Seq(Stanzas)
    OBVIOUS
  <2> QED BY <2>1 DEF ConnectionTypes
<1>3. StartInv /\ CloseInv /\ EndInv
  BY DEF StartInv, CloseInv, EndInv
<1>4. StanzaOrderInv /\ PhaseInv
  BY <1>1 DEF StanzaOrderInv, PhaseInv, Over
<1>5. PromiseInv
  BY <1>1 DEF PromiseInv, Owed
<1> QED BY <1>2, <1>3, <1>4, <1>5 DEF ClosingInv, WholeInv

LEMMA NextClosingInv == ClosingInv /\ [ConnectionNext]_connection_state => ClosingInv'
<1> SUFFICES ASSUME ClosingInv, [ConnectionNext]_connection_state PROVE ClosingInv'
  OBVIOUS
<1>1. CASE Main
  BY <1>1, ConnectKeeps, StartsKeep, MainQueuesKeeps, MainGoesOn DEF Main
<1>2. CASE OnClose
  <2>1. /\ Take("close") /\ BeginClose("close")
        /\ UNCHANGED <<socket, recv, send, stanza_queue, delivered, modules, promised, closes,
                       broke, process>>
    BY <1>2 DEF OnClose, tasks_state
  <2> QED BY <2>1, BeginCloseKeeps
<1>3. CASE Core
  BY <1>2, <1>3, OnConnectKeeps, OnStanzaKeeps, OnErrorKeeps, CloseRecvKeeps,
     CloseSendKeeps DEF Core
<1>4. CASE UNCHANGED connection_state
  BY <1>4 DEF connection_state, ClosingInv, ConnectionTypes, StartInv, CloseInv, EndInv, WholeInv, StanzaOrderInv,
              PhaseInv, PromiseInv
<1> QED BY <1>1, <1>3, <1>4, RecvKeeps, SendThreadKeeps, EnvironmentKeeps DEF ConnectionNext

(* However errors, signals, stanzas and the two closes of main interleave, *)
(* for any number of stanzas and online users: the connection is closed    *)
(* once, after the receiving thread has ended, and unless it broke the     *)
(* process ends when both threads have ended and the server has got all    *)
(* that was queued before the end of the sending, in order.                *)
THEOREM ConnectionClosesOnce == ConnectionSpec => []ConnectionCloses
<1>1. ClosingInv => ConnectionCloses
  BY DEF ClosingInv, CloseInv, EndInv, WholeInv, PhaseInv, Over, ConnectionCloses
<1> QED BY <1>1, InitClosingInv, NextClosingInv, PTL DEF ConnectionSpec

=============================================================================
