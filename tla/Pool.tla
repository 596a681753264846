---------------------------------- MODULE Pool --------------------------------
(***************************************************************************)
(* The pool of threads and its tasks (src/src/Threads/Pool.cc, Task.cc).   *)
(* A step is one critical section of the pool's condition or of a task's.  *)
(* Waiting on a condition ends with a signal.                              *)
(***************************************************************************)
EXTENDS Integers, Sequences, FiniteSets, SequencesExt

CONSTANTS Thread,        \* threads the pool may create
          Task,          \* Threads::Task objects
          NoTask

ASSUME PoolAssumption == IsFiniteSet(Thread) /\ NoTask \notin Task

VARIABLES tasks,         \* queue of launched tasks
          idle_count,
          thread,        \* where each PoolThread is
          job,           \* the task a thread runs
          status         \* TaskStatus

pool_vars == <<tasks, idle_count, thread, job, status>>

ThreadState == {"none", "free", "waiting", "awake", "running"}

TaskStatus == {"ready", "waiting", "running", "deleted"}

-----------------------------------------------------------------------------

(* pthread_cond_signal: one waiting thread wakes, if there is any.         *)
Signalled(w) ==
  IF \E x \in Thread : thread[x] = "waiting"
  THEN thread[w] = "waiting" /\ thread' = [thread EXCEPT ![w] = "awake"]
  ELSE thread' = thread

\* the thread object created when those in used exist: one is as good as another
NewThread(used) == CHOOSE w \in Thread : w \notin used

(* Mutant: the count of idle threads stays. *)
launchUncounted(t) ==
  /\ tasks' = Append(tasks, t)
  /\ \E w \in Thread :
       IF idle_count > 0
       THEN idle_count' = idle_count /\ Signalled(w)
       ELSE /\ thread[w] = "none" /\ w = NewThread({x \in Thread : thread[x] # "none"})
            /\ thread' = [thread EXCEPT ![w] = "free"]
            /\ UNCHANGED idle_count

(* Pool::launchTask: a thread that waits is signalled, or one is created.  *)
launchTask(t) ==
  /\ tasks' = Append(tasks, t)
  /\ \E w \in Thread :
       IF idle_count > 0
       THEN idle_count' = idle_count - 1 /\ Signalled(w)
       ELSE /\ thread[w] = "none" /\ w = NewThread({x \in Thread : thread[x] # "none"})
            /\ thread' = [thread EXCEPT ![w] = "free"]
            /\ UNCHANGED idle_count

(* Task::start of a task that is ready.                                    *)
Start(t) ==
  /\ status[t] = "ready"
  /\ status' = [status EXCEPT ![t] = "waiting"]
  /\ launchTask(t)
  /\ UNCHANGED job

(* PoolThread::run under the pool's lock: wait, or take the first task and *)
(* begin Task::run.                                                        *)
TakeTask(w) ==
  /\ thread[w] \in {"free", "awake"}
  /\ IF tasks = <<>>
     THEN /\ idle_count' = idle_count + 1
          /\ thread' = [thread EXCEPT ![w] = "waiting"]
          /\ UNCHANGED <<tasks, job, status>>
     ELSE /\ tasks' = Tail(tasks)
          /\ thread' = [thread EXCEPT ![w] = "running"]
          /\ job' = [job EXCEPT ![w] = Head(tasks)]
          /\ status' = [status EXCEPT ![Head(tasks)] = "running"]
          /\ UNCHANGED idle_count

(* The function of the task returned: Task::run makes it ready, and the    *)
(* thread looks for another one.                                           *)
EndTask(w) ==
  /\ thread[w] = "running"
  /\ thread' = [thread EXCEPT ![w] = "free"]
  /\ job' = [job EXCEPT ![w] = NoTask]
  /\ status' = [status EXCEPT ![job[w]] = "ready"]
  /\ UNCHANGED <<tasks, idle_count>>

(* Task::join can go on: a waiting joiner is woken by the end of the task. *)
Joinable(t) == status[t] = "ready"

Runs(w, t) == thread[w] = "running" /\ job[w] = t
=============================================================================
