------------------------------- MODULE Dispatcher -----------------------------
(***************************************************************************)
(* A dispatcher (src/src/Threads/Dispatcher.cc, Queue.hh,                  *)
(* SimpleSemaphore.hh): a task of the pool that runs the messages other    *)
(* threads queue, and those scheduled for a time when its queue is empty.  *)
(* Every module of the server and its core are such a dispatcher.          *)
(*                                                                         *)
(* A message is <<client, number, kind>>.  The caller of "exec" waits until *)
(* it was run.  "schedule" is queued without waiting, as any message of    *)
(* Dispatcher::queue, and inserts <<client, number, "timed">> in the       *)
(* agenda when it is run; "stop" is the empty message of stop.             *)
(***************************************************************************)
EXTENDS Pool

CONSTANTS DispatcherTask,    \* the dispatcher's task of the pool
          Client,            \* threads that use it, the messages of each
          MaxMessages,       \* how many each client sends
          Kinds,             \* what each client sends
          MaxTime

ASSUME DispatcherAssumption ==
  DispatcherTask \in Task /\ MaxMessages \in [Client -> Nat] /\ MaxTime \in Nat

VARIABLES queue,             \* _queue
          agenda,            \* from times to messages
          running,
          dpc,               \* where run is
          calling,           \* the message being run
          sent,              \* how many messages each client sent
          waiting,           \* clients blocked in exec
          stopping,          \* where the caller of stop is
          now,
          done,              \* messages that were run
          before,            \* messages queued before stop was called
          due                \* scheduled messages and their times

dispatcher_vars == <<queue, agenda, running, dpc, calling, sent, waiting, stopping,
                     now, done, before, due>>

NoMessage == <<>>

Message == Client \X Nat \X {"exec", "schedule", "timed"}

StopMessage == <<"stop">>

DispatcherInit ==
  /\ queue = <<>> /\ agenda = <<>>
  /\ running = TRUE /\ dpc = "pop" /\ calling = NoMessage
  /\ sent = [c \in Client |-> 0] /\ waiting = {}
  /\ stopping = "no" /\ now = 0
  /\ done = {} /\ before = {} /\ due = {}

-----------------------------------------------------------------------------
(* The callers.                                                            *)

Send(c, kind) ==
  /\ kind \in Kinds[c] /\ c \notin waiting /\ sent[c] < MaxMessages[c]
  /\ sent' = [sent EXCEPT ![c] = @ + 1]
  /\ queue' = Append(queue, <<c, sent[c] + 1, kind>>)

\* of another thread than the dispatcher's
Exec(c) ==
  /\ Send(c, "exec")
  /\ waiting' = waiting \cup {c}
  /\ UNCHANGED <<pool_vars, agenda, running, dpc, calling, stopping, now, done,
                 before, due>>

\* schedule and, as far as the queue is concerned, queue
Schedule(c, when) ==
  /\ Send(c, "schedule")
  /\ due' = due \cup {<<<<c, sent[c] + 1, "timed">>, when>>}
  /\ UNCHANGED <<pool_vars, agenda, running, dpc, calling, waiting, stopping, now,
                 done, before>>

(* Dispatcher::stop, with three steps: the flag, the message that wakes    *)
(* the thread, the join of its task.                                       *)
StopFlag ==
  /\ stopping = "no" /\ running
  /\ running' = FALSE /\ stopping' = "push"
  /\ before' = Range(queue) \cup ({calling} \ {NoMessage})
  /\ UNCHANGED <<pool_vars, queue, agenda, dpc, calling, sent, waiting, now, done, due>>

StopPush ==
  /\ stopping = "push"
  /\ queue' = Append(queue, StopMessage) /\ stopping' = "join"
  /\ UNCHANGED <<pool_vars, agenda, running, dpc, calling, sent, waiting, now, done,
                 before, due>>

StopJoin ==
  /\ stopping = "join" /\ Joinable(DispatcherTask)
  /\ stopping' = "joined"
  /\ UNCHANGED <<pool_vars, queue, agenda, running, dpc, calling, sent, waiting, now, done,
                 before, due>>

Tick ==
  /\ now < MaxTime /\ now' = now + 1
  /\ UNCHANGED <<pool_vars, queue, agenda, running, dpc, calling, sent, waiting, stopping,
                 done, before, due>>

-----------------------------------------------------------------------------
(* The thread of the dispatcher.                                           *)

Step(from, to) ==
  /\ \E w \in Thread : Runs(w, DispatcherTask)
  /\ dpc = from /\ dpc' = to

TakeFront ==
  /\ queue # <<>>
  /\ calling' = Head(queue) /\ queue' = Tail(queue)

rest == <<pool_vars, running, sent, stopping, now, before, due>>

FirstTime == CHOOSE time \in DOMAIN agenda : \A other \in DOMAIN agenda : time <= other

\* Queue::pop, and the try_pop that finds the queue not empty
Pop ==
  /\ \/ Step("pop", "call") \/ Step("timedwait", "call")
  /\ TakeFront
  /\ UNCHANGED <<rest, agenda, waiting, done>>

TimedWait ==
  /\ Step("pop", "timedwait")
  /\ queue = <<>> /\ agenda # <<>>
  /\ UNCHANGED <<rest, queue, agenda, calling, waiting, done>>

(* The wait times out, even if a message is pushed at that moment.         *)
Timeout ==
  /\ Step("timedwait", "call") /\ now >= FirstTime
  /\ calling' = agenda[FirstTime]
  /\ agenda' = [time \in DOMAIN agenda \ {FirstTime} |-> agenda[time]]
  /\ UNCHANGED <<rest, queue, waiting, done>>

\* std::map::insert keeps the message that is there
Inserted(message) ==
  LET when == (CHOOSE d \in due : d[1] = <<message[1], message[2], "timed">>)[2]
  IN IF when \in DOMAIN agenda THEN agenda
     ELSE [time \in DOMAIN agenda \cup {when} |->
             IF time = when THEN <<message[1], message[2], "timed">> ELSE agenda[time]]

(* message(), and the post of execMessage.  In the loop of run, the flag   *)
(* running is read when the message has returned.                          *)
Call(from, to) ==
  /\ Step(from, to)
  /\ agenda' = IF calling[Len(calling)] = "schedule" THEN Inserted(calling) ELSE agenda
  /\ waiting' = IF calling[Len(calling)] = "exec" THEN waiting \ {calling[1]} ELSE waiting
  /\ done' = done \cup {calling} /\ calling' = NoMessage
  /\ UNCHANGED <<rest, queue>>

(* Mutant: the messages left are dropped. *)
DrainNothing ==
  /\ Step("drain", "ended")
  /\ \E w \in Thread : Runs(w, DispatcherTask) /\ EndTask(w)
  /\ UNCHANGED <<running, sent, stopping, now, before, due, queue, agenda, calling,
                 waiting, done>>

(* "call remaining messages": when there is none, run returns and its task *)
(* ends.                                                                   *)
Drain ==
  /\ \/ Step("drain", "draincall") /\ TakeFront /\ UNCHANGED pool_vars
     \/ /\ Step("drain", "ended") /\ queue = <<>>
        /\ \E w \in Thread : Runs(w, DispatcherTask) /\ EndTask(w)
        /\ UNCHANGED <<queue, calling>>
  /\ UNCHANGED <<running, sent, stopping, now, before, due, agenda, waiting, done>>

Run ==
  \/ Pop \/ TimedWait \/ Timeout \/ Drain
  \/ Call("call", IF running THEN "pop" ELSE "drain") \/ Call("draincall", "drain")

DispatcherNext ==
  \/ \E c \in Client : Exec(c) \/ \E when \in (now + 1)..MaxTime : Schedule(c, when)
  \/ StopFlag \/ StopPush \/ StopJoin \/ Tick
  \/ Run
=============================================================================
