------------------------------- MODULE Connection -----------------------------
(***************************************************************************)
(* The connection to the XMPP server from its start to the end of the      *)
(* process (src/src/ComponentBase.cc, main.cc, XMPP/Component.cc,          *)
(* XMPP/Stream.cc): the main thread, the tasks that receive and send, and  *)
(* the core's dispatcher, which runs what they queue in order.             *)
(*                                                                         *)
(* What the calls of ServerCore::onClose wait for is in ServerCore; here   *)
(* they return.  iksemel and the server at the other end are external.     *)
(***************************************************************************)
EXTENDS Integers, Sequences, FiniteSets

CONSTANTS MaxStanzas,      \* stanzas the server sends
          OnlineUsers      \* available users, told of the end by onClose

ASSUME ConnectionAssumption == MaxStanzas \in Nat /\ OnlineUsers \in Nat

VARIABLES main,            \* where the main thread is
          signalled,       \* a SIGINT or SIGTERM is pending or was taken
          process,
          connected,       \* ComponentBase::running
          socket,
          recv, send,      \* task_recv, task_send
          core_queue,      \* messages of the dispatcher
          serving,         \* the message it runs, and where it is in _close
          stopped,         \* the dispatcher's stop was called
          modules,
          stanza_queue,
          received,
          delivered,       \* what the server got
          promised,        \* what was queued before the end of the sending
          closes,          \* how often onClose ran
          broke            \* the connection was lost once

connection_state == <<main, signalled, process, connected, socket, recv, send, core_queue,
                      serving, stopped, modules, stanza_queue, received, delivered,
                      promised, closes, broke>>

Idle == <<>>

ConnectionInit ==
  /\ main = "connect" /\ signalled = FALSE /\ process = "up"
  /\ connected = FALSE /\ socket = "none"
  /\ recv = "ready" /\ send = "ready"
  /\ core_queue = <<>> /\ serving = Idle /\ stopped = FALSE
  /\ modules = "loaded" /\ stanza_queue = <<>>
  /\ received = 0 /\ delivered = <<>> /\ promised = <<>> /\ closes = 0
  /\ broke = FALSE

tasks_state == <<recv, send, received, delivered>>

close_state == <<serving, modules, promised, closes, broke>>

-----------------------------------------------------------------------------
(* main.                                                                   *)

MainGoes(from, to) == process = "up" /\ main = from /\ main' = to

(* ComponentBase::connect; Component::connect throws when the server       *)
(* cannot be reached or refuses the handshake, and main leaves.            *)
Connect ==
  /\ \/ MainGoes("connect", "destroy") /\ UNCHANGED <<connected, socket>>
     \/ MainGoes("connect", "startrecv") /\ connected' = TRUE /\ socket' = "open"
  /\ UNCHANGED <<signalled, process, core_queue, stopped, stanza_queue, tasks_state,
                 close_state>>

StartRecv ==
  /\ MainGoes("startrecv", "startsend") /\ recv' = "check"
  /\ UNCHANGED <<signalled, process, connected, socket, send, core_queue, stopped,
                 stanza_queue, received, delivered, close_state>>

StartSend ==
  /\ MainGoes("startsend", "notify") /\ send' = "pop"
  /\ UNCHANGED <<signalled, process, connected, socket, recv, core_queue, stopped,
                 stanza_queue, received, delivered, close_state>>

\* a message for the dispatcher: onConnect, or one the caller waits for
MainQueues(from, to, message) ==
  /\ MainGoes(from, to)
  /\ core_queue' = Append(core_queue, message)
  /\ UNCHANGED <<signalled, process, connected, socket, stopped, stanza_queue, tasks_state,
                 close_state>>

(* sigwait, and the destructor of ServerCore, whose handlers of errors and *)
(* of the end are gone when ComponentBase's destructor begins.             *)
MainProceeds ==
  /\ \/ MainGoes("sigwait", "close") /\ signalled
     \/ MainGoes("destroy", "baseclose")
  /\ UNCHANGED <<signalled, process, connected, socket, core_queue, stopped, stanza_queue,
                 tasks_state, close_state>>

Stop ==
  /\ MainGoes("stop", "join") /\ stopped' = TRUE
  /\ UNCHANGED <<signalled, process, connected, socket, core_queue, stanza_queue,
                 tasks_state, close_state>>

\* the dispatcher has ended; ~Stream closes a connection that is open
Exit ==
  /\ MainGoes("join", "join") /\ stopped /\ serving = Idle /\ core_queue = <<>>
  /\ process' = "ended" /\ socket' = "closed"
  /\ UNCHANGED <<signalled, connected, core_queue, stopped, stanza_queue, tasks_state,
                 close_state>>

Main ==
  \/ Connect \/ StartRecv \/ StartSend
  \/ MainQueues("notify", "sigwait", "connect")
  \/ MainQueues("close", "closing", "close")
  \/ MainQueues("baseclose", "baseclosing", "close")
  \/ MainProceeds \/ Stop \/ Exit

-----------------------------------------------------------------------------
(* run_recv and run_send.                                                  *)

Broken == socket \in {"lost", "closed"}

main_state == <<main, signalled, stopped>>

RecvCheck ==
  /\ process = "up" /\ recv = "check"
  /\ recv' = IF connected THEN "recv" ELSE "ready"
  /\ UNCHANGED <<main_state, process, connected, socket, core_queue, stanza_queue, send,
                 received, delivered, close_state>>

(* Component::recvStanza(1): a stanza, nothing in time, or the end.        *)
RecvStanza ==
  /\ process = "up" /\ recv = "recv"
  /\ \/ /\ ~Broken /\ received < MaxStanzas
        /\ received' = received + 1 /\ recv' = "check"
        /\ core_queue' = Append(core_queue, "stanza")
     \/ ~Broken /\ recv' = "check" /\ UNCHANGED <<received, core_queue>>
     \/ /\ Broken /\ recv' = "ready"
        /\ core_queue' = Append(core_queue, "error") /\ UNCHANGED received
  /\ UNCHANGED <<main_state, process, connected, socket, stanza_queue, send, delivered,
                 close_state>>

(* What is sent to a lost connection may seem to be sent.                  *)
SendStanza ==
  /\ process = "up" /\ send = "pop" /\ stanza_queue # <<>>
  /\ stanza_queue' = Tail(stanza_queue)
  /\ \/ /\ Head(stanza_queue) = "end" /\ send' = "ready"
        /\ UNCHANGED <<delivered, core_queue, socket>>
     \/ /\ Head(stanza_queue) # "end" /\ socket # "closed" /\ send' = send
        /\ delivered' = IF Broken THEN delivered ELSE Append(delivered, Head(stanza_queue))
        /\ UNCHANGED <<core_queue, socket>>
     \/ /\ Head(stanza_queue) # "end" /\ Broken /\ send' = "ready"
        /\ core_queue' = Append(core_queue, "error") /\ socket' = "closed"
        /\ UNCHANGED delivered
  /\ UNCHANGED <<main_state, process, connected, recv, received, close_state>>

\* the environment: the connection breaks, an operator ends the process
Lose ==
  /\ process = "up" /\ socket = "open"
  /\ socket' = "lost" /\ broke' = TRUE
  /\ UNCHANGED <<main_state, process, connected, core_queue, stanza_queue, tasks_state,
                 serving, modules, promised, closes>>

Signal ==
  /\ process = "up" /\ ~signalled /\ signalled' = TRUE
  /\ UNCHANGED <<main, process, connected, socket, core_queue, stopped, stanza_queue,
                 tasks_state, close_state>>

-----------------------------------------------------------------------------
(* The dispatcher.                                                         *)

core_state == <<process, connected, socket, stanza_queue, tasks_state, stopped, broke>>

Take(message) ==
  /\ process = "up" /\ serving = Idle
  /\ core_queue # <<>> /\ Head(core_queue) = message
  /\ core_queue' = Tail(core_queue)

OnConnect ==
  /\ Take("connect")
  /\ modules' = IF modules = "loaded" THEN "started" ELSE modules
  /\ UNCHANGED <<core_state, main, signalled, serving, promised, closes>>

(* RootNode::handleStanza; there may be an answer.  After onClose the      *)
(* handlers of the root node are those of modules that were deleted.       *)
OnStanza ==
  /\ Take("stanza")
  /\ \E answer \in {<<>>, <<"answer">>} :
       /\ stanza_queue' = stanza_queue \o answer
       /\ promised' = IF closes = 0 THEN promised \o answer ELSE promised
  /\ \/ process' = process
     \/ modules = "deleted" /\ process' = "crashed"
  /\ UNCHANGED <<main, signalled, connected, socket, stopped, tasks_state, serving,
                 modules, closes, broke>>

Returns(message) ==
  IF message # "close" THEN main' = main
  ELSE main' = IF main = "closing" THEN "destroy" ELSE "stop"

\* the compare-and-swap of _close
BeginClose(message) ==
  IF connected
  THEN connected' = FALSE /\ serving' = <<message, "joinrecv">> /\ main' = main
  ELSE Returns(message) /\ UNCHANGED <<connected, serving>>

OnClose ==
  /\ Take("close") /\ BeginClose("close")
  /\ UNCHANGED <<signalled, process, socket, stopped, modules, stanza_queue, tasks_state,
                 promised, closes, broke>>

(* Mutant: main is not told. *)
OnErrorOnly ==
  /\ Take("error") /\ BeginClose("error")
  /\ UNCHANGED <<signalled, process, socket, stopped, modules, stanza_queue, tasks_state,
                 promised, closes, broke>>

(* _handleError: onError is a pure virtual function when ServerCore is     *)
(* gone.  main's handleError sends the signal once.                        *)
OnError ==
  /\ Take("error")
  /\ IF main \in {"baseclose", "baseclosing", "stop", "join"}
     THEN process' = "crashed" /\ UNCHANGED <<connected, serving, main, signalled>>
     ELSE signalled' = TRUE /\ BeginClose("error") /\ process' = process
  /\ UNCHANGED <<socket, stopped, modules, stanza_queue, tasks_state, promised, closes,
                 broke>>

(* task_recv.join, onClose, and the null pointer that ends the sending.    *)
CloseRecv ==
  LET farewell == [u \in 1..OnlineUsers |-> "presence"] IN
  /\ process = "up" /\ serving # Idle /\ serving[2] = "joinrecv" /\ recv = "ready"
  /\ serving' = <<serving[1], "joinsend">>
  /\ modules' = "deleted" /\ closes' = closes + 1
  /\ stanza_queue' = stanza_queue \o Append(farewell, "end")
  /\ promised' = promised \o farewell
  /\ UNCHANGED <<main, signalled, process, connected, socket, stopped, tasks_state,
                 core_queue, broke>>

(* Mutant: the sending is not waited for. *)
CloseAtOnce ==
  /\ process = "up" /\ serving # Idle /\ serving[2] = "joinsend"
  /\ serving' = Idle /\ Returns(serving[1])
  /\ socket' = "closed"
  /\ UNCHANGED <<signalled, process, connected, stopped, tasks_state, core_queue,
                 modules, stanza_queue, promised, closes, broke>>

CloseSend ==
  /\ process = "up" /\ serving # Idle /\ serving[2] = "joinsend" /\ send = "ready"
  /\ serving' = Idle /\ Returns(serving[1])
  /\ socket' = "closed"
  /\ UNCHANGED <<signalled, process, connected, stopped, tasks_state, core_queue,
                 modules, stanza_queue, promised, closes, broke>>

Core == OnConnect \/ OnStanza \/ OnClose \/ OnError \/ CloseRecv \/ CloseSend

ConnectionNext == Main \/ RecvCheck \/ RecvStanza \/ SendStanza \/ Lose \/ Signal \/ Core

ConnectionSpec == ConnectionInit /\ [][ConnectionNext]_connection_state

-----------------------------------------------------------------------------
(* Properties.                                                             *)

(* The connection is closed once, by an error or by main, whichever comes  *)
(* first, and the modules are deleted when nothing is received any more.   *)
(* Unless the connection broke, the process ends when its threads have     *)
(* ended and the server has got the answers queued before onClose and the  *)
(* presences of onClose.  (If it broke before main started task_send, that *)
(* task starts after the close and nobody waits for it.)                   *)
ConnectionCloses ==
  /\ closes <= 1
  /\ modules = "deleted" => recv = "ready" /\ ~connected
  /\ process = "ended" /\ ~broke => recv = "ready" /\ send = "ready" /\ delivered = promised

(* A signal, or the loss of the connection, ends the process: no order of  *)
(* the error, the signal and the two closes leaves it waiting.             *)
ProcessEnds == (signalled \/ socket = "lost") ~> process # "up"
=============================================================================
