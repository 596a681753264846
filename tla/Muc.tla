----------------------------------- MODULE Muc --------------------------------
(***************************************************************************)
(* A room as a multi-user chat (src/src/XMPP/Muc.cc, Node.cc, RootNode.cc, *)
(* Disco.cc): presences in, presences out, and what its occupants see.     *)
(*                                                                         *)
(* A stanza for the room passes two queues, that of the core, whose root   *)
(* node finds the room by its name, and that of the room.  What the room   *)
(* sends passes stanza_queue in order.  A client asks for what it likes    *)
(* and keeps the presences it got; nicks and statuses stand for their      *)
(* stanzas.  The queries of the game are in GameRoom.                      *)
(***************************************************************************)
EXTENDS Integers, Sequences, SequencesExt, FiniteSets, Functions, TLC

CONSTANTS Client,        \* full Jids, in the order of the map of users
          Requests,      \* stanzas for the room: [from, kind, nick, status]
          MaxRequests,   \* that are on their way to the room
          MaxOutput      \* stanzas of the room that are on their way

VARIABLES room,          \* "open", "vacant" when close_game was called, "closing", "gone"
          users,         \* from Jids to nicks and statuses, MucUserSet
          items,         \* nicks, the disco items of the room
          core_queue, room_queue,
          output,        \* [to, kind, nick, status]
          view           \* what each client knows: from nicks to statuses

muc_vars == <<room, users, items, core_queue, room_queue, output, view>>

None == <<>>

MucInit ==
  /\ room = "open" /\ users = None /\ items = {}
  /\ core_queue = <<>> /\ room_queue = <<>> /\ output = <<>>
  /\ view = [c \in Client |-> None]

-----------------------------------------------------------------------------
(* What the room sends.                                                    *)

To(jid, kind, nick, status) == [to |-> jid, kind |-> kind, nick |-> nick, status |-> status]

\* in the order of the map
Occupants(room_users) == SelectSeq(SetToSortSeq(Client, <), LAMBDA c : c \in DOMAIN room_users)

broadcast(room_users, kind, nick, status) ==
  LET to == Occupants(room_users) IN [i \in DOMAIN to |-> To(to[i], kind, nick, status)]

presentUsers(jid) ==
  LET others == Occupants(users) IN
  [i \in DOMAIN others |->
     To(jid, "available", users[others[i]].nick, users[others[i]].status)]

\* xmpp_exception: the error goes back
Error(r) == <<To(r.from, "error", r.nick, r.status)>>

FindNick(nick) == {c \in DOMAIN users : users[c].nick = nick}

-----------------------------------------------------------------------------
(* Muc::handleStanza and Node::handleStanza.                               *)

Answers(stanzas) == output' = output \o stanzas /\ UNCHANGED <<users, items>>

(* addUser: a newcomer hears of the others, everybody hears of the         *)
(* newcomer; an occupant keeps the nick it came with.                      *)
addUser(r) ==
  LET known == r.from \in DOMAIN users
      nick == IF known THEN users[r.from].nick ELSE r.nick
      users2 == (r.from :> [nick |-> nick, status |-> r.status]) @@ users
  IN IF ~known /\ FindNick(r.nick) # {} THEN Answers(Error(r))
     ELSE /\ users' = users2
          /\ items' = items \cup {nick}
          /\ output' = output \o (IF known THEN <<>> ELSE presentUsers(r.from))
                              \o broadcast(users2, "available", nick, r.status)

\* the unavailable presence of nick: a client recognises its own
Farewell(room_users, jid) ==
  LET stanzas == broadcast(room_users, "unavailable", users[jid].nick, users[jid].status)
  IN [i \in DOMAIN stanzas |->
        IF stanzas[i].to = jid THEN [stanzas[i] EXCEPT !.kind = "left"] ELSE stanzas[i]]

(* Mutant: the user is erased first, and so hears nothing. *)
removeErased(jid) ==
  LET left == Restrict(users, DOMAIN users \ {jid}) IN
  /\ jid \in DOMAIN users
  /\ output' = output \o Farewell(left, jid)
  /\ items' = items \ {users[jid].nick} /\ users' = left

(* removeUser: everybody hears of it, the one who leaves too.              *)
removeUser(jid) ==
  /\ jid \in DOMAIN users
  /\ output' = output \o Farewell(users, jid)
  /\ items' = items \ {users[jid].nick}
  /\ users' = Restrict(users, DOMAIN users \ {jid})

handleGroupChat(r) ==
  Answers(IF r.from \in DOMAIN users
          THEN broadcast(users, "message", users[r.from].nick, r.status) ELSE Error(r))

(* A message or a query for a nick: the room passes it on to whoever has   *)
(* that nick now.                                                          *)
handlePrivate(r) ==
  Answers(IF r.from \in DOMAIN users /\ FindNick(r.nick) # {}
          THEN SetToSeq({To(c, "message", users[r.from].nick, r.status) : c \in FindNick(r.nick)})
          ELSE Error(r))

(* Node::handleStanza: a presence, the list of items, or what no handler   *)
(* takes.                                                                  *)
HandleStanza(r) ==
  CASE r.kind = "available" -> addUser(r)
    [] r.kind = "unavailable" ->
         IF r.from \in DOMAIN users THEN removeUser(r.from) ELSE Answers(<<>>)
    [] r.kind = "groupchat" -> handleGroupChat(r)
    [] r.kind = "private" -> handlePrivate(r)
    [] r.kind = "items" -> Answers(<<To(r.from, "items", r.nick, items)>>)
    [] OTHER -> Answers(Error(r))

-----------------------------------------------------------------------------

Send(r) ==
  /\ Len(core_queue) + Len(room_queue) < MaxRequests
  /\ core_queue' = Append(core_queue, r)
  /\ UNCHANGED <<room, users, items, room_queue, output, view>>

(* RootNode::handleStanza, in the core's dispatcher: the handler of the    *)
(* room queues the stanza for the room's dispatcher.                       *)
Route ==
  /\ core_queue # <<>> /\ room \in {"open", "vacant", "gone"} /\ Len(output) <= MaxOutput
  /\ core_queue' = Tail(core_queue)
  /\ LET r == Head(core_queue) IN
     CASE r.kind = "close" ->            \* _closeGame: the destructor waits for the room
            /\ room' = IF room = "gone" THEN "gone" ELSE "closing"
            /\ UNCHANGED <<room_queue, output>>
       [] r.kind # "close" /\ room = "gone" ->
            output' = output \o Error(r) /\ UNCHANGED <<room, room_queue>>
       [] OTHER -> room_queue' = Append(room_queue, r) /\ UNCHANGED <<room, output>>
  /\ UNCHANGED <<users, items, view>>

Handle ==
  /\ room_queue # <<>> /\ Len(output) <= MaxOutput
  /\ room_queue' = Tail(room_queue)
  /\ HandleStanza(Head(room_queue))
  /\ UNCHANGED <<room, core_queue, view>>

(* checkTime of a room whose game is over: nobody is in it.  It is not     *)
(* scheduled again.                                                        *)
Vacate ==
  /\ room = "open" /\ room_queue = <<>> /\ users = None
  /\ room' = "vacant"
  /\ core_queue' = Append(core_queue, [kind |-> "close"])
  /\ UNCHANGED <<users, items, room_queue, output, view>>

(* Muc::close, when the server stops: the core's dispatcher waits for it.  *)
(* A room that was found vacant may have been entered since.               *)
CloseRoom ==
  /\ room \in {"open", "vacant"} /\ room_queue = <<>> /\ Len(output) <= MaxOutput
  /\ room' = "closing"
  /\ LET order == Occupants(users)
         left(i) == Restrict(users, {order[j] : j \in i..Len(order)})
     IN output' = output \o FlattenSeq([i \in DOMAIN order |-> Farewell(left(i), order[i])])
  /\ users' = None /\ items' = {}
  /\ UNCHANGED <<core_queue, room_queue, view>>

(* ~GameRoom: the room's dispatcher has drained its queue.                 *)
Delete ==
  /\ room = "closing" /\ room_queue = <<>>
  /\ room' = "gone" /\ users' = None /\ items' = {}
  /\ UNCHANGED <<core_queue, room_queue, output, view>>

(* What a client makes of a stanza.                                        *)
Seen(known, stanza) ==
  CASE stanza.kind = "available" -> (stanza.nick :> stanza.status) @@ known
    [] stanza.kind = "unavailable" -> Restrict(known, DOMAIN known \ {stanza.nick})
    [] stanza.kind = "left" -> None
    [] OTHER -> known

Deliver ==
  /\ output # <<>>
  /\ output' = Tail(output)
  /\ LET c == Head(output).to IN view' = [view EXCEPT ![c] = Seen(@, Head(output))]
  /\ UNCHANGED <<room, users, items, core_queue, room_queue>>

MucNext ==
  \/ \E r \in Requests : Send(r)
  \/ Route \/ Handle \/ Vacate \/ CloseRoom \/ Delete \/ Deliver

-----------------------------------------------------------------------------
(* Properties.                                                             *)

\* what c will know when everything that is on its way has arrived
WillKnow(c) == FoldLeft(Seen, view[c], SelectSeq(output, LAMBDA s : s.to = c))

(* As long as there is a room, every occupant is told who is in it, under  *)
(* which nick and with which status last sent, and the others know of      *)
(* nobody; the room's disco items are these nicks, no two users have one;  *)
(* and a message comes from a nick its receiver knows.  (Who enters when   *)
(* the last check of the room has found it empty is never told that it is  *)
(* gone: GameRoom.cc:217.)                                                 *)
ViewsAgree ==
  /\ room # "gone" =>
       /\ \A c \in Client :
            WillKnow(c) = IF c \in DOMAIN users
                          THEN [n \in items |-> users[CHOOSE u \in FindNick(n) : TRUE].status]
                          ELSE None
       /\ \A n \in items : Cardinality(FindNick(n)) = 1
       /\ items = {users[c].nick : c \in DOMAIN users}
  /\ output # <<>> /\ Head(output).kind = "message" =>
       Head(output).nick \in DOMAIN view[Head(output).to]
=============================================================================
