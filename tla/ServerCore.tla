------------------------------ MODULE ServerCore ------------------------------
(***************************************************************************)
(* The core of the server (src/src/ServerCore.cc, ComponentBase.cc): the   *)
(* thread of its dispatcher, the module threads that create games, the     *)
(* threads of the rooms, and the shutdown of the component.                *)
(*                                                                         *)
(* A message of the core is executed as a whole by its thread.  Stanzas    *)
(* are not kept in queue: the core may handle a presence, or route one to  *)
(* a room, between any two messages, which is where the queue would have   *)
(* it.  The same holds for the message _close.  The notifications sent to  *)
(* the modules are in MatchManager, what happens in a game in GameRoom.    *)
(***************************************************************************)
EXTENDS Integers, FiniteSets, Sequences

CONSTANTS
  Jid,       \* the users
  Game,      \* Game objects given to createGame; bounds the number of games
  Module,    \* the modules that create games, one thread each
  Visitor,   \* the users that enter rooms
  MaxInbox,  \* bound on the stanzas that wait at a room
  NoGame

ASSUME CoreAssumption ==
  /\ IsFiniteSet(Jid) /\ IsFiniteSet(Game) /\ IsFiniteSet(Module)
  /\ Visitor \subseteq Jid
  /\ MaxInbox \in Nat
  /\ NoGame \notin Game

VARIABLES
  users_status,   \* Jid -> UserStatus
  game_players,   \* Game -> its players, {} until createGame counts them
  game_ids,       \* the next id
  calls,          \* Module -> how far its call of createGame is
  queue,          \* the messages of the core's dispatcher
  game_rooms,     \* GameId -> GameRoom, for the rooms that exist
  node_handlers,  \* the ids whose stanzas are routed to a room
  disco,          \* the ids of the games listed in the disco
  closing,        \* how far onClose is
  todo            \* the rooms or modules onClose still has to stop

vars == <<users_status, game_players, game_ids, calls, queue, game_rooms,
          node_handlers, disco, closing, todo>>

GameId == 0..(Cardinality(Game) - 1)

Pair == {p \in SUBSET Jid : Cardinality(p) = 2}

UserStatus == [available : BOOLEAN, games_playing : Nat, multigame : BOOLEAN]

(* counted: the lock is released.  numbered: the id is taken.  waiting: in *)
(* exec until the core has run _createGame.  posted: the jid is returned.  *)
Call == [at : {"idle", "counted", "numbered", "waiting", "posted"},
         game : Game \cup {NoGame}, id : GameId]

Message ==
  [type : {"create"}, id : GameId, game : Game, by : Module]
    \cup [type : {"end"}, id : GameId, game : Game]
    \cup [type : {"close"}, id : GameId]

RoomStanza == [type : {"join", "leave"}, user : Visitor]

GameRoom == [game : Game, active : BOOLEAN, occupants : SUBSET Visitor,
             inbox : Seq(RoomStanza), timer : BOOLEAN]

Idle == [at |-> "idle", game |-> NoGame, id |-> 0]

CanPlay(status) ==
  status.available /\ (status.games_playing <= 0 \/ status.multigame)

-----------------------------------------------------------------------------

Init ==
  /\ users_status = [u \in Jid |->
       [available |-> FALSE, games_playing |-> 0, multigame |-> FALSE]]
  /\ game_players = [g \in Game |-> {}]
  /\ game_ids = 0
  /\ calls = [c \in Module |-> Idle]
  /\ queue = <<>>
  /\ game_rooms = <<>>
  /\ node_handlers = {}
  /\ disco = {}
  /\ closing = "no"
  /\ todo = {}

Closing == <<closing, todo>>
Rooms == <<game_rooms, node_handlers, disco>>
Players == <<users_status, game_players>>

AddGames(players, n) ==
  users_status' = [u \in Jid |->
    IF u \in players
    THEN [users_status[u] EXCEPT !.games_playing = @ + n]
    ELSE users_status[u]]

-----------------------------------------------------------------------------
(* createGame, in the thread of module c.                                  *)

(* The critical section.  A refused game throws and changes nothing.       *)
CountPlayers(c, g, players) ==
  /\ calls[c].at = "idle"
  /\ closing # "done"
  /\ closing = "clearing" => c \in todo
  /\ game_players[g] = {}
  /\ \A u \in players : CanPlay(users_status[u])
  /\ AddGames(players, 1)
  /\ game_players' = [game_players EXCEPT ![g] = players]
  /\ calls' = [calls EXCEPT ![c] = [@ EXCEPT !.at = "counted", !.game = g]]
  /\ UNCHANGED <<game_ids, queue, Rooms, Closing>>

(* Mutant: the id of a room is taken from the number of rooms.             *)
TakeFreeId(c) ==
  /\ calls[c].at = "counted"
  /\ calls' = [calls EXCEPT ![c].at = "numbered",
                            ![c].id = Cardinality(DOMAIN game_rooms)]
  /\ UNCHANGED <<Players, game_ids, queue, Rooms, Closing>>

(* __sync_fetch_and_add                                                    *)
TakeId(c) ==
  /\ calls[c].at = "counted"
  /\ calls' = [calls EXCEPT ![c].at = "numbered", ![c].id = game_ids]
  /\ game_ids' = game_ids + 1
  /\ UNCHANGED <<Players, queue, Rooms, Closing>>

CreateMessage(c) ==
  [type |-> "create", id |-> calls[c].id, game |-> calls[c].game, by |-> c]

(* Dispatcher::exec: push, then wait on the semaphore.                     *)
ExecCreate(c) ==
  /\ calls[c].at = "numbered"
  /\ queue' = Append(queue, CreateMessage(c))
  /\ calls' = [calls EXCEPT ![c].at = "waiting"]
  /\ UNCHANGED <<Players, game_ids, Rooms, Closing>>

(* The caller has the jid and goes on to announce it.                      *)
ReturnGame(c) ==
  /\ calls[c].at = "posted"
  /\ calls' = [calls EXCEPT ![c] = Idle]
  /\ UNCHANGED <<Players, game_ids, queue, Rooms, Closing>>

-----------------------------------------------------------------------------
(* The thread of the core.                                                 *)

CoreFree == closing \in {"no", "done"}

(* Before "done" the component still receives stanzas.                     *)
HandlePresence(u, available, multigame) ==
  /\ closing = "no"
  /\ multigame => available
  /\ users_status' = [users_status EXCEPT ![u].available = available,
                                          ![u].multigame = multigame]
  /\ UNCHANGED <<game_players, game_ids, calls, queue, Rooms, Closing>>

Receive(type) ==
  /\ CoreFree
  /\ queue # <<>>
  /\ Head(queue).type = type

NewRoom(g) == [game |-> g, active |-> TRUE, occupants |-> {}, inbox |-> <<>>,
               timer |-> TRUE]

(* Mutant: execMessage does not post the semaphore.                        *)
HandleCreateNoPost ==
  /\ Receive("create")
  /\ LET m == Head(queue) IN
       /\ game_rooms' = [i \in DOMAIN game_rooms \cup {m.id} |->
            IF i \in DOMAIN game_rooms THEN game_rooms[i] ELSE NewRoom(m.game)]
       /\ node_handlers' = node_handlers \cup {m.id}
       /\ disco' = disco \cup {m.id}
  /\ queue' = Tail(queue)
  /\ UNCHANGED <<Players, game_ids, calls, Closing>>

(* _createGame, then the post of execMessage.  ptr_map::insert keeps the   *)
(* room that already has the id.                                           *)
HandleCreate ==
  /\ Receive("create")
  /\ LET m == Head(queue) IN
       /\ game_rooms' = [i \in DOMAIN game_rooms \cup {m.id} |->
            IF i \in DOMAIN game_rooms THEN game_rooms[i] ELSE NewRoom(m.game)]
       /\ node_handlers' = node_handlers \cup {m.id}
       /\ disco' = disco \cup {m.id}
       /\ calls' = IF calls[m.by].at = "waiting"
                   THEN [calls EXCEPT ![m.by].at = "posted"] ELSE calls
  /\ queue' = Tail(queue)
  /\ UNCHANGED <<Players, game_ids, Closing>>

(* _endGame                                                                *)
HandleEnd ==
  /\ Receive("end")
  /\ disco' = disco \ {Head(queue).id}
  /\ AddGames(game_players[Head(queue).game], -1)
  /\ queue' = Tail(queue)
  /\ UNCHANGED <<game_players, game_ids, calls, game_rooms, node_handlers,
                 Closing>>

(* _closeGame.  Deleting the room stops its dispatcher, which first runs   *)
(* the stanzas left in its inbox: nothing of it remains.                   *)
HandleClose ==
  /\ Receive("close")
  /\ LET id == Head(queue).id IN
       /\ node_handlers' = node_handlers \ {id}
       /\ disco' = disco \ {id}
       /\ game_rooms' = [i \in DOMAIN game_rooms \ {id} |-> game_rooms[i]]
  /\ queue' = Tail(queue)
  /\ UNCHANGED <<Players, game_ids, calls, Closing>>

(* A presence addressed to a room: queued on the room's dispatcher.        *)
RouteToRoom(id, type, user) ==
  /\ closing = "no"
  /\ id \in node_handlers \cap DOMAIN game_rooms
  /\ Len(game_rooms[id].inbox) < MaxInbox
  /\ game_rooms' = [game_rooms EXCEPT ![id].inbox =
                      Append(@, [type |-> type, user |-> user])]
  /\ UNCHANGED <<Players, game_ids, calls, queue, node_handlers, disco, Closing>>

-----------------------------------------------------------------------------
(* The thread of a room.                                                   *)

EndMessage(id) == [type |-> "end", id |-> id, game |-> game_rooms[id].game]

(* Muc::addUser and removeUser                                             *)
RoomHandleStanza(id) ==
  /\ id \in DOMAIN game_rooms
  /\ game_rooms[id].inbox # <<>>
  /\ LET stanza == Head(game_rooms[id].inbox) IN
       game_rooms' = [game_rooms EXCEPT
         ![id].inbox = Tail(@),
         ![id].occupants = IF stanza.type = "join" THEN @ \cup {stanza.user}
                           ELSE @ \ {stanza.user}]
  /\ UNCHANGED <<Players, game_ids, calls, queue, node_handlers, disco, Closing>>

(* Mutant: endGame does not call hide_game.                                *)
EndActiveGameSilently(id) ==
  /\ id \in DOMAIN game_rooms
  /\ game_rooms[id].active
  /\ game_rooms' = [game_rooms EXCEPT ![id].active = FALSE]
  /\ UNCHANGED <<Players, game_ids, calls, queue, node_handlers, disco, Closing>>

(* GameRoom::endGame, reached by some iq of a player.                      *)
EndActiveGame(id) ==
  /\ id \in DOMAIN game_rooms
  /\ game_rooms[id].active
  /\ game_rooms' = [game_rooms EXCEPT ![id].active = FALSE]
  /\ queue' = Append(queue, EndMessage(id))
  /\ UNCHANGED <<Players, game_ids, calls, node_handlers, disco, Closing>>

(* What checkTime queues: the game is over now, the room can be closed.    *)
TimeMessages(id, over) ==
  (IF over THEN <<EndMessage(id)>> ELSE <<>>) \o
  (IF (game_rooms[id].active => over) /\ game_rooms[id].occupants = {}
   THEN <<[type |-> "close", id |-> id]>> ELSE <<>>)

CheckingTime(id, over) ==
  /\ id \in DOMAIN game_rooms
  /\ game_rooms[id].timer
  /\ game_rooms[id].inbox = <<>>
  /\ over => game_rooms[id].active

(* Mutant: the timer is armed again in any case.                           *)
CheckTimeForever(id, over) ==
  /\ CheckingTime(id, over)
  /\ queue' = queue \o TimeMessages(id, over)
  /\ game_rooms' = [game_rooms EXCEPT ![id].active = @ /\ ~over]
  /\ UNCHANGED <<Players, game_ids, calls, node_handlers, disco, Closing>>

(* Mutant: the timer is not armed again once the game is over.             *)
CheckTimeWhileActive(id, over) ==
  /\ CheckingTime(id, over)
  /\ queue' = queue \o TimeMessages(id, over)
  /\ game_rooms' = [game_rooms EXCEPT ![id].active = @ /\ ~over,
                                      ![id].timer = game_rooms[id].active /\ ~over]
  /\ UNCHANGED <<Players, game_ids, calls, node_handlers, disco, Closing>>

(* checkTime runs when no stanza waits (Dispatcher::run).  It is scheduled *)
(* again unless the room can be closed.                                    *)
CheckTime(id, over) ==
  /\ CheckingTime(id, over)
  /\ queue' = queue \o TimeMessages(id, over)
  /\ game_rooms' = [game_rooms EXCEPT
       ![id].active = @ /\ ~over,
       ![id].timer = (game_rooms[id].active /\ ~over)
                       \/ game_rooms[id].occupants # {}]
  /\ UNCHANGED <<Players, game_ids, calls, node_handlers, disco, Closing>>

-----------------------------------------------------------------------------
(* onClose: the thread of the core stops the rooms, deletes them, stops    *)
(* the modules, deletes them.  Each of these waits for another thread.     *)

BeginClose ==
  /\ closing = "no"
  /\ closing' = "rooms"
  /\ todo' = DOMAIN game_rooms
  /\ UNCHANGED <<Players, game_ids, calls, queue, Rooms>>

(* Mutant: onStop closes the room and leaves the game as it is.            *)
StopRoomOnly(id) ==
  /\ closing = "rooms" /\ id \in todo
  /\ game_rooms[id].inbox = <<>>
  /\ game_rooms' = [game_rooms EXCEPT ![id].occupants = {}]
  /\ todo' = todo \ {id}
  /\ UNCHANGED <<Players, game_ids, calls, queue, node_handlers, disco, closing>>

(* GameRoom::onStop, executed behind the stanzas the room already has.     *)
StopRoom(id) ==
  /\ closing = "rooms" /\ id \in todo
  /\ game_rooms[id].inbox = <<>>
  /\ queue' = IF game_rooms[id].active THEN Append(queue, EndMessage(id))
              ELSE queue
  /\ game_rooms' = [game_rooms EXCEPT ![id].active = FALSE,
                                      ![id].occupants = {}]
  /\ todo' = todo \ {id}
  /\ UNCHANGED <<Players, game_ids, calls, node_handlers, disco, closing>>

DeleteRooms ==
  /\ closing = "rooms" /\ todo = {}
  /\ game_rooms' = <<>>
  /\ closing' = "modules"
  /\ todo' = Module
  /\ UNCHANGED <<Players, game_ids, calls, queue, node_handlers, disco>>

(* ServerModule::stop, then ~ServerModule: the module's thread must return *)
(* to its dispatcher for either.                                           *)
StopModule(c) ==
  /\ closing \in {"modules", "clearing"} /\ c \in todo
  /\ calls[c].at = "idle"
  /\ todo' = todo \ {c}
  /\ UNCHANGED <<Players, game_ids, calls, queue, Rooms, closing>>

NextStage ==
  /\ closing \in {"modules", "clearing"} /\ todo = {}
  /\ IF closing = "modules" THEN closing' = "clearing" /\ todo' = Module
     ELSE closing' = "done" /\ todo' = {}
  /\ UNCHANGED <<Players, game_ids, calls, queue, Rooms>>

-----------------------------------------------------------------------------

CallStep(c) == TakeId(c) \/ ExecCreate(c) \/ ReturnGame(c)

HandleMessage == HandleCreate \/ HandleEnd \/ HandleClose

CloseStep ==
  \/ \E id \in DOMAIN game_rooms : StopRoom(id)
  \/ DeleteRooms
  \/ \E c \in Module : StopModule(c)
  \/ NextStage

Next ==
  \/ \E c \in Module, g \in Game, players \in Pair : CountPlayers(c, g, players)
  \/ \E c \in Module : CallStep(c)
  \/ \E u \in Jid, available, multigame \in BOOLEAN :
        HandlePresence(u, available, multigame)
  \/ HandleMessage
  \/ \E id \in GameId, type \in {"join", "leave"}, user \in Visitor :
        RouteToRoom(id, type, user)
  \/ \E id \in GameId : RoomHandleStanza(id) \/ EndActiveGame(id)
  \/ \E id \in GameId, over \in BOOLEAN : CheckTime(id, over)
  \/ BeginClose
  \/ CloseStep

Spec == Init /\ [][Next]_vars

(* Every thread that has something to do goes on; the timers fire.  No     *)
(* user and no game is under any obligation.                               *)
Fairness ==
  /\ WF_vars(HandleMessage)
  /\ WF_vars(CloseStep)
  /\ \A c \in Module : WF_vars(CallStep(c))
  /\ \A id \in GameId :
       WF_vars(RoomHandleStanza(id)) /\ WF_vars(CheckTime(id, FALSE))

FairSpec == Spec /\ Fairness

-----------------------------------------------------------------------------

(* Every variable has its type.                                            *)
TypeOK ==
  /\ users_status \in [Jid -> UserStatus]
  /\ game_players \in [Game -> Pair \cup {{}}]
  /\ game_ids \in 0..Cardinality(Game)
  /\ calls \in [Module -> Call]
  /\ queue \in Seq(Message)
  /\ DOMAIN game_rooms \subseteq GameId
  /\ \A id \in DOMAIN game_rooms : game_rooms[id] \in GameRoom
  /\ node_handlers \subseteq GameId
  /\ disco \subseteq GameId
  /\ closing \in {"no", "rooms", "modules", "clearing", "done"}
  /\ todo \subseteq CASE closing = "rooms" -> DOMAIN game_rooms
                     [] closing \in {"modules", "clearing"} -> Module
                     [] OTHER -> {}

(* The players of g are held by whoever will give them back: the call that *)
(* counted them and its message, then the active room, then its message.   *)
HeldByCall(g) ==
  \E c \in Module : calls[c].game = g /\ calls[c].at \notin {"idle", "posted"}
HeldByRoom(g) ==
  \E id \in DOMAIN game_rooms : game_rooms[id].game = g /\ game_rooms[id].active
HeldByMessage(g) ==
  \E k \in DOMAIN queue : queue[k].type # "close" /\ queue[k].game = g

Phase(g) ==
  IF game_players[g] = {} THEN "new"
  ELSE IF HeldByCall(g) \/ HeldByRoom(g) \/ HeldByMessage(g) THEN "live"
  ELSE "ended"

Registry == INSTANCE GameRegistry WITH
  games <- [g \in Game |-> [phase |-> Phase(g), players |-> game_players[g]]]

(* The core keeps the promise of GameRegistry: through its threads, its    *)
(* queue and its shutdown, every game that takes its players gives them    *)
(* back once, and never loses them.                                        *)
ImplementsRegistry == Registry!Spec

(* No two games that are being created or have a room share an id, though  *)
(* ids are taken without the lock.                                         *)
IdsUnique ==
  /\ \A c, d \in Module :
       /\ c # d /\ {calls[c].at, calls[d].at} \subseteq {"numbered", "waiting"}
       => calls[c].id # calls[d].id
  /\ \A c \in Module : calls[c].at \in {"numbered", "waiting"} =>
       calls[c].id \notin DOMAIN game_rooms

(* "we want to make sure that the game jid is visible when this function   *)
(* returns" (createGame): the room of a jid that was returned can be       *)
(* entered unless its game is over already, or the server is closing.      *)
ReturnedJidVisible ==
  \A c \in Module :
    calls[c].at = "posted" /\ closing = "no" /\ Phase(calls[c].game) # "ended" =>
      /\ calls[c].id \in DOMAIN game_rooms \cap node_handlers \cap disco
      /\ game_rooms[calls[c].id].game = calls[c].game

(* Until the server closes, stanzas are routed to the rooms that exist and *)
(* to no other (handlers point to the room).                               *)
HandlersMatchRooms ==
  closing \in {"no", "rooms"} => node_handlers = DOMAIN game_rooms

(* A game is in the disco while its players are counted and not a moment   *)
(* longer (_endGame: "so it is not visible anymore").                      *)
DiscoListsLive ==
  closing = "no" =>
    disco = {id \in DOMAIN game_rooms : Phase(game_rooms[id].game) = "live"}

(* handleSearch: the rooms of the active games of a user.                  *)
handleSearch(u) ==
  {id \in DOMAIN game_rooms : game_rooms[id].active /\ u \in game_players[game_rooms[id].game]}

(* A search shows rooms that can be entered, and all the games the user is *)
(* counted in, but for those that are being created or forgotten.          *)
SearchFindsGames ==
  closing = "no" => \A u \in Jid :
    /\ handleSearch(u) \subseteq node_handlers \cap disco
    /\ Cardinality(handleSearch(u)) # users_status[u].games_playing =>
         \E g \in Game : u \in game_players[g] /\ (HeldByCall(g) \/ HeldByMessage(g))
    /\ Cardinality(handleSearch(u)) <= users_status[u].games_playing

(* Every game that is under way has its one room, which is found under its *)
(* jid and by a search, and nothing is found where there is no room: the   *)
(* threads that create, end and close games leave the maps, the handlers   *)
(* and the disco of the core in step.                                      *)
RoomsRegistered ==
  /\ IdsUnique /\ ReturnedJidVisible /\ HandlersMatchRooms /\ DiscoListsLive
  /\ SearchFindsGames

(* The last message about a room is its only close message: it is never    *)
(* closed before its players are given back, nor twice.                    *)
CloseIsLast ==
  \A k, l \in DOMAIN queue :
    k < l /\ queue[k].type = "close" => queue[l].id # queue[k].id

(* When the shutdown is over and the messages left are handled, no user is *)
(* counted in a game (onStop ends the games that are active).              *)
ShutdownReleases ==
  closing = "done" /\ queue = <<>> => \A u \in Jid : users_status[u].games_playing = 0

-----------------------------------------------------------------------------

Vacant(id) ==
  /\ id \in DOMAIN game_rooms
  /\ ~game_rooms[id].active
  /\ game_rooms[id].occupants = {} /\ game_rooms[id].inbox = <<>>

(* A room whose game is over is closed in the end, unless somebody comes   *)
(* in (checkTime, "to make sure the timer will stop for sure").            *)
VacantRoomsClose ==
  \A id \in GameId : Vacant(id) ~> ~Vacant(id)

(* A module that creates a game gets its jid, unless the server closes.    *)
CallsReturn ==
  \A c \in Module : calls[c].at = "counted" ~> (calls[c].at = "idle" \/ closing # "no")

(* "Closes the connection to the server" (ComponentBase::close).           *)
CloseFinishes == closing = "rooms" ~> closing = "done"

=============================================================================
