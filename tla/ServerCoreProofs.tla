--------------------------- MODULE ServerCoreProofs ---------------------------
(***************************************************************************)
(* Proofs about ServerCore, for any number of users, games, modules and    *)
(* rooms: the core implements GameRegistry, the close message of a room is *)
(* its last one, the shutdown gives all players back, and every game under *)
(* way has one room, which its jid and a search find.                      *)
(***************************************************************************)
EXTENDS ServerCore, FiniteSetTheorems, TLAPS

(* Types, of the variables the proofs are about.  That the ids stay below  *)
(* the number of games is left to TLC.                                     *)
AnyMessage ==
  [type : {"create"}, id : Nat, game : Game, by : Module]
    \cup [type : {"end"}, id : Nat, game : Game]
    \cup [type : {"close"}, id : Nat]

AnyCall == [at : {"idle", "counted", "numbered", "waiting", "posted"},
            game : Game \cup {NoGame}, id : Nat]

TypeInv ==
  /\ game_players \in [Game -> SUBSET Jid]
  /\ game_ids \in Nat
  /\ calls \in [Module -> AnyCall]
  /\ queue \in Seq(AnyMessage)
  /\ game_rooms \in [DOMAIN game_rooms -> GameRoom]

(* A call holds the players of its game until the message is executed.     *)
Creating(c) == calls[c].at \in {"counted", "numbered", "waiting"}

(* It has its own id from the moment it takes it.                          *)
HasId(c) == calls[c].at \in {"numbered", "waiting"}

CallInv ==
  \A c \in Module :
    /\ Creating(c) => /\ calls[c].game \in Game
                      /\ game_players[calls[c].game] # {}
                      /\ \A d \in Module \ {c} :
                           Creating(d) => calls[d].game # calls[c].game
                      /\ \A id \in DOMAIN game_rooms :
                           game_rooms[id].game # calls[c].game
    /\ HasId(c) => /\ calls[c].id < game_ids
                   /\ calls[c].id \notin DOMAIN game_rooms
                   /\ \A d \in Module \ {c} : HasId(d) => calls[d].id # calls[c].id

RoomInv ==
  \A id \in DOMAIN game_rooms :
    /\ id \in Nat /\ id < game_ids
    /\ game_players[game_rooms[id].game] # {}
    /\ \A other \in DOMAIN game_rooms \ {id} :
         game_rooms[other].game # game_rooms[id].game

(* A game is in one message at most, and when it is none but its call or   *)
(* nobody holds it; a close message is the last one of its room.           *)
SoundMessage(k) ==
  /\ queue[k].type = "create" =>
       /\ calls[queue[k].by].at = "waiting"
       /\ calls[queue[k].by].game = queue[k].game
       /\ calls[queue[k].by].id = queue[k].id
  /\ queue[k].type = "end" =>
       /\ game_players[queue[k].game] # {}
       /\ \A c \in Module : Creating(c) => calls[c].game # queue[k].game
       /\ \A id \in DOMAIN game_rooms :
            game_rooms[id].game = queue[k].game => ~game_rooms[id].active
  /\ queue[k].type # "close" => \A l \in 1..Len(queue) :
       l # k /\ queue[l].type # "close" => queue[l].game # queue[k].game
  /\ queue[k].type = "close" =>
       /\ queue[k].id < game_ids
       /\ queue[k].id \in DOMAIN game_rooms =>
            ~game_rooms[queue[k].id].active /\ ~game_rooms[queue[k].id].timer
       /\ \A c \in Module : HasId(c) => calls[c].id # queue[k].id
       /\ \A l \in 1..Len(queue) : l > k => queue[l].id # queue[k].id

MessageInv == \A k \in 1..Len(queue) : SoundMessage(k)

(* How far the shutdown is.                                                *)
CloseInv ==
  /\ closing \in {"no", "rooms", "modules", "clearing", "done"}
  /\ closing = "rooms" =>
       \A id \in DOMAIN game_rooms \ todo : ~game_rooms[id].active
  /\ closing \in {"modules", "clearing", "done"} => DOMAIN game_rooms = {}
  /\ closing = "clearing" => \A c \in Module \ todo : calls[c].at = "idle"
  /\ closing = "done" => \A c \in Module : calls[c].at = "idle"

GamesInv == TypeInv /\ CallInv /\ RoomInv /\ MessageInv

(* Until the server closes, an end message is about a room that is still   *)
(* there, the disco has a room while its game lives, and a call that has   *)
(* returned has the room of its game for as long.                          *)
RoomOf(id, g) == id \in DOMAIN game_rooms /\ game_rooms[id].game = g

EndsInv ==
  \A k \in 1..Len(queue) : queue[k].type = "end" => RoomOf(queue[k].id, queue[k].game)

Listed(g) ==
  \A id \in DOMAIN game_rooms :
    game_rooms[id].game = g => (id \in disco <=> Phase(g) = "live")

Posted(g) ==
  \A c \in Module : calls[c].at = "posted" /\ calls[c].game = g =>
    game_players[g] # {} /\ (Phase(g) = "live" => RoomOf(calls[c].id, g))

RegisteredInv ==
  /\ HandlersMatchRooms
  /\ closing = "no" =>
       /\ disco \subseteq DOMAIN game_rooms
       /\ EndsInv /\ \A g \in Game : Listed(g) /\ Posted(g)
       /\ \A c \in Module : calls[c].at = "posted" => calls[c].game \in Game

IInv == GamesInv /\ CloseInv

Held(g) == HeldByCall(g) \/ HeldByRoom(g) \/ HeldByMessage(g)

(* Nothing the registry knows of changes.                                  *)
SameRegistry ==
  UNCHANGED <<users_status, game_players>> /\ \A g \in Game : Held(g)' = Held(g)

-----------------------------------------------------------------------------
(* The queue.                                                              *)

(* The queue is a sequence of messages.                                    *)
LEMMA QueueShape ==
  ASSUME TypeInv
  PROVE  /\ Len(queue) \in Nat /\ DOMAIN queue = 1..Len(queue)
         /\ \A k \in 1..Len(queue) : queue[k] \in AnyMessage
BY DEF TypeInv

(* Taking the first message moves every other one by a place.              *)
LEMMA QueueTail ==
  ASSUME TypeInv, queue # <<>>, queue' = Tail(queue)
  PROVE  /\ Len(queue) \in Nat \ {0} /\ queue' \in Seq(AnyMessage)
         /\ Head(queue) = queue[1] /\ queue[1] \in AnyMessage
         /\ DOMAIN queue' = 1..Len(queue')
         /\ \A k \in 1..Len(queue') :
              k + 1 \in 1..Len(queue) /\ queue'[k] = queue[k + 1]
         /\ \A k \in 1..Len(queue) \ {1} :
              k - 1 \in 1..Len(queue') /\ queue'[k - 1] = queue[k]
BY DEF TypeInv

(* The places of a concatenation.                                          *)
LEMMA Concatenation ==
  ASSUME NEW S, NEW s \in Seq(S), NEW t \in Seq(S)
  PROVE  /\ s \o t \in Seq(S) /\ Len(s \o t) = Len(s) + Len(t)
         /\ \A k \in 1..Len(s \o t) :
              (s \o t)[k] = IF k <= Len(s) THEN s[k] ELSE t[k - Len(s)]
OBVIOUS

(* Messages that are queued go behind those that wait.                     *)
LEMMA QueueGrows ==
  ASSUME TypeInv, NEW more \in Seq(AnyMessage), queue' = queue \o more
  PROVE  /\ queue' \in Seq(AnyMessage) /\ Len(queue) \in Nat /\ Len(more) \in Nat
         /\ Len(queue') = Len(queue) + Len(more)
         /\ DOMAIN queue' = 1..Len(queue')
         /\ \A k \in 1..Len(queue) : k \in 1..Len(queue') /\ queue'[k] = queue[k]
         /\ \A k \in 1..Len(queue') \ 1..Len(queue) :
              k - Len(queue) \in 1..Len(more) /\ queue'[k] = more[k - Len(queue)]
         /\ \A k \in 1..Len(more) :
              Len(queue) + k \in 1..Len(queue') /\ queue'[Len(queue) + k] = more[k]
BY DEF TypeInv

-----------------------------------------------------------------------------
(* The thread of a room: a room ends its game, or is to be closed, or only *)
(* has other occupants and stanzas.                                        *)

Told(id, tells) ==
  (IF "end" \in tells THEN <<EndMessage(id)>> ELSE <<>>) \o
  (IF "close" \in tells THEN <<[type |-> "close", id |-> id]>> ELSE <<>>)

RoomStep(id, room, tells) ==
  /\ id \in DOMAIN game_rooms /\ room \in GameRoom
  /\ game_rooms' = [game_rooms EXCEPT ![id] = room]
  /\ room.game = game_rooms[id].game
  /\ room.active <=> game_rooms[id].active /\ "end" \notin tells
  /\ room.timer => game_rooms[id].timer
  /\ "end" \in tells => game_rooms[id].active
  /\ "close" \in tells => game_rooms[id].timer /\ ~room.timer /\ ~room.active
  /\ queue' = queue \o Told(id, tells)
  /\ UNCHANGED <<users_status, game_players, game_ids, calls>>

IsRoomStep(id) ==
  \E room \in GameRoom, tells \in SUBSET {"end", "close"} : RoomStep(id, room, tells)

(* At most an end message and then a close message are told.               *)
LEMMA ToldMessages ==
  ASSUME TypeInv, RoomInv, NEW id \in DOMAIN game_rooms,
         NEW tells \in SUBSET {"end", "close"}
  PROVE  LET told == Told(id, tells) IN
         /\ told \in Seq(AnyMessage)
         /\ \A k \in 1..Len(told) :
              \/ "end" \in tells /\ k = 1 /\ told[k] = EndMessage(id)
              \/ "close" \in tells /\ k = Len(told) /\ told[k] = [type |-> "close", id |-> id]
         /\ "end" \in tells => 1 \in 1..Len(told) /\ told[1] = EndMessage(id)
<1> DEFINE close == [type |-> "close", id |-> id]
<1>1. EndMessage(id) \in AnyMessage /\ close \in AnyMessage
  BY DEF TypeInv, RoomInv, EndMessage, AnyMessage, GameRoom
<1>2. CASE "end" \in tells /\ "close" \in tells
  <2>1. Told(id, tells) = <<EndMessage(id)>> \o <<close>>
    BY <1>2 DEF Told
  <2> QED BY <1>1, <1>2, <2>1, Concatenation
<1>3. CASE "end" \in tells /\ "close" \notin tells
  <2>1. Told(id, tells) = <<EndMessage(id)>>
    BY <1>3 DEF Told
  <2> QED BY <1>1, <1>3, <2>1
<1>4. CASE "end" \notin tells /\ "close" \in tells
  <2>1. Told(id, tells) = <<close>>
    BY <1>4 DEF Told
  <2> QED BY <1>1, <1>4, <2>1
<1>5. CASE "end" \notin tells /\ "close" \notin tells
  <2>1. Told(id, tells) = <<>>
    BY <1>5 DEF Told
  <2> QED BY <1>1, <1>5, <2>1
<1> QED BY <1>2, <1>3, <1>4, <1>5

(* A step of a room keeps the invariant, and the registry does not see it: *)
(* a game that ends is held by its message instead of its room.            *)
LEMMA RoomStepInv ==
  ASSUME GamesInv, NEW id, NEW room, NEW tells \in SUBSET {"end", "close"},
         RoomStep(id, room, tells)
  PROVE  GamesInv' /\ SameRegistry
<1> USE DEF GamesInv
<1> DEFINE told == Told(id, tells)
<1>1. /\ id \in DOMAIN game_rooms /\ room \in GameRoom
      /\ DOMAIN game_rooms' = DOMAIN game_rooms /\ game_rooms'[id] = room
      /\ \A other \in DOMAIN game_rooms \ {id} : game_rooms'[other] = game_rooms[other]
      /\ UNCHANGED <<users_status, game_players, game_ids, calls>>
  BY DEF RoomStep, TypeInv
<1>2. /\ room.game = game_rooms[id].game
      /\ room.active <=> game_rooms[id].active /\ "end" \notin tells
      /\ room.timer => game_rooms[id].timer
      /\ "end" \in tells => game_rooms[id].active
      /\ "close" \in tells => game_rooms[id].timer /\ ~room.timer /\ ~room.active
  BY DEF RoomStep
<1>3. /\ \A other \in DOMAIN game_rooms :
           /\ game_rooms'[other].game = game_rooms[other].game
           /\ game_rooms'[other].active =>
                game_rooms[other].active /\ ~("end" \in tells /\ other = id)
           /\ game_rooms[other].active =>
                game_rooms'[other].active \/ ("end" \in tells /\ other = id)
           /\ game_rooms'[other].timer =>
                game_rooms[other].timer /\ ~("close" \in tells /\ other = id)
      /\ "close" \in tells => ~game_rooms'[id].active
  <2>1. \A other \in DOMAIN game_rooms \ {id} : game_rooms'[other] = game_rooms[other]
    BY <1>1
  <2>2. /\ game_rooms'[id] = room
        /\ room.active \in BOOLEAN /\ game_rooms[id].active \in BOOLEAN
        /\ room.timer \in BOOLEAN /\ game_rooms[id].timer \in BOOLEAN
    BY <1>1 DEF TypeInv, GameRoom
  <2> QED BY <2>1, <2>2, <1>1, <1>2
<1>4. /\ told \in Seq(AnyMessage)
      /\ \A k \in 1..Len(told) :
           \/ "end" \in tells /\ k = 1 /\ told[k] = EndMessage(id)
           \/ "close" \in tells /\ k = Len(told) /\ told[k] = [type |-> "close", id |-> id]
      /\ "end" \in tells => 1 \in 1..Len(told) /\ told[1] = EndMessage(id)
  BY <1>1, ToldMessages
<1>5. queue' = queue \o told
  BY DEF RoomStep
<1> HIDE DEF told
<1>6. /\ queue' \in Seq(AnyMessage) /\ Len(queue) \in Nat /\ Len(told) \in Nat
      /\ Len(queue') = Len(queue) + Len(told) /\ DOMAIN queue' = 1..Len(queue')
      /\ \A k \in 1..Len(queue) : k \in 1..Len(queue') /\ queue'[k] = queue[k]
      /\ \A k \in 1..Len(queue') \ 1..Len(queue) :
           k - Len(queue) \in 1..Len(told) /\ queue'[k] = told[k - Len(queue)]
      /\ \A k \in 1..Len(told) :
           Len(queue) + k \in 1..Len(queue') /\ queue'[Len(queue) + k] = told[k]
  BY <1>4, <1>5, QueueGrows
<1>7. /\ EndMessage(id).type = "end" /\ EndMessage(id).id = id
      /\ EndMessage(id).game = game_rooms[id].game
  BY DEF EndMessage
<1>8. \A k \in 1..Len(queue') \ 1..Len(queue) :
        \/ "end" \in tells /\ k = Len(queue) + 1 /\ queue'[k] = EndMessage(id)
        \/ "close" \in tells /\ k = Len(queue') /\ queue'[k] = [type |-> "close", id |-> id]
  <2> TAKE k \in 1..Len(queue') \ 1..Len(queue)
  <2>1. /\ k - Len(queue) \in 1..Len(told) /\ queue'[k] = told[k - Len(queue)]
        /\ k \in Int
    BY <1>6
  <2>2. \/ "end" \in tells /\ k - Len(queue) = 1 /\ queue'[k] = EndMessage(id)
        \/ /\ "close" \in tells /\ k - Len(queue) = Len(told)
           /\ queue'[k] = [type |-> "close", id |-> id]
    BY <2>1, <1>4
  <2> QED BY <2>1, <2>2, <1>6
<1>9. TypeInv'
  BY <1>1, <1>6 DEF TypeInv, RoomStep
<1>10. CallInv'
  BY <1>1, <1>3 DEF CallInv, Creating, HasId
<1>11. RoomInv'
  BY <1>1, <1>3 DEF RoomInv
<1>12. \A l \in 1..Len(queue) :
         /\ "end" \in tells /\ queue[l].type # "close" => queue[l].game # game_rooms[id].game
         /\ ("end" \in tells \/ "close" \in tells) /\ queue[l].type = "close" => queue[l].id # id
         /\ queue[l].type \in {"create", "end", "close"}
         /\ queue[l].type = "create" => queue[l].by \in Module
  BY <1>1, <1>2, QueueShape DEF MessageInv, SoundMessage, CallInv, Creating, AnyMessage
<1>13. MessageInv'
  <2>1. ASSUME NEW k \in 1..Len(queue) PROVE SoundMessage(k)'
    <3>1. queue'[k] = queue[k]
      BY <1>6
    <3>2. queue[k].type # "close" => \A l \in 1..Len(queue') :
            l # k /\ queue'[l].type # "close" => queue'[l].game # queue[k].game
      BY <1>6, <1>7, <1>8, <1>12 DEF MessageInv, SoundMessage
    <3>3. queue[k].type = "close" =>
            \A l \in 1..Len(queue') : l > k => queue'[l].id # queue[k].id
      BY <1>6, <1>7, <1>8, <1>12 DEF MessageInv, SoundMessage
    <3> QED BY <3>1, <3>2, <3>3, <1>1, <1>3 DEF MessageInv, SoundMessage, Creating, HasId
  <2>2. ASSUME NEW k \in 1..Len(queue') \ 1..Len(queue), queue'[k] = EndMessage(id), "end" \in tells
        PROVE  SoundMessage(k)'
    <3>1. queue'[k].type = "end" /\ queue'[k].game = game_rooms[id].game
      BY <2>2, <1>7
    <3>2. \A l \in 1..Len(queue') :
            l # k /\ queue'[l].type # "close" => queue'[l].game # game_rooms[id].game
      BY <2>2, <1>6, <1>8, <1>12
    <3>3. \A other \in DOMAIN game_rooms :
            game_rooms'[other].game = game_rooms[id].game => ~game_rooms'[other].active
      BY <2>2, <1>1, <1>3 DEF RoomInv
    <3> QED BY <3>1, <3>2, <3>3, <1>1 DEF CallInv, RoomInv, SoundMessage, Creating
  <2>3. ASSUME NEW k \in 1..Len(queue') \ 1..Len(queue), k = Len(queue'), "close" \in tells,
               queue'[k] = [type |-> "close", id |-> id]
        PROVE  SoundMessage(k)'
    BY <2>3, <1>1, <1>2, <1>3, <1>6 DEF CallInv, RoomInv, SoundMessage, HasId
  <2>4. \A k \in 1..Len(queue') : SoundMessage(k)'
    BY <2>1, <2>2, <2>3, <1>8
  <2> QED BY <2>4 DEF MessageInv
<1>14. ASSUME NEW g \in Game PROVE Held(g)' = Held(g)
  <2>1. HeldByCall(g)' = HeldByCall(g)
    BY <1>1 DEF HeldByCall
  <2> DEFINE Ends == "end" \in tells /\ game_rooms[id].game = g
  <2>2. HeldByMessage(g) => HeldByMessage(g)'
    BY <1>6, QueueShape DEF HeldByMessage
  <2>3. HeldByMessage(g)' => HeldByMessage(g) \/ Ends
    <3> SUFFICES ASSUME NEW k \in 1..Len(queue'), queue'[k].type # "close",
                        queue'[k].game = g
                 PROVE  HeldByMessage(g) \/ Ends
      BY <1>6 DEF HeldByMessage
    <3>1. CASE k \in 1..Len(queue)
      BY <3>1, <1>6, QueueShape DEF HeldByMessage
    <3>2. CASE k \notin 1..Len(queue)
      BY <3>2, <1>7, <1>8
    <3> QED BY <3>1, <3>2
  <2>4. Ends => HeldByMessage(g)'
    <3> SUFFICES ASSUME Ends PROVE HeldByMessage(g)'
      OBVIOUS
    <3>1. /\ Len(queue) + 1 \in 1..Len(queue')
          /\ queue'[Len(queue) + 1] = EndMessage(id)
      BY <1>4, <1>6
    <3> QED BY <3>1, <1>6, <1>7 DEF HeldByMessage
  <2>5. /\ HeldByRoom(g)' => HeldByRoom(g)
        /\ HeldByRoom(g) => HeldByRoom(g)' \/ Ends
        /\ Ends => HeldByRoom(g)
    BY <1>1, <1>2, <1>3 DEF HeldByRoom
  <2> HIDE DEF Ends
  <2> QED BY <2>1, <2>2, <2>3, <2>4, <2>5 DEF Held
<1> QED BY <1>1, <1>9, <1>10, <1>11, <1>13, <1>14 DEF SameRegistry

-----------------------------------------------------------------------------
(* createGame in the thread of a module.                                   *)

(* What the registry sees: a game is new, live while it is held, or ended. *)
LEMMA SameGames ==
  ASSUME SameRegistry
  PROVE  UNCHANGED Registry!vars
<1>1. ASSUME NEW g \in Game PROVE Phase(g)' = Phase(g)
  BY <1>1 DEF SameRegistry, Phase, Held
<1> QED BY <1>1 DEF SameRegistry, Registry!vars

(* createGame counts the players of a game that is new.                    *)
LEMMA CountPlayersStep ==
  ASSUME GamesInv, NEW c \in Module, NEW g \in Game, NEW players \in Pair,
         CountPlayers(c, g, players)
  PROVE  GamesInv' /\ Registry!CreateGame(g, players)
<1> USE DEF GamesInv
<1>1. /\ calls[c].at = "idle" /\ game_players[g] = {}
      /\ game_players' = [game_players EXCEPT ![g] = players]
      /\ UNCHANGED <<game_ids, queue, game_rooms>>
  BY DEF CountPlayers, Rooms
<1>2. /\ calls' \in [Module -> AnyCall]
      /\ calls'[c].at = "counted" /\ calls'[c].game = g
      /\ \A d \in Module \ {c} : calls'[d] = calls[d]
  BY DEF CountPlayers, TypeInv, AnyCall
<1>3. players # {} /\ players \subseteq Jid
  BY FS_EmptySet DEF Pair
<1>4. /\ game_players' \in [Game -> SUBSET Jid] /\ game_players'[g] = players
      /\ \A h \in Game \ {g} : game_players'[h] = game_players[h]
  BY <1>1, <1>3 DEF TypeInv
<1>5. \A id \in DOMAIN game_rooms :
        game_rooms[id].game \in Game /\ game_rooms[id].game # g
  BY <1>1 DEF TypeInv, RoomInv, GameRoom
<1>6. \A d \in Module : Creating(d) => d # c /\ calls[d].game # g
  BY <1>1 DEF CallInv, Creating
<1>7. \A k \in 1..Len(queue) :
        /\ queue[k].type \in {"create", "end", "close"}
        /\ queue[k].type # "close" => queue[k].game \in Game /\ queue[k].game # g
        /\ queue[k].type = "create" => queue[k].by \in Module \ {c}
  BY <1>1, <1>6, QueueShape DEF MessageInv, SoundMessage, AnyMessage, Creating
<1>8. TypeInv'
  BY <1>1, <1>2, <1>4 DEF TypeInv
<1>9. CallInv'
  BY <1>1, <1>2, <1>3, <1>4, <1>5, <1>6 DEF CallInv, Creating, HasId
<1>10. RoomInv'
  BY <1>1, <1>4, <1>5 DEF RoomInv
<1>11. MessageInv'
  BY <1>1, <1>2, <1>4, <1>7 DEF MessageInv, SoundMessage, Creating, HasId
<1>12. Phase(g) = "new" /\ Phase(g)' = "live"
  BY <1>1, <1>2, <1>3, <1>4 DEF Phase, HeldByCall
<1>13. ASSUME NEW h \in Game \ {g} PROVE Phase(h)' = Phase(h)
  <2>1. HeldByCall(h)' = HeldByCall(h)
    BY <1>1, <1>2 DEF HeldByCall
  <2>2. HeldByRoom(h)' = HeldByRoom(h) /\ HeldByMessage(h)' = HeldByMessage(h)
    BY <1>1 DEF HeldByRoom, HeldByMessage
  <2> QED BY <2>1, <2>2, <1>4 DEF Phase
<1>14. /\ \A u \in players : CanPlay(users_status[u])
       /\ AddGames(players, 1)
  BY DEF CountPlayers
<1>15. Registry!CreateGame(g, players)
  BY <1>3, <1>4, <1>12, <1>13, <1>14
     DEF Registry!CreateGame, Registry!AllCanPlay, Registry!CanPlay, CanPlay,
         Registry!AddGames, AddGames
<1> QED BY <1>8, <1>9, <1>10, <1>11, <1>15

(* createGame takes an id, queues its message, and returns: the call holds *)
(* the game until the core has the room.                                   *)
LEMMA CallStepInv ==
  ASSUME GamesInv, NEW c \in Module, CallStep(c)
  PROVE  GamesInv' /\ SameRegistry
<1> USE DEF GamesInv
<1>1. CASE TakeId(c)
  <2>1. /\ calls[c].at = "counted" /\ game_ids' = game_ids + 1
        /\ UNCHANGED <<users_status, game_players, queue, game_rooms>>
    BY <1>1 DEF TakeId, Players, Rooms
  <2>2. /\ calls' \in [Module -> AnyCall]
        /\ calls'[c].at = "numbered" /\ calls'[c].game = calls[c].game
        /\ calls'[c].id = game_ids
        /\ \A d \in Module \ {c} : calls'[d] = calls[d]
    BY <1>1 DEF TakeId, TypeInv, AnyCall
  <2>3. TypeInv'
    BY <2>1, <2>2 DEF TypeInv
  <2>4. CallInv'
    <3>1. game_ids \in Nat /\ game_ids \notin DOMAIN game_rooms
      BY DEF TypeInv, RoomInv
    <3>2. \A d \in Module \ {c} : HasId(d)' =>
            /\ HasId(d) /\ calls[d].id \in Nat
            /\ calls[d].id < game_ids /\ calls[d].id # game_ids
      BY <2>2, <3>1 DEF CallInv, HasId, TypeInv, AnyCall
    <3>3. Creating(c) /\ \A d \in Module : Creating(d)' => Creating(d)
      BY <2>1, <2>2 DEF Creating
    <3>4. \A d \in Module : calls'[d].game = calls[d].game
      BY <2>2
    <3>5. \A d \in Module : HasId(d)' =>
            /\ calls'[d].id < game_ids'
            /\ calls'[d].id \notin DOMAIN game_rooms'
            /\ \A e \in Module \ {d} : HasId(e)' => calls'[e].id # calls'[d].id
      BY <2>1, <2>2, <3>1, <3>2 DEF CallInv
    <3>6. \A d \in Module : Creating(d)' =>
            /\ calls'[d].game \in Game
            /\ game_players'[calls'[d].game] # {}
            /\ \A e \in Module \ {d} : Creating(e)' => calls'[e].game # calls'[d].game
            /\ \A id \in DOMAIN game_rooms' : game_rooms'[id].game # calls'[d].game
      BY <2>1, <3>3, <3>4 DEF CallInv
    <3> QED BY <3>5, <3>6 DEF CallInv
  <2>5. RoomInv'
    BY <2>1 DEF RoomInv, TypeInv
  <2>6. MessageInv'
    <3>1. \A d \in Module : Creating(d)' => Creating(d) /\ calls'[d].game = calls[d].game
      BY <2>1, <2>2 DEF Creating
    <3>2. \A k \in 1..Len(queue) :
            /\ queue[k].type = "create" =>
                 calls'[queue[k].by] = calls[queue[k].by]
            /\ queue[k].type = "close" =>
                 /\ queue[k].id < game_ids'
                 /\ \A d \in Module : HasId(d)' => calls'[d].id # queue[k].id
      <4> TAKE k \in 1..Len(queue)
      <4>1. queue[k].type = "create" => queue[k].by \in Module \ {c}
        BY <2>1, QueueShape DEF MessageInv, SoundMessage, AnyMessage
      <4>2. queue[k].type = "close" =>
              /\ queue[k].id \in Nat /\ queue[k].id < game_ids
              /\ game_ids \in Nat
        BY QueueShape DEF MessageInv, SoundMessage, AnyMessage, TypeInv
      <4>3. \A d \in Module \ {c} : HasId(d)' => HasId(d) /\ calls'[d].id = calls[d].id
        BY <2>2 DEF HasId
      <4> QED BY <2>1, <2>2, <4>1, <4>2, <4>3 DEF MessageInv, SoundMessage
    <3> QED BY <2>1, <3>1, <3>2 DEF MessageInv, SoundMessage
  <2>7. \A g \in Game : Held(g)' = Held(g)
    BY <2>1, <2>2 DEF Held, HeldByCall, HeldByRoom, HeldByMessage
  <2> QED BY <2>1, <2>3, <2>4, <2>5, <2>6, <2>7 DEF SameRegistry
<1>2. CASE ExecCreate(c)
  <2> DEFINE m == CreateMessage(c)
  <2>1. /\ calls[c].at = "numbered" /\ queue' = queue \o <<m>>
        /\ UNCHANGED <<users_status, game_players, game_ids, game_rooms>>
    BY <1>2 DEF ExecCreate, Players, Rooms, TypeInv
  <2>2. /\ calls' \in [Module -> AnyCall]
        /\ calls'[c].at = "waiting" /\ calls'[c].game = calls[c].game
        /\ calls'[c].id = calls[c].id
        /\ \A d \in Module \ {c} : calls'[d] = calls[d]
    BY <1>2 DEF ExecCreate, TypeInv, AnyCall
  <2>3. /\ m \in AnyMessage /\ m.type = "create" /\ m.by = c
        /\ m.game = calls[c].game /\ m.id = calls[c].id
    BY <2>1 DEF CreateMessage, CallInv, Creating, TypeInv, AnyCall, AnyMessage
  <2> HIDE DEF m
  <2>4. /\ queue' \in Seq(AnyMessage) /\ Len(queue) \in Nat
        /\ Len(queue') = Len(queue) + 1 /\ DOMAIN queue' = 1..Len(queue')
        /\ queue'[Len(queue) + 1] = m
        /\ \A k \in 1..Len(queue) : k \in 1..Len(queue') /\ queue'[k] = queue[k]
    BY <2>1, <2>3 DEF TypeInv
  <2>5. TypeInv'
    BY <2>1, <2>2, <2>4 DEF TypeInv
  <2>6. CallInv'
    BY <2>1, <2>2 DEF CallInv, Creating, HasId
  <2>7. RoomInv'
    BY <2>1 DEF RoomInv
  <2>8. MessageInv'
    <3>1. /\ \A d \in Module : Creating(d)' <=> Creating(d)
          /\ \A d \in Module : HasId(d)' <=> HasId(d)
          /\ \A d \in Module : calls'[d].game = calls[d].game /\ calls'[d].id = calls[d].id
          /\ Creating(c) /\ HasId(c)
      BY <2>1, <2>2 DEF Creating, HasId
    <3>2. \A k \in 1..Len(queue) :
            /\ queue[k].type \in {"create", "end", "close"}
            /\ queue[k].type = "create" =>
                 /\ queue[k].by \in Module \ {c}
                 /\ Creating(queue[k].by) /\ queue[k].game = calls[queue[k].by].game
            /\ queue[k].type # "close" => queue[k].game # calls[c].game
            /\ queue[k].type = "close" => queue[k].id # calls[c].id
      BY <2>1, <3>1, QueueShape DEF MessageInv, SoundMessage, CallInv, AnyMessage, Creating
    <3>3. \A k \in 1..Len(queue') : k \in 1..Len(queue) \/ (k = Len(queue) + 1 /\ queue'[k] = m)
      BY <2>4
    <3>4. ASSUME NEW k \in 1..Len(queue), NEW l \in 1..Len(queue')
          PROVE  /\ l # k /\ queue[k].type # "close" /\ queue'[l].type # "close" =>
                      queue'[l].game # queue[k].game
                 /\ l > k /\ queue[k].type = "close" => queue'[l].id # queue[k].id
      BY <2>3, <2>4, <3>2, <3>3 DEF MessageInv, SoundMessage
    <3>5. ASSUME NEW l \in 1..Len(queue'), l # Len(queue) + 1, queue'[l].type # "close"
          PROVE  queue'[l].game # m.game
      BY <2>3, <2>4, <3>2, <3>3, <3>5
    <3>6. \A k \in 1..Len(queue) : queue[k].type = "create" =>
            calls'[queue[k].by] = calls[queue[k].by]
      BY <2>2, <3>2
    <3>7. ASSUME NEW k \in 1..Len(queue) PROVE SoundMessage(k)'
      BY <2>1, <2>4, <3>1, <3>4, <3>6 DEF MessageInv, SoundMessage
    <3>8. ASSUME NEW k \in 1..Len(queue'), k = Len(queue) + 1 PROVE SoundMessage(k)'
      <4>1. \A l \in 1..Len(queue') : l # k /\ queue'[l].type # "close" =>
              queue'[l].game # m.game
        BY <3>5, <3>8
      <4> QED BY <2>2, <2>3, <2>4, <3>8, <4>1 DEF SoundMessage
    <3> QED BY <3>3, <3>7, <3>8 DEF MessageInv
  <2>9. ASSUME NEW g \in Game PROVE Held(g)' = Held(g)
    <3>1. HeldByCall(g)' = HeldByCall(g) /\ HeldByRoom(g)' = HeldByRoom(g)
      BY <2>1, <2>2 DEF HeldByCall, HeldByRoom
    <3>2. m.game = g => HeldByCall(g)
      BY <2>1, <2>3 DEF HeldByCall
    <3>3. HeldByMessage(g) => HeldByMessage(g)'
      BY <2>4, QueueShape DEF HeldByMessage
    <3>4. HeldByMessage(g)' => HeldByMessage(g) \/ m.game = g
      BY <2>4, QueueShape DEF HeldByMessage
    <3> QED BY <3>1, <3>2, <3>3, <3>4 DEF Held
  <2> QED BY <2>1, <2>5, <2>6, <2>7, <2>8, <2>9 DEF SameRegistry
<1>3. CASE ReturnGame(c)
  <2>1. /\ calls[c].at = "posted"
        /\ UNCHANGED <<users_status, game_players, game_ids, queue, game_rooms>>
    BY <1>3 DEF ReturnGame, Players, Rooms
  <2>2. /\ calls' \in [Module -> AnyCall] /\ calls'[c].at = "idle"
        /\ \A d \in Module \ {c} : calls'[d] = calls[d]
    BY <1>3 DEF ReturnGame, TypeInv, AnyCall, Idle
  <2>3. TypeInv' /\ RoomInv'
    BY <2>1, <2>2 DEF TypeInv, RoomInv
  <2>4. CallInv'
    BY <2>1, <2>2 DEF CallInv, Creating, HasId
  <2>5. MessageInv'
    BY <2>1, <2>2, QueueShape DEF MessageInv, SoundMessage, Creating, HasId, AnyMessage
  <2>6. \A g \in Game : Held(g)' = Held(g)
    BY <2>1, <2>2 DEF Held, HeldByCall, HeldByRoom, HeldByMessage
  <2> QED BY <2>1, <2>3, <2>4, <2>5, <2>6 DEF SameRegistry
<1> QED BY <1>1, <1>2, <1>3 DEF CallStep

-----------------------------------------------------------------------------
(* The messages of the core.                                               *)

(* _createGame hands the game over from the call to the room.              *)
LEMMA HandleCreateInv ==
  ASSUME GamesInv, HandleCreate
  PROVE  GamesInv' /\ SameRegistry
<1> USE DEF GamesInv
<1> DEFINE m == Head(queue)
<1>1. /\ queue # <<>> /\ m.type = "create" /\ queue' = Tail(queue)
      /\ game_rooms' = [i \in DOMAIN game_rooms \cup {m.id} |->
           IF i \in DOMAIN game_rooms THEN game_rooms[i] ELSE NewRoom(m.game)]
      /\ UNCHANGED <<users_status, game_players, game_ids>>
  BY DEF HandleCreate, Receive, Players
<1>2. /\ Len(queue) \in Nat \ {0} /\ queue' \in Seq(AnyMessage)
      /\ m = queue[1] /\ m \in AnyMessage /\ DOMAIN queue' = 1..Len(queue')
      /\ \A k \in 1..Len(queue') :
           k + 1 \in 1..Len(queue) \ {1} /\ queue'[k] = queue[k + 1]
      /\ \A k \in 1..Len(queue) \ {1} :
           k - 1 \in 1..Len(queue') /\ queue'[k - 1] = queue[k]
  BY <1>1, QueueTail
<1> DEFINE c == m.by
<1>3. /\ c \in Module /\ m.game \in Game /\ m.id \in Nat
      /\ calls[c].at = "waiting" /\ calls[c].game = m.game /\ calls[c].id = m.id
      /\ \A k \in 1..Len(queue) \ {1} :
           queue[k].type # "close" => queue[k].game # m.game
  BY <1>1, <1>2 DEF AnyMessage, MessageInv, SoundMessage
<1>4. /\ calls' \in [Module -> AnyCall] /\ calls'[c].at = "posted"
      /\ calls'[c].game = calls[c].game
      /\ \A d \in Module \ {c} : calls'[d] = calls[d]
  BY <1>3 DEF HandleCreate, TypeInv, AnyCall
<1>5. /\ m.id < game_ids /\ m.id \notin DOMAIN game_rooms
      /\ game_players[m.game] # {}
      /\ \A d \in Module \ {c} : /\ Creating(d) => calls[d].game # m.game
                                 /\ HasId(d) => calls[d].id # m.id
      /\ \A id \in DOMAIN game_rooms : game_rooms[id].game # m.game
  BY <1>3 DEF CallInv, Creating, HasId
<1> DEFINE room == NewRoom(m.game)
<1>6. /\ room \in GameRoom /\ room.game = m.game /\ room.active = TRUE
  BY <1>3 DEF NewRoom, GameRoom
<1> HIDE DEF room, c, m
<1>7. /\ DOMAIN game_rooms' = DOMAIN game_rooms \cup {m.id} /\ game_rooms'[m.id] = room
      /\ \A id \in DOMAIN game_rooms : game_rooms'[id] = game_rooms[id]
      /\ game_rooms' \in [DOMAIN game_rooms' -> GameRoom]
  BY <1>1, <1>5, <1>6 DEF TypeInv, room
<1>8. /\ \A d \in Module : Creating(d)' <=> Creating(d) /\ d # c
      /\ \A d \in Module : HasId(d)' <=> HasId(d) /\ d # c
      /\ \A d \in Module : calls'[d].game = calls[d].game
  BY <1>3, <1>4 DEF Creating, HasId
<1>9. TypeInv'
  BY <1>1, <1>2, <1>4, <1>7 DEF TypeInv
<1>10. CallInv'
  BY <1>1, <1>4, <1>5, <1>6, <1>7, <1>8 DEF CallInv
<1>11. RoomInv'
  BY <1>1, <1>3, <1>5, <1>6, <1>7 DEF RoomInv
<1>12. MessageInv'
  <2> SUFFICES ASSUME NEW k \in 1..Len(queue') PROVE SoundMessage(k)'
    BY DEF MessageInv
  <2>1. /\ k + 1 \in 1..Len(queue) /\ k + 1 # 1 /\ queue'[k] = queue[k + 1]
        /\ SoundMessage(k + 1)
    BY <1>2 DEF MessageInv
  <2>3. queue'[k].type = "create" => queue'[k].by \in Module \ {c}
    BY <2>1, <1>3, QueueShape DEF SoundMessage, AnyMessage
  <2>4. queue'[k].type = "end" => queue'[k].game # m.game
    BY <2>1, <1>3
  <2>5. queue'[k].type = "close" => queue'[k].id # m.id
    BY <2>1, <1>3 DEF SoundMessage, HasId
  <2>6. queue'[k].type = "create" => calls'[queue'[k].by] = calls[queue'[k].by]
    BY <2>3, <1>4
  <2>7. queue'[k].type = "end" => \A id \in DOMAIN game_rooms' :
          game_rooms'[id].game = queue'[k].game => ~game_rooms'[id].active
    BY <2>1, <2>4, <1>6, <1>7 DEF SoundMessage
  <2>8. queue'[k].type = "end" => \A d \in Module : Creating(d)' => calls'[d].game # queue'[k].game
    BY <2>1, <1>8 DEF SoundMessage
  <2>9. queue'[k].type = "close" =>
          /\ queue'[k].id \in DOMAIN game_rooms' =>
               ~game_rooms'[queue'[k].id].active /\ ~game_rooms'[queue'[k].id].timer
          /\ \A d \in Module : HasId(d)' => calls'[d].id # queue'[k].id
    BY <2>1, <2>5, <1>4, <1>7, <1>8 DEF SoundMessage
  <2>10. queue'[k].type = "create" =>
           /\ calls'[queue'[k].by].at = "waiting"
           /\ calls'[queue'[k].by].game = queue'[k].game
           /\ calls'[queue'[k].by].id = queue'[k].id
    BY <2>1, <2>6 DEF SoundMessage
  <2>11. /\ queue'[k].type # "close" => \A l \in 1..Len(queue') :
              l # k /\ queue'[l].type # "close" => queue'[l].game # queue'[k].game
         /\ queue'[k].type = "close" =>
              \A l \in 1..Len(queue') : l > k => queue'[l].id # queue'[k].id
    <3>1. \A l \in 1..Len(queue') : l + 1 \in 1..Len(queue) /\ queue'[l] = queue[l + 1]
      BY <1>2
    <3>2. \A l \in 1..Len(queue') : (l # k => l + 1 # k + 1) /\ (l > k => l + 1 > k + 1)
      OBVIOUS
    <3>3. queue[k + 1].type # "close" => \A l \in 1..Len(queue') :
            l # k /\ queue'[l].type # "close" => queue'[l].game # queue[k + 1].game
      BY <2>1, <3>1, <3>2 DEF SoundMessage
    <3>4. queue[k + 1].type = "close" =>
            \A l \in 1..Len(queue') : l > k => queue'[l].id # queue[k + 1].id
      BY <2>1, <3>1, <3>2 DEF SoundMessage
    <3> QED BY <3>3, <3>4, <2>1
  <2>12. /\ queue'[k].type = "end" => game_players'[queue'[k].game] # {}
         /\ queue'[k].type = "close" => queue'[k].id < game_ids'
    BY <2>1, <1>1 DEF SoundMessage
  <2> QED BY <2>7, <2>8, <2>9, <2>10, <2>11, <2>12 DEF SoundMessage
<1>13. ASSUME NEW g \in Game PROVE Held(g)' = Held(g)
  <2>1. HeldByCall(g) <=> HeldByCall(g)' \/ m.game = g
    BY <1>3, <1>4 DEF HeldByCall
  <2>2. HeldByRoom(g)' <=> HeldByRoom(g) \/ m.game = g
    BY <1>5, <1>6, <1>7 DEF HeldByRoom
  <2>3. HeldByMessage(g)' => HeldByMessage(g)
    BY <1>2, QueueShape DEF HeldByMessage
  <2>4. HeldByMessage(g) => HeldByMessage(g)' \/ m.game = g
    BY <1>2, QueueShape DEF HeldByMessage
  <2> QED BY <2>1, <2>2, <2>3, <2>4 DEF Held
<1> QED BY <1>1, <1>9, <1>10, <1>11, <1>12, <1>13 DEF SameRegistry

(* _closeGame deletes a room that holds nothing.                           *)
LEMMA HandleCloseInv ==
  ASSUME GamesInv, HandleClose
  PROVE  GamesInv' /\ SameRegistry
<1> USE DEF GamesInv
<1> DEFINE m == Head(queue)
<1>1. /\ queue # <<>> /\ m.type = "close" /\ queue' = Tail(queue)
      /\ game_rooms' = [i \in DOMAIN game_rooms \ {m.id} |-> game_rooms[i]]
      /\ UNCHANGED <<users_status, game_players, game_ids, calls>>
  BY DEF HandleClose, Receive, Players
<1>2. /\ Len(queue) \in Nat \ {0} /\ queue' \in Seq(AnyMessage)
      /\ m = queue[1] /\ DOMAIN queue' = 1..Len(queue')
      /\ \A k \in 1..Len(queue') :
           k + 1 \in 1..Len(queue) \ {1} /\ queue'[k] = queue[k + 1]
      /\ \A k \in 1..Len(queue) \ {1} :
           k - 1 \in 1..Len(queue') /\ queue'[k - 1] = queue[k]
  BY <1>1, QueueTail
<1>3. m.id \in DOMAIN game_rooms => ~game_rooms[m.id].active
  BY <1>1, <1>2 DEF MessageInv, SoundMessage
<1> HIDE DEF m
<1>4. /\ DOMAIN game_rooms' = DOMAIN game_rooms \ {m.id}
      /\ \A id \in DOMAIN game_rooms' : game_rooms'[id] = game_rooms[id]
      /\ game_rooms' \in [DOMAIN game_rooms' -> GameRoom]
  BY <1>1 DEF TypeInv
<1>5. TypeInv'
  BY <1>1, <1>2, <1>4 DEF TypeInv
<1>6. CallInv'
  BY <1>1, <1>4 DEF CallInv, Creating, HasId
<1>7. RoomInv'
  BY <1>1, <1>4 DEF RoomInv
<1>8. MessageInv'
  <2> SUFFICES ASSUME NEW k \in 1..Len(queue') PROVE SoundMessage(k)'
    BY DEF MessageInv
  <2>1. /\ k + 1 \in 1..Len(queue) /\ queue'[k] = queue[k + 1] /\ SoundMessage(k + 1)
    BY <1>2 DEF MessageInv
  <2>2. \A l \in 1..Len(queue') :
          /\ l + 1 \in 1..Len(queue) /\ queue'[l] = queue[l + 1]
          /\ l # k => l + 1 # k + 1
          /\ l > k => l + 1 > k + 1
    BY <1>2
  <2> QED BY <2>1, <2>2, <1>1, <1>4 DEF SoundMessage, Creating, HasId
<1>9. ASSUME NEW g \in Game PROVE Held(g)' = Held(g)
  <2>1. HeldByCall(g)' = HeldByCall(g)
    BY <1>1 DEF HeldByCall
  <2>2. HeldByRoom(g)' <=> HeldByRoom(g)
    BY <1>3, <1>4 DEF HeldByRoom
  <2>3. HeldByMessage(g)' => HeldByMessage(g)
    BY <1>2, QueueShape DEF HeldByMessage
  <2>4. HeldByMessage(g) => HeldByMessage(g)'
    <3> SUFFICES ASSUME NEW k \in 1..Len(queue), queue[k].type # "close",
                        queue[k].game = g
                 PROVE  HeldByMessage(g)'
      BY QueueShape DEF HeldByMessage
    <3>1. k - 1 \in 1..Len(queue') /\ queue'[k - 1] = queue[k]
      BY <1>1, <1>2
    <3> QED BY <3>1, <1>2 DEF HeldByMessage
  <2> QED BY <2>1, <2>2, <2>3, <2>4 DEF Held
<1> QED BY <1>1, <1>5, <1>6, <1>7, <1>8, <1>9 DEF SameRegistry

(* _endGame takes the game from its players, and nobody else does.         *)
LEMMA HandleEndStep ==
  ASSUME GamesInv, HandleEnd
  PROVE  /\ GamesInv' /\ \E g \in Game : Registry!EndGame(g)
         /\ \A g \in Game : Phase(g)' = IF g = Head(queue).game THEN "ended" ELSE Phase(g)
<1> USE DEF GamesInv
<1> DEFINE m == Head(queue)
<1>1. /\ queue # <<>> /\ m.type = "end" /\ queue' = Tail(queue)
      /\ AddGames(game_players[m.game], -1)
      /\ UNCHANGED <<game_players, game_ids, calls, game_rooms>>
  BY DEF HandleEnd, Receive
<1>2. /\ Len(queue) \in Nat \ {0} /\ queue' \in Seq(AnyMessage)
      /\ m = queue[1] /\ m \in AnyMessage /\ DOMAIN queue' = 1..Len(queue')
      /\ \A k \in 1..Len(queue') :
           k + 1 \in 1..Len(queue) \ {1} /\ queue'[k] = queue[k + 1]
      /\ \A k \in 1..Len(queue) \ {1} :
           k - 1 \in 1..Len(queue') /\ queue'[k - 1] = queue[k]
  BY <1>1, QueueTail
<1>3. /\ m.game \in Game /\ game_players[m.game] # {}
      /\ \A c \in Module : Creating(c) => calls[c].game # m.game
      /\ \A id \in DOMAIN game_rooms :
           game_rooms[id].game = m.game => ~game_rooms[id].active
      /\ \A k \in 1..Len(queue) \ {1} :
           queue[k].type # "close" => queue[k].game # m.game
  BY <1>1, <1>2 DEF AnyMessage, MessageInv, SoundMessage
<1> HIDE DEF m
<1>4. TypeInv' /\ CallInv' /\ RoomInv'
  BY <1>1, <1>2 DEF TypeInv, CallInv, RoomInv, Creating, HasId
<1>5. MessageInv'
  <2> SUFFICES ASSUME NEW k \in 1..Len(queue') PROVE SoundMessage(k)'
    BY DEF MessageInv
  <2>1. /\ k + 1 \in 1..Len(queue) /\ queue'[k] = queue[k + 1] /\ SoundMessage(k + 1)
    BY <1>2 DEF MessageInv
  <2>2. \A l \in 1..Len(queue') :
          /\ l + 1 \in 1..Len(queue) /\ queue'[l] = queue[l + 1]
          /\ l # k => l + 1 # k + 1
          /\ l > k => l + 1 > k + 1
    BY <1>2
  <2> QED BY <2>1, <2>2, <1>1 DEF SoundMessage, Creating, HasId
<1>6. Phase(m.game) = "live"
  BY <1>1, <1>2, <1>3, QueueShape DEF Phase, HeldByMessage
<1>7. /\ ~HeldByCall(m.game) /\ ~HeldByRoom(m.game)
      /\ \A k \in DOMAIN queue' : queue'[k].type # "close" => queue'[k].game # m.game
  BY <1>2, <1>3 DEF HeldByCall, HeldByRoom, Creating, TypeInv, AnyCall
<1>8. \A g \in Game : Phase(g)' = IF g = m.game THEN "ended" ELSE Phase(g)
  <2>1. ASSUME NEW g \in Game, g = m.game PROVE Phase(g)' = "ended"
    BY <2>1, <1>1, <1>3, <1>7 DEF Phase, HeldByCall, HeldByRoom, HeldByMessage
  <2>2. ASSUME NEW g \in Game, g # m.game PROVE Phase(g)' = Phase(g)
    <3>1. HeldByCall(g)' = HeldByCall(g) /\ HeldByRoom(g)' = HeldByRoom(g)
      BY <1>1 DEF HeldByCall, HeldByRoom
    <3>2. HeldByMessage(g)' => HeldByMessage(g)
      BY <1>2, QueueShape DEF HeldByMessage
    <3>3. HeldByMessage(g) => HeldByMessage(g)'
      BY <2>2, <1>2, QueueShape DEF HeldByMessage
    <3> QED BY <3>1, <3>2, <3>3, <1>1 DEF Phase
  <2> QED BY <2>1, <2>2
<1>9. Registry!EndGame(m.game)
  BY <1>1, <1>3, <1>6, <1>8 DEF Registry!EndGame, Registry!AddGames, AddGames
<1> QED BY <1>3, <1>4, <1>5, <1>8, <1>9 DEF Registry!EndGame, m

(* A presence changes neither the games nor who holds them.                *)
LEMMA PresenceStep ==
  ASSUME GamesInv, NEW u \in Jid, NEW available \in BOOLEAN, NEW multigame \in BOOLEAN,
         HandlePresence(u, available, multigame)
  PROVE  GamesInv' /\ Registry!SetPresence(u, available, multigame)
<1> USE DEF GamesInv
<1>1. UNCHANGED <<game_players, game_ids, calls, queue, game_rooms>>
  BY DEF HandlePresence, Rooms
<1>2. TypeInv' /\ CallInv' /\ RoomInv'
  BY <1>1 DEF TypeInv, CallInv, RoomInv, Creating, HasId
<1>3. MessageInv'
  BY <1>1 DEF MessageInv, SoundMessage, Creating, HasId
<1>4. \A g \in Game : Phase(g)' = Phase(g)
  BY <1>1 DEF Phase, HeldByCall, HeldByRoom, HeldByMessage
<1>5. Registry!SetPresence(u, available, multigame)
  BY <1>1, <1>4 DEF HandlePresence, Registry!SetPresence
<1> QED BY <1>2, <1>3, <1>5

(* The stanzas, the end of a game and the timer are steps of a room.       *)
LEMMA RoomThread ==
  ASSUME GamesInv, NEW id \in GameId,
         \/ RoomHandleStanza(id) \/ EndActiveGame(id)
         \/ \E type \in {"join", "leave"}, user \in Visitor : RouteToRoom(id, type, user)
  PROVE  GamesInv' /\ SameRegistry /\ IsRoomStep(id)
<1> USE DEF GamesInv
<1> DEFINE r == game_rooms[id]
<1>1. id \in DOMAIN game_rooms /\ r \in GameRoom
  BY DEF TypeInv, RoomHandleStanza, EndActiveGame, RouteToRoom
<1>2. Told(id, {}) = <<>> /\ queue \o <<>> = queue
  BY DEF Told, TypeInv
<1>3. Told(id, {"end"}) = <<EndMessage(id)>>
  BY DEF Told
<1>4. CASE RoomHandleStanza(id)
  <2> DEFINE stanza == Head(r.inbox)
             room == [r EXCEPT !.inbox = Tail(@),
                        !.occupants = IF stanza.type = "join" THEN @ \cup {stanza.user}
                                      ELSE @ \ {stanza.user}]
  <2>1. r.inbox \in Seq(RoomStanza) /\ r.inbox # <<>>
    BY <1>1, <1>4 DEF RoomHandleStanza, GameRoom
  <2>2. stanza \in RoomStanza /\ Tail(r.inbox) \in Seq(RoomStanza)
    BY <2>1
  <2>3. room \in GameRoom /\ room.game = r.game /\ room.active = r.active /\ room.timer = r.timer
    BY <1>1, <2>2 DEF GameRoom, RoomStanza
  <2>4. game_rooms' = [game_rooms EXCEPT ![id] = room]
    BY <1>1, <1>4 DEF RoomHandleStanza
  <2>5. RoomStep(id, room, {})
    BY <1>1, <1>2, <1>4, <2>3, <2>4 DEF RoomStep, RoomHandleStanza, Players
  <2> QED BY <2>3, <2>5, RoomStepInv DEF IsRoomStep
<1>5. CASE EndActiveGame(id)
  <2> DEFINE room == [r EXCEPT !.active = FALSE]
  <2>1. /\ room \in GameRoom /\ room.game = r.game /\ room.active = FALSE
        /\ room.timer = r.timer
    BY <1>1 DEF GameRoom
  <2>2. game_rooms' = [game_rooms EXCEPT ![id] = room] /\ r.active
    BY <1>1, <1>5 DEF EndActiveGame
  <2>3. queue' = queue \o <<EndMessage(id)>>
    BY <1>5 DEF EndActiveGame, TypeInv
  <2>4. RoomStep(id, room, {"end"})
    BY <1>1, <1>3, <1>5, <2>1, <2>2, <2>3 DEF RoomStep, EndActiveGame, Players
  <2> QED BY <2>1, <2>4, RoomStepInv DEF IsRoomStep
<1>6. CASE \E type \in {"join", "leave"}, user \in Visitor : RouteToRoom(id, type, user)
  <2> PICK type \in {"join", "leave"}, user \in Visitor : RouteToRoom(id, type, user)
    BY <1>6
  <2> DEFINE room == [r EXCEPT !.inbox = Append(@, [type |-> type, user |-> user])]
  <2>1. room \in GameRoom /\ room.game = r.game /\ room.active = r.active /\ room.timer = r.timer
    <3>1. r.inbox \in Seq(RoomStanza) /\ [type |-> type, user |-> user] \in RoomStanza
      BY <1>1 DEF GameRoom, RoomStanza
    <3>2. Append(r.inbox, [type |-> type, user |-> user]) \in Seq(RoomStanza)
      BY <3>1
    <3> QED BY <1>1, <3>2 DEF GameRoom
  <2>2. game_rooms' = [game_rooms EXCEPT ![id] = room]
    BY <1>1 DEF RouteToRoom
  <2>3. RoomStep(id, room, {})
    BY <1>1, <1>2, <2>1, <2>2 DEF RoomStep, RouteToRoom, Players
  <2> QED BY <2>1, <2>3, RoomStepInv DEF IsRoomStep
<1> QED BY <1>4, <1>5, <1>6

(* So is checkTime, which ends the game, has the room closed, or both.     *)
LEMMA CheckTimeInv ==
  ASSUME GamesInv, NEW id \in GameId, NEW over \in BOOLEAN, CheckTime(id, over)
  PROVE  GamesInv' /\ SameRegistry /\ IsRoomStep(id)
<1> DEFINE r == game_rooms[id]
           close == (r.active => over) /\ r.occupants = {}
           tells == (IF over THEN {"end"} ELSE {})
                      \cup (IF close THEN {"close"} ELSE {})
           room == [r EXCEPT !.active = @ /\ ~over,
                             !.timer = (r.active /\ ~over) \/ r.occupants # {}]
<1>1. /\ id \in DOMAIN game_rooms /\ r \in GameRoom /\ r.timer /\ (over => r.active)
      /\ game_rooms' = [game_rooms EXCEPT ![id] = room]
  BY DEF GamesInv, TypeInv, CheckTime, CheckingTime
<1>2. /\ tells \in SUBSET {"end", "close"}
      /\ "end" \in tells <=> over
      /\ "close" \in tells <=> close
  OBVIOUS
<1>3. /\ room \in GameRoom /\ room.game = r.game
      /\ room.active <=> r.active /\ ~over
      /\ room.timer <=> (r.active /\ ~over) \/ r.occupants # {}
  BY <1>1 DEF GameRoom
<1>4. TimeMessages(id, over) = Told(id, tells)
  BY <1>2 DEF TimeMessages, Told
<1>5. /\ queue' = queue \o TimeMessages(id, over)
      /\ UNCHANGED <<users_status, game_players, game_ids, calls>>
  BY DEF CheckTime, Players
<1> HIDE DEF room, tells
<1>6. RoomStep(id, room, tells)
  BY <1>1, <1>2, <1>3, <1>4, <1>5 DEF RoomStep
<1> QED BY <1>2, <1>3, <1>6, RoomStepInv DEF IsRoomStep

-----------------------------------------------------------------------------
(* The shutdown.                                                           *)

(* onStop ends the game of the room, once.                                 *)
LEMMA StopRoomInv ==
  ASSUME GamesInv, NEW id \in DOMAIN game_rooms, StopRoom(id)
  PROVE  GamesInv' /\ SameRegistry
<1> DEFINE r == game_rooms[id]
           tells == IF r.active THEN {"end"} ELSE {}
           room == [r EXCEPT !.active = FALSE, !.occupants = {}]
<1>1. r \in GameRoom /\ game_rooms' = [game_rooms EXCEPT ![id] = room]
  BY DEF GamesInv, TypeInv, StopRoom
<1>2. /\ room \in GameRoom /\ room.game = r.game /\ room.active = FALSE
      /\ room.timer = r.timer
  BY <1>1 DEF GameRoom
<1>3. queue' = queue \o Told(id, tells)
  <2>1. CASE r.active
    <3>1. Told(id, tells) = <<EndMessage(id)>>
      BY <2>1 DEF Told
    <3>2. queue' = Append(queue, EndMessage(id)) /\ queue \in Seq(AnyMessage)
      BY <2>1 DEF StopRoom, GamesInv, TypeInv
    <3>3. queue' = queue \o <<EndMessage(id)>>
      BY <3>2
    <3> QED BY <3>1, <3>3
  <2>2. CASE ~r.active
    <3>1. Told(id, tells) = <<>>
      BY <2>2 DEF Told
    <3>2. queue' = queue /\ queue \in Seq(AnyMessage)
      BY <2>2 DEF StopRoom, GamesInv, TypeInv
    <3> QED BY <3>1, <3>2
  <2> QED BY <2>1, <2>2
<1>4. tells \in SUBSET {"end", "close"} /\ "close" \notin tells /\ ("end" \in tells <=> r.active)
  OBVIOUS
<1>5. UNCHANGED <<users_status, game_players, game_ids, calls>>
  BY DEF StopRoom, Players
<1> HIDE DEF room, tells
<1>6. RoomStep(id, room, tells)
  BY <1>1, <1>2, <1>3, <1>4, <1>5 DEF RoomStep
<1> QED BY <1>4, <1>6, RoomStepInv

(* The rooms are deleted when none of them is active.                      *)
LEMMA DeleteRoomsInv ==
  ASSUME GamesInv, CloseInv, DeleteRooms
  PROVE  GamesInv' /\ SameRegistry /\ DOMAIN game_rooms' = {}
<1>1. /\ DOMAIN game_rooms' = {} /\ game_rooms' \in [DOMAIN game_rooms' -> GameRoom]
      /\ UNCHANGED <<users_status, game_players, game_ids, calls, queue>>
  BY DEF DeleteRooms, Players
<1>2. \A id \in DOMAIN game_rooms : ~game_rooms[id].active
  BY DEF DeleteRooms, CloseInv
<1>3. TypeInv' /\ CallInv' /\ RoomInv'
  BY <1>1 DEF GamesInv, TypeInv, CallInv, RoomInv, Creating, HasId
<1>4. MessageInv'
  BY <1>1 DEF GamesInv, MessageInv, SoundMessage, Creating, HasId
<1>5. \A g \in Game : Held(g)' = Held(g)
  BY <1>1, <1>2 DEF Held, HeldByCall, HeldByRoom, HeldByMessage
<1> QED BY <1>1, <1>3, <1>4, <1>5 DEF GamesInv, SameRegistry

(* The rest of the shutdown only says how far it is.                       *)
LEMMA OtherCloseInv ==
  ASSUME GamesInv, UNCHANGED <<Players, game_ids, calls, queue, Rooms>>
  PROVE  GamesInv' /\ SameRegistry
<1>1. UNCHANGED <<users_status, game_players, game_ids, calls, queue, game_rooms>>
  BY DEF Players, Rooms
<1>2. TypeInv' /\ CallInv' /\ RoomInv'
  BY <1>1 DEF GamesInv, TypeInv, CallInv, RoomInv, Creating, HasId
<1>3. MessageInv'
  BY <1>1 DEF GamesInv, MessageInv, SoundMessage, Creating, HasId
<1>4. \A g \in Game : Held(g)' = Held(g)
  BY <1>1 DEF Held, HeldByCall, HeldByRoom, HeldByMessage
<1> QED BY <1>1, <1>2, <1>3, <1>4 DEF GamesInv, SameRegistry

(* No room becomes active and no call begins behind the shutdown.          *)
LEMMA CloseInvStep ==
  ASSUME GamesInv, CloseInv, Next
  PROVE  CloseInv'
<1>1. ASSUME NEW c \in Module, NEW g \in Game, NEW players \in Pair, CountPlayers(c, g, players)
      PROVE  CloseInv'
  BY <1>1 DEF CloseInv, CountPlayers, GamesInv, TypeInv, Rooms, Closing
<1>2. ASSUME NEW c \in Module, CallStep(c) PROVE CloseInv'
  BY <1>2 DEF CloseInv, CallStep, TakeId, ExecCreate, ReturnGame, GamesInv, TypeInv,
              Rooms, Closing, Idle
<1>3. CASE \E u \in Jid, available, multigame \in BOOLEAN : HandlePresence(u, available, multigame)
  BY <1>3 DEF CloseInv, HandlePresence, Rooms, Closing
<1>4. CASE HandleCreate
  <2>1. Len(queue) \in Nat \ {0} /\ Head(queue) = queue[1]
    BY <1>4 DEF HandleCreate, Receive, GamesInv, TypeInv
  <2>2. 1 \in 1..Len(queue) /\ queue[1].type = "create"
    BY <1>4, <2>1 DEF HandleCreate, Receive
  <2>3. queue[1].by \in Module /\ calls[queue[1].by].at = "waiting"
    BY <2>2, QueueShape DEF GamesInv, MessageInv, SoundMessage, AnyMessage
  <2>4. closing = "no"
    BY <1>4, <2>3 DEF CloseInv, HandleCreate, Receive, CoreFree
  <2> QED BY <1>4, <2>4 DEF CloseInv, HandleCreate, Closing
<1>5. CASE HandleEnd
  BY <1>5 DEF CloseInv, HandleEnd, Closing
<1>6. CASE HandleClose
  BY <1>6 DEF CloseInv, HandleClose, Receive, CoreFree, Closing
<1>7. ASSUME NEW id \in GameId, NEW over \in BOOLEAN,
             \/ RoomHandleStanza(id) \/ EndActiveGame(id) \/ CheckTime(id, over)
             \/ \E type \in {"join", "leave"}, user \in Visitor : RouteToRoom(id, type, user)
      PROVE  CloseInv'
  <2>1. /\ DOMAIN game_rooms' = DOMAIN game_rooms
        /\ \A other \in DOMAIN game_rooms : game_rooms'[other].active => game_rooms[other].active
        /\ UNCHANGED <<calls, closing, todo>>
    <3> USE DEF GamesInv, TypeInv, GameRoom, Closing
    <3>1. CASE RoomHandleStanza(id)
      BY <3>1 DEF RoomHandleStanza
    <3>2. CASE EndActiveGame(id)
      BY <3>2 DEF EndActiveGame
    <3>3. CASE CheckTime(id, over)
      BY <3>3 DEF CheckTime, CheckingTime
    <3>4. CASE \E type \in {"join", "leave"}, user \in Visitor : RouteToRoom(id, type, user)
      BY <3>4 DEF RouteToRoom
    <3> QED BY <3>1, <3>2, <3>3, <3>4, <1>7
  <2> QED BY <2>1 DEF CloseInv
<1>8. CASE BeginClose
  BY <1>8 DEF CloseInv, BeginClose, Rooms
<1>9. ASSUME NEW id \in DOMAIN game_rooms, StopRoom(id) PROVE CloseInv'
  <2>1. /\ DOMAIN game_rooms' = DOMAIN game_rooms /\ ~game_rooms'[id].active
        /\ \A other \in DOMAIN game_rooms \ {id} : game_rooms'[other] = game_rooms[other]
        /\ closing = "rooms" /\ todo' = todo \ {id} /\ UNCHANGED closing
    BY <1>9 DEF StopRoom, GamesInv, TypeInv, GameRoom
  <2> QED BY <2>1 DEF CloseInv
<1>10. CASE DeleteRooms
  BY <1>10, DeleteRoomsInv DEF CloseInv, DeleteRooms
<1>11. ASSUME NEW c \in Module, StopModule(c) PROVE CloseInv'
  BY <1>11 DEF CloseInv, StopModule, Rooms
<1>12. CASE NextStage
  BY <1>12 DEF CloseInv, NextStage, Rooms
<1> QED
  BY <1>1, <1>2, <1>3, <1>4, <1>5, <1>6, <1>7, <1>8, <1>9, <1>10, <1>11, <1>12
     DEF Next, HandleMessage, CloseStep

-----------------------------------------------------------------------------

LEMMA InitIInv ==
  ASSUME Init
  PROVE  IInv /\ Registry!Init
<1>1. /\ game_players = [g \in Game |-> {}] /\ game_ids = 0
      /\ calls = [c \in Module |-> Idle] /\ closing = "no"
      /\ queue \in Seq(AnyMessage) /\ Len(queue) = 0 /\ DOMAIN queue = {}
      /\ DOMAIN game_rooms = {} /\ game_rooms \in [DOMAIN game_rooms -> GameRoom]
  BY DEF Init
<1>2. TypeInv
  BY <1>1 DEF TypeInv, AnyCall, Idle
<1>3. CallInv /\ RoomInv /\ MessageInv /\ CloseInv
  BY <1>1 DEF CallInv, RoomInv, MessageInv, CloseInv, Creating, HasId, Idle
<1>4. Registry!Init
  BY <1>1 DEF Init, Registry!Init, Registry!NewStatus, Phase
<1> QED BY <1>2, <1>3, <1>4 DEF IInv, GamesInv

(* Every step of the core is one of the registry, or none of its business. *)
LEMMA NextIInv ==
  ASSUME IInv, [Next]_vars
  PROVE  IInv' /\ [Registry!Next]_(Registry!vars)
<1> USE DEF IInv
<1>1. CASE \E c \in Module, g \in Game, players \in Pair : CountPlayers(c, g, players)
  <2> PICK c \in Module, g \in Game, players \in Pair : CountPlayers(c, g, players)
    BY <1>1
  <2>1. GamesInv' /\ Registry!CreateGame(g, players)
    BY CountPlayersStep
  <2>2. players \in SUBSET Jid
    BY DEF Pair
  <2>3. Registry!Next
    BY <2>1, <2>2 DEF Registry!Next
  <2> QED BY <1>1, <2>1, <2>3, CloseInvStep DEF Next
<1>2. CASE \E u \in Jid, available, multigame \in BOOLEAN :
             HandlePresence(u, available, multigame)
  <2> PICK u \in Jid, available \in BOOLEAN, multigame \in BOOLEAN :
             HandlePresence(u, available, multigame)
    BY <1>2
  <2>1. GamesInv' /\ Registry!SetPresence(u, available, multigame)
    BY PresenceStep
  <2>2. Registry!Next
    BY <2>1 DEF Registry!Next
  <2> QED BY <1>2, <2>1, <2>2, CloseInvStep DEF Next
<1>3. CASE HandleEnd
  <2>1. GamesInv' /\ \E g \in Game : Registry!EndGame(g)
    BY <1>3, HandleEndStep
  <2>2. Registry!Next
    BY <2>1 DEF Registry!Next
  <2> QED BY <1>3, <2>1, <2>2, CloseInvStep DEF Next, HandleMessage
<1>4. ASSUME Next, GamesInv', SameRegistry
      PROVE  IInv' /\ [Registry!Next]_(Registry!vars)
  BY <1>4, CloseInvStep, SameGames
<1>5. ASSUME NEW c \in Module, CallStep(c) PROVE GamesInv' /\ SameRegistry
  BY <1>5, CallStepInv
<1>6. CASE HandleCreate \/ HandleClose
  BY <1>4, <1>6, HandleCreateInv, HandleCloseInv DEF Next, HandleMessage
<1>7. ASSUME NEW id \in GameId,
             \/ RoomHandleStanza(id) \/ EndActiveGame(id)
             \/ \E type \in {"join", "leave"}, user \in Visitor : RouteToRoom(id, type, user)
      PROVE  GamesInv' /\ SameRegistry
  BY <1>7, RoomThread
<1>8. ASSUME NEW id \in GameId, NEW over \in BOOLEAN, CheckTime(id, over)
      PROVE  GamesInv' /\ SameRegistry
  BY <1>8, CheckTimeInv
<1>9. CASE BeginClose \/ CloseStep
  <2>1. BeginClose => GamesInv' /\ SameRegistry
    BY OtherCloseInv DEF BeginClose
  <2>2. ASSUME NEW id \in DOMAIN game_rooms, StopRoom(id) PROVE GamesInv' /\ SameRegistry
    BY <2>2, StopRoomInv
  <2>3. DeleteRooms => GamesInv' /\ SameRegistry
    BY DeleteRoomsInv
  <2>4. ASSUME NEW c \in Module, StopModule(c) PROVE GamesInv' /\ SameRegistry
    BY <2>4, OtherCloseInv DEF StopModule
  <2>5. NextStage => GamesInv' /\ SameRegistry
    BY OtherCloseInv DEF NextStage
  <2>6. GamesInv' /\ SameRegistry
    BY <1>9, <2>1, <2>2, <2>3, <2>4, <2>5 DEF CloseStep
  <2> QED BY <1>4, <1>9, <2>6 DEF Next
<1>10. CASE UNCHANGED vars
  <2>1. UNCHANGED <<Players, game_ids, calls, queue, Rooms>> /\ UNCHANGED Closing
    BY <1>10 DEF vars, Players, Rooms, Closing
  <2>2. GamesInv' /\ SameRegistry
    BY <2>1, OtherCloseInv
  <2>3. CloseInv'
    BY <2>1 DEF CloseInv, Rooms, Closing
  <2> QED BY <2>2, <2>3, SameGames
<1> QED
  BY <1>1, <1>2, <1>3, <1>4, <1>5, <1>6, <1>7, <1>8, <1>9, <1>10 DEF Next, HandleMessage

(* The invariant of the core holds.                                        *)
LEMMA Invariance == Spec => []IInv
<1>1. Init => IInv
  BY InitIInv
<1>2. IInv /\ [Next]_vars => IInv'
  BY NextIInv
<1> QED BY <1>1, <1>2, PTL DEF Spec

(* The core implements the registry: whatever its threads, its queue and   *)
(* its shutdown do, each game is counted for its players once and is taken *)
(* from them once.                                                         *)
THEOREM CoreImplementsRegistry == Spec => ImplementsRegistry
<1>1. Init => Registry!Init
  BY InitIInv
<1>2. IInv /\ [Next]_vars => [Registry!Next]_(Registry!vars)
  BY NextIInv
<1> QED BY <1>1, <1>2, Invariance, PTL DEF Spec, ImplementsRegistry, Registry!Spec

(* A room is closed once, by the last message about it.                    *)
THEOREM CoreCloseIsLast == Spec => []CloseIsLast
<1>1. IInv => CloseIsLast
  BY QueueShape DEF IInv, GamesInv, MessageInv, SoundMessage, CloseIsLast
<1> QED BY <1>1, Invariance, PTL

(* What is proved of the registry, of the games as the core holds them.    *)
RegistryProofs == INSTANCE GameRegistryProofs WITH
  games <- [g \in Game |-> [phase |-> Phase(g), players |-> game_players[g]]]

(* The counts of the registry are exact in every state of the core.        *)
LEMMA CountsInvariance == Spec => []RegistryProofs!IInv
<1>1. RegistryProofs!FiniteRegistry
  BY CoreAssumption
     DEF RegistryProofs!FiniteRegistry, RegistryProofs!IsFiniteSet, IsFiniteSet
<1>2. Init => RegistryProofs!IInv
  <2>1. Registry!Init => RegistryProofs!Init
    BY DEF Registry!Init, Registry!NewStatus, RegistryProofs!Init, RegistryProofs!NewStatus
  <2> QED BY <2>1, InitIInv, RegistryProofs!InitIInv
<1>3. RegistryProofs!IInv /\ [Registry!Next]_(Registry!vars) => RegistryProofs!IInv'
  <2>1. [Registry!Next]_(Registry!vars) => [RegistryProofs!Next]_(RegistryProofs!vars)
    BY DEF Registry!Next, Registry!vars, Registry!SetPresence, Registry!CreateGame,
           Registry!EndGame, Registry!AllCanPlay, Registry!CanPlay, Registry!AddGames,
           RegistryProofs!Next, RegistryProofs!vars, RegistryProofs!SetPresence,
           RegistryProofs!CreateGame, RegistryProofs!EndGame, RegistryProofs!AllCanPlay,
           RegistryProofs!CanPlay, RegistryProofs!AddGames
  <2> QED BY <1>1, <2>1, RegistryProofs!NextIInv
<1>4. IInv /\ [Next]_vars => [Registry!Next]_(Registry!vars)
  BY NextIInv
<1> QED BY <1>2, <1>3, <1>4, Invariance, PTL DEF Spec

(* When the shutdown is over and the queue is empty nobody holds a game,   *)
(* so no user is counted in one.                                           *)
THEOREM CoreShutdownReleases == Spec => []ShutdownReleases
<1>1. IInv /\ RegistryProofs!IInv => ShutdownReleases
  <2> SUFFICES ASSUME IInv, RegistryProofs!IInv, closing = "done", queue = <<>>, NEW u \in Jid
               PROVE  users_status[u].games_playing = 0
    BY DEF ShutdownReleases
  <2>1. DOMAIN game_rooms = {} /\ DOMAIN queue = {} /\ \A c \in Module : calls[c].at = "idle"
    BY DEF IInv, CloseInv
  <2>2. \A g \in Game : Phase(g) # "live"
    BY <2>1 DEF Phase, HeldByCall, HeldByRoom, HeldByMessage
  <2>3. RegistryProofs!LiveGames(u) = {}
    BY <2>2 DEF RegistryProofs!LiveGames
  <2> QED BY <2>3, RegistryProofs!FS_EmptySet
             DEF RegistryProofs!IInv, RegistryProofs!CountsExact
<1> QED BY <1>1, Invariance, CountsInvariance, PTL

-----------------------------------------------------------------------------
(* The rooms, their handlers and the disco, until the server closes.       *)

(* The game of a room has players, so it is live or ended.                 *)
LEMMA RoomGames ==
  ASSUME GamesInv, NEW id \in DOMAIN game_rooms
  PROVE  game_rooms[id].game \in Game /\ game_players[game_rooms[id].game] # {}
BY DEF GamesInv, TypeInv, RoomInv, GameRoom

(* A step that leaves the rooms, what is listed and the phases of the      *)
(* games of rooms and calls as they are, queues no end messages but those  *)
(* of rooms, and returns no call.                                          *)
LEMMA SameRegistered ==
  ASSUME GamesInv, RegisteredInv, closing = "no",
         \A g \in Game : game_players[g] # {} => Phase(g)' = Phase(g) /\ game_players'[g] # {},
         DOMAIN game_rooms' = DOMAIN game_rooms,
         \A id \in DOMAIN game_rooms : game_rooms'[id].game = game_rooms[id].game,
         UNCHANGED <<node_handlers, disco, closing>>,
         \A k \in 1..Len(queue') : queue'[k].type = "end" => RoomOf(queue'[k].id, queue'[k].game),
         \A c \in Module : calls'[c].at = "posted" => calls'[c] = calls[c]
  PROVE  RegisteredInv'
<1>1. HandlersMatchRooms' /\ disco' \subseteq DOMAIN game_rooms'
  BY DEF RegisteredInv, HandlersMatchRooms
<1>2. EndsInv'
  BY DEF EndsInv, RoomOf
<1>3. ASSUME NEW g \in Game PROVE Listed(g)'
  <2>1. ASSUME NEW id \in DOMAIN game_rooms, game_rooms[id].game = g
        PROVE  id \in disco <=> Phase(g)' = "live"
    BY <2>1, RoomGames DEF RegisteredInv, Listed
  <2> QED BY <2>1 DEF Listed
<1>4. ASSUME NEW g \in Game PROVE Posted(g)'
  BY DEF RegisteredInv, Posted, RoomOf
<1> QED BY <1>1, <1>2, <1>3, <1>4 DEF RegisteredInv

LEMMA SamePhases ==
  ASSUME SameRegistry
  PROVE  /\ \A g \in Game : Phase(g)' = Phase(g)
         /\ game_players' = game_players
BY DEF SameRegistry, Phase, Held

(* The thread of a room.                                                   *)
LEMMA RoomRegistered ==
  ASSUME GamesInv, RegisteredInv, closing = "no", NEW id, IsRoomStep(id), SameRegistry,
         UNCHANGED <<node_handlers, disco, closing>>
  PROVE  RegisteredInv'
<1> PICK room \in GameRoom, tells \in SUBSET {"end", "close"} : RoomStep(id, room, tells)
  BY DEF IsRoomStep
<1>1. /\ id \in DOMAIN game_rooms /\ DOMAIN game_rooms' = DOMAIN game_rooms
      /\ \A i \in DOMAIN game_rooms : game_rooms'[i].game = game_rooms[i].game
      /\ queue' = queue \o Told(id, tells) /\ calls' = calls
  BY DEF RoomStep, GamesInv, TypeInv
<1> DEFINE told == Told(id, tells)
<1>2. /\ told \in Seq(AnyMessage)
      /\ \A k \in 1..Len(told) : told[k].type = "end" => RoomOf(told[k].id, told[k].game)
  <2>1. /\ told \in Seq(AnyMessage)
        /\ \A k \in 1..Len(told) :
             told[k] = EndMessage(id) \/ told[k] = [type |-> "close", id |-> id]
    BY <1>1, ToldMessages DEF GamesInv
  <2> HIDE DEF told
  <2>2. ASSUME NEW k \in 1..Len(told), told[k].type = "end"
        PROVE  RoomOf(told[k].id, told[k].game)
    <3>1. told[k] = EndMessage(id)
      BY <2>1, <2>2
    <3> QED BY <1>1, <3>1 DEF EndMessage, RoomOf
  <2> QED BY <2>1, <2>2
<1>3. EndsInv
  BY DEF RegisteredInv
<1> HIDE DEF told
<1>4. ASSUME NEW k \in 1..Len(queue'), queue'[k].type = "end"
      PROVE  RoomOf(queue'[k].id, queue'[k].game)
  <2>1. CASE k \in 1..Len(queue)
    <3>1. queue'[k] = queue[k]
      BY <1>1, <1>2, <2>1, QueueGrows DEF GamesInv, told
    <3> QED BY <1>3, <1>4, <2>1, <3>1 DEF EndsInv
  <2>2. CASE k \notin 1..Len(queue)
    <3>1. k - Len(queue) \in 1..Len(told) /\ queue'[k] = told[k - Len(queue)]
      BY <1>1, <1>2, <2>2, QueueGrows DEF GamesInv, told
    <3> QED BY <1>2, <1>4, <3>1
  <2> QED BY <2>1, <2>2
<1> QED BY <1>1, <1>4, SamePhases, SameRegistered

(* createGame: only the phase of the new game changes, and then the call   *)
(* that has posted comes back for another.                                 *)
LEMMA CallRegistered ==
  ASSUME GamesInv, RegisteredInv, closing = "no", NEW c \in Module,
         \/ CallStep(c)
         \/ \E g \in Game, players \in Pair : CountPlayers(c, g, players)
  PROVE  RegisteredInv'
<1>1. UNCHANGED <<game_rooms, node_handlers, disco, closing>>
  BY DEF CallStep, TakeId, ExecCreate, ReturnGame, CountPlayers, Rooms, Closing
<1>2. \A d \in Module : calls'[d].at = "posted" => calls'[d] = calls[d]
  <2>1. calls'[c].at # "posted" /\ \A d \in Module \ {c} : calls'[d] = calls[d]
    <3> USE DEF GamesInv, TypeInv, AnyCall
    <3>1. CASE TakeId(c)
      BY <3>1 DEF TakeId
    <3>2. CASE ExecCreate(c)
      BY <3>2 DEF ExecCreate
    <3>3. CASE ReturnGame(c)
      BY <3>3 DEF ReturnGame, Idle
    <3>4. ASSUME NEW g \in Game, NEW players \in Pair, CountPlayers(c, g, players)
          PROVE  calls'[c].at # "posted" /\ \A d \in Module \ {c} : calls'[d] = calls[d]
      BY <3>4 DEF CountPlayers
    <3> QED BY <3>1, <3>2, <3>3, <3>4 DEF CallStep
  <2> QED BY <2>1
<1>3. queue' = queue \/ queue' = Append(queue, CreateMessage(c))
  BY DEF CallStep, TakeId, ExecCreate, ReturnGame, CountPlayers
<1>4. \A k \in 1..Len(queue') :
        queue'[k].type = "end" => k \in 1..Len(queue) /\ queue'[k] = queue[k]
  BY <1>3, QueueShape DEF CreateMessage, GamesInv, TypeInv
<1>5. \A g \in Game : game_players[g] # {} => Phase(g)' = Phase(g) /\ game_players'[g] # {}
  <2>1. CASE CallStep(c)
    BY <2>1, CallStepInv, SamePhases
  <2>2. ASSUME NEW g \in Game, NEW players \in Pair, CountPlayers(c, g, players),
               NEW h \in Game, game_players[h] # {}
        PROVE  Phase(h)' = Phase(h) /\ game_players'[h] # {}
    <3>1. h # g /\ game_players' = [game_players EXCEPT ![g] = players]
      BY <2>2 DEF CountPlayers
    <3>2. game_players'[h] = game_players[h]
      BY <3>1 DEF GamesInv, TypeInv
    <3>3. HeldByCall(h)' = HeldByCall(h)
      <4>1. /\ calls[c].at = "idle" /\ calls'[c].game = g
            /\ \A d \in Module \ {c} : calls'[d] = calls[d]
        BY <2>2 DEF CountPlayers, GamesInv, TypeInv, AnyCall
      <4> QED BY <3>1, <4>1 DEF HeldByCall
    <3>4. HeldByRoom(h)' = HeldByRoom(h) /\ HeldByMessage(h)' = HeldByMessage(h)
      BY <2>2 DEF CountPlayers, Rooms, HeldByRoom, HeldByMessage
    <3> QED BY <2>2, <3>2, <3>3, <3>4 DEF Phase
  <2> QED BY <2>1, <2>2
<1>6. \A k \in 1..Len(queue') : queue'[k].type = "end" => RoomOf(queue'[k].id, queue'[k].game)
  BY <1>4 DEF RegisteredInv, EndsInv
<1> QED BY <1>1, <1>2, <1>5, <1>6, SameRegistered

(* _createGame: the room, its handler and its line in the disco.           *)
LEMMA CreateRegistered ==
  ASSUME GamesInv, RegisteredInv, closing = "no", HandleCreate
  PROVE  RegisteredInv'
<1> DEFINE m == Head(queue)
<1>1. /\ queue # <<>> /\ m.type = "create" /\ queue' = Tail(queue)
      /\ game_rooms' = [i \in DOMAIN game_rooms \cup {m.id} |->
           IF i \in DOMAIN game_rooms THEN game_rooms[i] ELSE NewRoom(m.game)]
      /\ node_handlers' = node_handlers \cup {m.id} /\ disco' = disco \cup {m.id}
      /\ calls' = IF calls[m.by].at = "waiting"
                  THEN [calls EXCEPT ![m.by].at = "posted"] ELSE calls
      /\ closing' = closing
  BY DEF HandleCreate, Receive, Closing
<1>2. /\ m = queue[1] /\ m \in AnyMessage
      /\ \A k \in 1..Len(queue') : k + 1 \in 1..Len(queue) /\ queue'[k] = queue[k + 1]
      /\ 1 \in 1..Len(queue)
  BY <1>1, QueueTail DEF GamesInv
<1>3. /\ m.by \in Module /\ m.game \in Game /\ calls[m.by].at = "waiting"
      /\ calls[m.by].game = m.game /\ calls[m.by].id = m.id
  BY <1>1, <1>2 DEF AnyMessage, GamesInv, MessageInv, SoundMessage
<1>4. /\ m.id \notin DOMAIN game_rooms /\ game_players[m.game] # {}
      /\ \A id \in DOMAIN game_rooms : game_rooms[id].game # m.game
  BY <1>3 DEF GamesInv, CallInv, Creating, HasId
<1>5. \A g \in Game : Phase(g)' = Phase(g) /\ game_players'[g] = game_players[g]
  BY HandleCreateInv, SamePhases
<1>6. Phase(m.game) = "live"
  BY <1>3, <1>4 DEF Phase, HeldByCall
<1> HIDE DEF m
<1>7. /\ DOMAIN game_rooms' = DOMAIN game_rooms \cup {m.id}
      /\ game_rooms'[m.id].game = m.game
      /\ \A id \in DOMAIN game_rooms : game_rooms'[id] = game_rooms[id]
  BY <1>1, <1>4 DEF NewRoom
<1> PICK by \in Module : by = m.by
  BY <1>3
<1>8. /\ calls'[by].game = m.game /\ calls'[by].id = m.id
      /\ \A c \in Module \ {by} : calls'[c] = calls[c]
  BY <1>1, <1>3 DEF GamesInv, TypeInv, AnyCall
<1>9. HandlersMatchRooms' /\ disco' \subseteq DOMAIN game_rooms'
  BY <1>1, <1>7 DEF RegisteredInv, HandlersMatchRooms
<1>10. EndsInv'
  <2>1. \A k \in 1..Len(queue') :
          queue'[k].type = "end" => RoomOf(queue'[k].id, queue'[k].game)
    BY <1>2 DEF RegisteredInv, EndsInv
  <2> QED BY <1>7, <2>1 DEF EndsInv, RoomOf
<1>11. ASSUME NEW g \in Game PROVE Listed(g)'
  <2>1. ASSUME NEW id \in DOMAIN game_rooms, game_rooms[id].game = g
        PROVE  id \in disco' <=> Phase(g)' = "live"
    BY <1>1, <1>4, <1>5, <2>1 DEF RegisteredInv, Listed
  <2>2. ASSUME m.game = g PROVE m.id \in disco' /\ Phase(g)' = "live"
    BY <1>1, <1>5, <1>6, <2>2
  <2> QED BY <1>7, <2>1, <2>2 DEF Listed
<1>12. ASSUME NEW g \in Game PROVE Posted(g)'
  <2>1. ASSUME NEW c \in Module \ {by}, calls'[c].at = "posted", calls'[c].game = g
        PROVE  game_players'[g] # {} /\ (Phase(g)' = "live" => RoomOf(calls[c].id, g)')
    <3>1. game_players[g] # {} /\ (Phase(g) = "live" => RoomOf(calls[c].id, g))
      BY <1>8, <2>1 DEF RegisteredInv, Posted
    <3> QED BY <1>5, <1>7, <1>8, <3>1 DEF RoomOf
  <2>2. ASSUME m.game = g PROVE game_players'[g] # {} /\ RoomOf(calls[by].id, g)'
    BY <1>4, <1>5, <1>7, <1>8, <2>2 DEF RoomOf
  <2> QED BY <1>8, <2>1, <2>2 DEF Posted
<1>13. \A c \in Module : calls'[c].at = "posted" => calls'[c].game \in Game
  BY <1>3, <1>8 DEF RegisteredInv
<1> QED BY <1>9, <1>10, <1>11, <1>12, <1>13 DEF RegisteredInv

(* _endGame: the game leaves the disco, the room stays.                    *)
LEMMA EndRegistered ==
  ASSUME GamesInv, RegisteredInv, closing = "no", HandleEnd
  PROVE  RegisteredInv'
<1> DEFINE m == Head(queue)
<1>1. /\ queue # <<>> /\ m.type = "end" /\ queue' = Tail(queue)
      /\ disco' = disco \ {m.id}
      /\ UNCHANGED <<game_players, calls, game_rooms, node_handlers, closing>>
  BY DEF HandleEnd, Receive, Closing
<1>2. /\ m = queue[1] /\ 1 \in 1..Len(queue)
      /\ \A k \in 1..Len(queue') : k + 1 \in 1..Len(queue) /\ queue'[k] = queue[k + 1]
  BY <1>1, QueueTail DEF GamesInv
<1>3. RoomOf(m.id, m.game)
  BY <1>1, <1>2 DEF RegisteredInv, EndsInv
<1>4. \A g \in Game : Phase(g)' = IF g = m.game THEN "ended" ELSE Phase(g)
  BY HandleEndStep
<1> HIDE DEF m
<1>5. HandlersMatchRooms' /\ disco' \subseteq DOMAIN game_rooms'
  BY <1>1 DEF RegisteredInv, HandlersMatchRooms
<1>6. EndsInv'
  BY <1>1, <1>2 DEF RegisteredInv, EndsInv, RoomOf
<1>7. ASSUME NEW g \in Game PROVE Listed(g)'
  <2>1. ASSUME NEW id \in DOMAIN game_rooms, game_rooms[id].game = g
        PROVE  id \in disco' <=> Phase(g)' = "live"
    <3>1. id \in disco <=> Phase(g) = "live"
      BY <2>1 DEF RegisteredInv, Listed
    <3>2. id = m.id <=> g = m.game
      BY <1>3, <2>1 DEF RoomOf, GamesInv, RoomInv
    <3> QED BY <1>1, <1>4, <3>1, <3>2
  <2> QED BY <1>1, <2>1 DEF Listed
<1>8. ASSUME NEW g \in Game PROVE Posted(g)'
  BY <1>1, <1>4 DEF RegisteredInv, Posted, RoomOf
<1>9. \A c \in Module : calls'[c].at = "posted" => calls'[c].game \in Game
  BY <1>1 DEF RegisteredInv
<1> QED BY <1>1, <1>5, <1>6, <1>7, <1>8, <1>9 DEF RegisteredInv

(* _closeGame: whoever still has the jid of the room, its game is over.    *)
LEMMA CloseRegistered ==
  ASSUME GamesInv, RegisteredInv, closing = "no", HandleClose
  PROVE  RegisteredInv'
<1> DEFINE m == Head(queue)
<1>1. /\ queue # <<>> /\ m.type = "close" /\ queue' = Tail(queue)
      /\ game_rooms' = [i \in DOMAIN game_rooms \ {m.id} |-> game_rooms[i]]
      /\ node_handlers' = node_handlers \ {m.id} /\ disco' = disco \ {m.id}
      /\ UNCHANGED <<game_players, calls, closing>>
  BY DEF HandleClose, Receive, Players, Closing
<1>2. /\ m = queue[1] /\ 1 \in 1..Len(queue)
      /\ \A k \in 1..Len(queue') :
           k + 1 \in 1..Len(queue) /\ queue'[k] = queue[k + 1] /\ k + 1 > 1
  BY <1>1, QueueTail DEF GamesInv
<1>3. /\ m.id \in DOMAIN game_rooms => ~game_rooms[m.id].active
      /\ \A l \in 1..Len(queue) : l > 1 => queue[l].id # m.id
  BY <1>1, <1>2 DEF GamesInv, MessageInv, SoundMessage
<1>4. \A g \in Game : Phase(g)' = Phase(g)
  BY HandleCloseInv, SamePhases
<1>5. ASSUME NEW g \in Game, RoomOf(m.id, g) PROVE Phase(g) # "live"
  <2>1. ~HeldByCall(g)
    <3>1. \A c \in Module : Creating(c) => calls[c].game # g
      BY <1>5 DEF RoomOf, GamesInv, CallInv
    <3> QED BY <3>1 DEF HeldByCall, Creating, GamesInv, TypeInv, AnyCall
  <2>2. ~HeldByRoom(g)
    BY <1>3, <1>5 DEF HeldByRoom, RoomOf, GamesInv, RoomInv
  <2>3. ASSUME NEW k \in 1..Len(queue), queue[k].type # "close", queue[k].game = g PROVE FALSE
    <3>1. k > 1 /\ queue[k] \in AnyMessage /\ SoundMessage(k)
      BY <1>1, <1>2, <2>3, QueueShape DEF GamesInv, MessageInv
    <3>2. queue[k].type = "end"
      <4>1. ASSUME queue[k].type = "create" PROVE FALSE
        <5>1. queue[k].by \in Module /\ HeldByCall(g)
          BY <2>3, <3>1, <4>1 DEF SoundMessage, AnyMessage, HeldByCall
        <5> QED BY <2>1, <5>1
      <4> QED BY <2>3, <3>1, <4>1 DEF AnyMessage
    <3>3. RoomOf(queue[k].id, g)
      BY <2>3, <3>2 DEF RegisteredInv, EndsInv
    <3>4. queue[k].id = m.id
      BY <1>5, <3>3 DEF RoomOf, GamesInv, RoomInv
    <3> QED BY <1>3, <3>1, <3>4
  <2>4. ~HeldByMessage(g)
    BY <2>3, QueueShape DEF HeldByMessage, GamesInv
  <2> QED BY <2>1, <2>2, <2>4 DEF Phase
<1> PICK gone : gone = m.id
  OBVIOUS
<1>6. \A k \in 1..Len(queue') :
        queue'[k].type = "end" => queue'[k].id # gone /\ RoomOf(queue'[k].id, queue'[k].game)
  BY <1>2, <1>3 DEF RegisteredInv, EndsInv
<1> HIDE DEF m
<1>7. /\ DOMAIN game_rooms' = DOMAIN game_rooms \ {gone}
      /\ \A id \in DOMAIN game_rooms' : game_rooms'[id] = game_rooms[id]
  BY <1>1
<1>8. HandlersMatchRooms' /\ disco' \subseteq DOMAIN game_rooms'
  BY <1>1, <1>7 DEF RegisteredInv, HandlersMatchRooms
<1>9. EndsInv'
  BY <1>6, <1>7 DEF EndsInv, RoomOf
<1>10. ASSUME NEW g \in Game PROVE Listed(g)'
  BY <1>1, <1>4, <1>7 DEF RegisteredInv, Listed
<1>11. ASSUME NEW g \in Game PROVE Posted(g)'
  <2>1. Posted(g) /\ (RoomOf(gone, g) => Phase(g) # "live")
    BY <1>5 DEF RegisteredInv
  <2> QED BY <1>1, <1>4, <1>7, <2>1 DEF Posted, RoomOf
<1>12. \A c \in Module : calls'[c].at = "posted" => calls'[c].game \in Game
  BY <1>1 DEF RegisteredInv
<1> QED BY <1>1, <1>8, <1>9, <1>10, <1>11, <1>12 DEF RegisteredInv

LEMMA RegisteredStep ==
  ASSUME IInv, RegisteredInv, [Next]_vars
  PROVE  RegisteredInv'
<1> USE DEF IInv
<1>1. CASE closing = "no"
  <2>1. ASSUME NEW c \in Module,
               \/ CallStep(c)
               \/ \E g \in Game, players \in Pair : CountPlayers(c, g, players)
        PROVE  RegisteredInv'
    BY <1>1, <2>1, CallRegistered
  <2>2. ASSUME NEW u \in Jid, NEW available \in BOOLEAN, NEW multigame \in BOOLEAN,
               HandlePresence(u, available, multigame)
        PROVE  RegisteredInv'
    <3>1. /\ UNCHANGED <<game_players, calls, queue, game_rooms, node_handlers, disco, closing>>
          /\ \A g \in Game : Phase(g)' = Phase(g)
      BY <2>2 DEF HandlePresence, Rooms, Closing, Phase, HeldByCall, HeldByRoom, HeldByMessage
    <3> QED BY <1>1, <3>1, SameRegistered DEF RegisteredInv, EndsInv
  <2>3. CASE HandleMessage
    BY <1>1, <2>3, CreateRegistered, EndRegistered, CloseRegistered DEF HandleMessage
  <2>4. ASSUME NEW id \in GameId,
               \/ RoomHandleStanza(id) \/ EndActiveGame(id)
               \/ \E type \in {"join", "leave"}, user \in Visitor : RouteToRoom(id, type, user)
        PROVE  RegisteredInv'
    <3>1. UNCHANGED <<node_handlers, disco, closing>>
      BY <2>4 DEF RoomHandleStanza, EndActiveGame, RouteToRoom, Closing
    <3> QED BY <1>1, <2>4, <3>1, RoomThread, RoomRegistered
  <2>5. ASSUME NEW id \in GameId, NEW over \in BOOLEAN, CheckTime(id, over)
        PROVE  RegisteredInv'
    <3>1. UNCHANGED <<node_handlers, disco, closing>>
      BY <2>5 DEF CheckTime, Closing
    <3> QED BY <1>1, <2>5, <3>1, CheckTimeInv, RoomRegistered
  <2>6. CASE BeginClose
    BY <1>1, <2>6 DEF BeginClose, Rooms, RegisteredInv, HandlersMatchRooms
  <2>7. ~CloseStep
    BY <1>1 DEF CloseStep, StopRoom, DeleteRooms, StopModule, NextStage
  <2>8. CASE UNCHANGED vars
    BY <2>8 DEF vars, RegisteredInv, HandlersMatchRooms, EndsInv, Listed, Posted, RoomOf, Phase,
                HeldByCall, HeldByRoom, HeldByMessage
  <2> QED BY <2>1, <2>2, <2>3, <2>4, <2>5, <2>6, <2>7, <2>8 DEF Next
<1>2. CASE closing # "no"
  <2>1. closing' # "no" /\ (closing' = "rooms" => closing = "rooms")
    BY <1>2 DEF Next, CountPlayers, CallStep, TakeId, ExecCreate, ReturnGame, HandlePresence,
                HandleMessage, HandleCreate, HandleEnd, HandleClose, RouteToRoom,
                RoomHandleStanza, EndActiveGame, CheckTime, BeginClose, CloseStep, StopRoom,
                DeleteRooms, StopModule, NextStage, Closing, vars
  <2>2. closing' = "rooms" =>
          node_handlers' = node_handlers /\ DOMAIN game_rooms' = DOMAIN game_rooms
    BY <1>2, <2>1
       DEF Next, CountPlayers, CallStep, TakeId, ExecCreate, ReturnGame, HandlePresence,
           HandleMessage, HandleCreate, HandleEnd, HandleClose, Receive, CoreFree, RouteToRoom,
           RoomHandleStanza, EndActiveGame, CheckTime, BeginClose, CloseStep, StopRoom,
           DeleteRooms, StopModule, NextStage, Closing, Rooms, vars
  <2> QED BY <2>1, <2>2 DEF RegisteredInv, HandlersMatchRooms
<1> QED BY <1>1, <1>2

LEMMA RegisteredInvariance == Spec => []RegisteredInv
<1>1. Init => RegisteredInv
  <2> SUFFICES ASSUME Init PROVE RegisteredInv
    OBVIOUS
  <2>1. /\ DOMAIN game_rooms = {} /\ node_handlers = {} /\ disco = {} /\ Len(queue) = 0
        /\ \A c \in Module : calls[c].at = "idle"
    BY DEF Init, Idle
  <2> QED BY <2>1 DEF RegisteredInv, HandlersMatchRooms, EndsInv, Listed, Posted
<1>2. IInv /\ RegisteredInv /\ [Next]_vars => RegisteredInv'
  BY RegisteredStep
<1> QED BY <1>1, <1>2, Invariance, PTL DEF Spec

(* A search shows the rooms of the live games of a user, but for those     *)
(* games that a call or a message holds.                                   *)
LEMMA SearchCounts ==
  ASSUME IInv, RegisteredInv, DiscoListsLive, RegistryProofs!IInv, closing = "no", NEW u \in Jid
  PROVE  /\ handleSearch(u) \subseteq node_handlers \cap disco
         /\ Cardinality(handleSearch(u)) # users_status[u].games_playing =>
              \E g \in Game : u \in game_players[g] /\ (HeldByCall(g) \/ HeldByMessage(g))
         /\ Cardinality(handleSearch(u)) <= users_status[u].games_playing
<1> DEFINE S == handleSearch(u)
           L == RegistryProofs!LiveGames(u)
           f == [id \in S |-> game_rooms[id].game]
<1>1. \A g : g \in L <=> g \in Game /\ Phase(g) = "live" /\ u \in game_players[g]
  BY DEF RegistryProofs!LiveGames
<1>2. \A id : id \in S <=> /\ id \in DOMAIN game_rooms /\ game_rooms[id].active
                           /\ u \in game_players[game_rooms[id].game]
  BY DEF handleSearch
<1>3. ASSUME NEW id \in S PROVE game_rooms[id].game \in L /\ id \in disco /\ id \in node_handlers
  <2>1. Phase(game_rooms[id].game) = "live" /\ game_rooms[id].game \in Game
    BY <1>2, RoomGames DEF IInv, Phase, HeldByRoom
  <2> QED BY <1>1, <1>2, <2>1 DEF DiscoListsLive, RegisteredInv, HandlersMatchRooms
<1>4. IsFiniteSet(L) /\ users_status[u].games_playing = Cardinality(L)
  <2>1. L \subseteq Game
    BY <1>1
  <2>2. RegistryProofs!Cardinality(L) = Cardinality(L)
    BY DEF RegistryProofs!Cardinality, Cardinality
  <2> QED BY <2>1, <2>2, FS_Subset, CoreAssumption DEF RegistryProofs!IInv, RegistryProofs!CountsExact
<1> HIDE DEF S, L
<1>5. f \in Injection(S, L)
  <2>1. f \in [S -> L]
    BY <1>3
  <2>2. \A i, j \in S : f[i] = f[j] => i = j
    BY <1>2 DEF IInv, GamesInv, RoomInv
  <2> HIDE DEF f
  <2> QED BY <2>1, <2>2 DEF Injection, IsInjective
<1>6. /\ Cardinality(S) <= Cardinality(L)
      /\ Cardinality(S) # Cardinality(L) => f \notin Surjection(S, L)
  BY <1>4, <1>5, FS_Injection
<1>7. ASSUME f \notin Surjection(S, L)
      PROVE  \E g \in Game : u \in game_players[g] /\ (HeldByCall(g) \/ HeldByMessage(g))
  <2>1. f \in [S -> L]
    BY <1>3
  <2>2. PICK g \in L : \A id \in S : f[id] # g
    <3> HIDE DEF f
    <3> QED BY <1>7, <2>1 DEF Surjection
  <2>3. ~HeldByRoom(g)
    <3> SUFFICES ASSUME NEW id \in DOMAIN game_rooms, game_rooms[id].game = g, game_rooms[id].active
                 PROVE  FALSE
      BY DEF HeldByRoom
    <3>1. id \in S
      BY <1>1, <1>2
    <3> QED BY <2>2, <3>1
  <2> QED BY <1>1, <2>2, <2>3 DEF Phase
<1> QED BY <1>3, <1>4, <1>6, <1>7 DEF S

(* Whatever the threads of the core, of the modules and of the rooms do,   *)
(* each game under way has its one room, which its jid and a search find   *)
(* (createGame: "the game jid is visible when this function returns").     *)
THEOREM CoreRoomsRegistered == Spec => []RoomsRegistered
<1>1. IInv => IdsUnique
  BY DEF IInv, GamesInv, CallInv, HasId, IdsUnique
<1>2. IInv /\ RegisteredInv => DiscoListsLive
  <2> SUFFICES ASSUME IInv, RegisteredInv, closing = "no"
               PROVE  disco = {id \in DOMAIN game_rooms : Phase(game_rooms[id].game) = "live"}
    BY DEF DiscoListsLive
  <2>1. ASSUME NEW id \in DOMAIN game_rooms
        PROVE  id \in disco <=> Phase(game_rooms[id].game) = "live"
    BY RoomGames DEF IInv, RegisteredInv, Listed
  <2> QED BY <2>1 DEF RegisteredInv
<1>3. IInv /\ RegisteredInv => ReturnedJidVisible
  <2> SUFFICES ASSUME IInv, RegisteredInv, closing = "no",
                      NEW c \in Module, calls[c].at = "posted", Phase(calls[c].game) # "ended"
               PROVE  /\ calls[c].id \in DOMAIN game_rooms \cap node_handlers \cap disco
                      /\ game_rooms[calls[c].id].game = calls[c].game
    BY DEF ReturnedJidVisible
  <2>1. calls[c].game \in Game /\ game_players[calls[c].game] # {}
    BY DEF RegisteredInv, Posted
  <2>2. Phase(calls[c].game) = "live"
    BY <2>1 DEF Phase
  <2>3. RoomOf(calls[c].id, calls[c].game)
    BY <2>1, <2>2 DEF RegisteredInv, Posted
  <2> QED BY <2>1, <2>2, <2>3 DEF RoomOf, RegisteredInv, Listed, HandlersMatchRooms
<1>4. IInv /\ RegisteredInv /\ RegistryProofs!IInv => SearchFindsGames
  BY <1>2, SearchCounts DEF SearchFindsGames
<1>5. IInv /\ RegisteredInv /\ RegistryProofs!IInv => RoomsRegistered
  BY <1>1, <1>2, <1>3, <1>4 DEF RoomsRegistered, RegisteredInv
<1> QED BY <1>5, Invariance, RegisteredInvariance, CountsInvariance, PTL
=============================================================================
