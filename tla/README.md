# chessd-server: models, checks and proofs

chessd-server is a chess server that runs as an XMPP component. This
directory holds TLA+ modules that model its core logic, the TLC configurations
that check them, and theorems about them that TLAPS proves. Source positions
are `file:line` below `src/src/`.

## The system

| part | code | state it keeps | operations |
|---|---|---|---|
| server core | `ServerCore`, `ComponentBase` | `users_status` (available, games_playing, multigame) under a read/write lock, `game_rooms`, `game_ids`, one dispatcher thread | presence, `createGame` (called by module threads), `endGame`/`closeGame` (called by rooms), search, close |
| server modules | `ServerModule` and its five subclasses | a copy of `users_status`, one dispatcher thread each | handle an iq, be notified of a status |
| match offers | `MatchManager`, `MatchDatabase`, `IDSet` | pending matches, index by player, acceptances, offers waiting for an adjourned game | offer, reoffer, accept, decline, resume an adjourned game, user leaves |
| announcements | `AnnouncementManager` | the list of announcements, a copy in the database | create, delete, accept, search, user leaves |
| tournaments | `TourneyManager`, `ChessTourney`, `Pairing/` | tourneys, players, rounds | create, join, start, report a result |
| administration | `AdminComponent` | bans and banned words, a copy in the database | ban, unban, ban a word |
| profiles | `ProfileManager` | when users came online, a copy in the database | profile, ratings, search of games, user comes or leaves |
| game rooms | `GameRoom`, `Muc`, `Agreement` | occupants, agreements, timeouts, whether the game is active; one dispatcher thread each | join, leave, move, resign, draw, cancel, adjourn, check the time, stop |
| chess games | `GameChess`, `HistoryProcess` | position, clocks, end code, history | move, call the flag, result, adjourn, resume |
| rules of chess | `libchess/` | board, castling and en passant rights, counters | verify a move, make it, check, mate, draws |
| threads | `Threads/` | queues, agenda, pool | queue, exec, schedule, stop; launch a task, join it |
| database | `DatabaseManager`, `DatabaseInterface` | connections in use and free; the tables | a transaction now, or in a thread of its own |
| connection | `ComponentBase`, `XMPP/Component`, `main` | socket, a thread that receives and one that sends | connect, error, close, exit |

How they interact: the core's thread routes stanzas to modules and rooms by
queueing them on their dispatchers. Modules never read the core's
`users_status`; the core queues a notification on every module while it holds
the lock of the map (ServerCore.cc:274). `createGame` runs in the thread of
the calling module: it tests and counts the players under the lock, releases
it, and waits (`exec`) for the core's thread to create the room. A room reports
the end of its game, and that it can be closed, by queueing messages on the
core. Transactions run in threads of a pool and answer by queueing messages.

What is hard about it:

* decisions on a stale copy of the users' status, corrected only by
  `createGame`, whose refusal comes after the offer is gone;
* work of several threads on the same users: counted before the room exists,
  given back by the room's last message;
* transactions that run in any order, and more than once;
* ids that are reused, offers that are replaced, acceptances that arrive late;
* timers, clocks and players that leave, racing each other to end a game;
* tables in memory against their copies in the database, and the next process
  that reads them;
* a move tried on the one board of a game and taken back square by square;
* shutdown while all of this runs.

What makes each part correct:

* *core*: the count of games of a user is the number of live games; a user
  without multigame is never in two games; a room exists when its jid is
  announced; a closed room is never used.
* *offers*: a game starts from a match only when all its players accepted its
  present terms; every player of a pending match is available; ids and index
  agree with the table; no match disappears unseen; every user who leaves is
  released from every offer.
* *rooms*: a game ends once, is stored once, and is over exactly when its room
  says so; empty rooms of ended games are closed; every occupant's view of the
  room is the room.
* *games*: moves are the legal ones; a stored game is the game that was played;
  an adjourned game goes on where it stopped; the result agrees with the end.
* *announcements, bans, profiles*: list and database agree once the transactions
  are done.
* *tournaments*: everybody of a round is paired once and every game has a result.
* *threads, database*: no message is lost, reordered or run twice; `exec`
  returns; no connection is lost or opened beyond the limit; the process ends.

## The modules

| module | models | proofs |
|---|---|---|
| `GameRegistry` | what the core promises: `users_status` and the life of every game, one action per critical section | `GameRegistryProofs` |
| `ServerCore` | how the core does it: its dispatcher, `createGame` between two threads, the rooms as the core sees them, closing the component; implements `GameRegistry` | `ServerCoreProofs` |
| `MatchDatabase` | the table of matches as operators on a record, with `IDSet` | in `MatchManagerProofs` |
| `MatchManager` | the module's dispatcher, its copy of the status, delayed offers and the database threads, over `GameRegistry` | `MatchManagerProofs` |
| `GameChess` | a game and its clocks as operators on a record | in `GameRoomProofs` |
| `GameRoom` | the thread of a room: presences, iqs of the players, the timer, the stop | `GameRoomProofs` |
| `ChessBasedGame`, `Chess` | the rules as libchess has them: how pieces move, special moves tried on the board and undone, ends, recorded games | TLC only |
| `LawsOfChess` | the laws of chess as a reference, stated by attacks | |
| `Pool`, `Dispatcher`, `DatabaseManager` | tasks on threads, the queue and agenda of a dispatcher, connections and transactions, one action per critical section | |
| `ThreadsSystem` | the composition of the three: a dispatcher and transactions as tasks of one pool | `ThreadsProofs` |
| `Connection` | `main`, the threads that receive and send, and the core's dispatcher, from connect to exit | `ThreadsProofs` |
| `ServerModule` | what modules with tables share: the copy of the status, an inbox, transactions that run in any order, again when they throw, or fail for good | |
| `DatabaseInterface` | the tables and what the statements do to them | |
| `AnnouncementManager` | the announcements in memory, in the database and in searches, over `ServerModule` | `ServiceProofs` |
| `AdminComponent` | bans in memory, in the database and at the jabber server, over `ServerModule` | `ServiceProofs` |
| `ProfileManager` | online times and profiles, over `ServerModule` | `ServiceProofs` |
| `GameResults` | rated results stored by transactions statement by statement, with row locks | `ServiceProofs` |
| `AdjournedGames` | an adjourned game from the room over the database and the offer to the room | TLC only |
| `SwissPairing` | the pairing of a round as operators on a tourney | in `TourneyProofs` |
| `TourneyManager` | tournaments over the part of the core and rooms they use | `TourneyProofs` |
| `Muc` | a room as a chat: who is told what about whom | TLC only |
| `MatchFactory` | from the stanza of an offer or announcement to its game: validation, defaults, colors, clocks | `MatchFactoryProofs` |

`MC*` modules hold the instances of the runs. Definitions marked *Mutant* in a
comment are variants of the definition that follows: a plausible bug of the
code each, which breaks the property it was written for. No action of the
specification uses them.

### GameRegistry and ServerCore

`users_status` maps every Jid to its `UserStatus`; the code's map has no entry
for an unknown user, which acts like the default status. `games` follows every
`Game` object: *new* until `createGame` takes its players, *live* until
`_endGame` gives them back, *ended*. `CreateGame` is the critical section at
the head of `createGame` (ServerCore.cc:139-165), `EndGame` the one of
`_endGame`, `SetPresence` the one of `handlePresence`.

In `ServerCore` the threads are those of the code: one per module in `Module` (it
calls `createGame`), the core's, one per room. What the thread of the core does in
one message is one step (`HandleCreate`, `HandleEnd`, `HandleClose`); what a module
does in `createGame` is four (`CountPlayers` is the critical section, `TakeId`
the fetch-and-add behind it, `ExecCreate` the push on the queue followed by the
wait, `ReturnGame` the return). Stanzas are not in `queue`: the core handles a
presence, or routes one to a room, between any two messages, which covers every
position such a stanza could have had. The same holds for `_close`
(`BeginClose`). While the core stops rooms and modules it executes no other
message. A room is reduced to whether its game is active, its occupants, its
queue of presences and its timer; that the ways in which its game ends are
the only ones is what `GameRoom` shows in detail.

The refinement maps a game to *live* while somebody holds its players: the call
that counted them, its message, the active room, the message that ends it.
`ImplementsRegistry` is `GameRegistry!Spec` under this mapping.

### MatchDatabase and MatchManager

The state of MatchManager is the copy of the status (`users_status`), the
messages on its dispatcher (`inbox`: status notifications and answers of
`loadAdjourned`), the table of matches (`match_db`), the offers that wait for an
adjourned game, and the transactions under way. `core_status` and `games` are
those of `GameRegistry`, of which it is an instance; other modules may create
games at any time. A stanza of a client with any content may be handled at any
moment, which covers queued stanzas. Bad XML and the rules for categories and times
are errors before any state changes; the rules are in `MatchFactory`. `createGame` is one step:
the module's thread waits in it, and everything before the lock reads only the
module's own state. `sent` is the set of stanzas the last step sent; no action
reads it, so TLC's VIEW leaves it out. A null pointer ends the process: `crashed`.
Which of the released ids `acquireID` returns is left open.

### GameChess and GameRoom

`GameChess` has one operator per method that changes a game. Of the
board only what is asked after a move is kept: whether the player to move is
mated or stalemated, and which draw applies; `HandleMove` takes any of them as an
input. The clocks are integers and start counting at the third
move after a start or a resume. They may start at zero or below, as a resumed game
does that was adjourned after a flag fell, and each player has an increment
that may be below zero, since nothing validates it. `GameRoom` has one action per handler. Each ends,
as `handleGameIq` does, with the look at the clock (`GoOn`), and contains the
`endGame` it may reach. `ends` records what each call of `endGame` did and is
read by properties only. `Never` stands for the million hours by which the code
postpones the timeout of a player who is there.

### Chess

`ChessBasedGame` has the moves of the pieces by their tables of offsets, checks,
and the tests for mate and stalemate that try those tables. `Chess` adds castling,
en passant and promotion, the state and its comparison for repetitions, the trial of a
move on the one board and the way it is taken back, and the record of a move with its
replay. `LawsOfChess` states the laws as a reference: a move is legal when it
follows the pattern of its piece and leaves no attack on the own king.

### Threads, database connections, the connection of the process

`Pool`, `Dispatcher` and `DatabaseManager` have one action per critical section of
the code's conditions and semaphores; `ThreadsSystem` composes them: the
dispatcher and every transaction are tasks of one pool, a message of the dispatcher
may queue a transaction (`Effect`), and `stop` may come at any time. `connections_left`
is read and changed by several threads without a lock and may become negative.
`Connection` is the other side: the main thread and the tasks that receive and send,
from `connect` to the end of the process, with signals, the loss of the
connection at any moment, and stanzas received while it closes.

### MatchFactory

What the managers leave out: `validateXML` is a predicate of the offer, `Validated`
what it changes in its copy, `getPlayersFromXML` draws the colors nobody chose, and `newGame`
is the two constructors of a game. `asked` keeps the offer as it was sent, and
`GameAsOffered` compares the game with it. `MoveAtOnce` plays the first four moves, which is when
an increment below zero or a clock at 0 ends the game.

### The modules with tables

`ServerModule` is what they share; a transaction is a member of a bag, run in any
order, again when it threw, and given up after three failures. (That a transaction
runs again after its commit was reported lost is in `MatchManager` only, for the loads.)
`AnnouncementManager`, `AdminComponent` and `ProfileManager` have one action per
handler and one per transaction; the end of the process and a start of
the next one are actions too, and read the tables as the constructors do. What the
modules share is the table of users: in `AdminComponent` rows may be added to it
at any time (`OthersAddUser`), since a ban depends on whether there is one; `missed` are the
users whose ban found none. The other properties do not depend on it.
`GameResults` looks inside one transaction: `insertGameResult` statement by
statement, with the row locks of PostgreSQL in READ COMMITTED.
`AdjournedGames` follows one adjourned game: the clock of its room, the history it
is stored with, its row, the list, the offer and the game that resumes from it. What it shows
to occupants and later to those who fetch its states is part of it.

### Tournaments

`SwissPairing` models the style the server asks for: the order of players,
backtracking over opponents, the bye, colours and results. All ratings are 0, as
`TourneyManager` passes them. `TourneyManager` has one action per handler and
timer, and models the part of the core and of the rooms it meets: who is free,
games that end, and the two messages a game's end queues on two dispatchers.

### Muc

A stanza passes the core's queue, where the root node finds the room by name, and the
room's queue; what the room sends passes one queue in order. `view` is what a
client that follows the protocol knows of the room; the property compares it with the room.

## The runs

| run | instance | what it shows |
|---|---|---|
| `offers` | 2 users, one with two resources, 1 game, 2 matches, 2 kinds of terms | the table, its index and its ids stay consistent; games start on agreed terms, and a reoffer voids what was accepted; nobody waits for a user known to be gone; the copy catches up with the core; no match disappears unseen |
| `adjourned` | 2 users, 1 adjourned game, 2 offers for it, one transaction run twice | every answer of the database finds its offer; matches of users who leave are closed, offers that wait are taken |
| `core` | 2 users, 2 modules, 2 games, 1 visitor | ids, routes, the disco and searches agree with the rooms; a returned jid can be entered; rooms are closed last and in the end; the core implements `GameRegistry`, also while it is closed; `createGame` returns |
| `rooms` | 3 moves; all requests within 2 units of time, or no requests for 5; clocks from 0 or 1, increments of -1 and 1 | one end with the right scores in any order of requests, moves and the stop; clocks, flags and absences; the timer ends what nobody else ends |
| `games` | 11 openings, followed for 1 to 9 plies; 4 or 6 players of a tournament | the moves libchess accepts are the legal ones, a trial leaves the board as it was, mates and draws are those of the laws, the replay of a game gives the game; pairings and scores of the rounds of a tournament, and that a round starts when the last one was counted |
| `threads` | 5 threads, 2 clients at a time, 3 transactions, 2 connections; 2 stanzas and 1 user for the connection | no connection is lost or opened beyond the limit, tasks have threads, messages run once and in order, all work gets done, the connection closes once and tells the users, the process ends |
| `services` | for each module 2 users, 2 announcements and the games made of them, 1 restart, a ban of a user without a row, 4 rated results, 3 clients of a room, 2 stored rows of adjourned games with 6 moves and clocks down to -2 s, the offers of 2 users and the announcements of one with every choice of colors, 11 times and increments that take three minutes away | each table against the memory it follows, pages of searches, ratings, views of a room, adjourned games; games have the players, colors, clocks and flags that were asked for |

A behaviour of `services` is of one module, which its first state chooses: the modules
share nothing but the table of users, for which `AdminComponent` has a step of its own. In `games` it is a game of chess or a tournament. `rooms`, `threads` and
the tournaments have two kinds of behaviours in the same way.

The bounds: two pending matches are enough for an index entry or an id to end up
in the wrong match; two games for a user to be in a second one and for an id
to be used twice; two messages in `inbox` for a notification to be stale while
another arrives; two delayed offers for an answer to find the wrong one.
`MaxInbox` only holds back the environment: answers of the database are always
queued. In the core one visitor and one waiting presence make a room occupied,
vacant, or about to be entered. With three moves the clocks count for both
players, and five units of time let a player leave, come back, run out of time
and be found by the timer. Clocks that start at 0 and an increment of -1
let each way happen in which a flag falls (`MayFall`). Requests and long clocks are not combined: a request
does not touch the clocks, and the theorems have no bound. The openings of `games` are
positions after an irreversible move, so that what came before does not matter to
repetitions; each has the rule it is there for, and nine plies are
a third repetition. Three transactions on two connections make one wait; five threads are
as many as the tasks that run at once. Two transactions under way are the
least that can overtake each other. A game that is made of an announcement, or ends, notifies
both of its players in one step, and these two messages come on top of the one that
may wait besides. An adjourned game is looked at 1, 3 and 6 half seconds after its start, so a clock
of one second stops above, at and below zero. Four results of three players make a circle of
locks, six players and three rounds make the pairing go back; one process end between any two steps
shows what the next process reads. The times of offers are those on both sides of each
category's limits, three moves those after which clocks count.

`offers` uses a symmetry: terms and games are only compared, and the two
resources of one user do the same things. `core` and the tournaments take games or players in
one order where they are only compared (`InOrder`). No symmetry is used with
liveness.

Fairness: dispatchers run while they have a message, every transaction is run
(each has a thread, and connections are returned), a call of `createGame`
goes on when it can, the threads of rooms handle their stanzas and their timers
fire, time passes, threads of the pool that are awake go on, `iks_recv` returns in
time. Nothing is assumed of clients, and nothing of how or when games end: the
timer's fairness is that of `CheckTime(id, FALSE)`. Liveness of a game is asked of
what happens early enough for the timer to run before the clock's bound (`InTime`).

Deadlock is not checked where the bounds, a crash or the end of the component
stop the system.

Five runs show where the code does something else than a comment or the
document says:

* `solo_players`: `closeMatch` closes the other matches of *multigame* players;
  the comment above it says of those who are not (MatchManager.cc:342).
* `unknown_adjourned`: an adjourned game that does not exist, which a comment at
  MatchManager.cc:244 takes into account, ends in a null pointer.
* `core_shutdown`: a module that is in `createGame` when the component is closed
  waits for the core's thread, which waits for the module (ServerCore.cc:115).
* `stalemate_is_draw`: the code of a stalemate is outside of the range of draws
  (GameChess.cc:299), so black wins.
* `tourney_rounds`: when the last result of a round is handled before the core has
  handled the end of the game, `createGame` refuses the next game of its
  players, and the exception ends the process (TourneyManager.cc:185).

## What the code does

Where the models take no side, they do what the code does, and it is worth
knowing. *Games and rooms*:

* the end code of a mate is named after the winner's color, while the protocol
  document (chessd_protocol_doc.txt:185) says it names the mated player; the
  scores are right, so `ScoresMatchReason` says nothing of mates;
* a draw, cancel or adjourn request stays until it is declined, moves in between
  do not matter; one player alone may cancel a game while not both have moved;
* a game may be adjourned although a flag has fallen since the last look at the
  clock (GameRoom.cc:406); the time stored is then negative;
* the first two moves after a resume are not charged, `auto_flag` is on after it,
  and the increment stored for both is white's (GameChess.cc:510);
* times are stored in whole seconds, rounded towards zero twice: above zero this
  is rounding down, but -5 s is stored as -4, and -1.5 s as 0 (GameChess.cc:505);
* a clock at 0 or below at the start, of a resumed game or of an announcement of the category
  untimed, is only looked at after two moves, and then its flag falls, or both do;
* increments are not validated (MatchChess.cc:73): one below zero takes time from its
  player with every move, and may take all of it, so that the player loses in the turn of
  the opponent. In the models times and increments are integers, in the code 64 bits: an offer
  of hundreds of thousands of years would overflow;
* an adjourned game is erased before `createGame` is called, so it is lost when
  the core refuses the game (MatchManager.cc:77), and it may be resumed a second
  time until the erase has run;
* castling may take an enemy piece on d1 or f1 with the rook, and pawns on e2 or d2
  do not forbid the king to pass (ChessBasedGame.cc:328); an en passant square is kept
  also when nobody can take, which delays repetitions; a promotion does not
  restart the count of fifty moves. `MovesAreLegal` and `EndsAreRight` exempt exactly these;
* an announcement without clocks becomes a game with clocks at 0, which is drawn on
  time after two moves: its category is compared with "Untimed"
  (ChessMatchAnnouncement.cc:45); `GameAsOffered` exempts exactly that;
* a user who enters a room between the check that it is empty (GameRoom.cc:217)
  and its close stays in a room that is gone, and is not told.

*Modules*:

* a category given to `getRatings` makes a statement that is not SQL
  (DatabaseInterface.cc:108); the third failure ends the process;
* a ban kicks before the access list is updated, so the user may come back at
  once; a second ban keeps the first reason in memory; a ban of a user the
  database does not know yet is in memory only, also after the user has got a row, and is gone in the next
  process (DatabaseInterface.cc:653; `BansStored` says which bans these are); a word banned twice at a time ends the process;
* `searchAnnouncement` reads the list in the thread of the database while the module
  changes it; owners are compared with their resource, so a user can accept
  the announcement of another resource; an announcement is lost when its game is refused;
* the first resource of a user that leaves ends the online time of all;
* the first rated game of a new player can be lost when two are stored at the same
  time (read committed, DatabaseInterface.cc:156);
* a cancelled or adjourned game of a tournament counts as a win of black
  (ChessTourney.cc:73); a round without a pairing never starts, and the tournament stays;
  a user may join twice (TourneyManager.cc:272), and what follows ends in
  a null pointer or in a wrong result.

*Threads and connection*:

* scheduled messages run only when the queue is empty, and one for the same
  instant as another is dropped by the agenda's map (Dispatcher.cc:106); `exec` on
  a dispatcher that was stopped waits for ever;
* a message left in the core's queue runs after `~ServerCore`, where `onError` is a
  pure virtual function (ComponentBase.cc:94); stanzas received during the close
  are routed to modules and rooms that were deleted: the model's outcome *crashed*;
* the thread that sends may be started after the close and is then joined by nobody;
* a result or error iq without an id or without a child is answered with an error
  (Node.cc); an iq that is never answered is tracked for ever; `ServerModule`
  compares the type of an iq with "result", which is its subtype, so its
  handlers of results are never called (ServerModule.cc:76).

## The proofs

All theorems hold for any values of the constants that satisfy the named
assumptions of the modules: finite sets, natural bounds, two players in an
adjourned game, clocks and increments that are integers.

`GameRegistryProofs` proves that `games_playing` is exact and never negative.
`TypeOK` alone is not inductive: only the exact count shows that `EndGame` never
decrements below zero, so the inductive invariant is `TypeOK /\ CountsExact`.
Each action changes the set of live games of a user by at most the one game of
the action, and the lemmas on cardinalities of the library turn this into plus
or minus one. That a single-game user never enters a second game follows from
it, since `canPlay` reads the counter.

`MatchManagerProofs` first shows that each operation of the table keeps `DbInv`:
types, the index as the inverse of the matches, ids either free or in use, and
exact pending counts. None of them is inductive without the index: `closeMatch`
trusts it.

For the module it has the inductive invariant `IInv`: the invariant of the
registry for the core's part (the lemmas of `GameRegistryProofs` are used through
an instance), the types of the queues, and `TableInv`, which adds to `DbInv` that
every match in the table waits for somebody, was accepted by somebody, and has
only available players. The last part needs the first: when a user leaves,
exactly the matches of the index are closed, so it must be exact. Every action of
the core it takes is one of `GameRegistry` or a stutter.
On top of `IInv`:
* `CopyCatchesUp` needs that the core's queue of a notification keeps the order:
  the last notification about a user is the status of the core. Handling one takes it from
  the front, and every other message leaves the copy alone.
* `TermsAgreed` and `NoSilentClose` are about steps. Lemmas say of every message what it
  does to the table: a match starts by the accept of its last player, gets
  other terms only with the answers to the offer, and leaves with a start, with declines
  or with the error of `createGame`.
* `ResumeFindsOffer` counts, for each adjourned game, the offers that wait, the loads under
  way and the answers queued; the positions of a message in a queue are counted by lemmas
  on what appending, taking the front and concatenating do to them.

`GameRoomProofs` shows that a game ends once, with scores that agree with the
reason, which flags may fall (`OneFlagFalls`), and that absence is timed. The strengthening is `Undecided`: while a game is active not
only its end code but also who resigned, whose time is over and the mate on the
board say that nothing has happened, which is what `Result` reads. Each method of
`GameChess` turns an undecided game into one that is undecided or `Decided`.
`OneFlagFalls` holds for any integers as clocks and increments: clocks that count are above zero as
long as the game goes on, because every handler ends with a look at the flags. So a flag can
only fall by what came since the last look: the time of the player to move, the
increment of the one who moved (`JustMoved`), or the clocks beginning to count.
`OnlyAbsentLose` is about steps: `AddEnd` is the only change of `ends`, and of its
callers only `CheckAbsence` gives a reason that blames an absence, after it looked at
`occupants`; the ends by move, request or flag come from `Result`, whose reasons are others.

`ThreadsProofs` shows that connections are accounted for and that tasks have
threads. `connections_left` may be below what is left, so the invariant is
`opened + connections_left <= MaxConnections`, with `opened` the sum of the free
connections and the transactions that perform. For the pool: `idle_count` is the
number of threads that wait for a signal, and there are at least as many threads
about to look at the queue as tasks in it. A lemma on how one thread's change of
state changes the number of threads in some states carries the counting.
`MessagesInOrder` needs `MessageInv`. For each client there is a `k` such that its messages
`1..k` were taken and the others stand in the queue in the order of their numbers, so the front
of the queue is always number `k + 1` of its client. A message of the agenda has one time,
which is its key there, and the dispatcher takes the first key, when it has come. What was queued
before `stop` is in the queue, being called or done until `run` has found its queue
empty, and its task keeps its status until then: no other step ends it.

`ServerCoreProofs` shows that the core implements the registry, and from the
exact counts of `GameRegistryProofs`, used through an instance, that the shutdown
gives all players back. The invariant says who holds a game: its call and the message of
that call, then its active room, then the message of its end, and never two of
these (`CallInv`, `RoomInv`, `MessageInv`); ids in use are below `game_ids` and differ.
Only `_endGame` takes a game from its last holder, which is the step `EndGame` of the
registry; every other step hands the game on or is a stutter. A room that queued its
close message has no timer left and is inactive, so it queues no other; this
is `CloseIsLast`. `CloseInv` adds how far the shutdown is.
`CoreRoomsRegistered` adds `RegisteredInv`: the rooms, the handlers of their jids and the disco
change together or in an order in which what is found has a room. That a search finds all
games of a player but those still between their call and their room compares two
cardinalities: the rooms of a player map one to one into the live games of the registry.

`ServiceProofs` follows an id from the list through the transactions to the table. `IInv`
adds to the two properties that an id has one insert under way, that is its only copy; that
no erase is under way for a listed id; that a row or a pending insert without a listed
announcement has its erase under way or was overtaken by it; and that what a search was told
is gone stays gone, because ids only grow. Two properties alone are not inductive: an insert
that runs late would bring back an accepted announcement.

For the bans, the same module takes the transactions as a bag of changes. A key that is not
in `raced` has at most one of them, once (`ChangesInv`); memory already is what that change
will make of the table (`MemoryInv`), so a commit makes the two agree and the
INSERT of a word finds no row of it; and the tables agree with memory for a key
without one (`StoredInv`), unless it is in `missed`. Only users with a row are in the table of bans
and rows are never taken away, so a ban that found no row left none. Keys that raced are exempt in the property, and the only ones whose
transactions can throw.

`ThreadsProofs` also proves `ConnectionCloses`, of `Connection`, for any number of stanzas and online users.
Before main starts the receiver nothing has happened (`StartInv`); whoever finds `connected`
true closes, in two steps, and `closes` says which of them comes next (`CloseInv`). The rest
holds unless the connection broke (`WholeInv`): then no error is queued and the one close in
the queue is the one main waits for (`StanzaOrderInv`), where main is tells whether the connection
and the sender are still there (`PhaseInv`), and the stanzas before the end of the sending are
exactly what was promised and is not delivered (`PromiseInv`). After a break the
promise is not kept, and only the first two parts of the property, which need `StartInv` and
`CloseInv`, are claimed.

`ServiceProofs` has three more results, about the games that were played.

* `OnlineTimeTrue`: `OnlineInv` adds to `ProfileTrue` who is in `last_logons` (`LogonInv`) and
  what the `fetchProfile` under way has read (`ShownInv`). The seconds that are queued are
  the elements of a set with one triple per second of each copy of an update; an update is queued with as
  many as the user had in memory, and is done with as many as the table gets,
  so lemmas say by how many a set grows or shrinks when one copy comes or goes. That no
  second is shown twice rests on the lock: while it is held nobody leaves, so
  what is in memory stays there, and the time in the table is read after the lock was
  taken. The users may have any online time in the table at first.
* `PagesLeaveNothingOut`: games are found latest first, so the place of a game is how
  many later ones the player has (`Descending`, `DescendingAt`). A game stored between two
  pages moves every other one place on. `SeenInv` says that the client has seen, of the games
  there were when it began, those at the places before its offset. A new game only moves
  them to later places, so none comes before the offset unseen.
* `ResultsCounted`: what a transaction has read of a player with a row is what is stored, as long as it holds the
  row (`ReadOk`), so what it writes counts one game more (`WrittenOk`); no two hold the
  same row. Of a player without a row only the bounds hold: two first games may count as one.
  The theorem has `RatedGamesCounted` under `NoneGivenUp`: how often a transaction can be
  rolled back depends on how many there are, so that part stays with the run `services`.

`MatchFactoryProofs` proves `GameAsOffered` as `OffersGiveTheirGames`, for any
offers with times that are natural numbers and increments that are integers, which is what `Sent` says of them. The game is made
later than the offer is looked at, so `TermsInv` keeps what `validateXML` found and what `create` made
of it until then. The loop that draws colors is a recursive function over two players:
`TwoColors` shows that the function exists and that its two values differ. For the flags,
`ClocksInv` says what each clock is after so many moves at once: the time asked for, and the increment
once the move that counts was made.

`TourneyProofs` proves `OneRoundAtATime` as `RoundsInOrder`, for any numbers of users,
tournaments and rounds. `TourneyInv` adds to the property that each game is in one place and reported once
(`EachOnce`), that only tournaments that run have games, and the shape of a tournament
(`IsTourney`): its table holds who joined, and the bye; the open games are of players, not of the
bye; a tournament that waits for no result has none open. The last part rests on the pairing, a
recursive function on sets of players: it exists, and pairs nobody twice, by the least number
of players for which it would not (`AssignExists`, `AssignedPairs`). So the bye is in one
game, which `SetByeResult` decides at once, and a report takes away exactly its game, because
users who joined once are found under one name (`ResultTakesGame`).

*Only model-checked*: the liveness properties and what needs ENABLED, which are beyond the
prover; the rules of chess (`MovesAreLegal`, `TryingLeavesBoard`, `EndsAreRight`, `ReplayGivesGame`), the
scores and best pairings of a tournament (`RoundsSound`) and the views of a chat (`ViewsAgree`), which are
RECURSIVE operators or folds over lists, where a proof would be an induction over data; `AdjournedKept`, whose
history is searched and replayed the same way.

## Not modelled

* Ratings as numbers (`GlickoSystem`, floating point); that each game is
  rated once is modelled.
* Parsing and printing: XML, the XMPP stream, addresses, FEN, PGN with its
  disambiguation, dates, translations, hashes, logs. They keep no state.
* Bughouse: no category of the server creates it. The round robin and elimination
  styles of `Pairing/` and its reading of files: the server does not call them.
* The authentication scripts, which are other processes.
* A spurious wakeup in `Queue.hh:52`, whose timed pop takes the front of a queue
  without looking again whether there is one; a thread that cannot be created,
  where `start` returns with the lock held (Task.cc:28).
* The destructor of `MatchManager` next to its running dispatcher: both change the
  table inside of `std::map`, below the grain of the models.
* The insertion of a new user by two transactions at once; the primary key makes the second
  one fail and run again.

## What may follow

An inductive invariant of the adjourned games;
the first disagreement listed above under *Connection* as a run of its own, with the rooms in it.
