---------------------------- MODULE MatchManager ----------------------------
(***************************************************************************)
(* Match offers, from the offer to the game (src/src/MatchManager.cc on    *)
(* src/src/ServerModule.cc and src/src/MatchDatabase.cc).                  *)
(*                                                                         *)
(* MatchManager is a module with one dispatcher thread.  It never reads    *)
(* ServerCore's users_status: it keeps a copy, brought up to date by       *)
(* notifications that ServerCore queues on its dispatcher, so every        *)
(* decision about an offer may be taken on a stale status.  Adjourned      *)
(* games are loaded by a database thread, whose answer is queued on the    *)
(* same dispatcher.  A client's stanza is handled at any moment, with any  *)
(* content: a queued stanza that is processed later is the same behaviour. *)
(*                                                                         *)
(* ServerCore is the abstract GameRegistry here; its createGame is one     *)
(* step of it, and the thread of the module does nothing else until it     *)
(* returns.                                                                *)
(***************************************************************************)
EXTENDS MatchDatabase, Sequences

CONSTANTS
  PartialOf,     \* Jid -> the Jid without its resource
  Adjourned,     \* the Terms that resume an adjourned game (its adjourned_id)
  AdjPlayers,    \* Adjourned -> the players of the adjourned game
  Stored,        \* the adjourned games in the database at the start
  Engines,       \* bound: the users who ever announce multigame
  Game,          \* Game objects, as in GameRegistry; bounds the games
  MaxInbox,      \* bound: a notification is queued behind fewer messages
  MaxDelayed,    \* bound: offers waiting for their adjourned game
  MaxRepeats     \* bound: times a transaction is run again by the database

(* Offers for chess name two players (MatchFactory); a Jid named twice is  *)
(* refused like two Jids of the same user.                                 *)
PlayerPairs == {players \in SUBSET Jid : Cardinality(players) = 2}

ASSUME MatchManagerAssumption ==
  /\ IsFiniteSet(Game)
  /\ Adjourned \subseteq Terms /\ Stored \subseteq Adjourned
  /\ AdjPlayers \in [Adjourned -> PlayerPairs]
  /\ Engines \subseteq Jid
  /\ {MaxInbox, MaxDelayed, MaxRepeats} \subseteq Nat

VARIABLES
  core_status,      \* ServerCore::users_status
  games,            \* the Game objects, as in GameRegistry
  users_status,     \* the module's copy of the status of the users
  inbox,            \* notifications and database answers on the dispatcher
  match_db,         \* the MatchDatabase
  delayed_offer,    \* offers waiting for their adjourned game, in order
  loads,            \* Adjourned -> loadAdjourned transactions under way
  erases,           \* adjourned games whose eraseAdjGame is under way
  adjourned_games,  \* adjourned games in the database
  repeats,          \* transactions run again so far
  sent,             \* the stanzas the last step sent
  crashed           \* the process died dereferencing a null pointer

Core == INSTANCE GameRegistry WITH users_status <- core_status

coreVars == <<core_status, games>>
adjVars == <<delayed_offer, loads, erases, adjourned_games, repeats>>
vars == <<coreVars, users_status, inbox, match_db, adjVars, sent, crashed>>

NoId == -1

Offer == [adj_id : Adjourned, from : Jid, id : MatchId \union {NoId}]

StatusMsg == [kind : {"status"}, user : Jid, status : Core!UserStatus]
ResumeMsg == [kind : {"resume"}, adj_id : Adjourned, found : BOOLEAN]
Message == StatusMsg \union ResumeMsg

SentStanza == [to : Jid, kind : {"result", "error", "offer", "decline", "start"},
               id : MatchId \union {NoId}]

Stanza(to, kind, id) == [to |-> to, kind |-> kind, id |-> id]

(* One stanza of that kind about match id for each of the players. *)
SendAll(players, kind, id) == {Stanza(p, kind, id) : p \in players}

Init ==
  /\ Core!Init
  /\ users_status = [u \in Jid |-> Core!NewStatus]
  /\ inbox = <<>>
  /\ match_db = EmptyDatabase
  /\ delayed_offer = <<>>
  /\ loads = [a \in Adjourned |-> 0]
  /\ erases = {}
  /\ adjourned_games = Stored
  /\ repeats = 0
  /\ sent = {}
  /\ crashed = FALSE

-----------------------------------------------------------------------------
(* ServerCore and the other modules, which share its registry of games.    *)

StatusOf(status, u) == [kind |-> "status", user |-> u, status |-> status[u]]

(* notifyUserStatus for each of players, in the order of the game's list,  *)
(* under the same lock as the change of their status.                      *)
Notices(players) ==
  {notices \in [1 .. Cardinality(players) -> {StatusOf(core_status', u) : u \in players}] :
     \A u \in players : \E i \in DOMAIN notices : notices[i].user = u}

(* Mutant: the notifications are queued after the lock is released, so an  *)
(* older one may be queued behind them.                                    *)
NotifyUnlocked(players) ==
  /\ Len(inbox) + Cardinality(players) <= MaxInbox
  /\ \E notices \in Notices(players) : inbox' = notices \o inbox

Notify(players) ==
  /\ Len(inbox) + Cardinality(players) <= MaxInbox
  /\ \E notices \in Notices(players) : inbox' = inbox \o notices

HandlePresence(u, available, multigame) ==
  /\ ~crashed /\ (multigame => u \in Engines)
  /\ Core!SetPresence(u, available, multigame)
  /\ Notify({u})
  /\ sent' = {}
  /\ UNCHANGED <<users_status, match_db, adjVars, crashed>>

(* TourneyManager or AnnouncementManager creates a game. *)
OtherCreateGame(g, players) ==
  /\ ~crashed
  /\ Core!CreateGame(g, players)
  /\ Notify(players)
  /\ sent' = {}
  /\ UNCHANGED <<users_status, match_db, adjVars, crashed>>

EndGame(g) ==
  /\ ~crashed
  /\ Core!EndGame(g)
  /\ Notify(games[g].players)
  /\ sent' = {}
  /\ UNCHANGED <<users_status, match_db, adjVars, crashed>>

-----------------------------------------------------------------------------
(* Database threads.                                                       *)

(* loadAdjourned: the history is read in the transaction, and the answer   *)
(* queued inside it.                                                       *)
AnswerLoad(a) ==
  inbox' = Append(inbox, [kind |-> "resume", adj_id |-> a,
                          found |-> a \in adjourned_games])

LoadAdjourned(a) ==
  /\ ~crashed /\ loads[a] > 0
  /\ AnswerLoad(a)
  /\ loads' = [loads EXCEPT ![a] = @ - 1]
  /\ sent' = {}
  /\ UNCHANGED <<coreVars, users_status, match_db, delayed_offer, erases,
                 adjourned_games, repeats, crashed>>

(* The transaction fails after its body ran, and will be run again.        *)
RepeatLoad(a) ==
  /\ ~crashed /\ loads[a] > 0 /\ repeats < MaxRepeats
  /\ AnswerLoad(a)
  /\ repeats' = repeats + 1
  /\ sent' = {}
  /\ UNCHANGED <<coreVars, users_status, match_db, delayed_offer, loads, erases,
                 adjourned_games, crashed>>

EraseAdjourned(a) ==
  /\ ~crashed /\ a \in erases
  /\ erases' = erases \ {a}
  /\ adjourned_games' = adjourned_games \ {a}
  /\ sent' = {}
  /\ UNCHANGED <<coreVars, users_status, inbox, match_db, delayed_offer, loads,
                 repeats, crashed>>

-----------------------------------------------------------------------------
(* processOffer                                                            *)

(* The error goes back to the sender and nothing else happens. *)
Refuse(u) ==
  /\ sent' = {Stanza(u, "error", NoId)}
  /\ UNCHANGED match_db

ValidPlayers(u, players) ==
  /\ \A p \in players : Core!CanPlay(users_status[p])
  /\ u \in players
  /\ \A p, q \in players : p # q => PartialOf[p] # PartialOf[q]

(* Mutant: the players of a reoffer are not compared with the old ones. *)
ReofferOfAnyPlayers(players, id) == HasMatch(match_db, id)

ValidReoffer(players, id) ==
  HasMatch(match_db, id) /\ match_db.matchs[id].players = players

(* The offer is in the table as db: its sender accepts it, and the other   *)
(* players are told of it.                                                 *)
PublishOffer(db, u, players, id) ==
  /\ match_db' = AcceptMatch(db, id, u)
  /\ sent' = {Stanza(u, "result", id)} \union SendAll(players \ {u}, "offer", id)

ProcessOffer(u, players, terms, id) ==
  \/ /\ ValidPlayers(u, players) /\ id # NoId /\ ValidReoffer(players, id)
     /\ PublishOffer(ReplaceMatch(match_db, id, players, terms), u, players, id)
  \/ /\ ValidPlayers(u, players) /\ id = NoId
     /\ \E new \in AcquirableIds(match_db) :
          PublishOffer(InsertMatch(match_db, new, players, terms), u, players, new)
  \/ /\ \/ ~ValidPlayers(u, players)
        \/ id # NoId /\ ~ValidReoffer(players, id)
     /\ Refuse(u)

-----------------------------------------------------------------------------
(* The module's dispatcher: iqs.  _handleStanza answers the iqs of a user  *)
(* who is not available with an error.                                     *)

RefuseUnavailable(u) ==
  /\ ~crashed /\ ~users_status[u].available
  /\ Refuse(u)
  /\ UNCHANGED <<coreVars, users_status, inbox, adjVars, crashed>>

(* Bound: MaxMatches leaves an id for every offer that waits for its game. *)
Room == Cardinality({id \in MatchId : ~HasMatch(match_db, id)}) > Len(delayed_offer)

HandleOffer(u, players, terms, id) ==
  /\ ~crashed /\ users_status[u].available
  /\ id = NoId => Room
  /\ ProcessOffer(u, players, terms, id)
  /\ UNCHANGED <<coreVars, users_status, inbox, adjVars, crashed>>

(* handleOffer with an adjourned_id: kept until the game is loaded. *)
HandleAdjournedOffer(u, a, id) ==
  /\ ~crashed /\ users_status[u].available
  /\ Room /\ Len(delayed_offer) < MaxDelayed
  /\ delayed_offer' = Append(delayed_offer, [adj_id |-> a, from |-> u, id |-> id])
  /\ loads' = [loads EXCEPT ![a] = @ + 1]
  /\ sent' = {}
  /\ UNCHANGED <<coreVars, users_status, inbox, match_db, erases,
                 adjourned_games, repeats, crashed>>

(* Mutant: only the first player of a closed match is told. *)
DeclinesToOne(db, ids) ==
  {Stanza(CHOOSE p \in db.matchs[id].players : TRUE, "decline", id) : id \in ids}

(* closeMatch(id, false) on each of ids: all their players are told. *)
Declines(db, ids) ==
  UNION {SendAll(db.matchs[id].players, "decline", id) : id \in ids}

HandleDecline(u, id) ==
  /\ ~crashed /\ users_status[u].available
  /\ \/ /\ HasPlayer(match_db, id, u)
        /\ match_db' = CloseMatchs(match_db, {id})
        /\ sent' = {Stanza(u, "result", id)} \union Declines(match_db, {id})
     \/ ~HasPlayer(match_db, id, u) /\ Refuse(u)
  /\ UNCHANGED <<coreVars, users_status, inbox, adjVars, crashed>>

(* The other matches closeMatch(id, true) closes: those of the players     *)
(* that are multigame, as the code has it.                                 *)
MatchsOfMultigame(db, players) ==
  UNION {db.player_matchs[p] : p \in {q \in players : users_status[q].multigame}}

(* AdjournedWrapper::createGame erases the adjourned game beforehand. *)
EraseIfAdjourned(terms) ==
  erases' = IF terms \in Adjourned THEN erases \union {terms} ELSE erases

(* handleAccept when the last player accepts: closeMatch(id, true).  The   *)
(* match and the others it closes are gone when createGame fails.          *)
StartMatch(u, id) ==
  LET m      == match_db.matchs[id]
      closed == CloseMatchs(match_db, {id})
      others == MatchsOfMultigame(closed, m.players)
      told   == {Stanza(u, "result", id)} \union Declines(closed, others)
  IN  /\ match_db' = CloseMatchs(closed, others)
      /\ EraseIfAdjourned(m.terms)
      /\ \/ /\ \E g \in Game : Core!CreateGame(g, m.players)
            /\ Notify(m.players)
            /\ sent' = told \union SendAll(m.players, "start", id)
         \/ /\ ~Core!AllCanPlay(m.players)
            /\ sent' = told \union {Stanza(u, "error", NoId)}
            /\ UNCHANGED <<coreVars, inbox>>

HandleAccept(u, id) ==
  /\ ~crashed /\ users_status[u].available
  /\ \/ /\ ~HasPlayer(match_db, id, u)
        /\ Refuse(u)
        /\ UNCHANGED <<coreVars, inbox, erases>>
     \/ /\ HasPlayer(match_db, id, u)
        /\ ~IsDone(AcceptMatch(match_db, id, u), id)
        /\ match_db' = AcceptMatch(match_db, id, u)
        /\ sent' = {Stanza(u, "result", id)}
        /\ UNCHANGED <<coreVars, inbox, erases>>
     \/ /\ HasPlayer(match_db, id, u)
        /\ IsDone(AcceptMatch(match_db, id, u), id)
        /\ StartMatch(u, id)
  /\ UNCHANGED <<users_status, delayed_offer, loads, adjourned_games, repeats, crashed>>

-----------------------------------------------------------------------------
(* The module's dispatcher: queued messages.                               *)

(* Mutant: the copy is updated but the offers of the user are kept. *)
KeepOffers(msg) ==
  /\ users_status' = [users_status EXCEPT ![msg.user] = msg.status]
  /\ UNCHANGED match_db
  /\ sent' = {}

(* _notifyUserStatus, then handleUserStatus. *)
UpdateStatus(msg) ==
  LET gone == IF msg.status.available THEN {} ELSE match_db.player_matchs[msg.user]
  IN  /\ users_status' = [users_status EXCEPT ![msg.user] = msg.status]
      /\ match_db' = CloseMatchs(match_db, gone)
      /\ sent' = Declines(match_db, gone)

HandleUserStatus ==
  /\ ~crashed /\ inbox # <<>> /\ Head(inbox).kind = "status"
  /\ UpdateStatus(Head(inbox))
  /\ inbox' = Tail(inbox)
  /\ UNCHANGED <<coreVars, adjVars, crashed>>

(* The positions of the offers that wait for the adjourned game a. *)
Waiting(a) == {i \in 1 .. Len(delayed_offer) : delayed_offer[i].adj_id = a}

(* Mutant: the offer is not erased from the waiting ones. *)
TakeAndKeepOffer(a) ==
  \E i \in Waiting(a) :
    /\ \A j \in Waiting(a) : i <= j
    /\ ProcessOffer(delayed_offer[i].from, AdjPlayers[a], a, delayed_offer[i].id)
    /\ UNCHANGED delayed_offer

(* resumeOffer takes the oldest offer waiting for the game. *)
TakeDelayedOffer(a) ==
  \E i \in Waiting(a) :
    /\ \A j \in Waiting(a) : i <= j
    /\ ProcessOffer(delayed_offer[i].from, AdjPlayers[a], a, delayed_offer[i].id)
    /\ delayed_offer' = SubSeq(delayed_offer, 1, i - 1)
                          \o SubSeq(delayed_offer, i + 1, Len(delayed_offer))

HandleResume ==
  /\ ~crashed /\ inbox # <<>> /\ Head(inbox).kind = "resume"
  /\ Head(inbox).found /\ Waiting(Head(inbox).adj_id) # {}
  /\ TakeDelayedOffer(Head(inbox).adj_id)
  /\ inbox' = Tail(inbox)
  /\ UNCHANGED <<coreVars, users_status, loads, erases, adjourned_games, repeats, crashed>>

(* No history: the error is thrown before the stanza is looked up, and     *)
(* getErrorStanza gets a null pointer.  No waiting offer: processOffer     *)
(* gets the null stanza.                                                   *)
ResumeCrash ==
  /\ ~crashed /\ inbox # <<>> /\ Head(inbox).kind = "resume"
  /\ ~Head(inbox).found \/ Waiting(Head(inbox).adj_id) = {}
  /\ crashed' = TRUE
  /\ inbox' = Tail(inbox)
  /\ sent' = {}
  /\ UNCHANGED <<coreVars, users_status, match_db, adjVars>>

-----------------------------------------------------------------------------

Environment ==
  \/ \E u \in Jid, available, multigame \in BOOLEAN :
        HandlePresence(u, available, multigame)
  \/ \E g \in Game, players \in PlayerPairs : OtherCreateGame(g, players)
  \/ \E g \in Game : EndGame(g)

DatabaseThreads ==
  \E a \in Adjourned : LoadAdjourned(a) \/ RepeatLoad(a) \/ EraseAdjourned(a)

HandleIq ==
  \E u \in Jid, id \in MatchId \union {NoId} :
    \/ RefuseUnavailable(u)
    \/ \E players \in PlayerPairs, terms \in Terms \ Adjourned :
          HandleOffer(u, players, terms, id)
    \/ \E a \in Adjourned : HandleAdjournedOffer(u, a, id)
    \/ id # NoId /\ (HandleAccept(u, id) \/ HandleDecline(u, id))

HandleMessage == HandleUserStatus \/ HandleResume \/ ResumeCrash

Next == Environment \/ DatabaseThreads \/ HandleIq \/ HandleMessage

Spec == Init /\ [][Next]_vars

(* The dispatcher's thread runs whatever is queued, and the database runs  *)
(* the transactions it is given.                                           *)
Fairness ==
  /\ WF_vars(HandleMessage)
  /\ \A a \in Adjourned : WF_vars(LoadAdjourned(a))

FairSpec == Spec /\ Fairness

-----------------------------------------------------------------------------

(* Every variable has its type, and ids sent to clients are ids of the     *)
(* table or NoId in an error.                                              *)
TypeOK ==
  /\ core_status \in [Jid -> Core!UserStatus]
  /\ games \in [Game -> Core!GameInfo]
  /\ users_status \in [Jid -> Core!UserStatus]
  /\ inbox \in Seq(Message)
  /\ match_db \in Database
  /\ delayed_offer \in Seq(Offer)
  /\ loads \in [Adjourned -> Nat]
  /\ erases \subseteq Adjourned
  /\ adjourned_games \subseteq Adjourned
  /\ repeats \in Nat
  /\ sent \subseteq SentStanza
  /\ \A s \in sent : s.id = NoId <=> s.kind = "error"
  /\ crashed \in BOOLEAN

(* Through offers, reoffers, accepts, declines and users leaving, the      *)
(* players index stays the inverse of the matches: closeMatch is never     *)
(* called on an id that is not in the table (it does not test for it).     *)
PlayersIndexed == IndexConsistent(match_db)

(* No id is lost and none of a pending match is free to be given out       *)
(* again, however matches are closed: singly, or together when a game      *)
(* starts.                                                                 *)
IdsAccounted == IdsPartition(match_db)

(* Between two messages, a match in the table still waits for somebody,    *)
(* its count of them is exact, and somebody (who offered it) has accepted. *)
PendingCounted ==
  /\ PendingExact(match_db)
  /\ \A id \in MatchId : HasMatch(match_db, id) =>
       /\ match_db.matchs[id].pending_count > 0
       /\ match_db.matchs[id].accepted # {}

(* The table of matches is consistent between two messages: its index, its *)
(* ids and its counts of players who have not accepted.  Each operation of *)
(* MatchDatabase relies on it, and none of them tests it.                  *)
MatchsConsistent == PlayersIndexed /\ IdsAccounted /\ PendingCounted

(* Every player of a pending match is available, for all the module knows: *)
(* an offer never waits for a user who is known to have left, although it  *)
(* is made, loaded from the database and accepted at different times.      *)
PlayersAvailable ==
  \A id \in MatchId : \A p \in match_db.matchs[id].players :
    users_status[p].available

(* The positions of the notifications about u that are still queued. *)
Queued(u) ==
  {i \in 1 .. Len(inbox) : inbox[i].kind = "status" /\ inbox[i].user = u}

(* The copy the module decides on is the status of ServerCore as soon as   *)
(* the notifications about the user are handled: none is lost or overtaken *)
(* by an older one.                                                        *)
CopyCatchesUp ==
  \A u \in Jid :
    IF Queued(u) = {} THEN users_status[u] = core_status[u]
    ELSE \E i \in Queued(u) :
           /\ \A j \in Queued(u) : j <= i
           /\ inbox[i].status = core_status[u]

(* The answers about a queued for resumeOffer. *)
Resumes(a) == {i \in 1 .. Len(inbox) : inbox[i].kind = "resume" /\ inbox[i].adj_id = a}

(* Every offer that waits for an adjourned game has a load under way or an *)
(* answer queued, and there are more of these only when the database ran a *)
(* transaction again: otherwise resumeOffer always finds its offer.        *)
ResumeFindsOffer ==
  \A a \in Adjourned : ~crashed =>
    LET pending == loads[a] + Cardinality(Resumes(a))
    IN  /\ Cardinality(Waiting(a)) <= pending
        /\ pending <= Cardinality(Waiting(a)) + repeats

(* p is told that match id became a game *)
Started(p, id) == Stanza(p, "start", id) \in sent'

(* A game starts from an offer only when each of its players has accepted  *)
(* the match the offer named, the last of them in this very step; all the  *)
(* players, and nobody else, are told and are in one live game together.   *)
GameFromAgreement ==
  \A id \in MatchId, p \in Jid : Started(p, id) =>
    LET m == match_db.matchs[id] IN
    /\ \E u \in Jid : /\ m.players \ m.accepted = {u}
                      /\ Stanza(u, "result", id) \in sent'
    /\ {q \in Jid : Started(q, id)} = m.players
    /\ \E g \in Game : /\ games[g].phase = "new"
                       /\ games'[g].phase = "live"
                       /\ games'[g].players = m.players

(* A reoffer voids the acceptances of the terms it replaces: the only one  *)
(* who has accepted the new terms is who proposed them.                    *)
ReofferVoidsAccepts ==
  \A id \in MatchId :
    HasMatch(match_db, id) /\ HasMatch(match_db', id)
      /\ match_db'.matchs[id].terms # match_db.matchs[id].terms =>
    \A p \in match_db'.matchs[id].accepted : Stanza(p, "result", id) \in sent'

(* What users agree to: the terms that are accepted are the terms of the   *)
(* game, and of all who play it.                                           *)
TermsAgreed == [][GameFromAgreement /\ ReofferVoidsAccepts]_vars

(* Somebody is told that match id is gone: all its players that it was     *)
(* declined, or all that it started, or the one who accepted last gets the *)
(* error of createGame.                                                    *)
ClosedOpenly(id) ==
  LET players == match_db.matchs[id].players IN
  \/ SendAll(players, "decline", id) \subseteq sent'
  \/ SendAll(players, "start", id) \subseteq sent'
  \/ \E u \in players : {Stanza(u, "result", id), Stanza(u, "error", NoId)} \subseteq sent'

(* A match leaves the table in front of its players.                       *)
NoSilentClose ==
  [][\A id \in MatchId :
       HasMatch(match_db, id) /\ ~HasMatch(match_db', id) => ClosedOpenly(id)]_vars

-----------------------------------------------------------------------------
(* Liveness.                                                               *)

(* When a user goes offline, the matches of the user are closed in the end *)
(* (unless the user is back before the module gets to it).                 *)
OfflineMatchsClosed ==
  \A u \in Jid : ~core_status[u].available ~>
    (match_db.player_matchs[u] = {} \/ core_status[u].available \/ crashed)

(* While offers wait for an adjourned game, resumeOffer goes on taking     *)
(* them, the oldest first: none of them waits for ever.                    *)
DelayedOffersTaken ==
  \A a \in Adjourned :
    <>[](Waiting(a) # {} /\ ~crashed) =>
      []<><<Cardinality(Waiting(a)') < Cardinality(Waiting(a))>>_delayed_offer

(* No offer is left behind: not by a player who leaves, not while the      *)
(* database is asked.                                                      *)
OffersSettled == OfflineMatchsClosed /\ DelayedOffersTaken

-----------------------------------------------------------------------------
(* What comments and the protocol document say of the module, and the code *)
(* does not do.                                                            *)

(* MatchManager.cc:342: "close all other matchs if the user is not multi   *)
(* game" when a game starts.                                               *)
SoloPlayersReleased ==
  [][\A id \in MatchId, p \in Jid :
       Started(p, id) /\ ~users_status[p].multigame =>
         match_db'.player_matchs[p] = {}]_vars

(* MatchManager.cc:244: "if the history is empty, it means that the id     *)
(* does not exist", and its sender is answered "Invalid adjourned game     *)
(* id"; so nothing a user asks for takes the server down.                  *)
NeverCrashes == ~crashed

=============================================================================
