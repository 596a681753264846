-------------------------------- MODULE MCServices -----------------------------
(***************************************************************************)
(* The modules that keep tables of their own, the results of games, a room *)
(* as a chat, adjourned games and the creation of games, for TLC.  They    *)
(* share nothing but the users of the database, so each behaviour is of    *)
(* one of them, which the first state chooses.                             *)
(***************************************************************************)
EXTENDS AnnouncementManager, AdminComponent, ProfileManager, GameResults, MatchFactory

CONSTANTS a1, a2, b1, r1, r2, r3, r4

VARIABLE part

VARIABLES room, users, items, core_queue, room_queue, output, view

chat_vars == <<room, users, items, core_queue, room_queue, output, view>>

(* A room: a client asks for what it likes, two of them for the same nick. *)
Stanza(from, kind, nick, status) == [from |-> from, kind |-> kind, nick |-> nick, status |-> status]

MCRequests ==
  {Stanza(1, "available", "n", "on"), Stanza(1, "available", "n", "away"),
   Stanza(1, "unavailable", "n", "on"), Stanza(1, "error", "n", "on"),
   Stanza(2, "available", "n", "on"), Stanza(2, "available", "m", "on"),
   Stanza(2, "unavailable", "n", "on"), Stanza(2, "private", "n", "on"),
   Stanza(2, "items", "n", "on"),
   Stanza(3, "available", "m", "on"), Stanza(3, "unavailable", "m", "on"),
   Stanza(3, "groupchat", "m", "on")}

Chat == INSTANCE Muc WITH
  Client <- 1..3, Requests <- MCRequests, MaxRequests <- 2, MaxOutput <- 0

VARIABLES live, stored, next_row, offers, erases, clock, server, listed, over, story

adjourned_vars ==
  <<live, stored, next_row, offers, erases, clock, server, listed, over, story>>

(* Adjourned games: timed with and without auto_flag, and untimed.         *)
Adjourned == INSTANCE AdjournedGames WITH
  Second <- 2, Clock <- 1, Kinds <- {<<TRUE, TRUE>>, <<TRUE, FALSE>>, <<FALSE, TRUE>>},
  Instants <- {1, 3, 6}, MaxMoves <- 6, MaxRows <- 2, MaxOffers <- 1

(* Offers of two users and announcements of one, with every choice of      *)
(* colors and times around the limits of the categories, and some with     *)
(* increments, one of which takes all of three minutes away.               *)
MCTimes == {0, 59, 60, 120, 121, 179, 180, 600, 601, 659, 660}

MCCategories == {"standard", "blitz", "lightning", "untimed", "bughouse"}

MCTag(jid, color, time, inc) == [jid |-> jid, color |-> color, time |-> time, inc |-> inc]

MCTags(user, inc) == {MCTag(user, color, time, inc) :
                        color \in {"", "white", "black", "red"}, time \in MCTimes}

(* Terms that name the flags, or leave them out.                           *)
MCTerms(players, Flags) ==
  {[kind |-> "offer", category |-> category, rated |-> flags[1], autoflag |-> flags[2],
    players |-> p] : category \in MCCategories, flags \in Flags, p \in players}

AllFlags == {"", "true", "false"} \X {"", "true", "false"}

OffersOfTwo ==
  MCTerms({<<t1, t2>> : t1 \in MCTags("a", 2), t2 \in MCTags("b", 0)}, {<<"", "false">>})
    \cup MCTerms({<<MCTag("b", "", 180, -180), MCTag("a", "", 180, 2)>>,
                  <<MCTag("b", "", 180, 0), MCTag("a", "", 180, -180)>>,
                  <<MCTag("a", "black", 600, 0), MCTag("b", "white", 600, 2)>>,
                  <<MCTag("a", "", 180, 0), MCTag("a", "", 180, 0)>>,
                  <<MCTag("a", "", 180, 0)>>},
                 AllFlags)

OffersOfOne ==
  MCTerms({<<t>> : t \in MCTags("a", 0)}, AllFlags)
    \cup MCTerms({<<MCTag("a", color, 180, inc)>> : color \in {"", "black"}, inc \in {-180, 2}},
                 AllFlags)

(* TLC evaluates the two sets above once, and what stands for a constant   *)
(* each time.                                                              *)
MCMatchOffers == OffersOfTwo

MCAnnouncementOffers == OffersOfOne

(* The properties of Muc and AdjournedGames, stated there.                 *)
ViewsAgree == Chat!ViewsAgree
AdjournedKept == Adjourned!AdjournedKept

MCPartialOf == [u \in Jid |-> IF u = b1 THEN "b" ELSE "a"]

MCTables ==
  NewTables(("a" :> [type |-> "admin", online_time |-> 0]) @@ ("b" :> NewUser),
            <<"a", "blitz">> :> 1 @@ <<"b", "blitz">> :> 2)

MCLimits == {<<2, 9>>}

MCGamePlayers == {{<<"a", "white">>, <<"b", "black">>}, {<<"b", "white">>, <<"a", "black">>}}

MCPlayersOf == (r1 :> <<"a", "b">>) @@ (r2 :> <<"b", "a">>) @@ (r3 :> <<"b", "c">>) @@ (r4 :> <<"c", "a">>)

MCJidOrder == <<"a", "b", "c">>

(* Bounds of each part: who comes online, the messages and transactions    *)
(* under way, the time, and whether the process ends and starts again.     *)
(* The two messages of a game that begins or ends come on top of those.    *)
Bound(jids, messages, under_way, seconds, processes) ==
  [jids |-> jids, inbox |-> messages, transactions |-> under_way, seconds |-> seconds,
   processes |-> processes]

Bounds == [announcements |-> Bound({a1, b1}, 1, 2, 0, {"up", "down"}),
           admin |-> Bound({a1}, 1, 2, 0, {"up", "down"}),
           online |-> Bound({a1, a2, b1}, 1, 2, MaxTime, {"up", "stopping", "down"}),
           profiles |-> Bound({b1}, 1, 2, MaxTime, {"up", "stopping", "down"}),
           searches |-> Bound({a1}, 1, 2, 0, {"up"}),
           results |-> Bound({}, 0, 0, 0, {"up"})]

Bounded ==
  /\ available' \subseteq Bounds[part].jids
  /\ Len(inbox') <= Bounds[part].inbox \/ games' # games \/ Len(inbox') < Len(inbox)
  /\ BagCardinality(transactions') <= Bounds[part].transactions
  /\ now' <= Bounds[part].seconds
  /\ process' \in Bounds[part].processes

MCInit ==
  /\ part \in DOMAIN Bounds \cup {"chat", "adjourned", "creation"}
  /\ ServerModuleInit(MCTables)
  /\ AnnouncementInit /\ AdminInit /\ ProfileInit /\ ResultInit /\ CreationInit
  /\ Chat!MucInit /\ Adjourned!AdjournedInit

ServiceNext ==
  \/ /\ part = "announcements" /\ AnnouncementNext
     /\ UNCHANGED <<admin_vars, profile_vars, result_vars>>
  \/ /\ part = "admin" /\ AdminNext
     /\ UNCHANGED <<announcement_vars, profile_vars, result_vars>>
  \/ /\ part \in {"online", "profiles", "searches"}
     /\ \/ OnlineNext
        \/ part = "profiles" /\ ProfileNext
        \/ part = "searches" /\ SearchNext
     /\ UNCHANGED <<announcement_vars, admin_vars, result_vars>>
  \/ /\ part = "results" /\ ResultNext
     /\ UNCHANGED <<module_vars, announcement_vars, admin_vars, profile_vars>>

service_vars == <<module_vars, announcement_vars, admin_vars, profile_vars, result_vars>>

MCNext ==
  /\ UNCHANGED part
  /\ \/ /\ ServiceNext /\ Bounded
        /\ UNCHANGED <<chat_vars, adjourned_vars, creation_vars>>
     \/ /\ part = "chat" /\ Chat!MucNext
        /\ UNCHANGED <<service_vars, adjourned_vars, creation_vars>>
     \/ /\ part = "adjourned" /\ Adjourned!AdjournedNext
        /\ UNCHANGED <<service_vars, chat_vars, creation_vars>>
     \/ /\ part = "creation" /\ CreationNext
        /\ UNCHANGED <<service_vars, chat_vars, adjourned_vars>>

vars == <<part, service_vars, chat_vars, adjourned_vars, creation_vars>>

MCSpec == MCInit /\ [][MCNext]_vars
=============================================================================
