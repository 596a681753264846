----------------------------- MODULE AdminComponent ----------------------------
(***************************************************************************)
(* Bans of users and of words (src/src/AdminComponent.cc): sets in memory, *)
(* loaded at the start, tables that transactions bring up to date, and the *)
(* access list of the jabber server, sent to it after every change.        *)
(* Reasons are left out.                                                   *)
(***************************************************************************)
EXTENDS ServerModule

CONSTANTS Word,
          Target      \* users who may be banned, known to the database or not

VARIABLES banneds,
          banned_words,
          acl,        \* the banned users last sent to the jabber server
          raced,      \* keys of which two transactions were under way at once
          missed      \* users whose ban found no row in users and did nothing

admin_vars == <<banneds, banned_words, acl, raced, missed>>

Changes == {t \in Pending : t.op \in {"ban", "unban", "banWord", "unbanWord"}}

Keys == {t.key : t \in Changes}

(* The transaction is queued behind no other one: they are all at work.    *)
Change(op, key) ==
  /\ QueueTransactions({[op |-> op, key |-> key, attempt |-> 1]})
  /\ raced' = IF key \in Keys THEN raced \cup {key} ELSE raced
  /\ UNCHANGED missed

(* loadAcl and updateAcl, which is sent to a server that starts as well.   *)
LoadAcl(tables) ==
  /\ banneds' = tables.banned_users /\ banned_words' = tables.banned_words
  /\ acl' = tables.banned_users
  /\ raced' = {} /\ missed' = {}

AdminInit ==
  /\ banneds = db.banned_users /\ banned_words = db.banned_words
  /\ acl = db.banned_users /\ raced = {} /\ missed = {}

-----------------------------------------------------------------------------

(* handleIq asks the database, every time, whether the sender is an admin. *)
HandlesAdmin(u) == Handles(u) /\ getUserType(db, PartialOf[u]) = "admin"

handleBan(u, name) ==
  /\ HandlesAdmin(u)
  /\ banneds' = banneds \cup {name} /\ acl' = banneds'
  /\ Change("ban", name)
  /\ UNCHANGED <<core_vars, users_status, inbox, db, process, restarts, banned_words>>

(* A user who is not banned is left alone, in the database too.            *)
handleUnban(u, name) ==
  /\ HandlesAdmin(u) /\ name \in banneds
  /\ banneds' = banneds \ {name} /\ acl' = banneds'
  /\ Change("unban", name)
  /\ UNCHANGED <<core_vars, users_status, inbox, db, process, restarts, banned_words>>

(* Mutant: the word is inserted in the database whether or not it is there. *)
handleBanWordAgain(u, word) ==
  /\ HandlesAdmin(u)
  /\ banned_words' = banned_words \cup {word}
  /\ Change("banWord", word)
  /\ UNCHANGED <<core_vars, users_status, inbox, db, process, restarts, banneds, acl>>

handleBanWord(u, word) ==
  /\ HandlesAdmin(u) /\ word \notin banned_words
  /\ banned_words' = banned_words \cup {word}
  /\ Change("banWord", word)
  /\ UNCHANGED <<core_vars, users_status, inbox, db, process, restarts, banneds, acl>>

handleUnbanWord(u, word) ==
  /\ HandlesAdmin(u) /\ word \in banned_words
  /\ banned_words' = banned_words \ {word}
  /\ Change("unbanWord", word)
  /\ UNCHANGED <<core_vars, users_status, inbox, db, process, restarts, banneds, acl>>

-----------------------------------------------------------------------------

AdminStep(t, op, tables, unknown) ==
  /\ t.op = op /\ Commit(t, tables) /\ missed' = unknown
  /\ UNCHANGED <<core_vars, users_status, inbox, process, restarts,
                 banneds, banned_words, acl, raced>>

banStep(t) ==
  AdminStep(t, "ban", banUser(db, t.key),
            IF HasUser(db, t.key) THEN missed \ {t.key} ELSE missed \cup {t.key})

unbanStep(t) == AdminStep(t, "unban", unbanUser(db, t.key), missed \ {t.key})

banWordStep(t) ==
  ~BanWordFails(db, t.key) /\ AdminStep(t, "banWord", banWord(db, t.key), missed)

unbanWordStep(t) == AdminStep(t, "unbanWord", unbanWord(db, t.key), missed)

\* the INSERT of a word that is there; handleBan's notice comes before its commit
banWordFailure(t) ==
  t.op = "banWord" /\ BanWordFails(db, t.key) /\ Throw(t) /\ UNCHANGED admin_vars

(* The core and other modules share the table of users: who comes online,  *)
(* goes offline, plays or announces for the first time gets a row in a     *)
(* transaction of its own (getUserId with create).                         *)
OthersAddUser(name) ==
  /\ process # "down" /\ ~HasUser(db, name)
  /\ db' = WithUser(db, name)
  /\ UNCHANGED <<core_vars, users_status, inbox, transactions, process, restarts, admin_vars>>

AdminNext ==
  \/ \E u \in Jid :
       \/ \E name \in Target : handleBan(u, name) \/ handleUnban(u, name)
       \/ \E word \in Word : handleBanWord(u, word) \/ handleUnbanWord(u, word)
       \/ \E is_available \in BOOLEAN :
            \/ NextStatus(u, is_available) /\ UNCHANGED <<transactions, admin_vars>>
            \/ HandlePresence(u, is_available) /\ UNCHANGED admin_vars
  \/ \E t \in Changes :
       \/ banStep(t) \/ unbanStep(t)
       \/ banWordStep(t) \/ banWordFailure(t) \/ unbanWordStep(t)
  \/ \E name \in Target : OthersAddUser(name)
  \/ Restart(db) /\ LoadAcl(db)
  \/ Kill /\ UNCHANGED admin_vars

(* The module alone, over the tables of a database.                        *)
AdminSpec(tables) ==
  /\ ServerModuleInit(tables) /\ AdminInit
  /\ [][AdminNext]_<<module_vars, admin_vars>>

-----------------------------------------------------------------------------
(* Properties.                                                             *)

(* What an admin bans or releases at times of his own choosing reaches the *)
(* database through transactions that overtake each other, and meets a     *)
(* table of users that others add to.  A key of which no two were ever     *)
(* under way together, and of which none is now, is in its table exactly   *)
(* if it is in memory, so that a new process loads what the last one had,  *)
(* and no INSERT of a word fails.  The one exception is a user who had no  *)
(* row when the ban reached the database: such a ban stays in memory only, *)
(* whatever rows are added later, and the next process loses it.  And what *)
(* the jabber server was told is the set in memory.                        *)
BansStored ==
  process = "up" =>
    LET settled == (Target \cup Word) \ (Keys \cup raced)
    IN /\ \A name \in Target \cap settled :
            IF name \in missed
            THEN name \in banneds /\ name \notin db.banned_users
            ELSE name \in banneds <=> name \in db.banned_users
       /\ \A word \in Word \cap settled :
            word \in db.banned_words <=> word \in banned_words
       /\ \A t \in Changes : t.attempt > 1 => t.key \in raced
       /\ acl = banneds

=============================================================================
