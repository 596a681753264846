------------------------- MODULE GameRegistryProofs -------------------------
(***************************************************************************)
(* Proofs about GameRegistry: the count of games of every user is exact,   *)
(* for any number of users and games, so canPlay never lets a single-game  *)
(* user into a second game.                                                *)
(***************************************************************************)
EXTENDS GameRegistry, FiniteSetTheorems, TLAPS

(* The inductive invariant: TypeOK alone is not inductive, because only    *)
(* the exact count shows that EndGame never takes games_playing below 0.   *)
IInv == TypeOK /\ CountsExact

(* The games of a user form a finite set, whose cardinality is a number.   *)
LEMMA LiveGamesFinite ==
  ASSUME FiniteRegistry, NEW u
  PROVE  IsFiniteSet(LiveGames(u)) /\ Cardinality(LiveGames(u)) \in Nat
<1>1. LiveGames(u) \subseteq Game
  BY DEF LiveGames
<1>2. QED
  BY <1>1, FS_Subset, FS_CardinalityType DEF FiniteRegistry

(* createGame adds the new game to each of its players and to nobody else. *)
LEMMA CreateGameCounts ==
  ASSUME NEW g \in Game, NEW players \in SUBSET Jid, TypeOK,
         CreateGame(g, players), NEW u \in Jid
  PROVE  LiveGames(u)' = IF u \in players THEN LiveGames(u) \union {g}
                                          ELSE LiveGames(u)
BY DEF CreateGame, LiveGames, TypeOK, GameInfo

(* _endGame takes the game that ends away from each of its players.        *)
LEMMA EndGameCounts ==
  ASSUME NEW g \in Game, TypeOK, EndGame(g), NEW u \in Jid
  PROVE  LiveGames(u)' = LiveGames(u) \ {g}
BY DEF EndGame, LiveGames, TypeOK, GameInfo

LEMMA InitIInv == Init => IInv
<1> SUFFICES ASSUME Init PROVE IInv
  OBVIOUS
<1>1. TypeOK
  BY DEF Init, TypeOK, NewStatus, UserStatus, GameInfo
<1>2. \A u \in Jid : LiveGames(u) = {}
  BY DEF Init, LiveGames
<1>3. CountsExact
  BY <1>2, FS_EmptySet DEF Init, CountsExact, NewStatus
<1>4. QED
  BY <1>1, <1>3 DEF IInv

LEMMA NextIInv ==
  ASSUME FiniteRegistry
  PROVE  IInv /\ [Next]_vars => IInv'
<1> SUFFICES ASSUME IInv, [Next]_vars PROVE IInv'
  OBVIOUS
<1> USE DEF IInv
<1>1. ASSUME NEW u \in Jid, NEW available \in BOOLEAN, NEW multigame \in BOOLEAN,
             SetPresence(u, available, multigame)
      PROVE  IInv'
  <2>1. TypeOK'
    BY <1>1 DEF SetPresence, TypeOK, UserStatus
  <2>2. \A v \in Jid : LiveGames(v)' = LiveGames(v)
    BY <1>1 DEF SetPresence, LiveGames
  <2>3. \A v \in Jid :
          users_status'[v].games_playing = users_status[v].games_playing
    BY <1>1 DEF SetPresence, TypeOK, UserStatus
  <2>4. CountsExact'
    BY <2>2, <2>3 DEF CountsExact
  <2>5. QED
    BY <2>1, <2>4
<1>2. ASSUME NEW g \in Game, NEW players \in SUBSET Jid, CreateGame(g, players)
      PROVE  IInv'
  <2>1. TypeOK'
    BY <1>2 DEF CreateGame, AddGames, TypeOK, UserStatus, GameInfo
  <2>2. ASSUME NEW u \in Jid
        PROVE  users_status'[u].games_playing = Cardinality(LiveGames(u)')
    <3>1. CASE u \in players
      <4>1. g \notin LiveGames(u)
        BY <1>2 DEF CreateGame, LiveGames
      <4>2. Cardinality(LiveGames(u) \union {g}) = Cardinality(LiveGames(u)) + 1
        BY <4>1, LiveGamesFinite, FS_AddElement
      <4>3. users_status'[u].games_playing = users_status[u].games_playing + 1
        BY <1>2, <3>1 DEF CreateGame, AddGames, TypeOK, UserStatus
      <4>4. QED
        BY <1>2, <3>1, <4>2, <4>3, CreateGameCounts DEF CountsExact
    <3>2. CASE u \notin players
      <4>1. users_status'[u] = users_status[u]
        BY <1>2, <3>2 DEF CreateGame, AddGames
      <4>2. QED
        BY <1>2, <3>2, <4>1, CreateGameCounts DEF CountsExact
    <3>3. QED
      BY <3>1, <3>2
  <2>3. QED
    BY <2>1, <2>2 DEF CountsExact
<1>3. ASSUME NEW g \in Game, EndGame(g)
      PROVE  IInv'
  <2>1. ASSUME NEW u \in Jid
        PROVE  /\ users_status'[u].games_playing = Cardinality(LiveGames(u)')
               /\ users_status'[u] \in UserStatus
    <3>1. CASE u \in games[g].players
      <4>1. g \in LiveGames(u)
        BY <1>3, <3>1 DEF EndGame, LiveGames
      <4>2. Cardinality(LiveGames(u) \ {g}) = Cardinality(LiveGames(u)) - 1
        BY <4>1, LiveGamesFinite, FS_RemoveElement
      <4>3. Cardinality(LiveGames(u) \ {g}) \in Nat
        BY LiveGamesFinite, FS_Subset, FS_CardinalityType
      <4>4. /\ users_status'[u] = [users_status[u] EXCEPT !.games_playing = @ + (-1)]
            /\ users_status'[u].games_playing = users_status[u].games_playing - 1
        BY <1>3, <3>1 DEF EndGame, AddGames, TypeOK, UserStatus
      <4>5. users_status'[u].games_playing = Cardinality(LiveGames(u)')
        BY <1>3, <4>2, <4>4, EndGameCounts DEF CountsExact
      <4>6. users_status'[u].games_playing \in Nat
        BY <1>3, <4>3, <4>5, EndGameCounts
      <4>7. users_status'[u] \in UserStatus
        BY <4>4, <4>6 DEF TypeOK, UserStatus
      <4>8. QED
        BY <4>5, <4>7
    <3>2. CASE u \notin games[g].players
      <4>1. LiveGames(u) \ {g} = LiveGames(u)
        BY <3>2 DEF LiveGames
      <4>2. users_status'[u] = users_status[u]
        BY <1>3, <3>2 DEF EndGame, AddGames
      <4>3. QED
        BY <1>3, <4>1, <4>2, EndGameCounts DEF CountsExact, TypeOK
    <3>3. QED
      BY <3>1, <3>2
  <2>2. users_status' \in [Jid -> UserStatus]
    BY <1>3, <2>1 DEF EndGame, AddGames
  <2>3. games' \in [Game -> GameInfo]
    BY <1>3 DEF EndGame, TypeOK, GameInfo
  <2>4. QED
    BY <2>1, <2>2, <2>3 DEF TypeOK, CountsExact
<1>4. CASE UNCHANGED vars
  BY <1>4 DEF vars, TypeOK, CountsExact, LiveGames
<1>5. QED
  BY <1>1, <1>2, <1>3, <1>4 DEF Next

LEMMA Invariance ==
  ASSUME FiniteRegistry
  PROVE  Spec => []IInv
BY InitIInv, NextIInv, PTL DEF Spec

(* The types hold, so the int games_playing never becomes negative.        *)
THEOREM RegistryTypeCorrect ==
  ASSUME FiniteRegistry
  PROVE  Spec => []TypeOK
<1>1. IInv => TypeOK
  BY DEF IInv
<1>2. QED
  BY <1>1, Invariance, PTL

(* games_playing is at all times the number of live games of the user.     *)
THEOREM RegistryCountsExact ==
  ASSUME FiniteRegistry
  PROVE  Spec => []CountsExact
<1>1. IInv => CountsExact
  BY DEF IInv
<1>2. QED
  BY <1>1, Invariance, PTL

(* canPlay admits a user to a second game only if the user is multigame.   *)
THEOREM RegistryNoSecondGame ==
  ASSUME FiniteRegistry
  PROVE  Spec => NoSecondGame
<1> DEFINE Admits(u) ==
      LiveGames(u)' \ LiveGames(u) # {} =>
        /\ users_status[u].available
        /\ LiveGames(u) = {} \/ users_status[u].multigame
<1>1. ASSUME IInv, [Next]_vars, NEW u \in Jid
      PROVE  Admits(u)
  <2>1. ASSUME NEW v \in Jid, NEW available \in BOOLEAN, NEW multigame \in BOOLEAN,
               SetPresence(v, available, multigame)
        PROVE  Admits(u)
    BY <2>1 DEF SetPresence, LiveGames
  <2>2. ASSUME NEW g \in Game, NEW players \in SUBSET Jid, CreateGame(g, players)
        PROVE  Admits(u)
    <3>1. CASE u \in players
      <4>1. CanPlay(users_status[u])
        BY <2>2, <3>1 DEF CreateGame, AllCanPlay
      <4>2. users_status[u].games_playing <= 0 => LiveGames(u) = {}
        BY <1>1, LiveGamesFinite, FS_EmptySet DEF IInv, CountsExact
      <4>3. QED
        BY <4>1, <4>2 DEF CanPlay
    <3>2. CASE u \notin players
      BY <1>1, <2>2, <3>2, CreateGameCounts DEF IInv
    <3>3. QED
      BY <3>1, <3>2
  <2>3. ASSUME NEW g \in Game, EndGame(g)
        PROVE  Admits(u)
    BY <1>1, <2>3, EndGameCounts DEF IInv
  <2>4. CASE UNCHANGED vars
    BY <2>4 DEF vars, LiveGames
  <2>5. QED
    BY <1>1, <2>1, <2>2, <2>3, <2>4 DEF Next
<1>2. IInv /\ [Next]_vars => [\A u \in Jid : Admits(u)]_vars
  BY <1>1
<1>3. QED
  BY <1>2, Invariance, PTL DEF Spec, NoSecondGame

=============================================================================
