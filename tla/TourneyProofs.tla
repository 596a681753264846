------------------------------ MODULE TourneyProofs ---------------------------
(***************************************************************************)
(* Proofs about TourneyManager, for any number of users, tournaments and   *)
(* rounds: the games that are to be created, played or reported are those  *)
(* of the current round, in any order of events.                           *)
(*                                                                         *)
(* The pairing is a recursive function on sets of players.  It is total,   *)
(* AssignExists, because each set is paired from smaller ones; that all it *)
(* finds pairs players once, AssignedPairs, is shown on a set with the     *)
(* least number of players for which it would fail.  From there a round    *)
(* gives games of the players alone, ByeDecided, and TourneyInv says where *)
(* each of them is until its result is counted.                            *)
(***************************************************************************)
EXTENDS TourneyManager, FiniteSetTheorems, SequenceTheorems, WellFoundedInduction, TLAPS

(* A set of numbers has a least one.                                       *)
LEMMA LeastNumber ==
  ASSUME NEW D, D \subseteq Nat, D # {}
  PROVE  \E n \in D : \A m \in D : n <= m
<1> DEFINE R == {ss \in Nat \X Nat : ss[1] < ss[2]}
<1>1. IsWellFoundedOn(R, Nat)
  BY NatLessThanWellFounded, Zenon DEF OpToRel
<1>2. \A x, y \in Nat : <<y, x>> \in R <=> y < x
  OBVIOUS
<1> HIDE DEF R
<1>3. PICK x \in D : \A y \in D : ~(<<y, x>> \in R)
  BY <1>1, WFMin
<1>4. \A y \in D : x <= y
  <2> SUFFICES ASSUME NEW y \in D PROVE x <= y
    OBVIOUS
  <2>1. ~(y < x) /\ x \in Nat /\ y \in Nat
    BY <1>2, <1>3
  <2> QED BY <2>1
<1> QED BY <1>4

(* A finite set in a strict total order has a first element.               *)
LEMMA FirstExists ==
  ASSUME NEW S, IsFiniteSet(S), S # {}, NEW R,
         \A a \in S : <<a, a>> \notin R,
         \A a, b, c \in S : <<a, b>> \in R /\ <<b, c>> \in R => <<a, c>> \in R,
         \A a, b \in S : a # b => <<a, b>> \in R \/ <<b, a>> \in R
  PROVE  \E a \in S : \A b \in S \ {a} : <<a, b>> \in R
<1> DEFINE Below(a) == {b \in S : <<b, a>> \in R}
           D == {Cardinality(Below(a)) : a \in S}
<1>1. \A a \in S : IsFiniteSet(Below(a)) /\ Cardinality(Below(a)) \in Nat
  BY FS_Subset, FS_CardinalityType
<1>2. PICK n \in D : \A m \in D : n <= m
  <2> HIDE DEF Below
  <2>1. D \subseteq Nat /\ D # {}
    BY <1>1
  <2> HIDE DEF D
  <2> QED BY <2>1, LeastNumber
<1>3. PICK a \in S : Cardinality(Below(a)) = n
  BY <1>2
<1>4. Below(a) = {}
  <2> SUFFICES ASSUME NEW b \in Below(a) PROVE FALSE
    OBVIOUS
  <2>1. b \in S /\ Below(b) \subseteq Below(a) /\ b \notin Below(b)
    OBVIOUS
  <2>2. Cardinality(Below(b)) <= Cardinality(Below(a))
        /\ (Cardinality(Below(b)) = Cardinality(Below(a)) => Below(b) = Below(a))
    <3> HIDE DEF Below
    <3> QED BY <1>1, <2>1, FS_Subset, Zenon
  <2>3. n <= Cardinality(Below(b))
    <3> HIDE DEF Below
    <3> QED BY <1>2, <2>1
  <2>4. Cardinality(Below(b)) \in Nat /\ Cardinality(Below(a)) \in Nat
    BY <1>1, <2>1
  <2> HIDE DEF Below, D
  <2> QED BY <1>3, <2>1, <2>2, <2>3, <2>4
<1> QED BY <1>4

-----------------------------------------------------------------------------
(* The table of a tournament.                                              *)

IsPlayer(r) ==
  /\ r = [opponents |-> r.opponents, due |-> r.due]
  /\ r.due \in {0, 1}
  /\ \E S : r.opponents \in Seq(S)

IsTable(t) ==
  /\ t = [player |-> t.player, games |-> t.games]
  /\ IsFiniteSet(Names(t)) /\ Names(t) \subseteq Nat
  /\ t.player = [n \in Names(t) |-> t.player[n]]
  /\ \A n \in Names(t) : IsPlayer(t.player[n])

LEMMA OpponentsOf ==
  ASSUME NEW t, IsTable(t), NEW p \in Names(t)
  PROVE  /\ IsFiniteSet(DOMAIN Opponents(t, p))
         /\ \A P : IsFiniteSet({i \in DOMAIN Opponents(t, p) : i \in P})
<1>1. PICK S : Opponents(t, p) \in Seq(S)
  BY DEF IsTable, IsPlayer, Opponents
<1>2. DOMAIN Opponents(t, p) = 1..Len(Opponents(t, p)) /\ Len(Opponents(t, p)) \in Nat
  BY <1>1
<1>3. IsFiniteSet(DOMAIN Opponents(t, p))
  BY <1>2, FS_Interval
<1> QED BY <1>3, FS_Subset

LEMMA ScoreIsNat ==
  ASSUME NEW t, IsTable(t), NEW p \in Names(t)
  PROVE  CalculateScore(t, p) \in Nat /\ ColorDue(t, p) \in {0, 1}
<1>1. \A n : Cardinality({i \in DOMAIN Opponents(t, p) : Opponents(t, p)[i].result >= n}) \in Nat
  BY OpponentsOf, FS_Subset, FS_CardinalityType
<1>2. CalculateScore(t, p) \in Nat
  BY <1>1 DEF CalculateScore
<1>3. t.player[p].due \in {0, 1}
  BY DEF IsTable, IsPlayer
<1> QED BY <1>2, <1>3 DEF ColorDue

(* The order of the players has no ties.                                   *)
LEMMA SortsTotal ==
  ASSUME NEW t, IsTable(t)
  PROVE  /\ \A a \in Names(t) : ~SortsBefore(t, a, a)
         /\ \A a, b, c \in Names(t) : SortsBefore(t, a, b) /\ SortsBefore(t, b, c) => SortsBefore(t, a, c)
         /\ \A a, b \in Names(t) : a # b => SortsBefore(t, a, b) \/ SortsBefore(t, b, a)
<1>1. \A a \in Names(t) : CalculateScore(t, a) \in Nat /\ a \in Nat
  BY ScoreIsNat DEF IsTable
<1> QED BY <1>1 DEF SortsBefore, Before, BYE

LEMMA FirstOfIsOne ==
  ASSUME NEW t, IsTable(t), NEW u, u \subseteq Names(t), u # {}
  PROVE  FirstOf(t, u) \in u
<1> DEFINE R == {ab \in u \X u : SortsBefore(t, ab[1], ab[2])}
<1>1. \A a, b \in u : <<a, b>> \in R <=> SortsBefore(t, a, b)
  OBVIOUS
<1>2. IsFiniteSet(u)
  BY FS_Subset DEF IsTable
<1> HIDE DEF R
<1>3. \E a \in u : \A b \in u \ {a} : <<a, b>> \in R
  <2>1. \A a \in u : <<a, a>> \notin R
    BY <1>1, SortsTotal
  <2>2. \A a, b, c \in u : <<a, b>> \in R /\ <<b, c>> \in R => <<a, c>> \in R
    BY <1>1, SortsTotal
  <2>3. \A a, b \in u : a # b => <<a, b>> \in R \/ <<b, a>> \in R
    BY <1>1, SortsTotal
  <2> QED BY <1>2, <2>1, <2>2, <2>3, FirstExists
<1>4. \E a \in u : \A other \in u \ {a} : SortsBefore(t, a, other)
  BY <1>1, <1>3
<1> QED BY <1>4, Zenon DEF FirstOf

LEMMA PairingScoreIsInt ==
  ASSUME NEW t, IsTable(t), NEW p \in Names(t), NEW o \in Names(t)
  PROVE  PairingScore(t, p, o) \in Int
<1>1. \A q \in Names(t) : GetSortValue(t, q) \in Nat
  BY FS_Subset, FS_CardinalityType DEF GetSortValue, IsTable
<1>2. Offset(t, p) \in Int
  <2>1. Cardinality({q \in Names(t) : CalculateScore(t, q) = CalculateScore(t, p)}) \in Nat
    BY FS_Subset, FS_CardinalityType DEF IsTable
  <2> QED BY <2>1 DEF Offset
<1>3. \A a, b \in Int : Distance(a, b) \in Int
  BY DEF Distance
<1>4. \A q \in Names(t) : CalculateScore(t, q) \in Int /\ ColorDue(t, q) \in Int
  BY ScoreIsNat
<1>5. GetSortValue(t, p) + Offset(t, p) \in Int
  BY <1>1, <1>2
<1>6. /\ Distance(GetSortValue(t, o), GetSortValue(t, p) + Offset(t, p)) \in Int
      /\ Distance(CalculateScore(t, o), CalculateScore(t, p)) \in Int
      /\ Distance(ColorDue(t, o), ColorDue(t, p)) \in Int
  <2> HIDE <1>5
  <2>1. \A q \in Names(t) : GetSortValue(t, q) \in Int
    BY <1>1
  <2> QED BY ONLY <1>3, <1>4, <1>5, <2>1, p \in Names(t), o \in Names(t), Zenon
<1> DEFINE a == Distance(GetSortValue(t, o), GetSortValue(t, p) + Offset(t, p))
           b == Distance(CalculateScore(t, o), CalculateScore(t, p))
           c == Distance(ColorDue(t, o), ColorDue(t, p))
<1>7. PairingScore(t, p, o) = a * 1000 + b * 5 + c
  BY DEF PairingScore
<1>8. a \in Int /\ b \in Int /\ c \in Int
  BY <1>6
<1> HIDE DEF a, b, c
<1> QED BY ONLY <1>7, <1>8

LEMMA BestIsOne ==
  ASSUME NEW t, IsTable(t), NEW p \in Names(t), NEW options, options \subseteq Names(t), options # {}
  PROVE  FindBestOpponent(t, p, options) \in options
<1> DEFINE R == {ab \in options \X options : Prefers(t, p, ab[1], ab[2])}
<1>1. \A a, b \in options : <<a, b>> \in R <=> Prefers(t, p, a, b)
  OBVIOUS
<1>2. IsFiniteSet(options) /\ \A a \in options : a \in Nat /\ PairingScore(t, p, a) \in Int
  BY FS_Subset, PairingScoreIsInt DEF IsTable
<1> HIDE DEF R
<1>3. \E a \in options : \A b \in options \ {a} : <<a, b>> \in R
  <2>1. /\ \A a \in options : ~Prefers(t, p, a, a)
        /\ \A a, b, c \in options : Prefers(t, p, a, b) /\ Prefers(t, p, b, c) => Prefers(t, p, a, c)
        /\ \A a, b \in options : a # b => Prefers(t, p, a, b) \/ Prefers(t, p, b, a)
    BY <1>2 DEF Prefers, Before, BYE
  <2>2. /\ \A a \in options : <<a, a>> \notin R
        /\ \A a, b, c \in options : <<a, b>> \in R /\ <<b, c>> \in R => <<a, c>> \in R
        /\ \A a, b \in options : a # b => <<a, b>> \in R \/ <<b, a>> \in R
    BY <1>1, <2>1
  <2> QED BY <1>2, <2>2, FirstExists
<1>4. \E o \in options : \A other \in options \ {o} : Prefers(t, p, o, other)
  BY <1>1, <1>3
<1> QED BY <1>4, Zenon DEF FindBestOpponent

-----------------------------------------------------------------------------
(* The recursion of SwissAssign2.                                          *)

(* One step of it, from what it makes of fewer players.                    *)
AssignNext(t, assign, unpaired) ==
  IF unpaired = {} THEN {{}}
  ELSE LET p == FirstOf(t, unpaired)
           options == {o \in PotentialOpponents(t, p, unpaired) :
                         assign[unpaired \ {p, o}] # {}}
       IN IF options = {} THEN {}
          ELSE LET o == FindBestOpponent(t, p, options)
               IN {{<<p, o>>} \cup rest : rest \in assign[unpaired \ {p, o}]}

(* Nobody to pair, nobody left to meet, or one pair and a pairing of the   *)
(* others.                                                                 *)
LEMMA AssignCases ==
  ASSUME NEW t, IsTable(t), NEW u, u \subseteq Names(t), NEW f
  PROVE  /\ u = {} => AssignNext(t, f, u) = {{}}
         /\ u # {} => \/ AssignNext(t, f, u) = {}
                      \/ \E p \in u : \E o \in u \ {p} :
                           AssignNext(t, f, u) = {{<<p, o>>} \cup rest : rest \in f[u \ {p, o}]}
<1>1. CASE u = {}
  BY <1>1 DEF AssignNext
<1>2. CASE u # {}
  <2> DEFINE p == FirstOf(t, u)
             options == {o \in PotentialOpponents(t, p, u) : f[u \ {p, o}] # {}}
             o == FindBestOpponent(t, p, options)
  <2>1. p \in u
    BY <1>2, FirstOfIsOne
  <2>2. options \subseteq u \ {p}
    BY DEF PotentialOpponents
  <2>3. options # {} => o \in u \ {p}
    <3> HIDE DEF p, options
    <3>1. options \subseteq Names(t) /\ p \in Names(t)
      BY <2>1, <2>2
    <3> QED BY <2>2, <3>1, BestIsOne
  <2>4. AssignNext(t, f, u) = IF options = {} THEN {}
                              ELSE {{<<p, o>>} \cup rest : rest \in f[u \ {p, o}]}
    BY <1>2, Zenon DEF AssignNext
  <2> HIDE DEF p, options, o
  <2> QED BY <1>2, <2>1, <2>3, <2>4
<1> QED BY <1>1, <1>2

(* A step looks at fewer players only.                                     *)
LEMMA AssignSame ==
  ASSUME NEW t, IsTable(t), NEW u, u \subseteq Names(t), NEW f, NEW g,
         \A v \in SUBSET u : v # u => f[v] = g[v]
  PROVE  AssignNext(t, f, u) = AssignNext(t, g, u)
<1>1. CASE u = {}
  BY <1>1 DEF AssignNext
<1>2. CASE u # {}
  <2> DEFINE p == FirstOf(t, u)
             options(h) == {o \in PotentialOpponents(t, p, u) : h[u \ {p, o}] # {}}
             best(h) == FindBestOpponent(t, p, options(h))
             Of(h) == IF options(h) = {} THEN {}
                      ELSE {{<<p, best(h)>>} \cup rest : rest \in h[u \ {p, best(h)}]}
  <2>1. p \in u
    BY <1>2, FirstOfIsOne
  <2>2. \A o : f[u \ {p, o}] = g[u \ {p, o}]
    <3> SUFFICES ASSUME NEW o PROVE f[u \ {p, o}] = g[u \ {p, o}]
      OBVIOUS
    <3>1. u \ {p, o} \in SUBSET u /\ u \ {p, o} # u
      BY <2>1
    <3> HIDE DEF p
    <3> QED BY <3>1
  <2>3. options(f) = options(g)
    BY <2>2
  <2>4. AssignNext(t, f, u) = Of(f) /\ AssignNext(t, g, u) = Of(g)
    BY <1>2, Zenon DEF AssignNext
  <2>5. best(f) = best(g)
    BY <2>3
  <2> HIDE DEF p, options, best
  <2> QED BY <2>2, <2>3, <2>4, <2>5
<1> QED BY <1>1, <1>2

(* So there is a function it defines, by the least number of players for   *)
(* which there would be none.                                              *)
LEMMA AssignExists ==
  ASSUME NEW t, IsTable(t)
  PROVE  \E f : f = [u \in SUBSET Names(t) |-> AssignNext(t, f, u)]
<1> DEFINE Sets(n) == {u \in SUBSET Names(t) : Cardinality(u) <= n}
           Defined(n) == \E f : f = [u \in Sets(n) |-> AssignNext(t, f, u)]
           D == {n \in Nat : ~Defined(n)}
<1>1. \A u \in SUBSET Names(t) : IsFiniteSet(u) /\ Cardinality(u) \in Nat
  BY FS_Subset, FS_CardinalityType DEF IsTable
<1>2. ASSUME NEW n \in Nat, n = 0 \/ Defined(n - 1) PROVE Defined(n)
  <2>1. PICK f : f = [u \in Sets(n - 1) |-> AssignNext(t, f, u)]
    <3>1. CASE n = 0
      <4>1. Sets(n - 1) = {}
        BY <1>1, <3>1
      <4> DEFINE e == [u \in {} |-> {}]
      <4>2. e = [u \in {} |-> AssignNext(t, e, u)]
        OBVIOUS
      <4> HIDE DEF Sets, e
      <4> QED BY <4>1, <4>2
    <3>2. CASE Defined(n - 1)
      BY <3>2
    <3> QED BY <1>2, <3>1, <3>2
  <2> DEFINE g == [u \in Sets(n) |-> IF u \in Sets(n - 1) THEN f[u] ELSE AssignNext(t, f, u)]
  <2>2. \A u \in Sets(n) : g[u] = AssignNext(t, f, u)
    <3> HIDE DEF Sets
    <3>1. \A u \in Sets(n - 1) : f[u] = AssignNext(t, f, u)
      BY <2>1
    <3> QED BY <3>1
  <2>3. ASSUME NEW u \in Sets(n) PROVE AssignNext(t, f, u) = AssignNext(t, g, u)
    <3>1. \A v \in SUBSET u : v # u => f[v] = g[v]
      <4> SUFFICES ASSUME NEW v \in SUBSET u, v # u PROVE f[v] = g[v]
        OBVIOUS
      <4>1. u \subseteq Names(t) /\ IsFiniteSet(u) /\ Cardinality(u) <= n
            /\ v \in SUBSET Names(t) /\ Cardinality(u) \in Nat /\ Cardinality(v) \in Nat
        BY <1>1
      <4>2. Cardinality(v) < Cardinality(u)
        <5>1. Cardinality(v) <= Cardinality(u) /\ (Cardinality(v) = Cardinality(u) => v = u)
          BY <4>1, FS_Subset
        <5> QED BY <4>1, <5>1
      <4>3. v \in Sets(n - 1) /\ v \in Sets(n)
        BY <4>1, <4>2
      <4> HIDE DEF Sets
      <4> QED BY <4>3
    <3>2. u \subseteq Names(t)
      OBVIOUS
    <3> HIDE DEF g, Sets
    <3> QED BY <3>1, <3>2, AssignSame
  <2>4. g = [u \in Sets(n) |-> AssignNext(t, g, u)]
    <3>1. DOMAIN g = Sets(n) /\ g = [u \in Sets(n) |-> g[u]]
      OBVIOUS
    <3> HIDE DEF g, Sets
    <3> QED BY <2>2, <2>3, <3>1
  <2> HIDE DEF g, Sets
  <2> QED BY <2>4
<1>3. D = {}
  <2> SUFFICES ASSUME D # {} PROVE FALSE
    OBVIOUS
  <2>1. PICK n \in D : \A m \in D : n <= m
    <3>1. D \subseteq Nat
      OBVIOUS
    <3> HIDE DEF D
    <3> QED BY <3>1, LeastNumber
  <2>2. n \in Nat /\ ~Defined(n)
    OBVIOUS
  <2>3. n = 0 \/ Defined(n - 1)
    <3> SUFFICES ASSUME n # 0, ~Defined(n - 1) PROVE FALSE
      OBVIOUS
    <3>1. n - 1 \in Nat /\ ~(n <= n - 1)
      BY <2>2
    <3> HIDE DEF Defined
    <3> QED BY <2>1, <3>1
  <2> HIDE DEF Defined
  <2> QED BY <1>2, <2>2, <2>3
<1>4. Defined(Cardinality(Names(t))) /\ Sets(Cardinality(Names(t))) = SUBSET Names(t)
  <2>1. \A u \in SUBSET Names(t) : Cardinality(u) <= Cardinality(Names(t))
    BY FS_Subset DEF IsTable
  <2>2. Sets(Cardinality(Names(t))) = SUBSET Names(t)
    BY <2>1
  <2>3. Cardinality(Names(t)) \in Nat
    BY FS_CardinalityType DEF IsTable
  <2> HIDE DEF Defined, Sets
  <2> QED BY <1>3, <2>2, <2>3
<1> HIDE DEF Sets
<1> QED BY <1>4

-----------------------------------------------------------------------------
(* What it finds.                                                          *)

(* Pairs of players of u, each of whom is in one.                          *)
IsPairing(x, u) ==
  /\ \A g \in x : /\ g = <<g[1], g[2]>> /\ g[1] \in u /\ g[2] \in u /\ g[1] # g[2]
  /\ \A g, h \in x : {g[1], g[2]} \cap {h[1], h[2]} # {} => g = h

LEMMA PairAdded ==
  ASSUME NEW u, NEW p \in u, NEW o \in u \ {p}, NEW rest, IsPairing(rest, u \ {p, o}),
         NEW x, x = {<<p, o>>} \cup rest
  PROVE  IsPairing(x, u)
<1> DEFINE new == <<p, o>>
<1>1. new[1] = p /\ new[2] = o /\ new = <<new[1], new[2]>>
  OBVIOUS
<1>2. \A g \in x : g = new \/ g \in rest
  OBVIOUS
<1>3. \A g \in rest : /\ g = <<g[1], g[2]>> /\ g[1] \in u \ {p, o} /\ g[2] \in u \ {p, o}
                      /\ g[1] # g[2]
  BY DEF IsPairing
<1>4. \A g, h \in rest : {g[1], g[2]} \cap {h[1], h[2]} # {} => g = h
  BY DEF IsPairing
<1> HIDE DEF new
<1>5. \A g \in x : g = <<g[1], g[2]>> /\ g[1] \in u /\ g[2] \in u /\ g[1] # g[2]
  BY <1>1, <1>2, <1>3
<1>6. ASSUME NEW g \in x, NEW h \in x, {g[1], g[2]} \cap {h[1], h[2]} # {}
      PROVE  g = h
  BY <1>1, <1>2, <1>3, <1>4, <1>6
<1> QED BY <1>5, <1>6 DEF IsPairing

(* The pairings that are found pair each player once, by the least number  *)
(* of players for which one would not.                                     *)
LEMMA AssignedPairs ==
  ASSUME NEW t, IsTable(t)
  PROVE  \A x \in SwissAssign2(t) : IsPairing(x, Names(t))
<1> DEFINE assign == CHOOSE f : f = [u \in SUBSET Names(t) |-> AssignNext(t, f, u)]
<1>1. assign = [u \in SUBSET Names(t) |-> AssignNext(t, assign, u)]
  BY AssignExists
<1>2. SwissAssign2(t) = IF Names(t) = {} THEN {} ELSE assign[Names(t)]
  BY Zenon DEF SwissAssign2, AssignNext
<1> HIDE DEF assign
<1>3. \A u \in SUBSET Names(t) : assign[u] = AssignNext(t, assign, u)
  BY <1>1
<1>4. \A u \in SUBSET Names(t) : IsFiniteSet(u) /\ Cardinality(u) \in Nat
  BY FS_Subset, FS_CardinalityType DEF IsTable
<1> DEFINE Bad(u) == \E x \in assign[u] : ~IsPairing(x, u)
           D == {Cardinality(u) : u \in {v \in SUBSET Names(t) : Bad(v)}}
<1>5. D = {}
  <2> SUFFICES ASSUME D # {} PROVE FALSE
    OBVIOUS
  <2>1. PICK n \in D : \A m \in D : n <= m
    <3>1. D \subseteq Nat
      <4> HIDE DEF Bad
      <4> QED BY <1>4
    <3> HIDE DEF D
    <3> QED BY <3>1, LeastNumber
  <2>2. PICK u \in SUBSET Names(t) : Bad(u) /\ Cardinality(u) = n
    <3> HIDE DEF Bad
    <3> QED OBVIOUS
  <2>3. PICK x \in assign[u] : ~IsPairing(x, u)
    BY <2>2
  <2>4. x \in AssignNext(t, assign, u)
    BY <1>3, <2>3
  <2>5. CASE u = {}
    <3>1. x = {}
      BY <2>4, <2>5, AssignCases
    <3> QED BY <2>3, <3>1 DEF IsPairing
  <2>6. CASE u # {}
    <3> HIDE DEF Bad, D
    <3>0. \E p \in u : \E o \in u \ {p} :
            AssignNext(t, assign, u) = {{<<p, o>>} \cup rest : rest \in assign[u \ {p, o}]}
      <4>1. u \subseteq Names(t)
        OBVIOUS
      <4>2. AssignNext(t, assign, u) # {}
        BY <2>4
      <4> QED BY ONLY <4>1, <4>2, <2>6, IsTable(t), AssignCases
    <3>1. PICK p \in u, o \in u :
            /\ o \in u \ {p}
            /\ AssignNext(t, assign, u) = {{<<p, o>>} \cup rest : rest \in assign[u \ {p, o}]}
      BY ONLY <3>0, Zenon
    <3>2. PICK rest \in assign[u \ {p, o}] : x = {<<p, o>>} \cup rest
      BY <2>4, <3>1
    <3>3. u \ {p, o} \in SUBSET Names(t) /\ u \ {p, o} \subseteq u /\ u \ {p, o} # u
      OBVIOUS
    <3>4. Cardinality(u \ {p, o}) < n
      <4> DEFINE v == u \ {p, o}
      <4>1. v \in SUBSET Names(t) /\ v \subseteq u /\ v # u
        BY <3>3
      <4> HIDE DEF v
      <4>2. Cardinality(v) <= Cardinality(u) /\ (Cardinality(v) = Cardinality(u) => v = u)
        BY <1>4, <4>1, FS_Subset
      <4>3. Cardinality(v) < n
        BY <1>4, <2>2, <4>1, <4>2
      <4> QED BY <4>3 DEF v
    <3>5. ~Bad(u \ {p, o})
      <4> DEFINE v == u \ {p, o}
      <4>1. v \in SUBSET Names(t) /\ Cardinality(v) < n
        BY <3>3, <3>4
      <4> HIDE DEF v, Bad
      <4>2. Bad(v) => Cardinality(v) \in D
        BY <4>1 DEF D
      <4>3. Cardinality(v) \in Nat /\ n \in Nat
        BY <1>4, <2>2, <4>1
      <4> HIDE DEF D
      <4>4. ~Bad(v)
        BY <2>1, <4>1, <4>2, <4>3
      <4> QED BY <4>4 DEF v
    <3>6. IsPairing(rest, u \ {p, o})
      BY <3>2, <3>5 DEF Bad
    <3>7. IsPairing(x, u)
      BY ONLY <3>1, <3>2, <3>6, PairAdded, Zenon
    <3> QED BY <2>3, <3>7
  <2> QED BY <2>5, <2>6
<1>6. \A u \in SUBSET Names(t) : ~Bad(u)
  <2> HIDE DEF Bad
  <2> QED BY <1>5
<1> QED BY <1>2, <1>6

-----------------------------------------------------------------------------
(* The games of a round.                                                   *)

(* Of the players in names, and the bye in one of them.                    *)
AreGames(games, names) ==
  /\ \A g \in games : g = <<g[1], g[2]>> /\ g[1] \in names /\ g[2] \in names /\ g[1] # g[2]
  /\ \A g, h \in games : BYE \in {g[1], g[2]} /\ BYE \in {h[1], h[2]} => g = h

LEMMA ColorsKeepPairs ==
  ASSUME NEW t, NEW u, NEW x, IsPairing(x, u), NEW games, games = ColorizeTourney(t, x)
  PROVE  AreGames(games, u)
<1> DEFINE Colors(p, o) == IF TakesWhite(t, p, o) THEN <<p, o>> ELSE <<o, p>>
           Game(g) == IF Before(g[1], g[2]) THEN Colors(g[1], g[2]) ELSE Colors(g[2], g[1])
<1>1. games = {Game(g) : g \in x}
  BY Zenon DEF ColorizeTourney
<1>2. \A g : Game(g) = <<g[1], g[2]>> \/ Game(g) = <<g[2], g[1]>>
  OBVIOUS
<1>3. \A g \in x : g[1] \in u /\ g[2] \in u /\ g[1] # g[2]
  BY DEF IsPairing
<1>4. \A g, h \in x : {g[1], g[2]} \cap {h[1], h[2]} # {} => g = h
  BY DEF IsPairing
<1> HIDE DEF Game
<1>5. ASSUME NEW c \in games
      PROVE  c = <<c[1], c[2]>> /\ c[1] \in u /\ c[2] \in u /\ c[1] # c[2]
  <2>1. PICK g \in x : c = Game(g)
    BY <1>1
  <2> QED BY <1>2, <1>3, <2>1
<1>6. ASSUME NEW c \in games, NEW d \in games, BYE \in {c[1], c[2]}, BYE \in {d[1], d[2]}
      PROVE  c = d
  <2>1. PICK g \in x : c = Game(g)
    BY <1>1
  <2>2. PICK h \in x : d = Game(h)
    BY <1>1
  <2>3. BYE \in {g[1], g[2]} /\ BYE \in {h[1], h[2]}
    BY <1>2, <1>6, <2>1, <2>2
  <2> QED BY <1>4, <2>1, <2>2, <2>3
<1> QED BY <1>5, <1>6 DEF AreGames

-----------------------------------------------------------------------------
(* The table keeps its shape.                                              *)

LEMMA TableFields ==
  ASSUME NEW P, IsFiniteSet(DOMAIN P), DOMAIN P \subseteq Nat, P = [n \in DOMAIN P |-> P[n]],
         \A n \in DOMAIN P : IsPlayer(P[n]), NEW G, NEW t, t = [player |-> P, games |-> G]
  PROVE  IsTable(t) /\ t.player = P /\ t.games = G /\ Names(t) = DOMAIN P
<1>1. t.player = P /\ t.games = G /\ t = [player |-> t.player, games |-> t.games]
  OBVIOUS
<1> QED BY <1>1 DEF IsTable, Names

LEMMA TableParts ==
  ASSUME NEW t, IsTable(t)
  PROVE  \E P, G : /\ t = [player |-> P, games |-> G] /\ t.player = P /\ t.games = G
                   /\ IsFiniteSet(DOMAIN P) /\ DOMAIN P \subseteq Nat /\ P = [n \in DOMAIN P |-> P[n]]
                   /\ Names(t) = DOMAIN P
                   /\ \A n \in DOMAIN P : IsPlayer(P[n])
<1>1. IsTable(t) /\ Names(t) = DOMAIN t.player
  BY DEF Names
<1> QED BY <1>1, Zenon DEF IsTable

LEMMA PlayerFields ==
  ASSUME NEW due \in {0, 1}, NEW S, NEW o \in Seq(S), NEW r, r = [opponents |-> o, due |-> due]
  PROVE  IsPlayer(r) /\ r.opponents = o /\ r.due = due
<1>1. r.opponents = o /\ r.due = due /\ r = [opponents |-> r.opponents, due |-> r.due]
  OBVIOUS
<1> QED BY <1>1 DEF IsPlayer

LEMMA NewPlayer == IsPlayer([opponents |-> <<>>, due |-> 0])
<1>1. <<>> \in Seq({})
  OBVIOUS
<1> QED BY <1>1, PlayerFields

(* What a round or a result does to a player.                              *)
LEMMA PlayerChanges ==
  ASSUME NEW r, IsPlayer(r)
  PROVE  /\ \A e : IsPlayer(WithOpponent(r, e))
         /\ \A d \in {0, 1} : IsPlayer([r EXCEPT !.due = d])
         /\ \A i, points : IsPlayer([r EXCEPT !.opponents[i].result = points])
<1>1. PICK S, o, due : o \in Seq(S) /\ due \in {0, 1} /\ r = [opponents |-> o, due |-> due]
  BY DEF IsPlayer
<1>2. ASSUME NEW e PROVE IsPlayer(WithOpponent(r, e))
  <2>1. o \in Seq(S \cup {e}) /\ e \in S \cup {e}
    BY <1>1
  <2>2. Append(o, e) \in Seq(S \cup {e})
    BY <2>1
  <2>3. WithOpponent(r, e) = [opponents |-> Append(o, e), due |-> due]
    BY ONLY <1>1 DEF WithOpponent
  <2>4. IsPlayer([opponents |-> Append(o, e), due |-> due])
    BY ONLY <1>1, <2>2, PlayerFields
  <2> QED BY ONLY <2>3, <2>4, Zenon
<1>3. ASSUME NEW d \in {0, 1} PROVE IsPlayer([r EXCEPT !.due = d])
  <2>1. [r EXCEPT !.due = d] = [opponents |-> o, due |-> d]
    BY ONLY <1>1
  <2> QED BY <1>1, <2>1, PlayerFields
<1>4. ASSUME NEW i, NEW points PROVE IsPlayer([r EXCEPT !.opponents[i].result = points])
  <2> DEFINE q == [o EXCEPT ![i] = [o[i] EXCEPT !.result = points]]
             T == S \cup {[o[i] EXCEPT !.result = points]}
  <2>1. q \in Seq(T)
    <3>1. o \in [1..Len(o) -> S] /\ Len(o) \in Nat
      BY <1>1
    <3>2. q \in [1..Len(o) -> T]
      BY <3>1
    <3> QED BY <3>1, <3>2, SeqDef
  <2>2. [r EXCEPT !.opponents[i].result = points] = [opponents |-> q, due |-> due]
    BY ONLY <1>1
  <2>3. IsPlayer([opponents |-> q, due |-> due])
    <3> HIDE DEF q
    <3> QED BY ONLY <1>1, <2>1, PlayerFields
  <2> QED BY ONLY <2>2, <2>3, Zenon
<1> QED BY <1>2, <1>3, <1>4

LEMMA PlayerJoins ==
  ASSUME NEW t, IsTable(t), NEW k \in Nat, Names(t) = 1..k, t.games = {},
         NEW new, new = AddPlayer(t)
  PROVE  IsTable(new) /\ Names(new) = 1..k + 1 /\ new.games = {}
<1>1. PICK P, G : /\ t = [player |-> P, games |-> G] /\ t.player = P /\ t.games = G
                  /\ Names(t) = DOMAIN P /\ \A n \in DOMAIN P : IsPlayer(P[n])
  BY TableParts, Zenon
<1> DEFINE Q == [n \in 1..k + 1 |-> IF n = k + 1 THEN [opponents |-> <<>>, due |-> 0] ELSE P[n]]
<1>2. new = [player |-> Q, games |-> {}]
  <2>1. Cardinality(1..k) = k
    BY FS_Interval
  <2>2. Cardinality(DOMAIN t.player) + 1 = k + 1
    BY <1>1, <2>1
  <2>3. new = [t EXCEPT !.player = [n \in 1..k + 1 |->
                 IF n = k + 1 THEN [opponents |-> <<>>, due |-> 0] ELSE @[n]]]
    BY <2>2, Zenon DEF AddPlayer
  <2> QED BY <1>1, <2>3
<1>3. \A n \in 1..k + 1 : IsPlayer(Q[n])
  BY <1>1, NewPlayer
<1>4. IsFiniteSet(1..k + 1) /\ 1..k + 1 \subseteq Nat
  BY FS_Interval
<1>5. DOMAIN Q = 1..k + 1 /\ Q = [n \in DOMAIN Q |-> Q[n]]
  OBVIOUS
<1> HIDE DEF Q
<1> QED BY <1>2, <1>3, <1>4, <1>5, TableFields

LEMMA ByeChecked ==
  ASSUME NEW old, IsTable(old), NEW t, t = UnpairAndCheckBye(old)
  PROVE  IsTable(t) /\ Names(t) \ {BYE} = Names(old) \ {BYE} /\ t.games = old.games
<1>1. PICK P, G : /\ old = [player |-> P, games |-> G] /\ old.player = P /\ old.games = G
                  /\ IsFiniteSet(DOMAIN P) /\ DOMAIN P \subseteq Nat /\ Names(old) = DOMAIN P
                  /\ \A n \in DOMAIN P : IsPlayer(P[n])
  BY TableParts, Zenon
<1> DEFINE players == DOMAIN P \ {BYE}
           names == players \cup (IF Cardinality(players) % 2 = 1 THEN {BYE} ELSE {})
           new == [opponents |-> <<>>, due |-> 0]
           Q == [n \in names |-> IF n = BYE THEN new ELSE P[n]]
<1>2. t = [player |-> Q, games |-> G]
  <2>1. t = [old EXCEPT !.player = [n \in names |-> IF n = BYE THEN new ELSE @[n]]]
    BY <1>1, Zenon DEF UnpairAndCheckBye
  <2> HIDE DEF names, new
  <2> QED BY ONLY <1>1, <2>1 DEF Q
<1>3. names \ {BYE} = DOMAIN P \ {BYE} /\ names \subseteq players \cup {BYE}
  OBVIOUS
<1>4. IsFiniteSet(names) /\ names \subseteq Nat
  <2>1. IsFiniteSet(players \cup {BYE})
    BY <1>1, FS_Subset, FS_AddElement
  <2>2. IsFiniteSet(names)
    BY <1>3, <2>1, FS_Subset
  <2> QED BY <1>1, <1>3, <2>2 DEF BYE
<1>5. \A n \in names : IsPlayer(Q[n])
  <2>1. IsPlayer(new)
    BY NewPlayer
  <2> HIDE DEF new
  <2> QED BY <1>1, <1>3, <2>1
<1>6. DOMAIN Q = names /\ Q = [n \in DOMAIN Q |-> Q[n]]
  OBVIOUS
<1> HIDE DEF Q, names
<1>7. IsTable(t) /\ t.games = G /\ Names(t) = names
  BY ONLY <1>2, <1>4, <1>5, <1>6, TableFields
<1> QED BY <1>1, <1>3, <1>7

LEMMA GamesGiven ==
  ASSUME NEW t, IsTable(t), NEW games, NEW new, new = WithGames(t, games)
  PROVE  IsTable(new) /\ Names(new) = Names(t) /\ new.games = games
<1>1. PICK P, G : /\ t = [player |-> P, games |-> G] /\ t.player = P
                  /\ IsFiniteSet(DOMAIN P) /\ DOMAIN P \subseteq Nat /\ Names(t) = DOMAIN P
                  /\ \A n \in DOMAIN P : IsPlayer(P[n])
  BY TableParts, Zenon
<1> DEFINE Entry(n) ==
             LET g == CHOOSE g \in games : n \in {g[1], g[2]}
             IN [name |-> IF g[1] = n THEN g[2] ELSE g[1], result |-> NoResult, white |-> g[1] = n]
           Q == [n \in DOMAIN P |-> WithOpponent(P[n], Entry(n))]
<1>2. new = [player |-> Q, games |-> games]
  <2>1. new = [t EXCEPT !.games = games,
                 !.player = [n \in DOMAIN @ |-> WithOpponent(@[n], Entry(n))]]
    BY Zenon DEF WithGames
  <2> HIDE DEF Entry
  <2> QED BY ONLY <1>1, <2>1
<1> HIDE DEF Entry
<1>3. \A n \in DOMAIN P : IsPlayer(Q[n])
  BY <1>1, PlayerChanges
<1>4. DOMAIN Q = DOMAIN P /\ Q = [n \in DOMAIN Q |-> Q[n]]
  OBVIOUS
<1> HIDE DEF Q
<1> QED BY ONLY <1>1, <1>2, <1>3, <1>4, TableFields

LEMMA RoundPaired ==
  ASSUME NEW old, IsTable(old), old.games = {}, NEW t, t = MakeAssignments(old)
  PROVE  IsTable(t) /\ Names(t) \ {BYE} = Names(old) \ {BYE} /\ AreGames(t.games, Names(t))
<1> DEFINE s == UnpairAndCheckBye(old)
           x == CHOOSE pairs \in SwissAssign2(s) : TRUE
           games == ColorizeTourney(s, x)
<1>1. IsTable(s) /\ Names(s) \ {BYE} = Names(old) \ {BYE} /\ s.games = {}
  BY ByeChecked
<1>2. t = IF SwissAssign2(s) = {} THEN s ELSE WithGames(s, games)
  BY Zenon DEF MakeAssignments
<1>3. CASE SwissAssign2(s) = {}
  BY <1>1, <1>2, <1>3 DEF AreGames
<1>4. CASE SwissAssign2(s) # {}
  <2>1. x \in SwissAssign2(s)
    BY <1>4
  <2> HIDE DEF x
  <2>2. IsPairing(x, Names(s))
    BY ONLY <1>1, <2>1, AssignedPairs
  <2>3. AreGames(games, Names(s))
    BY ONLY <2>2, ColorsKeepPairs
  <2> HIDE DEF games, s
  <2>4. IsTable(t) /\ Names(t) = Names(s) /\ t.games = games
    BY ONLY <1>1, <1>2, <1>4, GamesGiven
  <2> QED BY <1>1, <2>3, <2>4
<1> QED BY <1>3, <1>4

LEMMA FirstRoundPaired ==
  ASSUME NEW old, IsTable(old), old.games = {}, NEW firstColor \in {0, 1},
         NEW t, t = StartPairing(old, firstColor)
  PROVE  IsTable(t) /\ Names(t) \ {BYE} = Names(old) \ {BYE} /\ AreGames(t.games, Names(t))
<1>1. PICK P, G : /\ old = [player |-> P, games |-> G] /\ old.player = P /\ old.games = G
                  /\ IsFiniteSet(DOMAIN P) /\ DOMAIN P \subseteq Nat /\ Names(old) = DOMAIN P
                  /\ \A n \in DOMAIN P : IsPlayer(P[n])
  BY TableParts, Zenon
<1> DEFINE Q == [n \in DOMAIN P |-> [P[n] EXCEPT !.due = (firstColor + n + 1) % 2]]
           s == [player |-> Q, games |-> G]
<1>2. t = MakeAssignments(s)
  <2>1. s = [old EXCEPT !.player = [n \in DOMAIN @ |->
               [@[n] EXCEPT !.due = (firstColor + n + 1) % 2]]]
    BY ONLY <1>1
  <2> HIDE DEF s
  <2> QED BY <2>1, Zenon DEF StartPairing
<1>3. \A n \in DOMAIN P : IsPlayer(Q[n])
  <2> SUFFICES ASSUME NEW n \in DOMAIN P PROVE IsPlayer(Q[n])
    OBVIOUS
  <2> DEFINE d == (firstColor + n + 1) % 2
  <2>1. d \in {0, 1}
    BY <1>1
  <2>2. Q[n] = [P[n] EXCEPT !.due = d]
    OBVIOUS
  <2> HIDE DEF d, Q
  <2>3. IsPlayer(P[n])
    BY <1>1
  <2>4. IsPlayer([P[n] EXCEPT !.due = d])
    BY ONLY <2>1, <2>3, PlayerChanges, Zenon
  <2> QED BY ONLY <2>2, <2>4, Zenon
<1>4. DOMAIN Q = DOMAIN P /\ Q = [n \in DOMAIN Q |-> Q[n]]
  OBVIOUS
<1> HIDE DEF Q
<1>5. IsTable(s) /\ s.games = G /\ Names(s) = DOMAIN P
  BY ONLY <1>1, <1>3, <1>4, TableFields
<1> HIDE DEF s
<1> QED BY <1>1, <1>2, <1>5, RoundPaired

LEMMA ResultKeepsTable ==
  ASSUME NEW t, IsTable(t), NEW p, NEW o, NEW points, NEW new, new = SetResult(t, p, o, points)
  PROVE  IsTable(new) /\ Names(new) = Names(t) /\ new.games = t.games
<1>1. PICK P, G : /\ t = [player |-> P, games |-> G] /\ t.player = P /\ t.games = G
                  /\ P = [n \in DOMAIN P |-> P[n]]
                  /\ IsFiniteSet(DOMAIN P) /\ DOMAIN P \subseteq Nat /\ Names(t) = DOMAIN P
                  /\ \A n \in DOMAIN P : IsPlayer(P[n])
  BY TableParts, Zenon
<1> DEFINE i == GameAgainst(t, p, o)
           Q == [P EXCEPT ![p].opponents[i].result = points]
<1>2. new = [player |-> Q, games |-> G]
  <2>1. new = [t EXCEPT !.player[p].opponents[i].result = points]
    BY Zenon DEF SetResult
  <2> HIDE DEF i
  <2> QED BY ONLY <1>1, <2>1
<1> HIDE DEF i
<1>3. \A n \in DOMAIN P : IsPlayer(Q[n])
  <2> SUFFICES ASSUME NEW n \in DOMAIN P PROVE IsPlayer(Q[n])
    OBVIOUS
  <2>1. Q[n] = P[n] \/ Q[n] = [P[n] EXCEPT !.opponents[i].result = points]
    BY ONLY <1>1
  <2> HIDE DEF Q
  <2>2. IsPlayer(P[n])
    BY <1>1
  <2>3. IsPlayer([P[n] EXCEPT !.opponents[i].result = points])
    BY ONLY <2>2, PlayerChanges, Zenon
  <2> QED BY ONLY <2>1, <2>2, <2>3, Zenon
<1>4. DOMAIN Q = DOMAIN P /\ Q = [n \in DOMAIN Q |-> Q[n]]
  OBVIOUS
<1> HIDE DEF Q
<1> QED BY ONLY <1>1, <1>2, <1>3, <1>4, TableFields

LEMMA GameDecided ==
  ASSUME NEW t, IsTable(t), NEW w, NEW b, NEW points,
         NEW new, new = SetGameResult(t, w, b, points)
  PROVE  IsTable(new) /\ Names(new) = Names(t) /\ new.games = t.games \ {<<w, b>>}
<1> DEFINE s == SetResult(SetResult(t, w, b, points), b, w, 2 - points)
<1>1. IsTable(s) /\ Names(s) = Names(t) /\ s.games = t.games
  <2> DEFINE q == SetResult(t, w, b, points)
  <2>1. IsTable(q) /\ Names(q) = Names(t) /\ q.games = t.games
    BY ResultKeepsTable
  <2>2. s = SetResult(q, b, w, 2 - points)
    OBVIOUS
  <2> HIDE DEF q, s
  <2> QED BY ONLY <2>1, <2>2, ResultKeepsTable
<1>2. new = [s EXCEPT !.games = t.games \ {<<w, b>>}]
  <2>1. new = [s EXCEPT !.games = @ \ {<<w, b>>}]
    BY Zenon DEF SetGameResult
  <2> HIDE DEF s
  <2> QED BY ONLY <1>1, <2>1
<1> HIDE DEF s
<1>3. PICK P, G : /\ s = [player |-> P, games |-> G]
                  /\ IsFiniteSet(DOMAIN P) /\ DOMAIN P \subseteq Nat /\ Names(s) = DOMAIN P
                  /\ P = [n \in DOMAIN P |-> P[n]]
                  /\ \A n \in DOMAIN P : IsPlayer(P[n])
  BY <1>1, TableParts, Zenon
<1>4. new = [player |-> P, games |-> t.games \ {<<w, b>>}]
  BY <1>2, <1>3
<1> QED BY <1>1, <1>3, <1>4, TableFields

(* The game of the bye is decided at once: the games that stay open are of *)
(* the players.                                                            *)
LEMMA ByeDecided ==
  ASSUME NEW t, IsTable(t), AreGames(t.games, Names(t)), NEW new, new = SetByeResult(t)
  PROVE  /\ IsTable(new) /\ Names(new) = Names(t)
         /\ AreGames(new.games, Names(new) \ {BYE})
<1> DEFINE g == CHOOSE g \in ByeGames(t) : TRUE
           points == IF g[1] = BYE THEN 0 ELSE 2
<1>0. new = IF ByeGames(t) = {} THEN t ELSE SetGameResult(t, g[1], g[2], points)
  BY Zenon DEF SetByeResult
<1>1. CASE ByeGames(t) = {}
  BY <1>0, <1>1 DEF AreGames, ByeGames
<1>2. CASE ByeGames(t) # {}
  <2>1. g \in t.games /\ BYE \in {g[1], g[2]}
    <3>1. g \in ByeGames(t)
      BY <1>2
    <3> HIDE DEF g
    <3> QED BY <3>1 DEF ByeGames
  <2> HIDE DEF g, points
  <2>2. IsTable(new) /\ Names(new) = Names(t) /\ new.games = t.games \ {<<g[1], g[2]>>}
    BY ONLY <1>0, <1>2, IsTable(t), GameDecided
  <2>3. new.games = t.games \ {g}
    BY <2>1, <2>2 DEF AreGames
  <2> QED BY <2>1, <2>2, <2>3 DEF AreGames
<1> QED BY <1>1, <1>2

-----------------------------------------------------------------------------
(* Tournaments.                                                            *)

(* A tournament: its table holds the players who joined, and the bye; the  *)
(* games are of them; nobody plays before it runs, and games without a     *)
(* result are waited for.                                                  *)
Waits(running, missing_results, swiss) ==
  /\ ~running => ~missing_results /\ BYE \notin Names(swiss)
  /\ ~missing_results => swiss.games = {}

IsTourney(t) ==
  /\ t = [joined |-> t.joined, running |-> t.running, missing_rounds |-> t.missing_rounds,
          started |-> t.started, missing_results |-> t.missing_results,
          result_set |-> t.result_set, swiss |-> t.swiss, round |-> t.round]
  /\ t.joined \in Seq(Joiner)
  /\ IsTable(t.swiss) /\ Names(t.swiss) \ {BYE} = 1..Len(t.joined)
  /\ AreGames(t.swiss.games, 1..Len(t.joined))
  /\ Waits(t.running, t.missing_results, t.swiss)

TourneyOf(j, running, rounds, started, missing, results, swiss, round) ==
  [joined |-> j, running |-> running, missing_rounds |-> rounds, started |-> started,
   missing_results |-> missing, result_set |-> results, swiss |-> swiss, round |-> round]

TourneyAs(j, running, missing, swiss) ==
  /\ j \in Seq(Joiner)
  /\ IsTable(swiss) /\ Names(swiss) \ {BYE} = 1..Len(j)
  /\ AreGames(swiss.games, 1..Len(j)) /\ Waits(running, missing, swiss)

LEMMA TourneyFields ==
  ASSUME NEW j, NEW running, NEW rounds, NEW started, NEW missing, NEW results,
         NEW swiss, NEW round, TourneyAs(j, running, missing, swiss),
         NEW t, t = TourneyOf(j, running, rounds, started, missing, results, swiss, round)
  PROVE  /\ IsTourney(t) /\ t.joined = j /\ t.running = running /\ t.missing_results = missing
         /\ t.swiss = swiss /\ t.round = round
<1>1. /\ t.joined = j /\ t.running = running /\ t.missing_rounds = rounds
      /\ t.started = started /\ t.missing_results = missing /\ t.result_set = results
      /\ t.swiss = swiss /\ t.round = round
  BY DEF TourneyOf
<1> QED BY <1>1, Zenon DEF IsTourney, TourneyOf, TourneyAs

LEMMA TourneyParts ==
  ASSUME NEW t, IsTourney(t)
  PROVE  \E j, running, rounds, started, missing, results, swiss, round :
           /\ t = TourneyOf(j, running, rounds, started, missing, results, swiss, round)
           /\ t.joined = j /\ t.running = running /\ t.missing_results = missing
           /\ t.swiss = swiss /\ t.round = round /\ t.started = started
           /\ TourneyAs(j, running, missing, swiss)
BY Zenon DEF IsTourney, TourneyOf, TourneyAs

LEMMA TourneyCreated ==
  ASSUME NEW rounds, NEW t, t = NewTourney(rounds)
  PROVE  IsTourney(t) /\ t.swiss.games = {}
<1> DEFINE j == <<>>
<1>1. NoPlayers.games = {} /\ IsTable(NoPlayers) /\ Names(NoPlayers) = {}
  <2> DEFINE P == <<>>
  <2>1. DOMAIN P = {} /\ IsFiniteSet(DOMAIN P) /\ P = [n \in DOMAIN P |-> P[n]]
    BY FS_EmptySet
  <2>2. NoPlayers = [player |-> P, games |-> {}]
    BY DEF NoPlayers
  <2> HIDE DEF P
  <2> QED BY <2>1, <2>2, TableFields
<1>2. j \in Seq(Joiner) /\ 1..Len(j) = {}
  OBVIOUS
<1>3. AreGames({}, {}) /\ Waits(FALSE, FALSE, NoPlayers)
  BY <1>1 DEF AreGames, Waits
<1>4. t = TourneyOf(j, FALSE, rounds, FALSE, FALSE, {}, NoPlayers, 0)
  BY DEF NewTourney, TourneyOf
<1>5. Names(NoPlayers) \ {BYE} = {}
  BY <1>1
<1> HIDE DEF j
<1>6. TourneyAs(j, FALSE, FALSE, NoPlayers)
  BY <1>1, <1>2, <1>3, <1>5 DEF TourneyAs
<1>7. IsTourney(t) /\ t.swiss = NoPlayers
  <2> DEFINE no == FALSE  none == {}  first == 0
  <2>1. t = TourneyOf(j, no, rounds, no, no, none, NoPlayers, first)
        /\ TourneyAs(j, no, no, NoPlayers)
    BY <1>4, <1>6
  <2> HIDE DEF no, none, first
  <2> QED BY ONLY <2>1, TourneyFields
<1> QED BY <1>1, <1>7

LEMMA TourneyJoined ==
  ASSUME NEW t, IsTourney(t), ~t.running, NEW u \in Joiner, NEW new, new = WithPlayer(t, u)
  PROVE  /\ IsTourney(new) /\ t.swiss.games = {} /\ new.swiss.games = {} /\ ~new.running
         /\ AllDiffer(new) => AllDiffer(t)
<1>1. PICK j, running, rounds, started, missing, results, swiss, round :
           /\ t = TourneyOf(j, running, rounds, started, missing, results, swiss, round)
           /\ t.joined = j /\ t.running = running /\ t.missing_results = missing
           /\ t.swiss = swiss /\ t.round = round /\ t.started = started
           /\ TourneyAs(j, running, missing, swiss)
  BY TourneyParts, Zenon
<1> DEFINE q == Append(j, u)
           table == AddPlayer(swiss)
<1>2. new = TourneyOf(q, running, rounds, started, missing, results, table, round)
  BY ONLY <1>1, new = WithPlayer(t, u) DEF WithPlayer, TourneyOf
<1>3. ~missing /\ swiss.games = {} /\ Names(swiss) = 1..Len(j)
  BY <1>1 DEF Waits, TourneyAs
<1>4. Len(j) \in Nat /\ q \in Seq(Joiner) /\ Len(q) = Len(j) + 1
      /\ \A i \in 1..Len(j) : q[i] = j[i]
  BY <1>1 DEF TourneyAs
<1>5. IsTable(table) /\ Names(table) = 1..Len(j) + 1 /\ table.games = {}
  BY <1>1, <1>3, <1>4, PlayerJoins DEF TourneyAs
<1> HIDE DEF table, q
<1>6. TourneyAs(q, running, missing, table)
  <2>1. Names(table) \ {BYE} = 1..Len(q)
    BY <1>4, <1>5 DEF BYE
  <2>2. Waits(running, missing, table) /\ AreGames(table.games, 1..Len(q))
    BY <1>1, <1>3, <1>4, <1>5 DEF Waits, AreGames, BYE
  <2> QED BY <1>4, <1>5, <2>1, <2>2 DEF TourneyAs
<1>7. IsTourney(new) /\ new.joined = q /\ new.running = running /\ new.swiss = table
  BY ONLY <1>2, <1>6, TourneyFields
<1>8. ASSUME AllDiffer(new) PROVE AllDiffer(t)
  <2>1. DOMAIN q = 1..Len(q) /\ DOMAIN j = 1..Len(j)
    BY <1>1, <1>4 DEF TourneyAs
  <2> QED BY <1>1, <1>4, <1>7, <1>8, <2>1 DEF AllDiffer
<1> QED BY <1>1, <1>3, <1>5, <1>7, <1>8

LEMMA TourneyStarted ==
  ASSUME NEW t, IsTourney(t), NEW new, new = [t EXCEPT !.running = TRUE]
  PROVE  /\ IsTourney(new) /\ new.running /\ new.joined = t.joined /\ new.swiss = t.swiss
         /\ new.round = t.round /\ new.missing_results = t.missing_results
<1>1. PICK j, running, rounds, started, missing, results, swiss, round :
           /\ t = TourneyOf(j, running, rounds, started, missing, results, swiss, round)
           /\ t.joined = j /\ t.running = running /\ t.missing_results = missing
           /\ t.swiss = swiss /\ t.round = round /\ t.started = started
           /\ TourneyAs(j, running, missing, swiss)
  BY TourneyParts, Zenon
<1>2. new = TourneyOf(j, TRUE, rounds, started, missing, results, swiss, round)
  BY ONLY <1>1, new = [t EXCEPT !.running = TRUE] DEF TourneyOf
<1>3. TourneyAs(j, TRUE, missing, swiss)
  BY <1>1 DEF Waits, TourneyAs
<1>4. /\ IsTourney(new) /\ new.joined = j /\ new.running = TRUE /\ new.missing_results = missing
      /\ new.swiss = swiss /\ new.round = round
  <2> DEFINE yes == TRUE
  <2>1. /\ new = TourneyOf(j, yes, rounds, started, missing, results, swiss, round)
        /\ TourneyAs(j, yes, missing, swiss)
    BY <1>2, <1>3
  <2>2. yes = TRUE
    OBVIOUS
  <2> HIDE DEF yes
  <2>3. /\ IsTourney(new) /\ new.joined = j /\ new.running = yes /\ new.missing_results = missing
        /\ new.swiss = swiss /\ new.round = round
    BY ONLY <2>1, TourneyFields
  <2> QED BY <2>2, <2>3
<1> QED BY <1>1, <1>4

(* A round is made of a tournament that waits for no result.               *)
LEMMA RoundMade ==
  ASSUME NEW t, IsTourney(t), t.running, ~t.missing_results, NEW firstColor \in {0, 1},
         NEW new, new = Match(t, firstColor)
  PROVE  IsTourney(new) /\ new.running /\ new.joined = t.joined /\ t.swiss.games = {}
<1>1. PICK j, running, rounds, started, missing, results, swiss, round :
           /\ t = TourneyOf(j, running, rounds, started, missing, results, swiss, round)
           /\ t.joined = j /\ t.running = running /\ t.missing_results = missing
           /\ t.swiss = swiss /\ t.round = round /\ t.started = started
           /\ TourneyAs(j, running, missing, swiss)
  BY TourneyParts, Zenon
<1> DEFINE paired == IF started THEN MakeAssignments(swiss) ELSE StartPairing(swiss, firstColor)
           table == SetByeResult(paired)
<1>2. new = TourneyOf(j, running, rounds - 1, TRUE, TRUE, {}, table, round + 1)
  <2>1. new = [t EXCEPT !.missing_rounds = @ - 1, !.started = TRUE,
                        !.missing_results = TRUE, !.result_set = {}, !.round = @ + 1,
                        !.swiss = SetByeResult(IF started THEN MakeAssignments(@)
                                               ELSE StartPairing(@, firstColor))]
    BY <1>1, Zenon DEF Match
  <2> QED BY ONLY <1>1, <2>1 DEF TourneyOf
<1>3. running /\ ~missing /\ swiss.games = {} /\ IsTable(swiss) /\ j \in Seq(Joiner)
      /\ Names(swiss) \ {BYE} = 1..Len(j)
  BY <1>1 DEF Waits, TourneyAs
<1>4. IsTable(paired) /\ Names(paired) \ {BYE} = 1..Len(j) /\ AreGames(paired.games, Names(paired))
  BY <1>3, RoundPaired, FirstRoundPaired
<1> HIDE DEF paired
<1>5. IsTable(table) /\ Names(table) \ {BYE} = 1..Len(j) /\ AreGames(table.games, 1..Len(j))
  <2>1. table = SetByeResult(paired)
    OBVIOUS
  <2> HIDE DEF table
  <2>2. /\ IsTable(table) /\ Names(table) = Names(paired)
        /\ AreGames(table.games, Names(table) \ {BYE})
    BY ONLY <1>4, <2>1, ByeDecided
  <2> QED BY <1>4, <2>2
<1> HIDE DEF table
<1>6. TourneyAs(j, running, TRUE, table)
  BY <1>3, <1>5 DEF Waits, TourneyAs
<1>7. IsTourney(new) /\ new.joined = j /\ new.running = running
  <2> DEFINE yes == TRUE  none == {}  left == rounds - 1  next == round + 1
  <2>1. /\ new = TourneyOf(j, running, left, yes, yes, none, table, next)
        /\ TourneyAs(j, running, yes, table)
    BY <1>2, <1>6
  <2> HIDE DEF yes, none, left, next
  <2> QED BY ONLY <2>1, TourneyFields
<1> QED BY <1>1, <1>3, <1>7

LEMMA ResultAdded ==
  ASSUME NEW t, IsTourney(t), t.running, NEW g, NEW result,
         NEW new, new = AddResult(t, g, result)
  PROVE  /\ IsTourney(new) /\ new.running /\ new.joined = t.joined /\ new.round = t.round
         /\ new.swiss.games = t.swiss.games
              \ {<<PlayerOf(t, g.players[1]), PlayerOf(t, g.players[2])>>}
<1>1. PICK j, running, rounds, started, missing, results, swiss, round :
           /\ t = TourneyOf(j, running, rounds, started, missing, results, swiss, round)
           /\ t.joined = j /\ t.running = running /\ t.missing_results = missing
           /\ t.swiss = swiss /\ t.round = round /\ t.started = started
           /\ TourneyAs(j, running, missing, swiss)
  BY TourneyParts, Zenon
<1> DEFINE w == PlayerOf(t, g.players[1])
           b == PlayerOf(t, g.players[2])
           table == SetGameResult(swiss, w, b, Points(result))
           new_results == results \cup Players(g)
<1>2. new = TourneyOf(j, running, rounds, started, table.games # {}, new_results, table, round)
  <2>1. new = [t EXCEPT !.swiss = table, !.result_set = @ \cup Players(g),
                        !.missing_results = table.games # {}]
    BY <1>1, Zenon DEF AddResult
  <2> HIDE DEF table, w, b
  <2> QED BY ONLY <1>1, <2>1 DEF TourneyOf
<1>3. IsTable(table) /\ Names(table) = Names(swiss) /\ table.games = swiss.games \ {<<w, b>>}
  BY <1>1, GameDecided DEF TourneyAs
<1> HIDE DEF table, w, b, new_results
<1>4. TourneyAs(j, running, table.games # {}, table)
  BY <1>1, <1>3 DEF AreGames, Waits, TourneyAs
<1>6. /\ IsTourney(new) /\ new.joined = j /\ new.running = running /\ new.swiss = table
      /\ new.round = round
  BY ONLY <1>2, <1>4, TourneyFields
<1> QED BY <1>1, <1>3, <1>6 DEF w, b

-----------------------------------------------------------------------------
(* Where the games of a round are.                                         *)

(* The games to create c, those played r, and the results that wait q.     *)
Reported(q) == {q[i].game : i \in DOMAIN q}

GamesOf(id, c, r, q) == {g \in c \cup r \cup Reported(q) : g.tourney = id}

(* A game is in one place, and reported once.                              *)
EachOnce(id, c, r, q) ==
  /\ \A g \in c : g.tourney = id => g \notin r \cup Reported(q)
  /\ \A g \in r : g.tourney = id => g \notin Reported(q)
  /\ \A i, j \in DOMAIN q : q[i].game = q[j].game /\ q[i].game.tourney = id => i = j

PlaysRound(id, c, r, q, t) ==
  AllDiffer(t) => GamesOf(id, c, r, q) = Games(id, t) /\ EachOnce(id, c, r, q)

IsSequence(q) == \E S : q \in Seq(S)

AreTourneys(ts) == IsSequence(ts) /\ \A id \in DOMAIN ts : IsTourney(ts[id])

OfRunning(c, r, q, ts) ==
  /\ \A g \in c \cup Reported(q) : g.tourney \in DOMAIN ts /\ ts[g.tourney].running
  /\ \A g \in r : g.tourney = 0 \/ (g.tourney \in DOMAIN ts /\ ts[g.tourney].running)

RoundsPlayed(c, r, q, ts) ==
  /\ AreTourneys(ts) /\ IsSequence(q)
  /\ OfRunning(c, r, q, ts)
  /\ \A id \in DOMAIN ts : PlaysRound(id, c, r, q, ts[id])

IsAppended(q, e, new) ==
  /\ IsSequence(new) /\ Len(q) \in Nat /\ DOMAIN q = 1..Len(q)
  /\ DOMAIN new = 1..Len(q) + 1 /\ new[Len(q) + 1] = e
  /\ \A i \in DOMAIN q : new[i] = q[i]

LEMMA SequenceAppended ==
  ASSUME NEW q, IsSequence(q), NEW e
  PROVE  IsAppended(q, e, Append(q, e))
<1> DEFINE new == Append(q, e)
<1>1. PICK S : q \in Seq(S)
  BY DEF IsSequence
<1>2. q \in Seq(S \cup {e}) /\ e \in S \cup {e}
  BY <1>1
<1>3. new \in Seq(S \cup {e})
  BY <1>2
<1> QED BY <1>1, <1>3 DEF IsSequence, IsAppended

LEMMA SequenceChanged ==
  ASSUME NEW q, IsSequence(q), NEW i \in DOMAIN q, NEW e, NEW new, new = [q EXCEPT ![i] = e]
  PROVE  /\ IsSequence(new) /\ DOMAIN new = DOMAIN q /\ new[i] = e
         /\ \A k \in DOMAIN q \ {i} : new[k] = q[k]
<1>1. PICK S : q \in Seq(S)
  BY DEF IsSequence
<1>2. q \in [1..Len(q) -> S] /\ Len(q) \in Nat
  BY <1>1
<1>3. new \in [1..Len(q) -> S \cup {e}]
  BY <1>2
<1>4. new \in Seq(S \cup {e})
  BY <1>2, <1>3, SeqDef
<1> QED BY <1>2, <1>4 DEF IsSequence

LEMMA SequenceTail ==
  ASSUME NEW q, IsSequence(q), q # <<>>, NEW new, new = Tail(q)
  PROVE  /\ IsSequence(new) /\ Len(q) \in Nat /\ 1 \in DOMAIN q /\ Head(q) = q[1]
         /\ DOMAIN q = 1..Len(q) /\ DOMAIN new = 1..Len(q) - 1
         /\ \A i \in DOMAIN new : new[i] = q[i + 1]
<1>1. PICK S : q \in Seq(S)
  BY DEF IsSequence
<1>2. new \in Seq(S)
  BY <1>1
<1> QED BY <1>1, <1>2 DEF IsSequence

LEMMA GamesAreOf ==
  ASSUME NEW id, NEW t
  PROVE  /\ \A g \in Games(id, t) : g.tourney = id
         /\ t.swiss.games = {} => Games(id, t) = {}
BY DEF Games

LEMMA CreationPlayed ==
  ASSUME NEW c, NEW r, NEW q, NEW ts, RoundsPlayed(c, r, q, ts), NEW rounds,
         NEW new, new = Append(ts, NewTourney(rounds))
  PROVE  RoundsPlayed(c, r, q, new)
<1> DEFINE t == NewTourney(rounds)  id == Len(ts) + 1
<1>1. /\ IsSequence(new) /\ id \in Nat /\ DOMAIN ts = 1..id - 1 /\ DOMAIN new = 1..id
      /\ new[id] = t /\ \A i \in DOMAIN ts : new[i] = ts[i]
  <2>1. new = Append(ts, t) /\ IsSequence(ts)
    BY DEF RoundsPlayed, AreTourneys
  <2> HIDE DEF t
  <2>2. IsAppended(ts, t, new)
    BY ONLY <2>1, SequenceAppended
  <2> QED BY <2>2 DEF IsAppended
<1>2. IsTourney(t) /\ t.swiss.games = {}
  BY TourneyCreated
<1> HIDE DEF t, id
<1>3. AreTourneys(new)
  BY <1>1, <1>2 DEF RoundsPlayed, AreTourneys
<1>4. OfRunning(c, r, q, new)
  BY <1>1 DEF RoundsPlayed, OfRunning
<1>5. PlaysRound(id, c, r, q, t)
  <2>1. \A g \in c \cup r \cup Reported(q) : g.tourney # id
    BY <1>1 DEF RoundsPlayed, OfRunning
  <2>2. GamesOf(id, c, r, q) = {}
    BY <2>1 DEF GamesOf
  <2>3. EachOnce(id, c, r, q)
    BY <2>1 DEF EachOnce, Reported
  <2> QED BY <1>2, <2>2, <2>3, GamesAreOf DEF PlaysRound
<1> QED BY <1>1, <1>3, <1>4, <1>5 DEF RoundsPlayed

LEMMA JoiningPlayed ==
  ASSUME NEW c, NEW r, NEW q, NEW ts, RoundsPlayed(c, r, q, ts), NEW id \in DOMAIN ts,
         ~ts[id].running, NEW u \in Joiner, NEW new, new = [ts EXCEPT ![id] = WithPlayer(@, u)]
  PROVE  RoundsPlayed(c, r, q, new)
<1> DEFINE old == ts[id]  t == WithPlayer(old, u)
<1>1. /\ IsSequence(new) /\ DOMAIN new = DOMAIN ts /\ new[id] = t
      /\ \A i \in DOMAIN ts \ {id} : new[i] = ts[i]
  <2>1. new = [ts EXCEPT ![id] = t] /\ IsSequence(ts) /\ id \in DOMAIN ts
    BY DEF RoundsPlayed, AreTourneys
  <2> HIDE DEF t
  <2> QED BY ONLY <2>1, SequenceChanged
<1>2. IsTourney(old) /\ ~old.running
  BY DEF RoundsPlayed, AreTourneys
<1> HIDE DEF old
<1>3. /\ IsTourney(t) /\ old.swiss.games = {} /\ t.swiss.games = {} /\ ~t.running
      /\ AllDiffer(t) => AllDiffer(old)
  BY <1>2, TourneyJoined
<1> HIDE DEF t
<1>4. AreTourneys(new)
  BY <1>1, <1>3 DEF RoundsPlayed, AreTourneys
<1>5. OfRunning(c, r, q, new)
  BY <1>1 DEF RoundsPlayed, OfRunning
<1>6. PlaysRound(id, c, r, q, t)
  <2>1. Games(id, old) = {} /\ Games(id, t) = {}
    BY <1>3, GamesAreOf
  <2>2. PlaysRound(id, c, r, q, old)
    BY DEF RoundsPlayed, old
  <2> QED BY <1>3, <2>1, <2>2 DEF PlaysRound
<1> QED BY <1>1, <1>4, <1>5, <1>6 DEF RoundsPlayed

LEMMA GameCreatedPlayed ==
  ASSUME NEW c, NEW r, NEW q, NEW ts, RoundsPlayed(c, r, q, ts), NEW g \in c
  PROVE  RoundsPlayed(c \ {g}, r \cup {g}, q, ts)
<1>1. OfRunning(c \ {g}, r \cup {g}, q, ts)
  BY DEF RoundsPlayed, OfRunning
<1>2. ASSUME NEW id \in DOMAIN ts PROVE PlaysRound(id, c \ {g}, r \cup {g}, q, ts[id])
  <2>1. GamesOf(id, c \ {g}, r \cup {g}, q) = GamesOf(id, c, r, q)
    BY DEF GamesOf
  <2>2. EachOnce(id, c, r, q) => EachOnce(id, c \ {g}, r \cup {g}, q)
    BY DEF EachOnce
  <2> QED BY <2>1, <2>2 DEF RoundsPlayed, PlaysRound
<1> QED BY <1>1, <1>2 DEF RoundsPlayed

LEMMA CasualPlayed ==
  ASSUME NEW c, NEW r, NEW q, NEW ts, RoundsPlayed(c, r, q, ts), NEW g, g.tourney = 0
  PROVE  RoundsPlayed(c, r \cup {g}, q, ts)
<1>1. OfRunning(c, r \cup {g}, q, ts)
  BY DEF RoundsPlayed, OfRunning
<1>2. ASSUME NEW id \in DOMAIN ts PROVE PlaysRound(id, c, r \cup {g}, q, ts[id])
  <2>1. g.tourney # id
    <3>1. id # 0
      BY DEF RoundsPlayed, AreTourneys, IsSequence
    <3> QED BY <3>1
  <2>2. GamesOf(id, c, r \cup {g}, q) = GamesOf(id, c, r, q)
    BY <2>1 DEF GamesOf
  <2>3. EachOnce(id, c, r, q) => EachOnce(id, c, r \cup {g}, q)
    BY <2>1 DEF EachOnce
  <2> QED BY <2>2, <2>3 DEF RoundsPlayed, PlaysRound
<1> QED BY <1>1, <1>2 DEF RoundsPlayed

LEMMA CasualEndPlayed ==
  ASSUME NEW c, NEW r, NEW q, NEW ts, RoundsPlayed(c, r, q, ts), NEW g \in r, g.tourney = 0
  PROVE  RoundsPlayed(c, r \ {g}, q, ts)
<1>1. OfRunning(c, r \ {g}, q, ts)
  BY DEF RoundsPlayed, OfRunning
<1>2. ASSUME NEW id \in DOMAIN ts PROVE PlaysRound(id, c, r \ {g}, q, ts[id])
  <2>1. g.tourney # id
    <3>1. id # 0
      BY DEF RoundsPlayed, AreTourneys, IsSequence
    <3> QED BY <3>1
  <2>2. GamesOf(id, c, r \ {g}, q) = GamesOf(id, c, r, q)
    BY <2>1 DEF GamesOf
  <2>3. EachOnce(id, c, r, q) => EachOnce(id, c, r \ {g}, q)
    BY <2>1 DEF EachOnce
  <2> QED BY <2>2, <2>3 DEF RoundsPlayed, PlaysRound
<1> QED BY <1>1, <1>2 DEF RoundsPlayed

LEMMA EndPlayed ==
  ASSUME NEW c, NEW r, NEW q, NEW ts, RoundsPlayed(c, r, q, ts), NEW g \in r, g.tourney # 0,
         NEW e, e.game = g, NEW new, new = Append(q, e)
  PROVE  RoundsPlayed(c, r \ {g}, new, ts)
<1>1. /\ IsSequence(new) /\ Len(q) \in Nat /\ DOMAIN q = 1..Len(q)
      /\ DOMAIN new = 1..Len(q) + 1 /\ new[Len(q) + 1] = e
      /\ \A i \in DOMAIN q : new[i] = q[i]
  <2>1. IsSequence(q)
    BY DEF RoundsPlayed
  <2>2. IsAppended(q, e, new)
    BY ONLY <2>1, new = Append(q, e), SequenceAppended
  <2> QED BY <2>2 DEF IsAppended
<1>2. Reported(new) = Reported(q) \cup {g}
  <2>1. DOMAIN new = DOMAIN q \cup {Len(q) + 1}
    BY <1>1
  <2> QED BY <1>1, <2>1 DEF Reported
<1>3. OfRunning(c, r \ {g}, new, ts)
  BY <1>2 DEF RoundsPlayed, OfRunning
<1>4. ASSUME NEW id \in DOMAIN ts PROVE PlaysRound(id, c, r \ {g}, new, ts[id])
  <2>1. GamesOf(id, c, r \ {g}, new) = GamesOf(id, c, r, q)
    BY <1>2 DEF GamesOf
  <2>2. ASSUME EachOnce(id, c, r, q) PROVE EachOnce(id, c, r \ {g}, new)
    <3>1. \A h \in c : h.tourney = id => h \notin (r \ {g}) \cup Reported(new)
      BY <1>2, <2>2 DEF EachOnce
    <3>2. \A h \in r \ {g} : h.tourney = id => h \notin Reported(new)
      BY <1>2, <2>2 DEF EachOnce
    <3>3. ASSUME NEW i \in DOMAIN new, NEW j \in DOMAIN new, new[i].game = new[j].game,
                 new[i].game.tourney = id
          PROVE  i = j
      <4> DEFINE n == Len(q) + 1
      <4>1. \A k \in DOMAIN q : q[k].game.tourney = id => q[k].game # g
        BY <2>2 DEF EachOnce, Reported
      <4>2. DOMAIN new = DOMAIN q \cup {n} /\ new[n].game = g /\ \A k \in DOMAIN q : new[k] = q[k]
        BY <1>1
      <4> HIDE DEF n
      <4>3. CASE i \in DOMAIN q /\ j \in DOMAIN q
        BY <2>2, <3>3, <4>2, <4>3 DEF EachOnce
      <4> QED BY <3>3, <4>1, <4>2, <4>3
    <3> QED BY <3>1, <3>2, <3>3 DEF EachOnce
  <2> QED BY <2>1, <2>2 DEF RoundsPlayed, PlaysRound
<1> QED BY <1>1, <1>3, <1>4 DEF RoundsPlayed

(* startNextRound, for a tournament t that stands in for its former self.  *)
LEMMA NextRoundPlayed ==
  ASSUME NEW r, NEW q, NEW ts, NEW id \in DOMAIN ts, AreTourneys(ts), IsSequence(q),
         NEW t, IsTourney(t), t.running, t.joined = ts[id].joined,
         NEW c, NEW new, NEW after, new = [ts EXCEPT ![id] = after],
         \/ after = t /\ c = {}
         \/ /\ ~t.missing_results
            /\ \E firstColor \in {0, 1} : after = Match(t, firstColor)
            /\ c = Games(id, after),
         OfRunning({}, r, q, ts),
         PlaysRound(id, {}, r, q, t),
         \A other \in DOMAIN ts \ {id} : PlaysRound(other, {}, r, q, ts[other])
  PROVE  RoundsPlayed(c, r, q, new)
<1>1. /\ IsSequence(new) /\ DOMAIN new = DOMAIN ts /\ new[id] = after
      /\ \A k \in DOMAIN ts \ {id} : new[k] = ts[k]
  <2>1. IsSequence(ts)
    BY DEF AreTourneys
  <2> QED BY ONLY <2>1, id \in DOMAIN ts, new = [ts EXCEPT ![id] = after], SequenceChanged
<1>2. \/ after = t /\ c = {}
      \/ /\ IsTourney(after) /\ after.running /\ after.joined = t.joined /\ t.swiss.games = {}
         /\ c = Games(id, after)
  BY RoundMade
<1>3. IsTourney(after) /\ after.running /\ AllDiffer(after) = AllDiffer(t)
  <2>1. IsTourney(after) /\ after.running /\ after.joined = t.joined
    BY <1>2
  <2> QED BY <2>1 DEF AllDiffer
<1>4. \A g \in c : g.tourney = id
  BY <1>2, GamesAreOf
<1>5. AreTourneys(new)
  BY <1>1, <1>3 DEF AreTourneys
<1>6. OfRunning(c, r, q, new)
  BY <1>1, <1>3, <1>4 DEF OfRunning
<1>7. ASSUME NEW other \in DOMAIN ts \ {id} PROVE PlaysRound(other, c, r, q, ts[other])
  <2>1. GamesOf(other, c, r, q) = GamesOf(other, {}, r, q)
    BY <1>4 DEF GamesOf
  <2>2. EachOnce(other, {}, r, q) => EachOnce(other, c, r, q)
    BY <1>4 DEF EachOnce
  <2> QED BY <2>1, <2>2 DEF PlaysRound
<1>8. PlaysRound(id, c, r, q, after)
  <2>1. CASE after = t /\ c = {}
    BY <2>1
  <2>2. CASE t.swiss.games = {} /\ c = Games(id, after)
    <3> SUFFICES ASSUME AllDiffer(after)
                 PROVE  GamesOf(id, c, r, q) = Games(id, after) /\ EachOnce(id, c, r, q)
      BY DEF PlaysRound
    <3>1. GamesOf(id, {}, r, q) = {} /\ EachOnce(id, {}, r, q)
      BY <1>3, <2>2, GamesAreOf DEF PlaysRound
    <3>2. \A g \in r \cup Reported(q) : g.tourney # id
      BY <3>1 DEF GamesOf
    <3>3. GamesOf(id, c, r, q) = c
      BY <1>4, <3>2 DEF GamesOf
    <3>4. EachOnce(id, c, r, q)
      BY <3>1, <3>2 DEF EachOnce
    <3> QED BY <2>2, <3>3, <3>4
  <2> QED BY <1>2, <2>1, <2>2
<1> QED BY <1>1, <1>5, <1>6, <1>7, <1>8 DEF RoundsPlayed

LEMMA PlayerFound ==
  ASSUME NEW t, IsTourney(t), AllDiffer(t), NEW i \in 1..Len(t.joined)
  PROVE  PlayerOf(t, t.joined[i]) = i
<1> DEFINE j == t.joined
           I == {k \in 1..Len(j) : j[k] = j[i]}
<1>1. j \in Seq(Joiner) /\ Len(j) \in Nat /\ DOMAIN j = 1..Len(j)
  BY DEF IsTourney
<1>2. PlayerOf(t, j[i]) = IF I # {} THEN Max(I) ELSE 0
  BY Zenon DEF PlayerOf, SelectLastInSeq
<1>3. I = {i}
  BY <1>1 DEF AllDiffer
<1> HIDE DEF I
<1>4. Max(I) = i
  BY <1>1, <1>3 DEF Max
<1> QED BY <1>2, <1>3, <1>4

(* The game of the pair n in a tournament.                                 *)
GameOf(id, t, n) ==
  [tourney |-> id, round |-> t.round, names |-> n,
   players |-> <<t.joined[n[1]], t.joined[n[2]]>>]

LEMMA GamesBy ==
  ASSUME NEW id, NEW t
  PROVE  Games(id, t) = {GameOf(id, t, n) : n \in t.swiss.games}
BY Zenon DEF Games, GameOf

LEMMA ResultTakesGame ==
  ASSUME NEW id, NEW old, IsTourney(old), AllDiffer(old), NEW g \in Games(id, old),
         NEW t, t.joined = old.joined, t.round = old.round,
         t.swiss.games = old.swiss.games
           \ {<<PlayerOf(old, g.players[1]), PlayerOf(old, g.players[2])>>}
  PROVE  Games(id, t) = Games(id, old) \ {g}
<1>1. PICK n \in old.swiss.games : g = GameOf(id, old, n)
  BY GamesBy
<1>2. n = <<n[1], n[2]>> /\ n[1] \in 1..Len(old.joined) /\ n[2] \in 1..Len(old.joined)
  BY DEF IsTourney, AreGames
<1>3. g.players[1] = old.joined[n[1]] /\ g.players[2] = old.joined[n[2]]
  BY <1>1 DEF GameOf
<1>4. PlayerOf(old, g.players[1]) = n[1] /\ PlayerOf(old, g.players[2]) = n[2]
  BY <1>2, <1>3, PlayerFound
<1>5. t.swiss.games = old.swiss.games \ {n}
  BY <1>2, <1>4
<1>6. \A m : GameOf(id, t, m) = GameOf(id, old, m)
  BY DEF GameOf
<1>7. \A m : GameOf(id, old, m) = g => m = n
  BY <1>1 DEF GameOf
<1> QED BY <1>1, <1>5, <1>6, <1>7, GamesBy

LEMMA ReportPlayed ==
  ASSUME NEW r, NEW q, NEW ts, RoundsPlayed({}, r, q, ts), q # <<>>,
         NEW g, g = Head(q).game, NEW id, id = g.tourney, NEW result,
         NEW t, t = AddResult(ts[id], g, result)
  PROVE  /\ id \in DOMAIN ts /\ IsTourney(t) /\ t.running /\ t.joined = ts[id].joined
         /\ IsSequence(Tail(q)) /\ OfRunning({}, r, Tail(q), ts)
         /\ PlaysRound(id, {}, r, Tail(q), t)
         /\ \A other \in DOMAIN ts \ {id} : PlaysRound(other, {}, r, Tail(q), ts[other])
<1> DEFINE rest == Tail(q)  old == ts[id]
<1>1. /\ IsSequence(rest) /\ Len(q) \in Nat /\ 1 \in DOMAIN q /\ Head(q) = q[1]
      /\ DOMAIN q = 1..Len(q) /\ DOMAIN rest = 1..Len(q) - 1
      /\ \A i \in DOMAIN rest : rest[i] = q[i + 1]
  <2>1. IsSequence(q)
    BY DEF RoundsPlayed
  <2> QED BY ONLY <2>1, q # <<>>, SequenceTail
<1>2. g \in Reported(q) /\ id \in DOMAIN ts /\ old.running /\ IsTourney(old)
  <2>1. g \in Reported(q)
    BY <1>1 DEF Reported
  <2> QED BY <2>1 DEF RoundsPlayed, OfRunning, AreTourneys
<1> HIDE DEF rest
<1>3. Reported(q) = {g} \cup Reported(rest)
  <2>1. \A h \in Reported(rest) : h \in Reported(q)
    BY <1>1 DEF Reported
  <2>2. ASSUME NEW h \in Reported(q), h # g PROVE h \in Reported(rest)
    <3>1. PICK i \in DOMAIN q : q[i].game = h
      BY DEF Reported
    <3>2. i # 1 /\ i - 1 \in DOMAIN rest /\ rest[i - 1] = q[i]
      BY <1>1, <2>2, <3>1
    <3> QED BY <3>1, <3>2 DEF Reported
  <2> QED BY <1>2, <2>1, <2>2
<1>4. OfRunning({}, r, rest, ts)
  BY <1>3 DEF RoundsPlayed, OfRunning
<1>5. /\ IsTourney(t) /\ t.running /\ t.joined = old.joined /\ t.round = old.round
      /\ t.swiss.games = old.swiss.games
           \ {<<PlayerOf(old, g.players[1]), PlayerOf(old, g.players[2])>>}
  <2> HIDE DEF old
  <2>1. t = AddResult(old, g, result)
    BY DEF old
  <2> QED BY ONLY <1>2, <2>1, ResultAdded
<1>6. ASSUME NEW k, EachOnce(k, {}, r, q) PROVE EachOnce(k, {}, r, rest)
  <2>1. \A h \in r : h.tourney = k => h \notin Reported(rest)
    BY <1>3, <1>6 DEF EachOnce
  <2>2. ASSUME NEW i \in DOMAIN rest, NEW j \in DOMAIN rest, rest[i].game = rest[j].game,
               rest[i].game.tourney = k
        PROVE  i = j
    <3>1. i + 1 \in DOMAIN q /\ j + 1 \in DOMAIN q /\ rest[i] = q[i + 1] /\ rest[j] = q[j + 1]
      BY <1>1
    <3>2. i + 1 = j + 1
      BY <1>6, <2>2, <3>1 DEF EachOnce
    <3> QED BY <1>1, <3>2
  <2> QED BY <2>1, <2>2 DEF EachOnce
<1>7. ASSUME NEW other \in DOMAIN ts \ {id} PROVE PlaysRound(other, {}, r, rest, ts[other])
  <2>1. GamesOf(other, {}, r, q) = GamesOf(other, {}, r, rest)
    BY <1>3 DEF GamesOf
  <2> QED BY <1>6, <2>1 DEF RoundsPlayed, PlaysRound
<1>8. PlaysRound(id, {}, r, rest, t)
  <2> SUFFICES ASSUME AllDiffer(t)
               PROVE  GamesOf(id, {}, r, rest) = Games(id, t) /\ EachOnce(id, {}, r, rest)
    BY DEF PlaysRound
  <2>1. AllDiffer(old)
    <3>1. t.joined = old.joined /\ AllDiffer(t)
      BY <1>5
    <3> HIDE DEF old
    <3> QED BY ONLY <3>1 DEF AllDiffer
  <2>2. GamesOf(id, {}, r, q) = Games(id, old) /\ EachOnce(id, {}, r, q)
    BY <1>2, <2>1 DEF RoundsPlayed, PlaysRound
  <2>3. g \in Games(id, old)
    BY <1>2, <2>2 DEF GamesOf
  <2>4. Games(id, t) = Games(id, old) \ {g}
    <3> HIDE DEF old
    <3> QED BY ONLY <1>2, <1>5, <2>1, <2>3, ResultTakesGame
  <2>5. g \notin r /\ g \notin Reported(rest)
    <3>1. g \notin r
      BY <1>2, <2>2 DEF EachOnce
    <3>2. ASSUME NEW i \in DOMAIN rest PROVE rest[i].game # g
      <4>1. i + 1 \in DOMAIN q /\ rest[i] = q[i + 1] /\ q[1].game = g /\ 1 \in DOMAIN q /\ i + 1 # 1
        BY <1>1
      <4> QED BY <2>2, <4>1 DEF EachOnce
    <3> QED BY <3>1, <3>2 DEF Reported
  <2>6. GamesOf(id, {}, r, rest) = GamesOf(id, {}, r, q) \ {g}
    BY <1>3, <2>5 DEF GamesOf
  <2> QED BY <1>6, <2>2, <2>4, <2>6
<1> QED BY <1>1, <1>2, <1>4, <1>5, <1>7, <1>8 DEF rest, old

-----------------------------------------------------------------------------
(* The specification.                                                      *)

(* While the process is up.                                                *)
TourneyInv ==
  process = "up" =>
    /\ scheduled \subseteq DOMAIN tourneys
    /\ RoundsPlayed(creating, rooms, reports, tourneys)

LEMMA TourneyInvInit == TourneyInit => TourneyInv
<1> SUFFICES ASSUME TourneyInit PROVE TourneyInv
  OBVIOUS
<1>1. /\ IsSequence(<<>>) /\ DOMAIN <<>> = {}
  <2>1. <<>> \in Seq({})
    OBVIOUS
  <2> QED BY <2>1 DEF IsSequence
<1>2. AreTourneys(<<>>) /\ OfRunning({}, {}, <<>>, <<>>)
  BY <1>1 DEF AreTourneys, OfRunning, Reported
<1> QED BY <1>1, <1>2 DEF TourneyInit, TourneyInv, RoundsPlayed

LEMMA NextRoundTaken ==
  ASSUME NEW r, NEW q, NEW id \in DOMAIN tourneys, AreTourneys(tourneys), IsSequence(q),
         NEW t, IsTourney(t), t.running, t.joined = tourneys[id].joined,
         creating = {}, startNextRound(id, t),
         OfRunning({}, r, q, tourneys), PlaysRound(id, {}, r, q, t),
         \A other \in DOMAIN tourneys \ {id} : PlaysRound(other, {}, r, q, tourneys[other])
  PROVE  RoundsPlayed(creating', r, q, tourneys') /\ DOMAIN tourneys' = DOMAIN tourneys
<1> DEFINE Next1(after) ==
             \/ after = t /\ creating' = {}
             \/ /\ ~t.missing_results
                /\ \E firstColor \in {0, 1} : after = Match(t, firstColor)
                /\ creating' = Games(id, after)
<1>1. \E after : tourneys' = [tourneys EXCEPT ![id] = after] /\ Next1(after)
  <2>1. CASE t.missing_results \/ t.missing_rounds = 0
    <3>1. tourneys' = [tourneys EXCEPT ![id] = t] /\ creating' = {}
      BY <2>1 DEF startNextRound
    <3> QED BY <3>1
  <2>2. CASE ~(t.missing_results \/ t.missing_rounds = 0)
    <3>1. PICK firstColor \in {0, 1} :
            /\ tourneys' = [tourneys EXCEPT ![id] = Match(t, firstColor)]
            /\ creating' = Games(id, tourneys'[id])
      BY <2>2 DEF startNextRound
    <3>2. tourneys'[id] = Match(t, firstColor)
      BY <3>1
    <3> QED BY <2>2, <3>1, <3>2
  <2> QED BY <2>1, <2>2
<1>2. PICK after : tourneys' = [tourneys EXCEPT ![id] = after] /\ Next1(after)
  BY <1>1
<1>3. RoundsPlayed(creating', r, q, tourneys')
  BY <1>2, NextRoundPlayed
<1> QED BY <1>2, <1>3

LEMMA TourneyInvNext == TourneyInv /\ [Next]_vars => TourneyInv'
<1> SUFFICES ASSUME TourneyInv, [Next]_vars, process' = "up" PROVE TourneyInv'
  BY DEF TourneyInv
<1> USE DEF TourneyInv
<1>1. CASE UNCHANGED vars
  BY <1>1 DEF vars, core_vars
<1>2. ASSUME NEW rounds \in RoundsAsked, handleCreate(rounds) PROVE TourneyInv'
  <2>1. /\ RoundsPlayed(creating, rooms, reports, tourneys) /\ scheduled \subseteq DOMAIN tourneys
        /\ tourneys' = Append(tourneys, NewTourney(rounds))
        /\ scheduled' = scheduled \cup {Len(tourneys')}
        /\ rooms' = rooms /\ creating' = creating /\ reports' = reports
    BY <1>2 DEF handleCreate, Idle, core_vars
  <2>2. RoundsPlayed(creating, rooms, reports, tourneys')
    BY ONLY <2>1, CreationPlayed
  <2>3. scheduled' \subseteq DOMAIN tourneys'
    <3>1. IsAppended(tourneys, NewTourney(rounds), tourneys')
      BY <2>1, SequenceAppended DEF RoundsPlayed, AreTourneys
    <3>2. Len(tourneys') \in DOMAIN tourneys'
      <4>1. Len(tourneys') = Len(tourneys) + 1
        BY <3>1 DEF IsAppended, IsSequence
      <4> QED BY <3>1, <4>1 DEF IsAppended
    <3>3. DOMAIN tourneys \subseteq DOMAIN tourneys'
      BY <3>1 DEF IsAppended
    <3> QED BY <2>1, <3>2, <3>3
  <2> QED BY <2>1, <2>2, <2>3
<1>3. ASSUME NEW id \in DOMAIN tourneys, NEW u \in Joiner, handleJoin(u, id) PROVE TourneyInv'
  <2>1. /\ RoundsPlayed(creating, rooms, reports, tourneys) /\ scheduled \subseteq DOMAIN tourneys
        /\ ~tourneys[id].running
        /\ tourneys' = [tourneys EXCEPT ![id] = WithPlayer(@, u)]
        /\ scheduled' = scheduled
        /\ rooms' = rooms /\ creating' = creating /\ reports' = reports
    BY <1>3 DEF handleJoin, Idle, core_vars
  <2>2. RoundsPlayed(creating, rooms, reports, tourneys')
    BY ONLY <2>1, id \in DOMAIN tourneys, u \in Joiner, JoiningPlayed
  <2>3. DOMAIN tourneys' = DOMAIN tourneys
    BY <2>1
  <2> QED BY <2>1, <2>2, <2>3
<1>4. ASSUME NEW id \in scheduled, startTourney(id) PROVE TourneyInv'
  <2> DEFINE t == [tourneys[id] EXCEPT !.running = TRUE]
  <2>1. /\ RoundsPlayed({}, rooms, reports, tourneys) /\ scheduled \subseteq DOMAIN tourneys
        /\ creating = {} /\ id \in DOMAIN tourneys /\ startNextRound(id, t)
        /\ scheduled' = scheduled \ {id} /\ rooms' = rooms /\ reports' = reports
    BY <1>4 DEF startTourney, Idle, core_vars
  <2>2. AreTourneys(tourneys) /\ IsSequence(reports) /\ OfRunning({}, rooms, reports, tourneys)
        /\ \A other \in DOMAIN tourneys : PlaysRound(other, {}, rooms, reports, tourneys[other])
    BY <2>1 DEF RoundsPlayed
  <2>3. /\ IsTourney(t) /\ t.running /\ t.joined = tourneys[id].joined
        /\ t.swiss = tourneys[id].swiss /\ t.round = tourneys[id].round
    <3>1. IsTourney(tourneys[id])
      BY <2>1, <2>2 DEF AreTourneys
    <3> QED BY <3>1, TourneyStarted
  <2> HIDE DEF t
  <2>4. PlaysRound(id, {}, rooms, reports, t)
    BY <2>1, <2>2, <2>3 DEF PlaysRound, AllDiffer, Games
  <2>5. RoundsPlayed(creating', rooms, reports, tourneys') /\ DOMAIN tourneys' = DOMAIN tourneys
    BY ONLY <2>1, <2>2, <2>3, <2>4, NextRoundTaken
  <2> QED BY <2>1, <2>5
<1>5. ASSUME NEW g \in creating, CreateTourneyGame(g) PROVE TourneyInv'
  BY <1>5, GameCreatedPlayed DEF CreateTourneyGame, CreateGame
<1>6. ASSUME NEW g \in creating, FailToCreate(g) PROVE TourneyInv'
  BY <1>6 DEF FailToCreate, GoDown
<1>7. CASE _reportResult
  <2> DEFINE g == Head(reports).game  id == g.tourney
             t == AddResult(tourneys[id], g, Head(reports).result)
             rest == Tail(reports)
  <2>1. /\ RoundsPlayed({}, rooms, reports, tourneys) /\ scheduled \subseteq DOMAIN tourneys
        /\ creating = {} /\ reports # <<>> /\ startNextRound(id, t)
        /\ scheduled' = scheduled /\ rooms' = rooms /\ reports' = rest
    BY <1>7 DEF _reportResult, Idle, core_vars
  <2>2. /\ id \in DOMAIN tourneys /\ IsTourney(t) /\ t.running /\ t.joined = tourneys[id].joined
        /\ IsSequence(rest) /\ OfRunning({}, rooms, rest, tourneys)
        /\ PlaysRound(id, {}, rooms, rest, t)
        /\ \A other \in DOMAIN tourneys \ {id} : PlaysRound(other, {}, rooms, rest, tourneys[other])
    BY ONLY <2>1, ReportPlayed
  <2>3. AreTourneys(tourneys)
    BY <2>1 DEF RoundsPlayed
  <2> HIDE DEF g, id, t, rest
  <2>4. RoundsPlayed(creating', rooms, rest, tourneys') /\ DOMAIN tourneys' = DOMAIN tourneys
    BY ONLY <2>1, <2>2, <2>3, NextRoundTaken
  <2> QED BY <2>1, <2>4
<1>8. CASE FailToReport
  BY <1>8 DEF FailToReport, GoDown
<1>9. ASSUME NEW u \in Leaver, HandlePresence(u) PROVE TourneyInv'
  BY <1>9 DEF HandlePresence
<1>10. ASSUME NEW pair \in Casual, CreateCasualGame(pair) PROVE TourneyInv'
  BY <1>10, CasualPlayed DEF CreateCasualGame, CreateGame
<1>11. ASSUME NEW g \in ended, ForgetGame(g) PROVE TourneyInv'
  BY <1>11 DEF ForgetGame
<1>12. ASSUME NEW g \in rooms, NEW result \in Result, EndGame(g, result) PROVE TourneyInv'
  BY <1>12, CasualEndPlayed, EndPlayed DEF EndGame
<1> QED BY <1>1, <1>2, <1>3, <1>4, <1>5, <1>6, <1>7, <1>8, <1>9, <1>10, <1>11, <1>12
        DEF Next, TourneyStep, CoreStep, RoomStep

(* In every order in which rooms end, the core forgets games and results   *)
(* are reported, for any number of tournaments: unless somebody joined     *)
(* twice, the games that are to be created, played or reported are those   *)
(* of the current round whose results miss, so startNextRound makes a      *)
(* round only when every game of the last one was counted.                 *)
THEOREM RoundsInOrder == TourneySpec => []OneRoundAtATime
<1>1. TourneyInv => OneRoundAtATime
  BY DEF TourneyInv, OneRoundAtATime, RoundsPlayed, PlaysRound, GamesOf, Reported
<1> QED BY <1>1, TourneyInvInit, TourneyInvNext, PTL DEF TourneySpec

=============================================================================
